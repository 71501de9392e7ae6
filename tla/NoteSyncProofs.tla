--------------------------- MODULE NoteSyncProofs ---------------------------
(***************************************************************************)
(* Theorems about NoteSync, for every set of ids, page size, number of     *)
(* candidate notebooks and bound.  First versions and the pairing of rows  *)
(* and notes; then what the cursor promises, what a clean row holds, and   *)
(* that no edit is lost.                                                   *)
(***************************************************************************)
EXTENDS NoteSync, FiniteSetTheorems, WellFoundedInduction, TLAPS

-----------------------------------------------------------------------------
(* What the model is built from has the types it should have.              *)

\* The constructors of rows build rows.
LEMMA NewRowType ==
    ASSUME NEW text \in Text
    PROVE  NewRow(text) \in Row
  BY DEF NewRow, Row, Text

\* A clean row is a row.
LEMMA CleanRowType ==
    ASSUME NEW s \in Ids, NEW u \in Nat, NEW text \in Text, NEW trash \in BOOLEAN
    PROVE  CleanRow(s, u, text, trash) \in Row
  BY DEF CleanRow, Row, Text

\* The handlers and the answers of the server turn rows into rows.
LEMMA EditedType ==
    ASSUME NEW r \in Row, NEW e \in Nat
    PROVE  Edited(r, e) \in Row
  <1>1. r.text \cup {e} \in SUBSET Nat
    BY DEF Row, Text
  <1> QED
    BY <1>1 DEF Edited, Row, Text

\* A flagged row is a row.
LEMMA FlaggedType ==
    ASSUME NEW r \in Row, NEW b \in BOOLEAN
    PROVE  Trashed(r, b) \in Row /\ Moved(r) \in Row /\ Marked(r) \in Row
  BY DEF Trashed, Moved, Marked, Row

\* An acknowledged row is a row.
LEMMA AckedType ==
    ASSUME NEW r \in Row, NEW s \in Ids, NEW u \in Nat
    PROVE  Acked(r, s, u) \in Row
  BY DEF Acked, Row

\* A row that was applied is a row.
LEMMA AppliedType ==
    ASSUME NEW r \in Row, NEW m \in Meta, NEW text \in Text
    PROVE  Applied(r, m, text) \in Row
  BY DEF Applied, Row, Meta, Text

\* A requeued row is a row.
LEMMA RequeuedType ==
    ASSUME NEW r \in Row \cup {None}
    PROVE  Requeued(r) \in Row \cup {None}
  BY DEF Requeued, Row

\* The list of dirty notes holds rows.
LEMMA DirtyNotesType ==
    ASSUME NEW t \in [Ids -> Row \cup {None}]
    PROVE  DirtyNotes(t) \in [Ids -> Row \cup {None}]
  BY DEF DirtyNotes

\* What the server says of a note is an entry.
LEMMA MetaOfType ==
    ASSUME ServerType, NEW s \in Ids, srv[s] # None
    PROVE  MetaOf(s) \in Meta
  <1>1. srv[s] \in Object
    BY DEF ServerType
  <1> QED
    BY <1>1 DEF MetaOf, Meta, Object

\* A change leaves the server in shape.
LEMMA ChangedType ==
    ASSUME ServerType, NEW s \in Ids, NEW object \in Object, Changed(s, object)
    PROVE  ServerType'
  <1>1. [object EXCEPT !.usn = susn + 1] \in Object
    BY DEF ServerType, Object
  <1> QED
    BY <1>1 DEF ServerType, Changed

\* A changed server note is one.
LEMMA NewObjectType ==
    ASSUME NEW text \in Text
    PROVE  NewObject(text) \in Object
  BY DEF NewObject, Object, Text

\* One row of the table is written.
LEMMA SetRowType ==
    ASSUME DbType, NEW n \in Ids, NEW r \in Row \cup {None},
           rows' = [rows EXCEPT ![n] = r], cursor' \in Int
    PROVE  DbType'
  BY DEF DbType

\* The locals of the round keep their types, whichever way the round goes on.
LEMMA NextNoteType ==
    ASSUME RoundType, NEW n \in Ids, NEW ok \in BOOLEAN, NextNote(n, ok)
    PROVE  RoundType'
  BY DEF RoundType, NextNote, pulling, Work

\* Awaiting an answer keeps the round well formed.
LEMMA AwaitType ==
    ASSUME RoundType, NEW w \in Work, Await(w)
    PROVE  RoundType'
  BY DEF RoundType, Await, pulling

\* So does its end.
LEMMA EndRoundType ==
    ASSUME EndRound
    PROVE  RoundType'
  <1>1. queue' \in [Ids -> Row \cup {None}] /\ work' \in Work
    BY DEF EndRound, NoQueue, Work
  <1>2. page' \in SUBSET Meta /\ seen' \in SUBSET Ids
    BY DEF EndRound
  <1>3. after' \in Int /\ target' \in Nat
    BY DEF EndRound
  <1>4. phase' = "idle" /\ mode' = "incr" /\ failed' \in BOOLEAN
        /\ snapshot' \in BOOLEAN /\ more' \in BOOLEAN
    BY DEF EndRound
  <1> QED
    BY <1>1, <1>2, <1>3, <1>4 DEF RoundType

\* So does going past an entry.
LEMMA ProcessedType ==
    ASSUME RoundType, NEW m \in Meta, Processed(m)
    PROVE  RoundType'
  <1>1. m.sid \in Ids /\ m.usn \in Int
    BY DEF Meta
  <1> QED
    BY <1>1 DEF RoundType, Processed, Work

\* So does leaving it alone.
LEMMA SameRoundType ==
    ASSUME RoundType, UNCHANGED round
    PROVE  RoundType'
  BY DEF RoundType, round, pulling

\* Typing adds one edit.
LEMMA TypeTextType ==
    ASSUME ObservedType, TypeText
    PROVE  edits' \in Nat /\ acts' \in Nat /\ faults' \in Nat
  BY DEF ObservedType, TypeText

\* An act is counted.
LEMMA ActType ==
    ASSUME ObservedType, Act
    PROVE  edits' \in Nat /\ acts' \in Nat /\ faults' \in Nat
  BY DEF ObservedType, Act

\* A fault is counted.
LEMMA FaultType ==
    ASSUME ObservedType, Fault
    PROVE  edits' \in Nat /\ acts' \in Nat /\ faults' \in Nat
  BY DEF ObservedType, Fault

\* The answer that is awaited carries what the stage says.
LEMMA WorkFields ==
    ASSUME work \in Work
    PROVE  /\ work.kind = "saved" => work.id \in Ids /\ work.sid \in Ids
                                        /\ work.usn \in Nat /\ work.sent \in Row
           /\ work.kind = "erased" => work.id \in Ids /\ work.usn \in Nat /\ work.sent \in Row
           /\ work.kind = "conflict" => work.id \in Ids /\ work.sid \in Ids
           /\ work.kind = "resolve" => work.id \in Ids /\ work.meta \in Meta
           /\ work.kind = "recreate" => work.id \in Ids /\ work.tries \in Nat /\ work.created \in Nat
           /\ work.kind = "insert" => work.meta \in Meta /\ work.text \in Text
           /\ work.kind = "apply" => work.id \in Ids /\ work.meta \in Meta
                                        /\ work.text \in Text /\ work.before \in Row
  BY DEF Work, NoWork

-----------------------------------------------------------------------------
(* Type correctness                                                        *)

\* The types hold at first.
LEMMA InitTypeOK == Init => TypeOK
  <1> SUFFICES ASSUME Init PROVE TypeOK
    OBVIOUS
  <1>1. DbType
    <2>1. CASE rows = [n \in Ids |-> None] /\ cursor = -1
      BY <2>1 DEF DbType
    <2>2. ASSUME NEW l \in {1, 2}, cursor = 1,
                 rows = [n \in Ids |-> IF n = l THEN CleanRow(1, 1, {}, FALSE) ELSE None]
          PROVE  DbType
      <3>1. CleanRow(1, 1, {}, FALSE) \in Row
        BY CleanRowType, NoteSyncAssumption DEF Text
      <3>2. rows \in [Ids -> Row \cup {None}]
        BY <2>2, <3>1, Zenon
      <3> QED
        BY <2>2, <3>2 DEF DbType, CleanRow
    <2> QED
      BY <2>1, <2>2 DEF Init
  <1>2. ServerType
    BY DEF Init, ServerType, Object, Text
  <1>3. RoundType
    <2>1. queue \in [Ids -> Row \cup {None}] /\ work \in Work
      BY DEF Init, NoQueue, Work
    <2>2. page \in SUBSET Meta /\ seen \in SUBSET Ids
      BY DEF Init
    <2>3. after \in Int /\ target \in Nat
      BY DEF Init
    <2>4. phase = "idle" /\ mode = "incr" /\ failed \in BOOLEAN
          /\ snapshot \in BOOLEAN /\ more \in BOOLEAN
      BY DEF Init
    <2> QED
      BY <2>1, <2>2, <2>3, <2>4 DEF RoundType
  <1>4. ObservedType
    BY NoteSyncAssumption DEF Init, ObservedType, Text
  <1> QED
    BY <1>1, <1>2, <1>3, <1>4 DEF TypeOK

\* The user's requests keep the types.
LEMMA UserTypeOK ==
    ASSUME TypeOK, UserStep PROVE TypeOK'
  <1> PICK n \in Ids : \/ CreateNote(n)
                       \/ EditNote(n)
                       \/ \E b \in BOOLEAN : SetNoteTrash(n, b)
                       \/ MoveNote(n)
                       \/ MarkNoteLocalDelete(n)
    BY DEF UserStep
  <1> USE DEF TypeOK
  <1>1. CASE CreateNote(n)
    <2>1. edits + 1 \in Nat /\ {edits + 1} \in Text
      BY DEF ObservedType, Text
    <2>2. DbType'
      BY <1>1, <2>1, NewRowType, SetRowType DEF CreateNote, DbType
    <2>3. ServerType' /\ RoundType'
      BY <1>1, SameRoundType DEF CreateNote, ServerType, server
    <2>4. ObservedType'
      BY <1>1, TypeTextType DEF CreateNote, ObservedType, ghost
    <2> QED
      BY <2>2, <2>3, <2>4
  <1>2. CASE EditNote(n)
    <2>1. edits + 1 \in Nat /\ rows[n] \in Row
      BY <1>2 DEF EditNote, Owned, Exists, DbType, ObservedType
    <2>2. DbType'
      BY <1>2, <2>1, EditedType, SetRowType DEF EditNote, DbType
    <2>3. ServerType' /\ RoundType'
      BY <1>2, SameRoundType DEF EditNote, ServerType, server
    <2>4. ObservedType'
      BY <1>2, TypeTextType DEF EditNote, ObservedType, ghost
    <2> QED
      BY <2>2, <2>3, <2>4
  <1>3. ASSUME NEW b \in BOOLEAN, SetNoteTrash(n, b) PROVE TypeOK'
    <2>1. rows[n] \in Row
      BY <1>3 DEF SetNoteTrash, Owned, Exists, DbType
    <2>2. DbType'
      BY <1>3, <2>1, FlaggedType, SetRowType DEF SetNoteTrash, DbType
    <2>3. ServerType' /\ RoundType'
      BY <1>3, SameRoundType DEF SetNoteTrash, ServerType, server
    <2>4. ObservedType'
      BY <1>3, ActType DEF SetNoteTrash, ObservedType, ghost
    <2> QED
      BY <2>2, <2>3, <2>4
  <1>4. CASE MoveNote(n)
    <2>1. rows[n] \in Row
      BY <1>4 DEF MoveNote, Owned, Exists, DbType
    <2>2. DbType'
      BY <1>4, <2>1, FlaggedType, SetRowType DEF MoveNote, DbType
    <2>3. ServerType' /\ RoundType'
      BY <1>4, SameRoundType DEF MoveNote, ServerType, server
    <2>4. ObservedType'
      BY <1>4, ActType DEF MoveNote, ObservedType, ghost
    <2> QED
      BY <2>2, <2>3, <2>4
  <1>5. CASE MarkNoteLocalDelete(n)
    <2>1. rows[n] \in Row /\ rows[n].text \in Text
      BY <1>5 DEF MarkNoteLocalDelete, Owned, Exists, DbType, Row
    <2>2. DbType'
      BY <1>5, <2>1, FlaggedType, SetRowType DEF MarkNoteLocalDelete, DbType
    <2>3. ServerType' /\ RoundType'
      BY <1>5, SameRoundType DEF MarkNoteLocalDelete, ServerType, server
    <2>4. ObservedType'
      BY <1>5, <2>1, ActType DEF MarkNoteLocalDelete, ObservedType, Text
    <2> QED
      BY <2>2, <2>3, <2>4
  <1> QED
    BY <1>1, <1>2, <1>3, <1>4, <1>5

\* So do other devices.
LEMMA RemoteTypeOK ==
    ASSUME TypeOK, RemoteStep PROVE TypeOK'
  <1> PICK s \in Ids : RemoteCreate(s) \/ RemoteEdit(s) \/ RemoteTrash(s) \/ RemoteDelete(s)
    BY DEF RemoteStep
  <1> USE DEF TypeOK
  <1>1. CASE RemoteCreate(s)
    <2>1. {edits + 1} \in Text
      BY DEF ObservedType, Text
    <2>2. ServerType'
      BY <1>1, <2>1, NewObjectType, ChangedType DEF RemoteCreate
    <2>3. DbType' /\ RoundType'
      BY <1>1, SameRoundType DEF RemoteCreate, DbType, db
    <2>4. ObservedType'
      BY <1>1, TypeTextType DEF RemoteCreate, ObservedType, ghost
    <2> QED
      BY <2>2, <2>3, <2>4
  <1>2. CASE RemoteEdit(s)
    <2>1. srv[s] \in Object
      BY <1>2 DEF RemoteEdit, IsLive, ServerType
    <2>2. srv[s].text \cup {edits + 1} \in SUBSET Nat
      BY <2>1 DEF Object, Text, ObservedType
    <2>3. [srv[s] EXCEPT !.text = @ \cup {edits + 1}] \in Object
      BY <2>1, <2>2 DEF Object, Text
    <2>4. ServerType'
      BY <1>2, <2>3, ChangedType DEF RemoteEdit
    <2>5. DbType' /\ RoundType'
      BY <1>2, SameRoundType DEF RemoteEdit, DbType, db
    <2>6. ObservedType'
      BY <1>2, TypeTextType DEF RemoteEdit, ObservedType, ghost
    <2> QED
      BY <2>4, <2>5, <2>6
  <1>3. CASE RemoteTrash(s)
    <2>1. srv[s] \in Object
      BY <1>3 DEF RemoteTrash, IsLive, ServerType
    <2>2. [srv[s] EXCEPT !.trash = ~@] \in Object
      BY <2>1 DEF Object
    <2>3. ServerType'
      BY <1>3, <2>2, ChangedType DEF RemoteTrash
    <2>4. DbType' /\ RoundType'
      BY <1>3, SameRoundType DEF RemoteTrash, DbType, db
    <2>5. ObservedType'
      BY <1>3, ActType DEF RemoteTrash, ObservedType, ghost
    <2> QED
      BY <2>3, <2>4, <2>5
  <1>4. CASE RemoteDelete(s)
    <2>1. srv[s] \in Object /\ srv[s].text \in Text
      BY <1>4 DEF RemoteDelete, IsLive, ServerType, Object
    <2>2. [srv[s] EXCEPT !.deleted = TRUE] \in Object
      BY <2>1 DEF Object
    <2>3. ServerType'
      BY <1>4, <2>2, ChangedType DEF RemoteDelete
    <2>4. DbType' /\ RoundType'
      BY <1>4, SameRoundType DEF RemoteDelete, DbType, db
    <2>5. ObservedType'
      BY <1>4, <2>1, ActType DEF RemoteDelete, ObservedType, Text
    <2> QED
      BY <2>3, <2>4, <2>5
  <1> QED
    BY <1>1, <1>2, <1>3, <1>4

\* One step per action of sendNoteChanges.
LEMMA PushTypeOK ==
    ASSUME TypeOK, QueueBased, NEW n \in Ids,
           \/ PushAdd(n) \/ PushForget(n) \/ PushPassOver(n)
           \/ PushErase(n) \/ PushEraseRefused(n)
           \/ PushUpdate(n) \/ PushConflict(n) \/ PushMissing(n)
           \/ PushFails(n)
    PROVE  TypeOK'
  <1> DEFINE q == queue[n]
  <1> USE DEF TypeOK
  <1>q. queue[n] # None => queue[n] \in Row
    BY DEF RoundType
  <1>1. CASE PushAdd(n)
    <2>1. q \in Row /\ q.text \in Text
      BY <1>1, <1>q DEF PushAdd, Turn, Row
    <2> PICK s \in Ids :
            /\ AddNote(n, s)
            /\ Await([kind |-> "saved", id |-> n, sid |-> s, usn |-> susn + 1, sent |-> q])
      BY <1>1 DEF PushAdd
    <2>2. ServerType'
      BY <2>1, NewObjectType, ChangedType DEF AddNote
    <2>3. [kind |-> "saved", id |-> n, sid |-> s, usn |-> susn + 1, sent |-> q] \in Work
      BY <2>1 DEF Work, ServerType
    <2>4. RoundType'
      BY <2>3, AwaitType
    <2>5. DbType' /\ ObservedType'
      BY <1>1 DEF PushAdd, AddNote, DbType, ObservedType, db, bounds, ghost
    <2> QED
      BY <2>2, <2>4, <2>5
  <1>2. CASE PushForget(n)
    <2>1. RoundType'
      BY <1>2, NextNoteType DEF PushForget
    <2>2. DbType'
      BY <1>2, SetRowType DEF PushForget, DbType
    <2>r. rows[n] \in Row
      BY <1>2 DEF PushForget, Turn, QueueBased, Exists, DbType
    <2>3. raced' \in Text
      BY <1>2, <2>r DEF PushForget, Row, Text, ObservedType
    <2>4. ServerType' /\ ObservedType'
      BY <1>2, <2>3 DEF PushForget, ServerType, ObservedType, server, bounds
    <2> QED
      BY <2>1, <2>2, <2>4
  <1>3. CASE PushPassOver(n)
    BY <1>3, NextNoteType
       DEF PushPassOver, DbType, ServerType, ObservedType, db, server, bounds, ghost
  <1>4. CASE PushErase(n)
    <2>1. q \in Row /\ q.sid \in Ids
      BY <1>4, <1>q DEF PushErase, Turn, IsNewRow, Row
    <2>2. srv[q.sid] \in Object
      BY <1>4, <2>1 DEF PushErase, IsLive, ServerType
    <2>3. [srv[q.sid] EXCEPT !.deleted = TRUE] \in Object
      BY <2>2 DEF Object
    <2>4. ServerType'
      BY <1>4, <2>1, <2>3, ChangedType DEF PushErase
    <2>5. [kind |-> "erased", id |-> n, usn |-> susn + 1, sent |-> q] \in Work
      BY <2>1 DEF Work, ServerType
    <2>6. RoundType'
      BY <1>4, <2>5, AwaitType DEF PushErase
    <2>7. DbType' /\ ObservedType'
      BY <1>4 DEF PushErase, DbType, ObservedType, db, bounds, ghost
    <2> QED
      BY <2>4, <2>6, <2>7
  <1>5. CASE PushEraseRefused(n)
    BY <1>5, NextNoteType
       DEF PushEraseRefused, DbType, ServerType, ObservedType, db, server, bounds, ghost
  <1>6. CASE PushUpdate(n)
    <2>1. q \in Row /\ q.sid \in Ids
      BY <1>6, <1>q DEF PushUpdate, Turn, IsNewRow, Row
    <2>2. srv[q.sid] \in Object
      BY <1>6, <2>1 DEF PushUpdate, IsLive, ServerType
    <2>3. [srv[q.sid] EXCEPT !.text = IF q.textDirty THEN q.text ELSE @,
                             !.trash = q.trash] \in Object
      BY <2>1, <2>2 DEF Object, Row
    <2>4. ServerType'
      BY <1>6, <2>1, <2>3, ChangedType DEF PushUpdate
    <2>5. [kind |-> "saved", id |-> n, sid |-> q.sid, usn |-> susn + 1, sent |-> q] \in Work
      BY <2>1 DEF Work, ServerType
    <2>6. RoundType'
      BY <1>6, <2>5, AwaitType DEF PushUpdate
    <2>7. DbType' /\ ObservedType'
      BY <1>6 DEF PushUpdate, DbType, ObservedType, db, bounds, ghost
    <2> QED
      BY <2>4, <2>6, <2>7
  <1>7. CASE PushConflict(n)
    <2>1. q \in Row /\ q.sid \in Ids
      BY <1>7, <1>q DEF PushConflict, Turn, IsNewRow, Row
    <2>2. [kind |-> "conflict", id |-> n, sid |-> q.sid] \in Work
      BY <2>1 DEF Work
    <2>3. RoundType'
      BY <1>7, <2>2, AwaitType DEF PushConflict
    <2> QED
      BY <1>7, <2>3 DEF PushConflict, DbType, ServerType, ObservedType, db, server, bounds, ghost
  <1>8. CASE PushMissing(n)
    <2>1. [kind |-> "recreate", id |-> n, tries |-> 0, created |-> 0] \in Work
      BY DEF Work
    <2>2. RoundType'
      BY <1>8, <2>1, AwaitType DEF PushMissing
    <2> QED
      BY <1>8, <2>2 DEF PushMissing, DbType, ServerType, ObservedType, db, server, bounds, ghost
  <1>9. CASE PushFails(n)
    <2>1. RoundType'
      BY <1>9, NextNoteType DEF PushFails
    <2>2. ObservedType'
      BY <1>9, FaultType DEF PushFails, ObservedType, ghost
    <2> QED
      BY <1>9, <2>1, <2>2 DEF PushFails, DbType, ServerType, db, server
  <1> QED
    BY <1>1, <1>2, <1>3, <1>4, <1>5, <1>6, <1>7, <1>8, <1>9

\* Creating a note on the server for note n of the list.
LEMMA AddNoteType ==
    ASSUME TypeOK, NEW n \in Ids, NEW s \in Ids, queue[n] # None, AddNote(n, s)
    PROVE  /\ ServerType' /\ used' \in SUBSET Ids
           /\ [kind |-> "saved", id |-> n, sid |-> s, usn |-> susn + 1,
               sent |-> queue[n]] \in Work
  <1>1. queue[n] \in Row /\ queue[n].text \in Text
    BY DEF TypeOK, RoundType, Row
  <1>2. ServerType'
    BY <1>1, NewObjectType, ChangedType DEF TypeOK, AddNote
  <1>3. used' \in SUBSET Ids
    BY DEF TypeOK, ObservedType, AddNote
  <1> QED
    BY <1>1, <1>2, <1>3 DEF Work, TypeOK, ServerType

\* The rest of the upload: recreateMissingNote, lost answers, the answers
\* written back, and the end of the pass.
LEMMA AnswerTypeOK ==
    ASSUME TypeOK, QueueBased, WorkSaved, WorkPush,
           \/ Recreate \/ RecreateLost \/ RecreateRefused \/ RecreateGiveUp
           \/ AnswerLost \/ AckSaved \/ AckErased
           \/ ResolveMeta \/ ResolveVanished \/ ResolveFetch \/ ResolveLost
           \/ PushDone
    PROVE  TypeOK'
  <1> USE DEF TypeOK
  <1>w. work \in Work
    BY DEF RoundType
  <1>1. CASE Recreate
    <2>1. work.id \in Ids /\ queue[work.id] # None
      BY <1>1, <1>w, WorkFields DEF Recreate, WorkPush
    <2> PICK s \in Ids :
            /\ AddNote(work.id, s)
            /\ Await([kind |-> "saved", id |-> work.id, sid |-> s, usn |-> susn + 1,
                      sent |-> queue[work.id]])
      BY <1>1 DEF Recreate
    <2>2. ServerType' /\ used' \in SUBSET Ids /\ RoundType'
      BY <2>1, AddNoteType, AwaitType
    <2> QED
      BY <1>1, <2>2 DEF Recreate, DbType, ObservedType, db, bounds, ghost
  <1>2. CASE RecreateLost
    <2>1. work.id \in Ids /\ queue[work.id] # None
      BY <1>2, <1>w, WorkFields DEF RecreateLost, WorkPush
    <2>2. PICK s \in Ids : AddNote(work.id, s)
      BY <1>2 DEF RecreateLost
    <2>3. ServerType' /\ used' \in SUBSET Ids
      BY <2>1, <2>2, AddNoteType
    <2>4. [kind |-> "recreate", id |-> work.id, tries |-> work.tries + 1,
           created |-> work.created + 1] \in Work
      BY <1>2, <1>w, WorkFields DEF RecreateLost, Work
    <2>5. RoundType'
      BY <1>2, <2>4, AwaitType DEF RecreateLost
    <2>6. ObservedType'
      BY <1>2, <2>3, FaultType DEF RecreateLost, ObservedType, ghost
    <2> QED
      BY <1>2, <2>3, <2>5, <2>6 DEF RecreateLost, DbType, db
  <1>3. CASE RecreateRefused
    <2>1. [work EXCEPT !.tries = @ + 1] \in Work
      BY <1>3, <1>w DEF RecreateRefused, Work, NoWork
    <2>2. RoundType'
      BY <1>3, <2>1, AwaitType DEF RecreateRefused
    <2>3. ObservedType'
      BY <1>3, FaultType DEF RecreateRefused, ObservedType, ghost
    <2> QED
      BY <1>3, <2>2, <2>3 DEF RecreateRefused, DbType, ServerType, db, server
  <1>4. CASE RecreateGiveUp
    <2>1. work.id \in Ids
      BY <1>4, <1>w, WorkFields DEF RecreateGiveUp
    <2>2. RoundType'
      BY <1>4, <2>1, NextNoteType DEF RecreateGiveUp
    <2> QED
      BY <1>4, <2>2
         DEF RecreateGiveUp, DbType, ServerType, ObservedType, db, server, bounds, ghost
  <1>5. CASE AnswerLost
    <2>1. work.id \in Ids
      BY <1>5, <1>w, WorkFields DEF AnswerLost
    <2>2. RoundType'
      BY <1>5, <2>1, NextNoteType DEF AnswerLost
    <2>3. ObservedType'
      BY <1>5, FaultType DEF AnswerLost, ObservedType, ghost
    <2> QED
      BY <1>5, <2>2, <2>3 DEF AnswerLost, DbType, ServerType, db, server
  <1>6. CASE AckSaved
    <2>1. work.id \in Ids /\ work.sid \in Ids /\ work.usn \in Nat /\ rows[work.id] \in Row
      BY <1>6, <1>w, WorkFields DEF AckSaved, WorkSaved, QueueBased, Exists, DbType
    <2>2. cursor' \in Int
      BY <1>6, <2>1 DEF AckSaved, Advance, DbType
    <2>3. DbType'
      BY <1>6, <2>1, <2>2, AckedType, SetRowType DEF AckSaved
    <2>4. RoundType'
      BY <1>6, <2>1, NextNoteType DEF AckSaved
    <2>5. raced' \in Text
      BY <1>6, <2>1 DEF AckSaved, Row, Text, ObservedType
    <2> QED
      BY <1>6, <2>3, <2>4, <2>5 DEF AckSaved, ServerType, ObservedType, server, bounds
  <1>7. CASE AckErased
    <2>1. work.id \in Ids /\ work.usn \in Nat /\ rows[work.id] \in Row
      BY <1>7, <1>w, WorkFields DEF AckErased, WorkPush, QueueBased, Exists, DbType
    <2>2. cursor' \in Int
      BY <1>7, <2>1 DEF AckErased, Advance, DbType
    <2>3. DbType'
      BY <1>7, <2>1, <2>2, SetRowType DEF AckErased
    <2>4. RoundType'
      BY <1>7, <2>1, NextNoteType DEF AckErased
    <2>5. raced' \in Text
      BY <1>7, <2>1 DEF AckErased, Row, Text, ObservedType
    <2> QED
      BY <1>7, <2>3, <2>4, <2>5 DEF AckErased, ServerType, ObservedType, server, bounds
  <1>8. CASE ResolveFetch
    <2>1. work.meta \in Meta /\ work.meta.sid \in Ids
      BY <1>8, <1>w, WorkFields DEF ResolveFetch, Meta
    <2>2. PICK n \in RowsOf(work.meta.sid) :
            Await([kind |-> "apply", id |-> n, meta |-> work.meta,
                   text |-> srv[work.meta.sid].text, before |-> rows[n]])
      BY <1>8 DEF ResolveFetch
    <2>3. n \in Ids /\ rows[n] \in Row
      BY DEF RowsOf, Exists, DbType
    <2>4. srv[work.meta.sid].text \in Text
      BY <1>8, <2>1 DEF ResolveFetch, IsLive, ServerType, Object
    <2>5. RoundType'
      BY <2>1, <2>2, <2>3, <2>4, AwaitType DEF Work
    <2> QED
      BY <1>8, <2>5
         DEF ResolveFetch, DbType, ServerType, ObservedType, db, server, bounds, ghost
  <1>9. CASE ResolveVanished
    <2>1. work.id \in Ids
      BY <1>9, <1>w, WorkFields DEF ResolveVanished
    <2>2. RoundType'
      BY <1>9, <2>1, NextNoteType DEF ResolveVanished
    <2> QED
      BY <1>9, <2>2
         DEF ResolveVanished, DbType, ServerType, ObservedType, db, server, bounds, ghost
  <1>11. CASE ResolveMeta
    <2>1. work.id \in Ids /\ MetaOf(work.sid) \in Meta
      BY <1>11, <1>w, WorkFields, MetaOfType DEF ResolveMeta, IsLive
    <2>2. [kind |-> "resolve", id |-> work.id, meta |-> MetaOf(work.sid)] \in Work
      BY <2>1 DEF Work
    <2>3. RoundType'
      BY <1>11, <2>2, AwaitType DEF ResolveMeta
    <2> QED
      BY <1>11, <2>3
         DEF ResolveMeta, DbType, ServerType, ObservedType, db, server, bounds, ghost
  <1>12. CASE ResolveLost
    <2>1. work.id \in Ids
      BY <1>12, <1>w, WorkFields DEF ResolveLost
    <2>2. [kind |-> "recreate", id |-> work.id, tries |-> 0, created |-> 0] \in Work
      BY <2>1 DEF Work
    <2>3. RoundType'
      BY <1>12, <2>1, <2>2, NextNoteType, AwaitType DEF ResolveLost
    <2> QED
      BY <1>12, <2>3
         DEF ResolveLost, DbType, ServerType, ObservedType, db, server, bounds, ghost
  <1>10. CASE PushDone
    <2>1. RoundType'
      BY <1>10, EndRoundType DEF PushDone, RoundType, pulling
    <2>2. cursor' \in Int
      BY <1>10 DEF PushDone, DbType, RoundType
    <2> QED
      BY <1>10, <2>1, <2>2 DEF PushDone, DbType, ServerType, ObservedType, server, bounds, ghost
  <1> QED
    BY <1>1, <1>2, <1>3, <1>4, <1>5, <1>6, <1>7, <1>8, <1>9, <1>10, <1>11, <1>12

\* So does going through a page.
LEMMA PullTypeOK ==
    ASSUME TypeOK, WorkPull,
           \/ GetLastSyncState \/ GetSyncNotes
           \/ \E m \in page : \/ PullSkipTombstone(m) \/ PullTombstone(m)
                              \/ PullUpToDate(m) \/ PullFetch(m) \/ PullVanished(m)
           \/ Insert \/ PullDone
    PROVE  TypeOK'
  <1> USE DEF TypeOK
  <1>w. work \in Work
    BY DEF RoundType
  <1>1. CASE GetLastSyncState
    <2>1. target' \in Nat
      BY <1>1 DEF GetLastSyncState, ServerType
    <2>2. queue' \in [Ids -> Row \cup {None}]
      BY <1>1, DirtyNotesType DEF GetLastSyncState, DbType, RoundType
    <2>3. snapshot' \in BOOLEAN /\ more' \in BOOLEAN
      <3>1. (after < 0) \in BOOLEAN
        OBVIOUS
      <3> QED
        BY <1>1, <3>1, Zenon DEF GetLastSyncState, RoundType
    <2>5. phase' \in {"idle", "push1", "state", "pull", "push2"}
      BY <1>1, Zenon DEF GetLastSyncState
    <2>4. RoundType'
      BY <1>1, <2>1, <2>2, <2>3, <2>5 DEF GetLastSyncState, RoundType
    <2> QED
      BY <1>1, <2>4
         DEF GetLastSyncState, DbType, ServerType, ObservedType, db, server, bounds, ghost
  <1>2. CASE GetSyncNotes
    <2> DEFINE newer == {MetaOf(s) : s \in {x \in Ids : srv[x] # None /\ srv[x].usn > after}}
    <2>1. newer \subseteq Meta
      BY MetaOfType
    <2>2. page' \subseteq newer
      BY <1>2 DEF GetSyncNotes
    <2>3. more' \in BOOLEAN
      BY <1>2 DEF GetSyncNotes
    <2> HIDE DEF newer
    <2>4. RoundType'
      BY <1>2, <2>1, <2>2, <2>3 DEF GetSyncNotes, RoundType
    <2> QED
      BY <1>2, <2>4
         DEF GetSyncNotes, DbType, ServerType, ObservedType, db, server, bounds, ghost
  <1>3. ASSUME NEW m \in page,
               \/ PullSkipTombstone(m) \/ PullTombstone(m)
               \/ PullUpToDate(m) \/ PullFetch(m) \/ PullVanished(m)
        PROVE  TypeOK'
    <2>m. m \in Meta
      BY DEF RoundType
    <2>1. CASE PullSkipTombstone(m)
      <3>1. RoundType'
        BY <2>1, <2>m, ProcessedType DEF PullSkipTombstone
      <3> QED
        BY <2>1, <3>1
           DEF PullSkipTombstone, DbType, ServerType, ObservedType, db, server, bounds, ghost
    <2>2. CASE PullTombstone(m)
      <3> DEFINE doomed == {x \in Ids : Exists(x) /\ rows[x].sid \in RowsOf(m.sid)}
      <3>1. RoundType'
        BY <2>2, <2>m, ProcessedType DEF PullTombstone
      <3>2. DbType'
        BY <2>2 DEF PullTombstone, DbType
      <3>3. \A x \in doomed : rows[x].text \in SUBSET Nat
        BY DEF Exists, DbType, Row, Text
      <3>4. raced' = raced \cup UNION {rows[x].text : x \in doomed}
        BY <2>2 DEF PullTombstone
      <3> HIDE DEF doomed
      <3>5. raced' \in Text
        BY <3>3, <3>4 DEF ObservedType, Text
      <3> QED
        BY <2>2, <3>1, <3>2, <3>5 DEF PullTombstone, ServerType, ObservedType, server, bounds
    <2>3. CASE PullUpToDate(m)
      <3>1. RoundType'
        BY <2>3, <2>m, ProcessedType DEF PullUpToDate
      <3> QED
        BY <2>3, <3>1
           DEF PullUpToDate, DbType, ServerType, ObservedType, db, server, bounds, ghost
    <2>4. CASE PullFetch(m)
      <3>1. srv[m.sid].text \in Text
        BY <2>4, <2>m DEF PullFetch, IsLive, ServerType, Object, Meta
      <3>2. CASE Await([kind |-> "insert", meta |-> m, text |-> srv[m.sid].text])
        <4>1. [kind |-> "insert", meta |-> m, text |-> srv[m.sid].text] \in Work
          BY <2>m, <3>1 DEF Work
        <4> QED
          BY <3>2, <4>1, AwaitType
             , <2>4 DEF PullFetch, DbType, ServerType, ObservedType, db, server, bounds, ghost
      <3>3. ASSUME NEW n \in RowsOf(m.sid),
                   Await([kind |-> "apply", id |-> n, meta |-> m,
                          text |-> srv[m.sid].text, before |-> rows[n]])
            PROVE  TypeOK'
        <4>1. n \in Ids /\ rows[n] \in Row
          BY DEF RowsOf, Exists, DbType
        <4>2. [kind |-> "apply", id |-> n, meta |-> m,
               text |-> srv[m.sid].text, before |-> rows[n]] \in Work
          BY <2>m, <3>1, <4>1 DEF Work
        <4>3. RoundType'
          BY <3>3, <4>2, AwaitType
        <4> QED
          BY <2>4, <4>3
             DEF PullFetch, DbType, ServerType, ObservedType, db, server, bounds, ghost
      <3> QED
        BY <2>4, <3>2, <3>3 DEF PullFetch
    <2>5. CASE PullVanished(m)
      <3>1. RoundType'
        BY <2>5, EndRoundType DEF PullVanished
      <3> QED
        BY <2>5, <3>1
           DEF PullVanished, DbType, ServerType, ObservedType, db, server, bounds, ghost
    <2> QED
      BY <1>3, <2>1, <2>2, <2>3, <2>4, <2>5
  <1>4. CASE Insert
    <2>1. work.meta \in Meta /\ work.text \in Text
      BY <1>4, <1>w, WorkFields DEF Insert
    <2>2. work.meta.sid \in Ids /\ work.meta.usn \in Nat /\ work.meta.trash \in BOOLEAN
      BY <2>1 DEF Meta
    <2>3. CleanRow(work.meta.sid, work.meta.usn, work.text, work.meta.trash) \in Row
      BY <2>1, <2>2, CleanRowType
    <2>4. DbType'
      BY <1>4, <2>2, <2>3, SetRowType DEF Insert, DbType
    <2>5. RoundType'
      BY <1>4, <2>1, ProcessedType DEF Insert
    <2> QED
      BY <1>4, <2>4, <2>5 DEF Insert, ServerType, ObservedType, server, bounds, ghost
  <1>5. CASE PullDone
    <2>1. rows' \in [Ids -> Row \cup {None}]
      BY <1>5, RequeuedType DEF PullDone, DbType
    <2>2. RoundType'
      BY <1>5, <2>1, DirtyNotesType DEF PullDone, RoundType, pulling
    <2> QED
      BY <1>5, <2>1, <2>2 DEF PullDone, DbType, ServerType, ObservedType, server, bounds, ghost
  <1> QED
    BY <1>1, <1>2, <1>3, <1>4, <1>5

\* A fetched note is one.
LEMMA ReturnedType ==
    ASSUME RoundType, work.kind = "apply", NEW ok \in BOOLEAN, Returned(ok)
    PROVE  RoundType'
  <1>1. work.id \in Ids /\ work.meta \in Meta
    BY WorkFields DEF RoundType
  <1> QED
    BY <1>1, NextNoteType, ProcessedType, EndRoundType DEF Returned

\* So does writing what was fetched.
LEMMA ApplyTypeOK ==
    ASSUME TypeOK, WorkPull, Apply \/ ApplyConflict
    PROVE  TypeOK'
  <1> DEFINE n == work.id
             ok == SameRow(rows[n], work.before)
  <1> USE DEF TypeOK
  <1>1. work.kind = "apply" /\ work \in Work
    BY DEF Apply, ApplyConflict, RoundType
  <1>2. /\ n \in Ids /\ rows[n] \in Row /\ rows[n].text \in Text
        /\ work.meta \in Meta /\ work.text \in Text
    BY <1>1, WorkFields DEF WorkPull, Exists, DbType, Row
  <1>3. Applied(rows[n], work.meta, work.text) \in Row
    BY <1>2, AppliedType
  <1>4. ok \in BOOLEAN
    BY DEF SameRow
  <1> HIDE DEF ok
  <1>5. CASE Apply
    <2>1. rows' = [rows EXCEPT ![n] = IF ok THEN Applied(@, work.meta, work.text) ELSE @]
      BY <1>5 DEF Apply, ok
    <2>2. DbType'
      BY <1>2, <1>3, <1>5, <2>1 DEF Apply, DbType
    <2>3. RoundType'
      BY <1>1, <1>4, <1>5, ReturnedType DEF Apply, ok
    <2> QED
      BY <1>5, <2>2, <2>3 DEF Apply, ServerType, ObservedType, server, bounds, ghost
  <1>6. CASE ApplyConflict
    <2>1. PICK c \in Fresh :
            /\ rows' = [rows EXCEPT
                          ![c] = NewRow(rows[n].text),
                          ![n] = IF ok THEN Applied(@, work.meta, work.text) ELSE @]
            /\ used' = used \cup {c}
            /\ Returned(ok)
      BY <1>6 DEF ApplyConflict, ok
    <2>2. c \in Ids /\ NewRow(rows[n].text) \in Row
      BY <1>2, NewRowType DEF Fresh
    <2>3. DbType'
      BY <1>2, <1>3, <1>6, <2>1, <2>2 DEF ApplyConflict, DbType
    <2>4. RoundType'
      BY <1>1, <1>4, <2>1, ReturnedType
    <2> QED
      BY <1>6, <2>1, <2>2, <2>3, <2>4 DEF ApplyConflict, ServerType, ObservedType, server, bounds, ghost
  <1> QED
    BY <1>5, <1>6

\* So does the start of a round.
LEMMA StartTypeOK ==
    ASSUME TypeOK, NEW m \in {"full", "incr", "force"}, StartSync(m)
    PROVE  TypeOK'
  <1> USE DEF TypeOK
  <1>1. queue' \in [Ids -> Row \cup {None}]
    BY DirtyNotesType DEF StartSync, DbType
  <1>2. after' \in Int /\ cursor' \in Int
    BY DEF StartSync, DbType
  <1>3. mode' \in {"full", "incr"} /\ phase' = "push1"
    BY DEF StartSync
  <1>4. RoundType'
    BY <1>1, <1>2, <1>3 DEF StartSync, RoundType
  <1> QED
    BY <1>2, <1>4 DEF StartSync, DbType, ServerType, ObservedType, server, bounds, ghost

\* So does its cut-off.
LEMMA AbortTypeOK ==
    ASSUME TypeOK, Abort
    PROVE  TypeOK'
  <1>1. RoundType' /\ ObservedType'
    BY EndRoundType, FaultType DEF Abort, TypeOK, ObservedType, ghost
  <1> QED
    BY <1>1 DEF Abort, TypeOK, DbType, ServerType, db, server

-----------------------------------------------------------------------------
(* The inductive invariant                                                 *)
(*                                                                         *)
(* A copy of a note (a row, an entry of the list, a page entry, an answer) *)
(* stays Based whatever the server does: a change of the note gives it a   *)
(* USN larger than the one of any copy, so that the clause about equal     *)
(* USNs no longer applies to the copies there are.                         *)

DataInv == IdsInUse /\ ServerUsns /\ OneRowPerNote /\ RowsBased

RoundInv == QueueBased /\ PageBased /\ WorkSaved /\ WorkPush /\ WorkPull

\* The invariant is about the data and about the round.
LEMMA SyncInvParts == SyncInv <=> DataInv /\ RoundInv
  BY DEF SyncInv, DataInv, RoundInv

\* Every server note stays, unchanged or with a larger USN.
Grows == \A s \in Ids : srv[s] # None =>
            /\ srv'[s] # None
            /\ srv'[s] = srv[s] \/ srv[s].usn < srv'[s].usn

\* A change of the server only adds to texts and takes a higher USN.
LEMMA ChangedGrows ==
    ASSUME ServerType, ServerUsns, NEW s \in Ids, NEW object \in Object, Changed(s, object)
    PROVE  Grows /\ ServerUsns' /\ (\A x \in Ids : x # s => srv'[x] = srv[x])
  <1>1. /\ srv' = [srv EXCEPT ![s] = [object EXCEPT !.usn = susn + 1]]
        /\ susn' = susn + 1
        /\ susn \in Nat
    BY DEF Changed, ServerType
  <1>2. srv'[s] # None /\ srv'[s].usn = susn + 1
    <2>1. [object EXCEPT !.usn = susn + 1] \in Object
      BY <1>1 DEF Object
    <2> QED
      BY <1>1, <2>1, NoneAssumption DEF ServerType, Object
  <1>3. \A x \in Ids : x # s => srv'[x] = srv[x]
    BY <1>1 DEF ServerType
  <1>4. \A x \in Ids : srv[x] # None => srv[x].usn \in Nat /\ srv[x].usn <= susn
    BY DEF ServerType, ServerUsns, Object
  <1>5. Grows
    BY <1>1, <1>2, <1>3, <1>4 DEF Grows
  <1>6. ServerUsns'
    BY <1>1, <1>2, <1>3, <1>4 DEF ServerUsns
  <1> QED
    BY <1>3, <1>5, <1>6

\* Based is stable.
LEMMA GrowsBased ==
    ASSUME ServerType, ServerType', Grows, NEW s \in Ids, NEW u \in Nat, NEW t, Based(s, u, t)
    PROVE  /\ srv'[s] # None
           /\ u <= srv'[s].usn
           /\ u = srv'[s].usn => srv'[s].text \subseteq t
  <1>1. srv[s] # None /\ u <= srv[s].usn /\ srv[s].usn \in Nat
    BY DEF Based, ServerType, Object
  <1>2. srv'[s] # None /\ srv'[s].usn \in Nat
    BY <1>1 DEF Grows, ServerType, Object
  <1>3. CASE srv'[s] = srv[s]
    BY <1>1, <1>3 DEF Based
  <1>4. CASE srv[s].usn < srv'[s].usn
    BY <1>1, <1>2, <1>4
  <1> QED
    BY <1>1, <1>3, <1>4 DEF Grows

\* Objects and rows are told apart from None.
LEMMA RowIsSomething ==
    ASSUME NEW r \in Row PROVE r # None
  BY NoneAssumption

-----------------------------------------------------------------------------
(* How each kind of change keeps the parts of the invariant                *)

\* The server changes, the table does not.
LEMMA ServerKeepsData ==
    ASSUME TypeOK, ServerType', DataInv, Grows, ServerUsns', UNCHANGED rows,
           used \subseteq used',
           \A x \in Ids : srv'[x] # None => srv[x] # None \/ x \in used'
    PROVE  DataInv'
  <1> USE DEF DataInv
  <1>1. IdsInUse'
    BY DEF IdsInUse, Exists
  <1>2. OneRowPerNote'
    BY DEF OneRowPerNote, RowsOf, Exists
  <1>3. RowsBased'
    <2> SUFFICES ASSUME NEW n \in Ids, Exists(n), rows[n].sid # None
                 PROVE  /\ srv'[rows[n].sid] # None
                        /\ rows[n].usn <= srv'[rows[n].sid].usn
                        /\ rows[n].usn = srv'[rows[n].sid].usn
                            => srv'[rows[n].sid].text \subseteq rows[n].text
      BY DEF RowsBased, Based, Exists
    <2>1. rows[n].sid \in Ids /\ rows[n].usn \in Nat
      BY DEF Exists, TypeOK, DbType, Row
    <2>2. Based(rows[n].sid, rows[n].usn, rows[n].text)
      BY DEF RowsBased
    <2> QED
      BY <2>1, <2>2, GrowsBased DEF TypeOK
  <1> QED
    BY <1>1, <1>2, <1>3

\* A change of the server keeps what is said of the queue.
LEMMA ServerKeepsQueue ==
    ASSUME TypeOK, ServerType', QueueBased, PageBased, Grows, UNCHANGED <<rows, phase, queue, page>>
    PROVE  QueueBased' /\ PageBased'
  <1>1. QueueBased'
    <2> SUFFICES ASSUME NEW n \in Ids, queue[n] # None
                 PROVE  /\ Pushing /\ Exists(n)
                        /\ rows[n].sid = queue[n].sid
                        /\ queue[n].text \subseteq rows[n].text
                        /\ queue[n].sid # None =>
                            /\ srv'[queue[n].sid] # None
                            /\ queue[n].usn <= srv'[queue[n].sid].usn
                            /\ queue[n].usn = srv'[queue[n].sid].usn
                                => srv'[queue[n].sid].text \subseteq queue[n].text
      BY DEF QueueBased, Based, Exists, Pushing
    <2>1. queue[n].sid # None => queue[n].sid \in Ids /\ queue[n].usn \in Nat
      BY DEF TypeOK, RoundType, Row
    <2> QED
      BY <2>1, GrowsBased DEF TypeOK, QueueBased
  <1>2. PageBased'
    <2> SUFFICES ASSUME NEW m \in page
                 PROVE  srv'[m.sid] # None /\ m.usn <= srv'[m.sid].usn
      BY DEF PageBased
    <2>1. m.sid \in Ids /\ m.usn \in Nat
      BY DEF TypeOK, RoundType, Meta
    <2>2. srv[m.sid] # None /\ m.usn <= srv[m.sid].usn
      BY DEF PageBased
    <2>3. srv[m.sid].usn \in Nat /\ srv'[m.sid].usn \in Nat
      BY <2>1, <2>2 DEF Grows, TypeOK, ServerType, Object
    <2> QED
      BY <2>1, <2>2, <2>3 DEF Grows
  <1> QED
    BY <1>1, <1>2

\* The round is over.
LEMMA EndRoundInv ==
    ASSUME EndRound PROVE RoundInv'
  <1>1. /\ \A n \in Ids : queue'[n] = None
        /\ page' = {}
        /\ work'.kind = "none"
    BY DEF EndRound, NoQueue, NoWork
  <1>2. QueueBased'
    BY <1>1 DEF QueueBased
  <1>3. PageBased'
    BY <1>1 DEF PageBased
  <1>4. WorkSaved' /\ WorkPush' /\ WorkPull'
    BY <1>1 DEF WorkSaved, WorkPush, WorkPull
  <1> QED
    BY <1>2, <1>3, <1>4 DEF RoundInv

\* The list goes on behind note n; the other notes of it have their rows.
LEMMA NextNoteInv ==
    ASSUME TypeOK, RoundInv, NEW n \in Ids, NEW ok, NextNote(n, ok), UNCHANGED srv,
           \A k \in Ids : k # n /\ queue[k] # None => rows'[k] = rows[k]
    PROVE  RoundInv'
  <1> USE DEF RoundInv
  <1>1. /\ queue' = [queue EXCEPT ![n] = None]
        /\ work'.kind = "none"
        /\ UNCHANGED <<phase, page>>
    BY DEF NextNote, NoWork, pulling
  <1>2. QueueBased'
    <2> SUFFICES ASSUME NEW k \in Ids, queue'[k] # None
                 PROVE  (/\ Pushing
                         /\ Exists(k)
                         /\ rows[k].sid = queue[k].sid
                         /\ queue[k].text \subseteq rows[k].text
                         /\ queue[k].sid # None => Based(queue[k].sid, queue[k].usn, queue[k].text))'
      BY DEF QueueBased
    <2>1. k # n /\ queue'[k] = queue[k] /\ rows'[k] = rows[k]
      BY <1>1 DEF TypeOK, RoundType
    <2> QED
      BY <1>1, <2>1 DEF QueueBased, Pushing, Exists, Based
  <1>3. PageBased'
    BY <1>1 DEF PageBased
  <1>4. WorkSaved' /\ WorkPush' /\ WorkPull'
    BY <1>1 DEF WorkSaved, WorkPush, WorkPull
  <1> QED
    BY <1>2, <1>3, <1>4

\* The page goes on behind entry m; during a pull the list is empty.
LEMMA ProcessedInv ==
    ASSUME TypeOK, RoundInv, phase = "pull", NEW m \in Meta, Processed(m), UNCHANGED srv
    PROVE  RoundInv'
  <1> USE DEF RoundInv
  <1>1. \A n \in Ids : queue'[n] = None
    BY DEF QueueBased, Pushing, Processed
  <1>2. QueueBased'
    BY <1>1 DEF QueueBased
  <1>3. PageBased'
    BY DEF PageBased, Processed
  <1>4. WorkSaved' /\ WorkPush' /\ WorkPull'
    BY DEF WorkSaved, WorkPush, WorkPull, Processed, NoWork
  <1> QED
    BY <1>2, <1>3, <1>4

\* The request that is out stays what it is while the server moves on.
LEMMA ServerKeepsWork ==
    ASSUME TypeOK, ServerType', WorkSaved, WorkPush, WorkPull, Grows,
           UNCHANGED <<rows, phase, queue, work>>
    PROVE  WorkSaved' /\ WorkPush' /\ WorkPull'
  <1>w. work \in Work /\ ServerType
    BY DEF TypeOK, RoundType
  <1>1. WorkSaved'
    <2> SUFFICES ASSUME work.kind = "saved"
                 PROVE  /\ queue[work.id] # None /\ queue[work.id] = work.sent
                        /\ Based(work.sid, work.usn, work.sent.text)'
                        /\ RowsOf(work.sid) \subseteq {work.id}
      BY DEF WorkSaved, RowsOf, Exists, Based
    <2>1. work.sid \in Ids /\ work.usn \in Nat
      BY <1>w, WorkFields
    <2>2. Based(work.sid, work.usn, work.sent.text)
      BY DEF WorkSaved
    <2>3. /\ srv'[work.sid] # None
          /\ work.usn <= srv'[work.sid].usn
          /\ work.usn = srv'[work.sid].usn => srv'[work.sid].text \subseteq work.sent.text
      BY <1>w, <2>1, <2>2, GrowsBased
    <2> QED
      BY <2>3 DEF WorkSaved, Based
  <1>2. WorkPush'
    <2>1. ASSUME work.kind = "resolve"
          PROVE  srv'[work.meta.sid] # None /\ work.meta.usn <= srv'[work.meta.sid].usn
      <3>1. work.meta.sid \in Ids /\ work.meta.usn \in Nat
        BY <1>w, <2>1, WorkFields DEF Meta
      <3>2. srv[work.meta.sid] # None /\ work.meta.usn <= srv[work.meta.sid].usn
        BY <2>1 DEF WorkPush
      <3>3. srv[work.meta.sid].usn \in Nat /\ srv'[work.meta.sid].usn \in Nat
        BY <1>w, <3>1, <3>2 DEF Grows, ServerType, Object
      <3> QED
        BY <3>1, <3>2, <3>3 DEF Grows
    <2> QED
      BY <2>1 DEF WorkPush
  <1>3. WorkPull'
    <2>1. ASSUME work.kind \in {"insert", "apply"},
                 Based(work.meta.sid, work.meta.usn, work.text)
          PROVE  Based(work.meta.sid, work.meta.usn, work.text)'
      <3>1. work.meta.sid \in Ids /\ work.meta.usn \in Nat
        BY <1>w, <2>1, WorkFields DEF Meta
      <3>2. /\ srv'[work.meta.sid] # None
            /\ work.meta.usn <= srv'[work.meta.sid].usn
            /\ work.meta.usn = srv'[work.meta.sid].usn => srv'[work.meta.sid].text \subseteq work.text
        BY <1>w, <2>1, <3>1, GrowsBased
      <3> QED
        BY <3>2 DEF Based
    <2> QED
      BY <2>1 DEF WorkPull, RowsOf, Exists, Pushing
  <1> QED
    BY <1>1, <1>2, <1>3

\* A handler of the bridge writes a row: same server note, same base, no less
\* text.
LEMMA WriteRowInv ==
    ASSUME TypeOK, SyncInv, NEW n \in Ids, Exists(n), NEW r \in Row,
           rows' = [rows EXCEPT ![n] = r],
           r.sid = rows[n].sid, r.usn = rows[n].usn, rows[n].text \subseteq r.text,
           UNCHANGED <<server, round, used>>
    PROVE  SyncInv'
  <1> USE DEF SyncInv
  <1>1. /\ \A k \in Ids : Exists(k)' <=> Exists(k)
        /\ \A k \in Ids : Exists(k) => /\ rows'[k].sid = rows[k].sid
                                       /\ rows'[k].usn = rows[k].usn
                                       /\ rows[k].text \subseteq rows'[k].text
    BY RowIsSomething DEF TypeOK, DbType, Exists
  <1>2. \A s : RowsOf(s)' = RowsOf(s)
    BY <1>1 DEF RowsOf
  <1>3. UNCHANGED <<srv, susn, phase, queue, work, page, used>>
    BY DEF server, round, pulling
  <1>4. IdsInUse' /\ ServerUsns' /\ PageBased' /\ WorkPush'
    BY <1>1, <1>3 DEF IdsInUse, ServerUsns, PageBased, WorkPush
  <1>5. OneRowPerNote'
    BY <1>2 DEF OneRowPerNote
  <1>6. RowsBased'
    <2> SUFFICES ASSUME NEW k \in Ids, Exists(k), rows[k].sid # None
                 PROVE  Based(rows[k].sid, rows[k].usn, rows[k].text)'
      BY <1>1 DEF RowsBased
    <2> QED
      BY <1>1, <1>3 DEF RowsBased, Based
  <1>7. QueueBased'
    BY <1>1, <1>3 DEF QueueBased, Pushing, Based
  <1>8. WorkSaved'
    BY <1>2, <1>3 DEF WorkSaved, Based
  <1>9. WorkPull'
    <2>1. work.kind = "apply" => work.id \in Ids
      BY WorkFields DEF TypeOK, RoundType
    <2> QED
      BY <1>1, <1>2, <1>3, <2>1 DEF WorkPull, Pushing, Based
  <1> QED
    BY <1>4, <1>5, <1>6, <1>7, <1>8, <1>9

\* A row of a note that has never been on the server appears, under an id that
\* nothing uses.
LEMMA NewRowData ==
    ASSUME TypeOK, DataInv, NEW n \in Fresh, NEW r \in Row, r.sid = None,
           NEW R \in [Ids -> Row \cup {None}], R[n] = r,
           \A k \in Ids : k # n => R[k] = rows[k],
           rows' = R, UNCHANGED <<srv, susn>>, used' = used \cup {n}
    PROVE  DataInv'
  <1> USE DEF DataInv
  <1>1. n \in Ids /\ n \notin used /\ ~Exists(n)
    BY DEF Fresh, IdsInUse
  <1>2. IdsInUse'
    BY <1>1 DEF IdsInUse, Exists
  <1>3. ServerUsns'
    BY DEF ServerUsns
  <1>4. \A s \in Ids : RowsOf(s)' = RowsOf(s)
    BY <1>1, NoteSyncAssumption DEF RowsOf, Exists
  <1>5. OneRowPerNote'
    BY <1>4 DEF OneRowPerNote
  <1>6. RowsBased'
    BY <1>1 DEF RowsBased, Exists, Based
  <1> QED
    BY <1>2, <1>3, <1>5, <1>6

\* The user's requests keep the invariant.
LEMMA UserInv ==
    ASSUME TypeOK, SyncInv, UserStep PROVE SyncInv'
  <1> PICK n \in Ids : \/ CreateNote(n)
                       \/ EditNote(n)
                       \/ \E b \in BOOLEAN : SetNoteTrash(n, b)
                       \/ MoveNote(n)
                       \/ MarkNoteLocalDelete(n)
    BY DEF UserStep
  <1>r. Exists(n) => rows[n] \in Row
    BY DEF Exists, TypeOK, DbType
  <1>1. CASE CreateNote(n)
    <2> DEFINE r == NewRow({edits + 1})
    <2>1. r \in Row /\ r.sid = None
      BY NewRowType DEF NewRow, TypeOK, ObservedType, Text
    <2>2. /\ n \in Fresh /\ rows' = [rows EXCEPT ![n] = r] /\ used' = used \cup {n}
          /\ UNCHANGED <<srv, susn, phase, queue, work, page>>
      BY <1>1 DEF CreateNote, server, round, pulling
    <2> HIDE DEF r
    <2>3. DataInv /\ RoundInv
      BY SyncInvParts
    <2>4. rows' \in [Ids -> Row \cup {None}] /\ rows'[n] = r
          /\ \A k \in Ids : k # n => rows'[k] = rows[k]
      BY <2>1, <2>2 DEF TypeOK, DbType
    <2>5. DataInv'
      BY <2>1, <2>2, <2>3, <2>4, NewRowData
    <2>6. ~Exists(n)
      BY <2>2, <2>3 DEF Fresh, DataInv, IdsInUse
    <2>7. \A k \in Ids : Exists(k) => rows'[k] = rows[k]
      BY <2>4, <2>6
    <2>8. \A s \in Ids : RowsOf(s)' = RowsOf(s)
      BY <2>1, <2>4, <2>6, NoteSyncAssumption DEF RowsOf, Exists
    <2>9. work \in Work
      BY DEF TypeOK, RoundType
    <2>10. QueueBased' /\ PageBased' /\ WorkPush'
      BY <2>2, <2>3, <2>7 DEF RoundInv, QueueBased, PageBased, WorkPush, Pushing, Based, Exists
    <2>11. WorkSaved'
      BY <2>2, <2>3, <2>8, <2>9, WorkFields DEF RoundInv, WorkSaved, Based
    <2>12. WorkPull'
      <3>1. work.kind = "insert" => work.meta.sid \in Ids
        BY <2>9, WorkFields DEF Meta
      <3>2. work.kind = "apply" => work.id \in Ids
        BY <2>9, WorkFields
      <3> QED
        BY <2>2, <2>3, <2>7, <2>8, <3>1, <3>2 DEF RoundInv, WorkPull, Based, Pushing, Exists
    <2> QED
      BY <2>5, <2>10, <2>11, <2>12 DEF SyncInv, DataInv
  <1>2. CASE EditNote(n)
    <2>1. Exists(n) /\ edits + 1 \in Nat
      BY <1>2 DEF EditNote, Owned, TypeOK, ObservedType
    <2>2. Edited(rows[n], edits + 1) \in Row
      BY <1>r, <2>1, EditedType
    <2>3. /\ Edited(rows[n], edits + 1).sid = rows[n].sid
          /\ Edited(rows[n], edits + 1).usn = rows[n].usn
          /\ rows[n].text \subseteq Edited(rows[n], edits + 1).text
      BY <1>r, <2>1 DEF Edited, Row
    <2> QED
      BY <1>2, <2>1, <2>2, <2>3, WriteRowInv DEF EditNote, TypeOK, DbType
  <1>3. ASSUME NEW b \in BOOLEAN, SetNoteTrash(n, b) PROVE SyncInv'
    <2>1. Exists(n)
      BY <1>3 DEF SetNoteTrash, Owned
    <2>2. Trashed(rows[n], b) \in Row
      BY <1>r, <2>1, FlaggedType
    <2>3. /\ Trashed(rows[n], b).sid = rows[n].sid
          /\ Trashed(rows[n], b).usn = rows[n].usn
          /\ rows[n].text \subseteq Trashed(rows[n], b).text
      BY <1>r, <2>1 DEF Trashed, Row
    <2> QED
      BY <1>3, <2>1, <2>2, <2>3, WriteRowInv DEF SetNoteTrash, TypeOK, DbType
  <1>4. CASE MoveNote(n)
    <2>1. Exists(n)
      BY <1>4 DEF MoveNote, Owned
    <2>2. Moved(rows[n]) \in Row
      BY <1>r, <2>1, FlaggedType
    <2>3. /\ Moved(rows[n]).sid = rows[n].sid
          /\ Moved(rows[n]).usn = rows[n].usn
          /\ rows[n].text \subseteq Moved(rows[n]).text
      BY <1>r, <2>1 DEF Moved, Row
    <2> QED
      BY <1>4, <2>1, <2>2, <2>3, WriteRowInv DEF MoveNote, TypeOK, DbType
  <1>5. CASE MarkNoteLocalDelete(n)
    <2>1. Exists(n)
      BY <1>5 DEF MarkNoteLocalDelete, Owned
    <2>2. Marked(rows[n]) \in Row
      BY <1>r, <2>1, FlaggedType
    <2>3. /\ Marked(rows[n]).sid = rows[n].sid
          /\ Marked(rows[n]).usn = rows[n].usn
          /\ rows[n].text \subseteq Marked(rows[n]).text
      BY <1>r, <2>1 DEF Marked, Row
    <2> QED
      BY <1>5, <2>1, <2>2, <2>3, WriteRowInv DEF MarkNoteLocalDelete, TypeOK, DbType
  <1> QED
    BY <1>1, <1>2, <1>3, <1>4, <1>5

\* Another device changes or creates a note.
LEMMA RemoteInv ==
    ASSUME TypeOK, SyncInv, TypeOK', RemoteStep PROVE SyncInv'
  <1> PICK s \in Ids : RemoteCreate(s) \/ RemoteEdit(s) \/ RemoteTrash(s) \/ RemoteDelete(s)
    BY DEF RemoteStep
  <1>1. \E object \in Object : Changed(s, object)
    <2>1. CASE RemoteCreate(s)
      <3>1. NewObject({edits + 1}) \in Object
        BY NewObjectType DEF TypeOK, ObservedType, Text
      <3> QED
        BY <2>1, <3>1 DEF RemoteCreate
    <2>2. CASE RemoteEdit(s) \/ RemoteTrash(s) \/ RemoteDelete(s)
      <3>1. srv[s] \in Object
        BY <2>2 DEF RemoteEdit, RemoteTrash, RemoteDelete, IsLive, TypeOK, ServerType
      <3>2. srv[s].text \cup {edits + 1} \in SUBSET Nat
        BY <3>1 DEF Object, Text, TypeOK, ObservedType
      <3>3. /\ [srv[s] EXCEPT !.text = @ \cup {edits + 1}] \in Object
            /\ [srv[s] EXCEPT !.trash = ~@] \in Object
            /\ [srv[s] EXCEPT !.deleted = TRUE] \in Object
        BY <3>1, <3>2 DEF Object, Text
      <3> QED
        BY <2>2, <3>3 DEF RemoteEdit, RemoteTrash, RemoteDelete
    <2> QED
      BY <2>1, <2>2
  <1>2. Grows /\ ServerUsns' /\ (\A x \in Ids : x # s => srv'[x] = srv[x])
    BY <1>1, ChangedGrows DEF TypeOK, SyncInv
  <1>3. /\ UNCHANGED <<rows, phase, queue, work, page>>
        /\ used \subseteq used'
        /\ srv[s] # None \/ s \in used'
    BY DEF RemoteCreate, RemoteEdit, RemoteTrash, RemoteDelete, IsLive, db, round, pulling
  <1>4. DataInv /\ RoundInv
    BY SyncInvParts
  <1>5. DataInv'
    BY <1>2, <1>3, <1>4, ServerKeepsData DEF TypeOK
  <1>6. QueueBased' /\ PageBased'
    BY <1>2, <1>3, <1>4, ServerKeepsQueue DEF TypeOK, RoundInv
  <1>7. WorkSaved' /\ WorkPush' /\ WorkPull'
    BY <1>2, <1>3, <1>4, ServerKeepsWork DEF TypeOK, RoundInv
  <1> QED
    BY <1>5, <1>6, <1>7 DEF SyncInv, DataInv

\* A request of the upload that changes the server, answered or not: what is
\* left to show is what is true of the answer.
LEMMA SendInv ==
    ASSUME TypeOK, SyncInv, TypeOK', NEW s \in Ids, NEW object \in Object, Changed(s, object),
           NEW w, Await(w), UNCHANGED rows,
           used \subseteq used', srv[s] # None \/ s \in used'
    PROVE  Grows /\ DataInv' /\ QueueBased' /\ PageBased'
  <1>1. Grows /\ ServerUsns' /\ (\A x \in Ids : x # s => srv'[x] = srv[x])
    BY ChangedGrows DEF TypeOK, SyncInv
  <1>2. UNCHANGED <<phase, queue, page>>
    BY DEF Await, pulling
  <1>3. DataInv /\ RoundInv
    BY SyncInvParts
  <1>4. DataInv'
    BY <1>1, <1>3, ServerKeepsData DEF TypeOK
  <1>5. QueueBased' /\ PageBased'
    BY <1>1, <1>2, <1>3, ServerKeepsQueue DEF TypeOK, RoundInv
  <1> QED
    BY <1>1, <1>4, <1>5

\* The answer to addNote: the note is as it was sent, under an id no row has.
LEMMA AddNoteInv ==
    ASSUME TypeOK, SyncInv, TypeOK', NEW n \in Ids, queue[n] # None, NEW s \in Ids,
           AddNote(n, s), UNCHANGED rows,
           Await([kind |-> "saved", id |-> n, sid |-> s, usn |-> susn + 1, sent |-> queue[n]])
    PROVE  SyncInv'
  <1>1. queue[n] \in Row /\ queue[n].text \in Text
    BY DEF TypeOK, RoundType, Row
  <1>2. NewObject(queue[n].text) \in Object
    BY <1>1, NewObjectType
  <1>3. s \notin used /\ used' = used \cup {s}
    BY DEF AddNote, Fresh
  <1>4. DataInv' /\ QueueBased' /\ PageBased'
    BY <1>2, <1>3, SendInv DEF AddNote
  <1>5. work' = [kind |-> "saved", id |-> n, sid |-> s, usn |-> susn + 1, sent |-> queue[n]]
        /\ queue' = queue
    BY DEF Await
  <1>6. srv'[s].usn = susn + 1 /\ srv'[s].text = queue[n].text /\ srv'[s] # None
    <2>1. srv' = [srv EXCEPT ![s] = [NewObject(queue[n].text) EXCEPT !.usn = susn + 1]]
      BY DEF AddNote, Changed
    <2>2. [NewObject(queue[n].text) EXCEPT !.usn = susn + 1] \in Object
      BY <1>2 DEF Object, TypeOK, ServerType
    <2>3. srv'[s] = [NewObject(queue[n].text) EXCEPT !.usn = susn + 1]
      BY <2>1 DEF TypeOK, ServerType
    <2> QED
      BY <2>2, <2>3, NoneAssumption DEF NewObject
  <1>7. RowsOf(s)' = {}
    <2>1. srv[s] = None /\ s # None
      BY <1>3, NoteSyncAssumption DEF SyncInv, IdsInUse
    <2>2. \A k \in Ids : Exists(k) => rows[k].sid # s
      BY <2>1 DEF SyncInv, RowsBased, Based
    <2> QED
      BY <2>2 DEF RowsOf, Exists
  <1>8. WorkSaved'
    BY <1>5, <1>6, <1>7 DEF WorkSaved, Based, TypeOK, ServerType
  <1>9. WorkPush' /\ WorkPull'
    BY <1>5 DEF WorkPush, WorkPull
  <1> QED
    BY <1>4, <1>8, <1>9 DEF SyncInv, DataInv

\* A request that changes nothing on the server is out.
LEMMA AskInv ==
    ASSUME TypeOK, SyncInv, NEW w, Await(w), UNCHANGED <<rows, srv, susn, used>>,
           WorkSaved', WorkPush', WorkPull'
    PROVE  SyncInv'
  <1>1. UNCHANGED <<phase, queue, page>>
    BY DEF Await, pulling
  <1>2. IdsInUse' /\ ServerUsns' /\ PageBased'
    BY <1>1 DEF SyncInv, IdsInUse, ServerUsns, PageBased, Exists
  <1>3. OneRowPerNote'
    BY DEF SyncInv, OneRowPerNote, RowsOf, Exists
  <1>4. RowsBased' /\ QueueBased'
    BY <1>1 DEF SyncInv, RowsBased, QueueBased, Exists, Based, Pushing
  <1> QED
    BY <1>2, <1>3, <1>4 DEF SyncInv

\* Note n of the list is done with; its row is untouched or written by a step
\* that keeps the data.
LEMMA NextInv ==
    ASSUME TypeOK, SyncInv, NEW n \in Ids, NEW ok, NextNote(n, ok), UNCHANGED srv,
           \A k \in Ids : k # n /\ queue[k] # None => rows'[k] = rows[k],
           DataInv'
    PROVE  SyncInv'
  BY SyncInvParts, NextNoteInv DEF SyncInv, DataInv, RoundInv

\* Nothing the invariant says of the data changes.
LEMMA SameData ==
    ASSUME DataInv, UNCHANGED <<rows, srv, susn, used>>
    PROVE  DataInv'
  BY DEF DataInv, IdsInUse, ServerUsns, OneRowPerNote, RowsOf, RowsBased, Based, Exists

\* Rows go.
LEMMA DropRowsData ==
    ASSUME DataInv, UNCHANGED <<srv, susn, used>>,
           \A n \in Ids : rows'[n] = rows[n] \/ rows'[n] = None
    PROVE  DataInv'
  <1> USE DEF DataInv
  <1>1. \A n \in Ids : Exists(n)' => Exists(n) /\ rows'[n] = rows[n]
    BY DEF Exists
  <1>2. \A s \in Ids : RowsOf(s)' \subseteq RowsOf(s)
    BY <1>1 DEF RowsOf
  <1>3. IdsInUse' /\ ServerUsns'
    BY <1>1 DEF IdsInUse, ServerUsns
  <1>4. OneRowPerNote'
    BY <1>2 DEF OneRowPerNote
  <1>5. RowsBased'
    BY <1>1 DEF RowsBased, Based
  <1> QED
    BY <1>3, <1>4, <1>5

\* One step per action of sendNoteChanges.
LEMMA PushInv ==
    ASSUME TypeOK, SyncInv, TypeOK', NEW n \in Ids,
           \/ PushAdd(n) \/ PushForget(n) \/ PushPassOver(n)
           \/ PushErase(n) \/ PushEraseRefused(n)
           \/ PushUpdate(n) \/ PushConflict(n) \/ PushMissing(n)
           \/ PushFails(n)
    PROVE  SyncInv'
  <1> DEFINE q == queue[n]
  <1>q. /\ queue[n] # None /\ queue[n] \in Row /\ work.kind = "none"
        /\ Exists(n) /\ rows[n].sid = q.sid /\ Pushing
        /\ rows[n] \in Row
    <2>1. Turn(n)
      BY DEF PushAdd, PushForget, PushPassOver, PushErase, PushEraseRefused, PushUpdate,
             PushConflict, PushMissing, PushFails
    <2>2. queue[n] # None /\ work.kind = "none" /\ Pushing
      BY <2>1 DEF Turn, NoWork
    <2>3. Exists(n) /\ rows[n].sid = q.sid
      BY <2>2 DEF SyncInv, QueueBased
    <2> QED
      BY <2>2, <2>3 DEF TypeOK, RoundType, DbType, Exists
  <1>d. DataInv
    BY SyncInvParts
  <1>1. CASE PushAdd(n)
    <2> PICK s \in Ids :
            /\ AddNote(n, s)
            /\ Await([kind |-> "saved", id |-> n, sid |-> s, usn |-> susn + 1, sent |-> q])
      BY <1>1 DEF PushAdd
    <2>1. UNCHANGED rows
      BY <1>1 DEF PushAdd, db
    <2> QED
      BY <1>q, <2>1, AddNoteInv
  <1>2. CASE PushForget(n)
    <2>1. /\ rows' = [rows EXCEPT ![n] = None]
          /\ NextNote(n, TRUE)
          /\ UNCHANGED <<srv, susn, used>>
      BY <1>2 DEF PushForget, server
    <2>2. DataInv'
      BY <1>d, <2>1, DropRowsData DEF TypeOK, DbType
    <2> QED
      BY <2>1, <2>2, NextInv DEF TypeOK, DbType
  <1>3. CASE PushPassOver(n) \/ PushEraseRefused(n) \/ PushFails(n)
    <2>1. /\ \E ok \in BOOLEAN : NextNote(n, ok)
          /\ UNCHANGED <<rows, srv, susn, used>>
      BY <1>3 DEF PushPassOver, PushEraseRefused, PushFails, db, server
    <2> QED
      BY <1>d, <2>1, NextInv, SameData
  <1>4. CASE PushErase(n)
    <2> DEFINE object == [srv[q.sid] EXCEPT !.deleted = TRUE]
               w == [kind |-> "erased", id |-> n, usn |-> susn + 1, sent |-> q]
    <2>1. q.sid \in Ids /\ srv[q.sid] \in Object /\ srv[q.sid] # None
      BY <1>4, <1>q DEF PushErase, IsNewRow, IsLive, Row, TypeOK, ServerType
    <2>2. object \in Object
      BY <2>1 DEF Object
    <2>3. Changed(q.sid, object) /\ Await(w) /\ UNCHANGED <<rows, used>>
      BY <1>4 DEF PushErase, db
    <2>4. work' = w /\ queue' = queue
      BY <2>3 DEF Await
    <2> HIDE DEF object
    <2>5. DataInv' /\ QueueBased' /\ PageBased'
      BY <2>1, <2>2, <2>3, SendInv
    <2>6. WorkSaved' /\ WorkPush' /\ WorkPull'
      BY <1>q, <2>4 DEF WorkSaved, WorkPush, WorkPull
    <2> QED
      BY <2>5, <2>6 DEF SyncInv, DataInv
  <1>5. CASE PushUpdate(n)
    <2> DEFINE object == [srv[q.sid] EXCEPT !.text = IF q.textDirty THEN q.text ELSE @,
                                            !.trash = q.trash]
               w == [kind |-> "saved", id |-> n, sid |-> q.sid, usn |-> susn + 1, sent |-> q]
    <2>1. /\ q.sid \in Ids /\ q.sid # None /\ srv[q.sid] \in Object /\ srv[q.sid] # None
          /\ srv[q.sid].usn = q.usn
      BY <1>5, <1>q DEF PushUpdate, IsNewRow, IsLive, Row, TypeOK, ServerType
    <2>2. object \in Object
      BY <1>q, <2>1 DEF Object, Row
    <2>3. Changed(q.sid, object) /\ Await(w) /\ UNCHANGED <<rows, used>>
      BY <1>5 DEF PushUpdate, db
    <2>4. work' = w /\ queue' = queue
      BY <2>3 DEF Await
    <2>5. srv[q.sid].text \subseteq q.text
      BY <1>q, <2>1 DEF SyncInv, QueueBased, Based
    <2>6. object.text \subseteq q.text
      BY <1>q, <2>1, <2>5 DEF Object
    <2>7. srv' = [srv EXCEPT ![q.sid] = [object EXCEPT !.usn = susn + 1]]
      BY <2>3 DEF Changed
    <2> HIDE DEF object
    <2>8. DataInv' /\ QueueBased' /\ PageBased'
      BY <2>1, <2>2, <2>3, SendInv
    <2>9. [object EXCEPT !.usn = susn + 1] \in Object
      BY <2>2 DEF Object, TypeOK, ServerType
    <2>10. srv'[q.sid] = [object EXCEPT !.usn = susn + 1]
      BY <2>1, <2>7 DEF TypeOK, ServerType
    <2>11. srv'[q.sid] # None /\ srv'[q.sid].usn = susn + 1 /\ srv'[q.sid].text \subseteq q.text
      BY <2>2, <2>6, <2>9, <2>10, NoneAssumption DEF Object
    <2>12. RowsOf(q.sid)' \subseteq {n}
      <3>1. n \in RowsOf(q.sid)
        BY <1>q DEF RowsOf
      <3>2. \A k \in RowsOf(q.sid) : k = n
        BY <2>1, <3>1 DEF SyncInv, OneRowPerNote
      <3>3. RowsOf(q.sid)' = RowsOf(q.sid)
        BY <2>3, <2>4 DEF RowsOf, Exists
      <3> QED
        BY <3>2, <3>3
    <2>13. WorkSaved'
      BY <1>q, <2>4, <2>11, <2>12 DEF WorkSaved, Based, TypeOK, ServerType
    <2>14. WorkPush' /\ WorkPull'
      BY <2>4 DEF WorkPush, WorkPull
    <2> QED
      BY <2>8, <2>13, <2>14 DEF SyncInv, DataInv
  <1>6. CASE PushConflict(n)
    <2> DEFINE w == [kind |-> "conflict", id |-> n, sid |-> q.sid]
    <2>1. Await(w) /\ UNCHANGED <<rows, srv, susn, used>>
      BY <1>6 DEF PushConflict, db, server
    <2>2. work' = w /\ queue' = queue
      BY <2>1 DEF Await
    <2>3. WorkSaved' /\ WorkPush' /\ WorkPull'
      BY <1>q, <2>2 DEF WorkSaved, WorkPush, WorkPull
    <2> QED
      BY <2>1, <2>3, AskInv
  <1>7. CASE PushMissing(n)
    <2> DEFINE w == [kind |-> "recreate", id |-> n, tries |-> 0, created |-> 0]
    <2>1. Await(w) /\ UNCHANGED <<rows, srv, susn, used>>
      BY <1>7 DEF PushMissing, db, server
    <2>2. work' = w /\ queue' = queue
      BY <2>1 DEF Await
    <2>3. WorkSaved' /\ WorkPush' /\ WorkPull'
      BY <1>q, <2>2 DEF WorkSaved, WorkPush, WorkPull
    <2> QED
      BY <2>1, <2>3, AskInv
  <1> QED
    BY <1>1, <1>2, <1>3, <1>4, <1>5, <1>6, <1>7

\* A row is written on the base of a note of which there is no other row.
LEMMA RebasedRowData ==
    ASSUME TypeOK, DataInv, UNCHANGED <<srv, susn, used>>, NEW n \in Ids, n \in used,
           NEW r \in Row, rows'[n] = r, \A k \in Ids : k # n => rows'[k] = rows[k],
           r.sid # None => Based(r.sid, r.usn, r.text) /\ RowsOf(r.sid) \subseteq {n}
    PROVE  DataInv'
  <1> USE DEF DataInv
  <1>1. \A k \in Ids : k # n => (Exists(k)' <=> Exists(k)) /\ rows'[k] = rows[k]
    BY DEF Exists
  <1>2. IdsInUse' /\ ServerUsns'
    BY <1>1 DEF IdsInUse, ServerUsns
  <1>3. OneRowPerNote'
    <2> SUFFICES ASSUME NEW s \in Ids, NEW j \in Ids, NEW k \in Ids,
                        Exists(j)', Exists(k)', rows'[j].sid = s, rows'[k].sid = s
                 PROVE  j = k
      BY DEF OneRowPerNote, RowsOf
    <2>0. s # None
      BY NoteSyncAssumption
    <2>1. CASE r.sid = s
      BY <1>1, <2>0, <2>1 DEF RowsOf
    <2>2. CASE r.sid # s
      <3>1. j # n /\ k # n
        BY <2>2
      <3> QED
        BY <1>1, <3>1 DEF OneRowPerNote, RowsOf
    <2> QED
      BY <2>1, <2>2
  <1>4. RowsBased'
    BY <1>1 DEF RowsBased, Based
  <1> QED
    BY <1>2, <1>3, <1>4

\* The answers of the upload.
LEMMA AnswerInv ==
    ASSUME TypeOK, SyncInv, TypeOK',
           \/ Recreate \/ RecreateLost \/ RecreateRefused \/ RecreateGiveUp
           \/ AnswerLost \/ AckSaved \/ AckErased
           \/ ResolveMeta \/ ResolveVanished \/ ResolveFetch \/ ResolveLost
           \/ PushDone
    PROVE  SyncInv'
  <1>w. work \in Work
    BY DEF TypeOK, RoundType
  <1>d. DataInv /\ RoundInv
    BY SyncInvParts
  <1>r. work.kind = "recreate" => work.id \in Ids /\ queue[work.id] # None
    BY <1>w, WorkFields DEF SyncInv, WorkPush
  <1>1. CASE Recreate
    <2> PICK s \in Ids :
            /\ AddNote(work.id, s)
            /\ Await([kind |-> "saved", id |-> work.id, sid |-> s, usn |-> susn + 1,
                      sent |-> queue[work.id]])
      BY <1>1 DEF Recreate
    <2>1. work.id \in Ids /\ queue[work.id] # None /\ UNCHANGED rows
      BY <1>1, <1>r DEF Recreate, db
    <2> QED
      BY <2>1, AddNoteInv
  <1>2. CASE RecreateLost
    <2> DEFINE w == [kind |-> "recreate", id |-> work.id, tries |-> work.tries + 1,
                     created |-> work.created + 1]
    <2>1. /\ work.id \in Ids /\ queue[work.id] # None
          /\ Await(w) /\ UNCHANGED rows
      BY <1>2, <1>r DEF RecreateLost, db
    <2>2. PICK s \in Ids : AddNote(work.id, s)
      BY <1>2 DEF RecreateLost
    <2>3. NewObject(queue[work.id].text) \in Object
      BY <2>1, NewObjectType DEF TypeOK, RoundType, Row
    <2>4. DataInv' /\ QueueBased' /\ PageBased'
      BY <2>1, <2>2, <2>3, SendInv DEF AddNote
    <2>5. work' = w /\ queue' = queue
      BY <2>1 DEF Await
    <2>6. WorkSaved' /\ WorkPush' /\ WorkPull'
      BY <2>1, <2>5 DEF WorkSaved, WorkPush, WorkPull
    <2> QED
      BY <2>4, <2>6 DEF SyncInv, DataInv
  <1>3. CASE RecreateRefused
    <2>1. /\ work.id \in Ids /\ queue[work.id] # None
          /\ Await([work EXCEPT !.tries = @ + 1]) /\ UNCHANGED <<rows, srv, susn, used>>
          /\ work.kind = "recreate"
      BY <1>3, <1>r DEF RecreateRefused, db, server
    <2>2. work'.kind = "recreate" /\ work'.id = work.id /\ queue' = queue
      BY <1>w, <2>1 DEF Await, Work
    <2>3. WorkSaved' /\ WorkPush' /\ WorkPull'
      BY <2>1, <2>2 DEF WorkSaved, WorkPush, WorkPull
    <2> QED
      BY <2>1, <2>3, AskInv
  <1>4. CASE RecreateGiveUp \/ AnswerLost \/ ResolveVanished
    <2>1. /\ \E ok \in BOOLEAN : NextNote(work.id, ok)
          /\ UNCHANGED <<rows, srv, susn, used>>
          /\ work.id \in Ids
      BY <1>4, <1>w, WorkFields DEF RecreateGiveUp, AnswerLost, ResolveVanished, db, server
    <2> QED
      BY <1>d, <2>1, NextInv, SameData
  <1>5. CASE AckSaved
    <2> DEFINE n == work.id
               r == Acked(rows[n], work.sid, work.usn)
    <2>1. /\ n \in Ids /\ work.sid \in Ids /\ work.usn \in Nat
          /\ queue[n] # None /\ queue[n] = work.sent
          /\ Based(work.sid, work.usn, work.sent.text)
          /\ RowsOf(work.sid) \subseteq {n}
      BY <1>5, <1>w, WorkFields DEF AckSaved, SyncInv, WorkSaved
    <2>2. rows[n] \in Row /\ work.sent.text \subseteq rows[n].text /\ Exists(n)
      BY <2>1 DEF SyncInv, QueueBased, Exists, TypeOK, DbType
    <2>3. r \in Row /\ r.sid = work.sid /\ r.usn = work.usn /\ r.text = rows[n].text
      BY <2>1, <2>2, AckedType DEF Acked, Row
    <2>4. /\ rows' = [rows EXCEPT ![n] = r] /\ NextNote(n, TRUE)
          /\ UNCHANGED <<srv, susn, used>>
      BY <1>5 DEF AckSaved, server
    <2> HIDE DEF r
    <2>5. rows'[n] = r /\ \A k \in Ids : k # n => rows'[k] = rows[k]
      BY <2>1, <2>4 DEF TypeOK, DbType
    <2>6. Based(r.sid, r.usn, r.text)
      BY <2>1, <2>2, <2>3 DEF Based
    <2>e. n \in used
      BY <1>d, <2>1, <2>2 DEF DataInv, IdsInUse
    <2>7. DataInv'
      BY <1>d, <2>e, <2>1, <2>2, <2>3, <2>4, <2>5, <2>6, RebasedRowData
    <2> QED
      BY <2>1, <2>4, <2>5, <2>7, NextInv
  <1>6. CASE AckErased
    <2>1. /\ work.id \in Ids /\ rows' = [rows EXCEPT ![work.id] = None]
          /\ NextNote(work.id, TRUE)
          /\ UNCHANGED <<srv, susn, used>>
      BY <1>6, <1>w, WorkFields DEF AckErased, server
    <2>2. DataInv'
      BY <1>d, <2>1, DropRowsData DEF TypeOK, DbType
    <2> QED
      BY <2>1, <2>2, NextInv DEF TypeOK, DbType
  <1>7. CASE ResolveFetch
    <2> DEFINE m == work.meta
    <2>1. /\ work.id \in Ids /\ queue[work.id] # None /\ m \in Meta /\ m.sid \in Ids
          /\ srv[m.sid] # None /\ m.usn <= srv[m.sid].usn
      BY <1>7, <1>w, WorkFields DEF ResolveFetch, SyncInv, WorkPush, Meta
    <2>2. Pushing
      BY <2>1 DEF SyncInv, QueueBased
    <2>3. PICK n \in RowsOf(m.sid) :
            Await([kind |-> "apply", id |-> n, meta |-> m,
                   text |-> srv[m.sid].text, before |-> rows[n]])
      BY <1>7 DEF ResolveFetch
    <2>4. n \in Ids /\ Exists(n) /\ rows[n].sid = m.sid
      BY DEF RowsOf
    <2>5. /\ work'.kind = "apply" /\ work'.id = n /\ work'.meta = m
          /\ work'.text = srv[m.sid].text
          /\ phase' = phase
      BY <2>3 DEF Await
    <2>6. UNCHANGED <<rows, srv, susn, used>>
      BY <1>7 DEF ResolveFetch, db, server
    <2>7. Based(m.sid, m.usn, srv[m.sid].text)
      BY <2>1 DEF Based
    <2>8. WorkPull'
      BY <2>2, <2>4, <2>5, <2>6, <2>7 DEF WorkPull, Based, Pushing, Exists
    <2>9. WorkSaved' /\ WorkPush'
      BY <2>5 DEF WorkSaved, WorkPush
    <2> QED
      BY <2>3, <2>6, <2>8, <2>9, AskInv
  <1>9. CASE ResolveMeta
    <2>1. work.id \in Ids /\ queue[work.id] # None /\ work.sid \in Ids
      BY <1>9, <1>w, WorkFields DEF ResolveMeta, SyncInv, WorkPush
    <2>2. /\ Await([kind |-> "resolve", id |-> work.id, meta |-> MetaOf(work.sid)])
          /\ UNCHANGED <<rows, srv, susn, used>>
      BY <1>9 DEF ResolveMeta, db, server
    <2>3. /\ work'.kind = "resolve" /\ work'.id = work.id /\ queue' = queue
          /\ work'.meta.sid = work.sid /\ work'.meta.usn = srv[work.sid].usn
      BY <2>2 DEF Await, MetaOf
    <2>4. srv[work.sid] # None /\ srv[work.sid].usn \in Nat
      BY <1>9, <2>1 DEF ResolveMeta, IsLive, TypeOK, ServerType, Object
    <2>5. WorkSaved' /\ WorkPush' /\ WorkPull'
      BY <2>1, <2>2, <2>3, <2>4 DEF WorkSaved, WorkPush, WorkPull
    <2> QED
      BY <2>2, <2>5, AskInv
  <1>10. CASE ResolveLost
    <2>1. /\ work.id \in Ids /\ queue[work.id] # None
          /\ UNCHANGED <<rows, srv, susn, used>>
      BY <1>10, <1>w, WorkFields DEF ResolveLost, SyncInv, WorkPush, db, server
    <2>2. CASE NextNote(work.id, FALSE)
      BY <1>d, <2>1, <2>2, NextInv, SameData
    <2>3. CASE Await([kind |-> "recreate", id |-> work.id, tries |-> 0, created |-> 0])
      <3>1. work'.kind = "recreate" /\ work'.id = work.id /\ queue' = queue
        BY <2>3 DEF Await
      <3>2. WorkSaved' /\ WorkPush' /\ WorkPull'
        BY <2>1, <3>1 DEF WorkSaved, WorkPush, WorkPull
      <3> QED
        BY <2>1, <2>3, <3>2, AskInv
    <2> QED
      BY <1>10, <2>2, <2>3 DEF ResolveLost
  <1>8. CASE PushDone
    <2>1. UNCHANGED <<rows, srv, susn, used>>
      BY <1>8 DEF PushDone, server
    <2>2. DataInv'
      BY <1>d, <2>1, SameData
    <2>3. CASE EndRound
      BY <2>2, <2>3, EndRoundInv, SyncInvParts DEF SyncInv, DataInv, RoundInv
    <2>4. CASE UNCHANGED <<queue, work, pulling>>
      <3>1. /\ \A n \in Ids : queue'[n] = None
            /\ work'.kind = "none" /\ page' = page
        BY <1>8, <2>4 DEF PushDone, NoQueue, NoWork, pulling
      <3>2. RoundInv'
        BY <1>d, <2>1, <3>1 DEF RoundInv, QueueBased, PageBased, WorkSaved, WorkPush, WorkPull
      <3> QED
        BY <2>2, <3>2 DEF SyncInv, DataInv, RoundInv
    <2> QED
      BY <1>8, <2>3, <2>4 DEF PushDone
  <1> QED
    BY <1>1, <1>2, <1>3, <1>4, <1>5, <1>6, <1>7, <1>8, <1>9, <1>10

\* The list is read from the table.
LEMMA DirtyNotesInv ==
    ASSUME TypeOK, TypeOK', DataInv', RoundInv, NEW R, rows' = R, UNCHANGED srv,
           queue' = DirtyNotes(R), page' = page, work' = work,
           phase' \in {"push1", "push2"}, phase \in {"idle", "state", "pull"},
           phase = "pull" => work = NoWork
    PROVE  SyncInv'
  <1>w. work \in Work
    BY DEF TypeOK, RoundType
  <1>1. ~Pushing /\ Pushing'
    BY DEF Pushing
  <1>2. QueueBased'
    <2> SUFFICES ASSUME NEW n \in Ids, queue'[n] # None
                 PROVE  (/\ Exists(n)
                         /\ rows[n].sid = queue[n].sid
                         /\ queue[n].text \subseteq rows[n].text
                         /\ queue[n].sid # None => Based(queue[n].sid, queue[n].usn, queue[n].text))'
      BY <1>1 DEF QueueBased
    <2>1. rows'[n] # None /\ queue'[n] = rows'[n]
      BY DEF DirtyNotes
    <2> QED
      BY <2>1 DEF DataInv, RowsBased, Exists
  <1>3. PageBased'
    BY DEF RoundInv, PageBased
  <1>4. \A n \in Ids : queue[n] = None
    BY <1>1 DEF RoundInv, QueueBased
  <1>5. work.kind \notin {"saved", "erased", "recreate", "conflict", "resolve", "insert", "apply"}
    BY <1>w, <1>1, <1>4, WorkFields DEF RoundInv, WorkSaved, WorkPush, WorkPull, NoWork
  <1>6. WorkSaved' /\ WorkPush' /\ WorkPull'
    BY <1>5 DEF WorkSaved, WorkPush, WorkPull
  <1> QED
    BY <1>2, <1>3, <1>6 DEF SyncInv, DataInv

\* The start of a round keeps the invariant.
LEMMA StartInv ==
    ASSUME TypeOK, SyncInv, TypeOK', NEW m \in {"full", "incr", "force"}, StartSync(m)
    PROVE  SyncInv'
  <1>1. /\ UNCHANGED <<rows, srv, susn, used, work, page>>
        /\ queue' = DirtyNotes(rows) /\ phase' = "push1" /\ phase = "idle"
    BY DEF StartSync, server
  <1>2. DataInv' /\ RoundInv
    BY <1>1, SyncInvParts, SameData
  <1> QED
    BY <1>1, <1>2, DirtyNotesInv

\* So does its cut-off.
LEMMA AbortInv ==
    ASSUME SyncInv, Abort PROVE SyncInv'
  <1>1. EndRound /\ UNCHANGED <<rows, srv, susn, used>>
    BY DEF Abort, db, server
  <1>2. DataInv' /\ RoundInv'
    BY <1>1, SyncInvParts, SameData, EndRoundInv
  <1> QED
    BY <1>2 DEF SyncInv, DataInv, RoundInv

\* So does going through a page.
LEMMA PullInv ==
    ASSUME TypeOK, SyncInv, TypeOK',
           \/ GetLastSyncState \/ GetSyncNotes
           \/ \E m \in page : \/ PullSkipTombstone(m) \/ PullTombstone(m)
                              \/ PullUpToDate(m) \/ PullFetch(m) \/ PullVanished(m)
           \/ Insert \/ PullDone
    PROVE  SyncInv'
  <1>w. work \in Work
    BY DEF TypeOK, RoundType
  <1>d. DataInv /\ RoundInv
    BY SyncInvParts
  <1>1. CASE GetLastSyncState
    <2>1. /\ UNCHANGED <<rows, srv, susn, used, work, page>> /\ phase = "state"
          /\ \/ UNCHANGED queue
             \/ phase' = "push2" /\ queue' = DirtyNotes(rows)
      BY <1>1, Zenon DEF GetLastSyncState, db, server
    <2>2. DataInv'
      BY <1>d, <2>1, SameData
    <2>3. CASE UNCHANGED queue
      <3>1. \A n \in Ids : queue[n] = None
        BY <1>d, <2>1 DEF RoundInv, QueueBased, Pushing
      <3>2. work.kind \notin {"saved", "erased", "recreate", "conflict", "resolve", "insert", "apply"}
        BY <1>w, <1>d, <2>1, <3>1, WorkFields
           DEF RoundInv, WorkSaved, WorkPush, WorkPull, Pushing
      <3>3. WorkSaved' /\ WorkPush' /\ WorkPull'
        BY <2>1, <3>2 DEF WorkSaved, WorkPush, WorkPull
      <3>4. QueueBased' /\ PageBased'
        BY <1>d, <2>1, <2>3, <3>1 DEF RoundInv, QueueBased, PageBased
      <3> QED
        BY <2>2, <3>3, <3>4 DEF SyncInv, DataInv
    <2>4. CASE phase' = "push2" /\ queue' = DirtyNotes(rows)
      BY <1>d, <2>1, <2>2, <2>4, DirtyNotesInv
    <2> QED
      BY <2>1, <2>3, <2>4
  <1>2. CASE GetSyncNotes
    <2> DEFINE newer == {MetaOf(s) : s \in {x \in Ids : srv[x] # None /\ srv[x].usn > after}}
    <2>1. \A m \in newer : srv[m.sid] # None /\ m.usn <= srv[m.sid].usn
      BY DEF MetaOf, TypeOK, ServerType, Object
    <2>2. page' \subseteq newer
      BY <1>2 DEF GetSyncNotes
    <2> HIDE DEF newer
    <2>3. /\ UNCHANGED <<rows, srv, susn, used, work, queue, phase>>
          /\ work.kind = "none"
      BY <1>2 DEF GetSyncNotes, db, server, NoWork
    <2>4. PageBased'
      BY <2>1, <2>2, <2>3 DEF PageBased
    <2>5. QueueBased' /\ WorkSaved' /\ WorkPush' /\ WorkPull'
      BY <1>d, <2>3 DEF RoundInv, QueueBased, WorkSaved, WorkPush, WorkPull, Pushing, Exists, Based
    <2>6. DataInv'
      BY <1>d, <2>3, SameData
    <2> QED
      BY <2>4, <2>5, <2>6 DEF SyncInv, DataInv
  <1>3. ASSUME NEW m \in page,
               \/ PullSkipTombstone(m) \/ PullTombstone(m)
               \/ PullUpToDate(m) \/ PullFetch(m) \/ PullVanished(m)
        PROVE  SyncInv'
    <2>m. m \in Meta /\ phase = "pull"
      BY <1>3 DEF TypeOK, RoundType, Head, PullSkipTombstone, PullTombstone, PullUpToDate,
                  PullFetch, PullVanished
    <2>1. CASE PullSkipTombstone(m) \/ PullUpToDate(m)
      <3>1. Processed(m) /\ UNCHANGED <<rows, srv, susn, used>>
        BY <2>1 DEF PullSkipTombstone, PullUpToDate, db, server
      <3>2. DataInv' /\ RoundInv'
        BY <1>d, <2>m, <3>1, SameData, ProcessedInv
      <3> QED
        BY <3>2 DEF SyncInv, DataInv, RoundInv
    <2>2. CASE PullTombstone(m)
      <3>1. Processed(m) /\ UNCHANGED <<srv, susn, used>>
        BY <2>2 DEF PullTombstone, server
      <3>2. \A x \in Ids : rows'[x] = rows[x] \/ rows'[x] = None
        BY <2>2 DEF PullTombstone
      <3>3. DataInv' /\ RoundInv'
        BY <1>d, <2>m, <3>1, <3>2, DropRowsData, ProcessedInv
      <3> QED
        BY <3>3 DEF SyncInv, DataInv, RoundInv
    <2>3. CASE PullFetch(m)
      <3>1. /\ UNCHANGED <<rows, srv, susn, used>>
            /\ srv[m.sid] # None /\ m.usn <= srv[m.sid].usn
        BY <1>d, <2>3 DEF PullFetch, db, server, RoundInv, PageBased
      <3>2. Based(m.sid, m.usn, srv[m.sid].text)
        BY <3>1 DEF Based
      <3>3. CASE RowsOf(m.sid) = {}
                 /\ Await([kind |-> "insert", meta |-> m, text |-> srv[m.sid].text])
        <4>1. /\ work'.kind = "insert" /\ work'.meta = m /\ work'.text = srv[m.sid].text
              /\ phase' = "pull"
          BY <2>m, <3>3 DEF Await
        <4>2. WorkSaved' /\ WorkPush' /\ WorkPull'
          BY <3>1, <3>2, <3>3, <4>1 DEF WorkSaved, WorkPush, WorkPull, Based, RowsOf, Exists
        <4> QED
          BY <3>1, <3>3, <4>2, AskInv
      <3>4. ASSUME NEW n \in RowsOf(m.sid),
                   Await([kind |-> "apply", id |-> n, meta |-> m,
                          text |-> srv[m.sid].text, before |-> rows[n]])
            PROVE  SyncInv'
        <4>1. /\ work'.kind = "apply" /\ work'.meta = m /\ work'.text = srv[m.sid].text
              /\ work'.id = n /\ phase' = "pull"
          BY <2>m, <3>4 DEF Await
        <4>2. Exists(n) /\ rows[n].sid = m.sid
          BY DEF RowsOf
        <4>3. WorkSaved' /\ WorkPush' /\ WorkPull'
          BY <3>1, <3>2, <4>1, <4>2 DEF WorkSaved, WorkPush, WorkPull, Based, Exists
        <4> QED
          BY <3>1, <3>4, <4>3, AskInv
      <3> QED
        BY <2>3, <3>3, <3>4 DEF PullFetch
    <2>4. CASE PullVanished(m)
      <3>1. EndRound /\ UNCHANGED <<rows, srv, susn, used>>
        BY <2>4 DEF PullVanished, db, server
      <3>2. DataInv' /\ RoundInv'
        BY <1>d, <3>1, SameData, EndRoundInv
      <3> QED
        BY <3>2 DEF SyncInv, DataInv, RoundInv
    <2> QED
      BY <1>3, <2>1, <2>2, <2>3, <2>4
  <1>4. CASE Insert
    <2> DEFINE m == work.meta
               r == CleanRow(m.sid, m.usn, work.text, m.trash)
    <2>1. m \in Meta /\ m.sid \in Ids /\ m.usn \in Nat /\ m.trash \in BOOLEAN /\ work.text \in Text
      BY <1>4, <1>w, WorkFields DEF Insert, Meta
    <2>2. phase = "pull" /\ RowsOf(m.sid) = {} /\ Based(m.sid, m.usn, work.text)
      BY <1>4, <1>d DEF Insert, RoundInv, WorkPull
    <2>3. r \in Row /\ r.sid = m.sid /\ r.usn = m.usn /\ r.text = work.text
      BY <2>1, CleanRowType DEF CleanRow
    <2>4. /\ rows' = [rows EXCEPT ![m.sid] = r] /\ Processed(m)
          /\ UNCHANGED <<srv, susn, used>>
      BY <1>4 DEF Insert, server
    <2> HIDE DEF r
    <2>5. rows'[m.sid] = r /\ \A k \in Ids : k # m.sid => rows'[k] = rows[k]
      BY <2>1, <2>4 DEF TypeOK, DbType
    <2>6. m.sid \in used
      BY <1>d, <2>1, <2>2 DEF DataInv, IdsInUse, Based
    <2>7. DataInv'
      BY <1>d, <2>1, <2>2, <2>3, <2>4, <2>5, <2>6, RebasedRowData
    <2>8. RoundInv'
      BY <1>d, <2>1, <2>2, <2>4, ProcessedInv
    <2> QED
      BY <2>7, <2>8 DEF SyncInv, DataInv, RoundInv
  <1>5. CASE PullDone
    <2>1. /\ UNCHANGED <<srv, susn, used, work, page>>
          /\ phase = "pull" /\ work = NoWork
          /\ phase' = "push2" /\ queue' = DirtyNotes(rows')
      BY <1>5 DEF PullDone, server, pulling
    <2>2. \A n \in Ids : /\ Exists(n)' <=> Exists(n)
                         /\ Exists(n) => /\ rows'[n].sid = rows[n].sid
                                         /\ rows'[n].usn = rows[n].usn
                                         /\ rows'[n].text = rows[n].text
      <3>1. CASE rows' = rows
        BY <3>1 DEF Exists
      <3>2. CASE rows' = [n \in Ids |-> Requeued(rows[n])]
        <4> SUFFICES ASSUME NEW n \in Ids
                     PROVE  /\ Exists(n)' <=> Exists(n)
                            /\ Exists(n) => /\ rows'[n].sid = rows[n].sid
                                            /\ rows'[n].usn = rows[n].usn
                                            /\ rows'[n].text = rows[n].text
          OBVIOUS
        <4>1. rows'[n] = Requeued(rows[n])
          BY <3>2
        <4>2. rows[n] = None \/ rows[n] \in Row
          BY DEF TypeOK, DbType
        <4>3. CASE rows[n] = None
          BY <4>1, <4>3 DEF Requeued, Exists
        <4>4. CASE rows[n] \in Row
          <5>1. [rows[n] EXCEPT !.dirty = TRUE, !.new = FALSE, !.del = FALSE] \in Row
            BY <4>4 DEF Row
          <5>2. /\ [rows[n] EXCEPT !.dirty = TRUE, !.new = FALSE, !.del = FALSE].sid = rows[n].sid
                /\ [rows[n] EXCEPT !.dirty = TRUE, !.new = FALSE, !.del = FALSE].usn = rows[n].usn
                /\ [rows[n] EXCEPT !.dirty = TRUE, !.new = FALSE, !.del = FALSE].text = rows[n].text
            BY <4>4 DEF Row
          <5> QED
            BY <4>1, <4>4, <5>1, <5>2, RowIsSomething DEF Requeued, Exists
        <4> QED
          BY <4>2, <4>3, <4>4
      <3> QED
        BY <1>5, <3>1, <3>2 DEF PullDone
    <2>3. IdsInUse' /\ ServerUsns'
      BY <1>d, <2>1, <2>2 DEF DataInv, IdsInUse, ServerUsns
    <2>4. OneRowPerNote'
      BY <1>d, <2>2 DEF DataInv, OneRowPerNote, RowsOf
    <2>5. RowsBased'
      BY <1>d, <2>1, <2>2 DEF DataInv, RowsBased, Based
    <2>6. DataInv'
      BY <2>3, <2>4, <2>5 DEF DataInv
    <2> QED
      BY <1>d, <2>1, <2>6, DirtyNotesInv
  <1> QED
    BY <1>1, <1>2, <1>3, <1>4, <1>5

\* What processNoteSync's caller does next keeps what is true of the round.
LEMMA ReturnedInv ==
    ASSUME TypeOK, RoundInv, work.kind = "apply", NEW ok \in BOOLEAN, Returned(ok),
           UNCHANGED srv,
           \A k \in Ids : k # work.id /\ queue[k] # None => rows'[k] = rows[k]
    PROVE  RoundInv'
  <1>1. work.id \in Ids /\ work.meta \in Meta
    BY WorkFields DEF TypeOK, RoundType
  <1> QED
    BY <1>1, NextNoteInv, ProcessedInv, EndRoundInv DEF Returned

\* So does writing what was fetched.
LEMMA ApplyInv ==
    ASSUME TypeOK, SyncInv, TypeOK', Apply \/ ApplyConflict
    PROVE  SyncInv'
  <1> DEFINE n == work.id
             m == work.meta
             ok == SameRow(rows[n], work.before)
             r == IF ok THEN Applied(rows[n], m, work.text) ELSE rows[n]
  <1>d. DataInv /\ RoundInv
    BY SyncInvParts
  <1>1. work.kind = "apply" /\ n \in Ids /\ m \in Meta /\ work.text \in Text
    BY WorkFields DEF Apply, ApplyConflict, TypeOK, RoundType
  <1>2. /\ rows[n] \in Row /\ Exists(n) /\ rows[n].sid = m.sid
        /\ Based(m.sid, m.usn, work.text)
    BY <1>d, <1>1 DEF RoundInv, WorkPull, Exists, TypeOK, DbType
  <1>3. ok \in BOOLEAN
    BY DEF SameRow
  <1>4. /\ Applied(rows[n], m, work.text).sid = m.sid
        /\ Applied(rows[n], m, work.text).usn = m.usn
        /\ Applied(rows[n], m, work.text).text = work.text
    BY <1>2 DEF Applied, Row
  <1>5. Applied(rows[n], m, work.text) \in Row
    BY <1>1, <1>2, AppliedType
  <1> HIDE DEF ok
  <1>6. m.sid \in Ids /\ m.sid # None
    BY <1>1, NoteSyncAssumption DEF Meta
  <1>7. r \in Row /\ r.sid = m.sid /\ Based(r.sid, r.usn, r.text)
    <2>1. Based(rows[n].sid, rows[n].usn, rows[n].text)
      BY <1>d, <1>1, <1>2, <1>6 DEF DataInv, RowsBased
    <2> QED
      BY <1>2, <1>3, <1>4, <1>5, <2>1
  <1>8. RowsOf(m.sid) \subseteq {n}
    <2>1. n \in RowsOf(m.sid)
      BY <1>1, <1>2 DEF RowsOf
    <2> QED
      BY <1>d, <1>6, <2>1 DEF DataInv, OneRowPerNote
  <1>9. n \in used
    BY <1>d, <1>1, <1>2 DEF DataInv, IdsInUse
  <1> HIDE DEF r
  <1>10. CASE Apply
    <2>1. /\ rows' = [rows EXCEPT ![n] = r] /\ Returned(ok)
          /\ UNCHANGED <<srv, susn, used>>
      BY <1>10 DEF Apply, ok, r, server
    <2>2. rows'[n] = r /\ \A k \in Ids : k # n => rows'[k] = rows[k]
      BY <1>1, <2>1 DEF TypeOK, DbType
    <2>3. DataInv'
      BY <1>d, <1>1, <1>7, <1>8, <1>9, <2>1, <2>2, RebasedRowData
    <2>4. RoundInv'
      BY <1>d, <1>1, <1>3, <2>1, <2>2, ReturnedInv
    <2> QED
      BY <2>3, <2>4 DEF SyncInv, DataInv, RoundInv
  <1>11. CASE ApplyConflict
    <2> DEFINE copy == NewRow(rows[n].text)
    <2>1. PICK c \in Fresh :
            /\ rows' = [rows EXCEPT ![c] = copy,
                                    ![n] = IF ok THEN Applied(@, work.meta, work.text) ELSE @]
            /\ used' = used \cup {c}
            /\ Returned(ok)
      BY <1>11 DEF ApplyConflict, ok
    <2>2. c \in Ids /\ c \notin used /\ c # n /\ ~Exists(c)
      BY <1>d, <1>9 DEF Fresh, DataInv, IdsInUse
    <2>3. copy \in Row /\ copy.sid = None
      BY <1>2, NewRowType DEF NewRow, Row
    <2> HIDE DEF copy
    <2>4. /\ rows'[n] = r /\ rows'[c] = copy
          /\ \A k \in Ids : k # n /\ k # c => rows'[k] = rows[k]
      BY <1>1, <2>1, <2>2 DEF TypeOK, DbType, r
    <2>5. UNCHANGED <<srv, susn>>
      BY <1>11 DEF ApplyConflict, server
    <2>6. \A k \in Ids : queue[k] # None => k # c
      BY <1>d, <2>2 DEF RoundInv, QueueBased
    <2>7. RoundInv'
      BY <1>d, <1>1, <1>3, <2>1, <2>4, <2>5, <2>6, ReturnedInv
    <2>8. IdsInUse' /\ ServerUsns'
      BY <1>d, <1>9, <2>1, <2>2, <2>4, <2>5 DEF DataInv, IdsInUse, ServerUsns, Exists
    <2>9. OneRowPerNote'
      <3>1. \A k \in Ids : k \notin {n, c} => (Exists(k)' <=> Exists(k)) /\ rows'[k] = rows[k]
        BY <2>4 DEF Exists
      <3>2. \A s \in Ids : RowsOf(s)' \subseteq RowsOf(s)
        <4> SUFFICES ASSUME NEW s \in Ids, NEW k \in Ids, Exists(k)', rows'[k].sid = s
                     PROVE  Exists(k) /\ rows[k].sid = s
          BY DEF RowsOf
        <4>1. k # c
          BY <2>3, <2>4, NoteSyncAssumption
        <4> QED
          BY <1>2, <1>7, <2>4, <3>1, <4>1
      <3> QED
        BY <1>d, <3>2 DEF DataInv, OneRowPerNote
    <2>10. RowsBased'
      <3> SUFFICES ASSUME NEW k \in Ids, Exists(k)', rows'[k].sid # None
                   PROVE  Based(rows[k].sid, rows[k].usn, rows[k].text)'
        BY DEF RowsBased
      <3>1. CASE k = n
        BY <1>7, <2>4, <2>5, <3>1 DEF Based
      <3>2. CASE k # n
        BY <1>d, <2>3, <2>4, <2>5, <3>2 DEF DataInv, RowsBased, Based, Exists
      <3> QED
        BY <3>1, <3>2
    <2> QED
      BY <2>7, <2>8, <2>9, <2>10 DEF SyncInv, RoundInv
  <1> QED
    BY <1>10, <1>11

\* The invariant holds at first.
LEMMA InitSyncInv == Init => SyncInv
  <1> SUFFICES ASSUME Init PROVE SyncInv
    OBVIOUS
  <1>1. /\ 1 \in Ids /\ srv[1].usn = 1 /\ srv[1].text = {} /\ susn = 1
        /\ \A s \in Ids : srv[s] # None => s = 1
        /\ 1 \in used
        /\ page = {} /\ work.kind = "none"
        /\ \A n \in Ids : queue[n] = None
    BY NoteSyncAssumption DEF Init, NoQueue, NoWork
  <1>2. srv[1] # None
    <2>1. [usn |-> 1, text |-> {}, trash |-> FALSE, deleted |-> FALSE] \in Object
      BY DEF Object, Text
    <2> QED
      BY <1>1, <2>1, NoneAssumption DEF Init
  <1>3. \E l \in Ids : /\ \A n \in Ids : Exists(n) => n = l
                       /\ Exists(l) => l \in used /\ rows[l].sid = 1 /\ rows[l].usn = 1
    <2>1. CASE rows = [n \in Ids |-> None]
      BY <1>1, <2>1 DEF Exists
    <2>2. ASSUME NEW l \in {1, 2}, used = {1, l},
                 rows = [n \in Ids |-> IF n = l THEN CleanRow(1, 1, {}, FALSE) ELSE None]
          PROVE  \E k \in Ids : /\ \A n \in Ids : Exists(n) => n = k
                                /\ Exists(k) => k \in used /\ rows[k].sid = 1 /\ rows[k].usn = 1
      BY <2>2, NoteSyncAssumption DEF Exists, CleanRow
    <2> QED
      BY <2>1, <2>2 DEF Init
  <1>4. IdsInUse /\ ServerUsns
    BY <1>1, <1>3 DEF IdsInUse, ServerUsns
  <1>5. OneRowPerNote
    BY <1>3 DEF OneRowPerNote, RowsOf
  <1>6. RowsBased
    BY <1>1, <1>2, <1>3 DEF RowsBased, Based
  <1>7. QueueBased /\ PageBased /\ WorkSaved /\ WorkPush /\ WorkPull
    BY <1>1 DEF QueueBased, PageBased, WorkSaved, WorkPush, WorkPull
  <1> QED
    BY <1>4, <1>5, <1>6, <1>7 DEF SyncInv

-----------------------------------------------------------------------------
(* The theorems                                                            *)

\* One step per class of actions: each keeps the shape of the state and the
\* invariant.
LEMMA Inductive ==
    ASSUME TypeOK, SyncInv, [Next]_vars
    PROVE  TypeOK' /\ SyncInv'
  <1>1. CASE UserStep
    BY <1>1, UserTypeOK, UserInv
  <1>2. CASE RemoteStep
    BY <1>2, RemoteTypeOK, RemoteInv
  <1>3. ASSUME NEW m \in {"full", "incr", "force"}, StartSync(m)
        PROVE  TypeOK' /\ SyncInv'
    BY <1>3, StartTypeOK, StartInv
  <1>4. ASSUME NEW n \in Ids,
               \/ PushAdd(n) \/ PushForget(n) \/ PushPassOver(n)
               \/ PushErase(n) \/ PushEraseRefused(n)
               \/ PushUpdate(n) \/ PushConflict(n) \/ PushMissing(n)
               \/ PushFails(n)
        PROVE  TypeOK' /\ SyncInv'
    <2>1. TypeOK'
      BY <1>4, PushTypeOK DEF SyncInv
    <2> QED
      BY <1>4, <2>1, PushInv
  <1>5. CASE \/ Recreate \/ RecreateLost \/ RecreateRefused \/ RecreateGiveUp
             \/ AnswerLost \/ AckSaved \/ AckErased
             \/ ResolveMeta \/ ResolveVanished \/ ResolveFetch \/ ResolveLost
             \/ PushDone
    <2>1. TypeOK'
      BY <1>5, AnswerTypeOK DEF SyncInv
    <2> QED
      BY <1>5, <2>1, AnswerInv
  <1>6. CASE PullStep
    <2>1. TypeOK'
      BY <1>6, PullTypeOK DEF SyncInv, PullStep
    <2> QED
      BY <1>6, <2>1, PullInv DEF PullStep
  <1>7. CASE ApplyStep
    <2>1. TypeOK'
      BY <1>7, ApplyTypeOK DEF SyncInv, ApplyStep
    <2> QED
      BY <1>7, <2>1, ApplyInv DEF ApplyStep
  <1>8. CASE Abort
    BY <1>8, AbortTypeOK, AbortInv
  <1>9. CASE UNCHANGED vars
    <2>1. UNCHANGED <<rows, cursor, srv, susn, phase, mode, queue, failed, work,
                      snapshot, after, page, more, seen, target,
                      edits, acts, faults, used, discarded, raced>>
      BY <1>9 DEF vars, db, server, round, pulling, bounds, ghost
    <2>2. TypeOK'
      BY <2>1 DEF TypeOK, DbType, ServerType, RoundType, ObservedType
    <2>3. IdsInUse' /\ ServerUsns' /\ OneRowPerNote' /\ RowsBased'
      BY <2>1 DEF SyncInv, IdsInUse, ServerUsns, OneRowPerNote, RowsOf, RowsBased, Based, Exists
    <2>4. QueueBased' /\ PageBased' /\ WorkSaved' /\ WorkPush' /\ WorkPull'
      BY <2>1 DEF SyncInv, QueueBased, PageBased, WorkSaved, WorkPush, WorkPull,
                  Pushing, RowsOf, Based, Exists
    <2> QED
      BY <2>2, <2>3, <2>4 DEF SyncInv
  <1> QED
    BY <1>1, <1>2, <1>3, <1>4, <1>5, <1>6, <1>7, <1>8, <1>9
       DEF Next, RoundStep, FaultStep, PushStep

\* In every state of every behaviour the variables have their types and the
\* strengthened invariant of the copies of notes holds.
THEOREM SyncCorrect == Spec => [](TypeOK /\ SyncInv)
  <1>1. Init => TypeOK /\ SyncInv
    BY InitTypeOK, InitSyncInv
  <1>2. TypeOK /\ SyncInv /\ [Next]_vars => (TypeOK /\ SyncInv)'
    BY Inductive
  <1> QED
    BY <1>1, <1>2, PTL DEF Spec

\* The database, the server and the locals of a round keep their shape.
THEOREM TypeCorrect == Spec => []TypeOK
  BY SyncCorrect, PTL

\* The table never has two rows for one server note.
THEOREM OneRow == Spec => []OneRowPerNote
  <1>1. SyncInv => OneRowPerNote
    BY DEF SyncInv
  <1> QED
    BY <1>1, SyncCorrect, PTL

\* A row at the server's USN has seen the server's text.
THEOREM BaseIsSeen == Spec => []BaseSeen
  <1>1. SyncInv => BaseSeen
    BY DEF SyncInv, RowsBased, Based, BaseSeen
  <1> QED
    BY <1>1, SyncCorrect, PTL

Grown == \A s \in Ids : srv[s] # None
            => srv'[s] # None /\ srv[s].text \subseteq srv'[s].text

\* One step per action that writes to the server.
LEMMA ServerTextGrows ==
    ASSUME TypeOK, SyncInv, Next
    PROVE  Grown
  <1>c. ASSUME NEW s \in Ids, NEW object \in Object, Changed(s, object),
               srv[s] = None \/ srv[s].text \subseteq object.text
        PROVE  Grown
    <2>1. /\ [object EXCEPT !.usn = susn + 1] \in Object
          /\ [object EXCEPT !.usn = susn + 1].text = object.text
      BY DEF Object, TypeOK, ServerType
    <2>2. /\ srv'[s] = [object EXCEPT !.usn = susn + 1]
          /\ \A x \in Ids : x # s => srv'[x] = srv[x]
      BY <1>c DEF Changed, TypeOK, ServerType
    <2> QED
      BY <1>c, <2>1, <2>2, NoneAssumption DEF Grown
  <1>u. UNCHANGED srv => Grown
    BY DEF Grown
  <1>a. ASSUME NEW n \in Ids, queue[n] # None, NEW s \in Ids, AddNote(n, s)
        PROVE  Grown
    <2>1. NewObject(queue[n].text) \in Object
      BY <1>a, NewObjectType DEF TypeOK, RoundType, Row
    <2>2. srv[s] = None
      BY <1>a DEF AddNote, Fresh, SyncInv, IdsInUse
    <2> QED
      BY <1>a, <1>c, <2>1, <2>2 DEF AddNote
  <1>r. work.kind = "recreate" => work.id \in Ids /\ queue[work.id] # None
    BY WorkFields DEF SyncInv, WorkPush, TypeOK, RoundType
  <1>1. CASE RemoteStep
    <2> PICK s \in Ids : RemoteCreate(s) \/ RemoteEdit(s) \/ RemoteTrash(s) \/ RemoteDelete(s)
      BY <1>1 DEF RemoteStep
    <2>1. CASE RemoteCreate(s)
      <3>1. NewObject({edits + 1}) \in Object /\ srv[s] = None
        BY <2>1, NewObjectType DEF TypeOK, ObservedType, Text, RemoteCreate, Fresh, SyncInv, IdsInUse
      <3>2. Changed(s, NewObject({edits + 1}))
        BY <2>1 DEF RemoteCreate
      <3> QED
        BY <1>c, <3>1, <3>2
    <2>2. CASE RemoteEdit(s) \/ RemoteTrash(s) \/ RemoteDelete(s)
      <3>1. srv[s] \in Object
        BY <2>2 DEF RemoteEdit, RemoteTrash, RemoteDelete, IsLive, TypeOK, ServerType
      <3>2. srv[s].text \cup {edits + 1} \in SUBSET Nat
        BY <3>1 DEF Object, Text, TypeOK, ObservedType
      <3>3. \A object \in {[srv[s] EXCEPT !.text = @ \cup {edits + 1}],
                           [srv[s] EXCEPT !.trash = ~@],
                           [srv[s] EXCEPT !.deleted = TRUE]} :
                object \in Object /\ srv[s].text \subseteq object.text
        BY <3>1, <3>2 DEF Object, Text
      <3>4. \/ Changed(s, [srv[s] EXCEPT !.text = @ \cup {edits + 1}])
            \/ Changed(s, [srv[s] EXCEPT !.trash = ~@])
            \/ Changed(s, [srv[s] EXCEPT !.deleted = TRUE])
        BY <2>2 DEF RemoteEdit, RemoteTrash, RemoteDelete
      <3> QED
        BY <1>c, <3>3, <3>4
    <2> QED
      BY <2>1, <2>2
  <1>2. ASSUME NEW n \in Ids, PushAdd(n) \/ PushErase(n) \/ PushUpdate(n)
        PROVE  Grown
    <2> DEFINE q == queue[n]
    <2>q. q # None /\ q \in Row
      BY <1>2 DEF PushAdd, PushErase, PushUpdate, Turn, TypeOK, RoundType
    <2>1. CASE PushAdd(n)
      BY <2>1, <2>q, <1>a DEF PushAdd
    <2>2. CASE PushErase(n)
      <3>1. q.sid \in Ids /\ srv[q.sid] \in Object
        BY <2>2, <2>q DEF PushErase, IsNewRow, IsLive, Row, TypeOK, ServerType
      <3>2. /\ [srv[q.sid] EXCEPT !.deleted = TRUE] \in Object
            /\ srv[q.sid].text \subseteq [srv[q.sid] EXCEPT !.deleted = TRUE].text
        BY <3>1 DEF Object
      <3> QED
        BY <2>2, <1>c, <3>1, <3>2 DEF PushErase
    <2>3. CASE PushUpdate(n)
      <3> DEFINE object == [srv[q.sid] EXCEPT !.text = IF q.textDirty THEN q.text ELSE @,
                                              !.trash = q.trash]
      <3>1. /\ q.sid \in Ids /\ q.sid # None /\ srv[q.sid] \in Object
            /\ srv[q.sid].usn = q.usn
        BY <2>3, <2>q DEF PushUpdate, IsNewRow, IsLive, Row, TypeOK, ServerType
      <3>2. srv[q.sid].text \subseteq q.text
        BY <2>q, <3>1 DEF SyncInv, QueueBased, Based
      <3>3. object \in Object /\ srv[q.sid].text \subseteq object.text
        BY <2>q, <3>1, <3>2 DEF Object, Row
      <3>4. Changed(q.sid, object)
        BY <2>3 DEF PushUpdate
      <3> QED
        BY <1>c, <3>1, <3>3, <3>4
    <2> QED
      BY <1>2, <2>1, <2>2, <2>3
  <1>3. CASE Recreate \/ RecreateLost
    <2>1. work.id \in Ids /\ queue[work.id] # None
      BY <1>3, <1>r DEF Recreate, RecreateLost
    <2>2. PICK s \in Ids : AddNote(work.id, s)
      BY <1>3 DEF Recreate, RecreateLost
    <2> QED
      BY <1>a, <2>1, <2>2
  <1>4. CASE UserStep
    BY <1>4, <1>u DEF UserStep, CreateNote, EditNote, SetNoteTrash, MoveNote,
                      MarkNoteLocalDelete, server
  <1>5. ASSUME NEW n \in Ids,
               \/ PushForget(n) \/ PushPassOver(n) \/ PushEraseRefused(n)
               \/ PushConflict(n) \/ PushMissing(n) \/ PushFails(n)
        PROVE  Grown
    BY <1>5, <1>u DEF PushForget, PushPassOver, PushEraseRefused, PushConflict,
                      PushMissing, PushFails, server
  <1>6. CASE \/ RecreateRefused \/ RecreateGiveUp \/ AnswerLost \/ AckSaved \/ AckErased
             \/ ResolveMeta \/ ResolveVanished \/ ResolveFetch \/ ResolveLost
             \/ PushDone \/ Abort
    BY <1>6, <1>u DEF RecreateRefused, RecreateGiveUp, AnswerLost, AckSaved, AckErased,
                      ResolveMeta, ResolveVanished, ResolveFetch, ResolveLost,
                      PushDone, Abort, server
  <1>7. CASE PullStep \/ ApplyStep \/ \E m \in {"full", "incr", "force"} : StartSync(m)
    BY <1>7, <1>u DEF PullStep, ApplyStep, StartSync, GetLastSyncState, GetSyncNotes,
                      PullSkipTombstone, PullTombstone, PullUpToDate, PullFetch, PullVanished,
                      Insert, PullDone, Apply, ApplyConflict, server
  <1> QED
    BY <1>1, <1>2, <1>3, <1>4, <1>5, <1>6, <1>7
       DEF Next, RoundStep, FaultStep, PushStep

\* No step replaces a text on the server by one that has not seen it.
THEOREM NothingClobbered == Spec => NoRemoteClobber
  <1>1. TypeOK /\ SyncInv /\ [Next]_vars
        => [\A s \in Ids : srv[s] # None
                => srv'[s] # None /\ srv[s].text \subseteq srv'[s].text]_vars
    BY ServerTextGrows DEF Grown
  <1> QED
    BY <1>1, SyncCorrect, PTL DEF Spec, NoRemoteClobber

-----------------------------------------------------------------------------
(* The second half of the inductive invariant                              *)

\* A row that is not under its note's own id is of a note created here, or of
\* one that is gone from the server: no live note has that id.
OwnIds ==
    /\ \A n \in Ids : Exists(n) /\ rows[n].sid # n => ~IsLive(n)
    /\ \A n \in Ids : /\ Exists(n) /\ rows[n].new => rows[n].sid = None
                      /\ queue[n] # None /\ queue[n].new => queue[n].sid = None
    /\ work.kind = "insert" => ~Exists(work.meta.sid)

\* A note is added again, or its row goes, when the server has it no longer.
Renewed ==
    /\ work.kind = "resolve" => queue[work.id].sid = work.meta.sid
    /\ work.kind = "recreate" => queue[work.id].sid = None \/ ~IsLive(queue[work.id].sid)
    /\ work.kind = "saved" => work.sent.sid \in {None, work.sid} \/ ~IsLive(work.sent.sid)
    /\ work.kind = "erased" => queue[work.id] = work.sent /\ work.sent.sid # None /\ ~IsLive(work.sent.sid)

\* Texts that are not marked dirty, texts that were sent and texts that were
\* fetched are on the server, deleted or not.
TextsHeld ==
    /\ \A n \in Ids : Exists(n) =>
         /\ rows[n].textDirty => rows[n].dirty
         /\ rows[n].sid # None /\ ~rows[n].textDirty => rows[n].text \subseteq srv[rows[n].sid].text \cup raced
    /\ \A n \in Ids : queue[n] # None /\ queue[n].sid # None /\ ~queue[n].textDirty
                      => queue[n].text \subseteq srv[queue[n].sid].text \cup raced
    /\ work.kind = "saved" => work.sent.text \subseteq srv[work.sid].text \cup raced
    /\ work.kind \in {"insert", "apply"} => work.text \subseteq srv[work.meta.sid].text

\* What a deleted note held was discarded.
TextsDiscarded ==
    /\ \A s \in Ids : srv[s] # None /\ srv[s].deleted => srv[s].text \subseteq discarded
    /\ \A n \in Ids : /\ Exists(n) /\ rows[n].del => rows[n].text \subseteq discarded
                      /\ queue[n] # None /\ queue[n].del => queue[n].text \subseteq discarded
    /\ work.kind = "erased" => work.sent.text \subseteq discarded

\* Nothing is awaited between two rounds, nor between the push and the pull.
Unasked == phase \in {"idle", "state"} => work = NoWork

EditsInv == Unasked /\ OwnIds /\ Renewed /\ TextsHeld /\ TextsDiscarded /\ NoLostEdit

\* No two changes have the same USN, and none is above the account's.
UsnsApart == \A s, t \in Ids : s # t /\ srv[s] # None /\ srv[t] # None => srv[s].usn # srv[t].usn

\* The rows have every live note of the server up to USN u at its version.
AtVersion(s) == \E n \in RowsOf(s) : rows[n].usn = srv[s].usn
Covered(u) == \A s \in Ids : IsLive(s) /\ srv[s].usn <= u => AtVersion(s)

\* An entry is the note's present, or the note has changed beyond both cursors.
Present(m) ==
    /\ srv[m.sid] # None
    /\ \/ m.usn = srv[m.sid].usn /\ m.deleted = srv[m.sid].deleted
       \/ cursor < srv[m.sid].usn /\ target < srv[m.sid].usn

\* An answer's USN is beyond both cursors, and of no other note.
Answered ==
    work.kind \in {"saved", "erased"} =>
        /\ work.usn <= susn /\ cursor < work.usn /\ target < work.usn
        /\ \A s \in Ids : IsLive(s) /\ srv[s].usn = work.usn => work.kind = "saved" /\ s = work.sid

Entries ==
    /\ phase # "pull" => page = {}
    /\ \A m \in page : Present(m)
    /\ work.kind \in {"resolve", "insert", "apply"} => Present(work.meta)
    /\ phase = "pull" /\ work # NoWork =>
         /\ work.kind \in {"insert", "apply"}
         /\ work.meta \in page /\ \A k \in page : work.meta.usn <= k.usn

\* A full round: the rows have what the list has gone past, the page and the
\* pages after it have the rest.
Listed ==
    /\ mode = "full" /\ phase \in {"push1", "state"} => after = -1
    /\ mode = "full" /\ phase = "pull" =>
         /\ snapshot
         /\ \A s \in Ids : IsLive(s) /\ srv[s].usn <= target =>
              \/ AtVersion(s)
              \/ \E m \in page : m.sid = s /\ m.usn = srv[s].usn
              \/ more /\ after < srv[s].usn /\ \A m \in page : m.usn < srv[s].usn
    /\ mode = "full" /\ phase = "push2" => Covered(target)

CursorInv ==
    /\ cursor <= susn /\ target <= susn
    /\ UsnsApart /\ Answered /\ Entries /\ Listed /\ CursorSound

IInv == TypeOK /\ SyncInv /\ EditsInv /\ CursorInv

-----------------------------------------------------------------------------
(* Who does what                                                           *)

\* The requests, and what they leave alone.
Asking ==
    \/ \E n \in Ids : PushAdd(n) \/ PushErase(n) \/ PushUpdate(n) \/ PushConflict(n) \/ PushMissing(n)
    \/ Recreate \/ RecreateLost \/ RecreateRefused
    \/ ResolveMeta \/ ResolveFetch \/ (ResolveLost /\ work'.kind = "recreate")
    \/ \E m \in page : PullFetch(m)

\* The actions that answer, or give a note up.
Settling ==
    \/ \E n \in Ids : PushForget(n) \/ PushPassOver(n) \/ PushEraseRefused(n) \/ PushFails(n)
    \/ RecreateGiveUp \/ AckSaved \/ AckErased \/ AnswerLost
    \/ ResolveVanished \/ (ResolveLost /\ work' = NoWork)

\* The actions that begin, end or move the round.
Turning ==
    \/ \E m \in {"full", "incr", "force"} : StartSync(m)
    \/ PushDone \/ Abort \/ GetLastSyncState \/ GetSyncNotes \/ PullDone
    \/ \E m \in page : PullSkipTombstone(m) \/ PullTombstone(m) \/ PullUpToDate(m) \/ PullVanished(m)
    \/ Insert \/ ApplyStep

\* Every step asks, settles, turns, or is outside the round.
LEMMA Steps ==
    ASSUME [Next]_vars
    PROVE  UNCHANGED vars \/ UserStep \/ RemoteStep \/ Asking \/ Settling \/ Turning
  <1>1. ResolveLost => (ResolveLost /\ work' = NoWork) \/ (ResolveLost /\ work'.kind = "recreate")
    BY DEF ResolveLost, NextNote, Await
  <1> QED
    BY <1>1 DEF Next, RoundStep, FaultStep, PushStep, PullStep, Asking, Settling, Turning

\* Users and other devices leave the round and the cursor alone.
LEMMA OutsideStep ==
    ASSUME UserStep \/ RemoteStep
    PROVE  UNCHANGED <<cursor, round>>
  BY DEF UserStep, RemoteStep, CreateNote, EditNote, SetNoteTrash, MoveNote, MarkNoteLocalDelete,
         RemoteCreate, RemoteEdit, RemoteTrash, RemoteDelete, db

\* A request leaves the table and the queue alone.
LEMMA AskingStep ==
    ASSUME Asking
    PROVE  UNCHANGED <<rows, cursor, phase, mode, queue, failed, pulling, discarded, raced, edits>>
  <1>1. ASSUME NEW n \in Ids, PushAdd(n) \/ PushErase(n) \/ PushUpdate(n) \/ PushConflict(n) \/ PushMissing(n)
        PROVE  UNCHANGED <<rows, cursor, phase, mode, queue, failed, pulling, discarded, raced, edits>>
    BY <1>1 DEF PushAdd, PushErase, PushUpdate, PushConflict, PushMissing, Await, db, ghost, bounds
  <1>2. CASE Recreate \/ RecreateLost \/ RecreateRefused
    BY <1>2 DEF Recreate, RecreateLost, RecreateRefused, Await, db, ghost, bounds, Fault
  <1>3. CASE ResolveMeta \/ ResolveFetch \/ \E m \in page : PullFetch(m)
    BY <1>3 DEF ResolveMeta, ResolveFetch, PullFetch, Await, db, ghost, bounds
  <1>4. CASE ResolveLost /\ work'.kind = "recreate"
    <2>1. ~NextNote(work.id, FALSE)
      BY <1>4 DEF NextNote, NoWork
    <2> QED
      BY <1>4, <2>1 DEF ResolveLost, Await, db, ghost, bounds
  <1> QED
    BY <1>1, <1>2, <1>3, <1>4 DEF Asking

\* An answer, or giving up, moves the queue and the row it is about.
LEMMA SettlingStep ==
    ASSUME TypeOK, Settling
    PROVE  /\ UNCHANGED <<srv, susn, used, edits, discarded>>
           /\ \E n \in Ids, ok \in BOOLEAN : NextNote(n, ok)
  <1>1. work.kind \in {"recreate", "saved", "erased", "conflict", "resolve"} => work.id \in Ids
    BY WorkFields DEF TypeOK, RoundType
  <1>2. ASSUME NEW n \in Ids, PushForget(n) \/ PushPassOver(n) \/ PushEraseRefused(n) \/ PushFails(n)
        PROVE  /\ UNCHANGED <<srv, susn, used, edits, discarded>>
               /\ \E ok \in BOOLEAN : NextNote(n, ok)
    BY <1>2 DEF PushForget, PushPassOver, PushEraseRefused, PushFails, Fault, bounds, ghost, server
  <1>3. CASE RecreateGiveUp \/ AckSaved \/ AckErased \/ AnswerLost \/ ResolveVanished
    <2>1. work.id \in Ids
      BY <1>1, <1>3 DEF RecreateGiveUp, AckSaved, AckErased, AnswerLost, ResolveVanished
    <2>2. \E ok \in BOOLEAN : NextNote(work.id, ok)
      BY <1>3 DEF RecreateGiveUp, AckSaved, AckErased, AnswerLost, ResolveVanished
    <2> QED
      BY <1>3, <2>1, <2>2
         DEF RecreateGiveUp, AckSaved, AckErased, AnswerLost, ResolveVanished, Fault, bounds, ghost, server
  <1>4. CASE ResolveLost /\ work' = NoWork
    <2>1. work.id \in Ids /\ NextNote(work.id, FALSE)
      BY <1>1, <1>4 DEF ResolveLost, Await, NoWork
    <2> QED
      BY <1>4, <2>1 DEF ResolveLost, bounds, ghost, server
  <1> QED
    BY <1>2, <1>3, <1>4 DEF Settling

\* A step of the round itself leaves the server alone.
LEMMA TurningStep ==
    ASSUME Turning
    PROVE  UNCHANGED <<srv, susn, edits, discarded>>
  BY DEF Turning, StartSync, PushDone, Abort, GetLastSyncState, GetSyncNotes, PullDone, PullSkipTombstone,
         PullTombstone, PullUpToDate, PullVanished, Insert, ApplyStep, Apply, ApplyConflict, Fault, bounds, ghost,
         server

\* Who writes a row.
LEMMA WritersOfRows ==
    ASSUME [Next]_vars
    PROVE  \/ rows' = rows \/ UserStep \/ (\E n \in Ids : PushForget(n)) \/ AckSaved \/ AckErased
           \/ (\E m \in page : PullTombstone(m)) \/ Insert \/ Apply \/ ApplyConflict \/ PullDone
  <1>1. Asking => rows' = rows
    BY AskingStep
  <1> QED
    BY <1>1, Steps
       DEF vars, db, RemoteStep, RemoteCreate, RemoteEdit, RemoteTrash, RemoteDelete, Settling, PushPassOver,
           PushEraseRefused, PushFails, RecreateGiveUp, AnswerLost, ResolveVanished, ResolveLost, Turning, StartSync,
           PushDone, Abort, GetLastSyncState, GetSyncNotes, PullSkipTombstone, PullUpToDate, PullVanished, ApplyStep

\* A handler of the bridge that works on a row it owns.
Handled(n) == EditNote(n) \/ (\E b \in BOOLEAN : SetNoteTrash(n, b)) \/ MoveNote(n) \/ MarkNoteLocalDelete(n)

\* It leaves the note and the version alone, takes no text away and marks what
\* it changes.
LEMMA HandledStep ==
    ASSUME TypeOK, NEW n \in Ids, Handled(n)
    PROVE  /\ Exists(n) /\ ~rows[n].del /\ rows'[n] \in Row
           /\ \A k \in Ids : k # n => rows'[k] = rows[k]
           /\ LET r == rows'[n]
                  e == rows[n]
              IN  /\ r.sid = e.sid /\ r.usn = e.usn /\ r.new = e.new /\ r.dirty = TRUE /\ e.text \subseteq r.text
                  /\ r.textDirty \/ (r.textDirty = e.textDirty /\ r.text = e.text)
                  /\ r.del => MarkNoteLocalDelete(n) /\ r.text = e.text
                  /\ EditNote(n) => edits + 1 \in r.text
                  /\ ~EditNote(n) => edits' = edits
  <1>0. /\ Exists(n) => rows[n] \in Row
        /\ rows \in [Ids -> Row \cup {None}] /\ edits \in Nat
    BY DEF TypeOK, DbType, ObservedType, Exists
  <1>1. CASE EditNote(n)
    <2> DEFINE r == Edited(rows[n], edits + 1)
    <2>1. rows[n] \in Row /\ ~rows[n].del /\ Exists(n) /\ edits' = edits + 1
      BY <1>0, <1>1 DEF EditNote, Owned, TypeText
    <2>2. r \in Row
      BY <1>0, <2>1, EditedType
    <2>3. /\ r.sid = rows[n].sid /\ r.usn = rows[n].usn /\ r.new = rows[n].new /\ r.dirty = TRUE
          /\ r.text = rows[n].text \cup {edits + 1} /\ r.textDirty = TRUE /\ r.del = rows[n].del
      BY <2>1 DEF Edited, Row
    <2>4. rows' = [rows EXCEPT ![n] = r]
      BY <1>1 DEF EditNote
    <2> HIDE DEF r
    <2> QED
      BY <1>0, <1>1, <2>1, <2>2, <2>3, <2>4
  <1>2. ASSUME NEW r \in Row, rows' = [rows EXCEPT ![n] = r], Exists(n), ~rows[n].del, edits' = edits,
               r.sid = rows[n].sid, r.usn = rows[n].usn, r.new = rows[n].new, r.dirty = TRUE,
               r.text = rows[n].text, r.textDirty = rows[n].textDirty,
               r.del => MarkNoteLocalDelete(n)
        PROVE  /\ Exists(n) /\ ~rows[n].del /\ rows'[n] \in Row /\ rows'[n] = r /\ edits' # edits + 1
               /\ \A k \in Ids : k # n => rows'[k] = rows[k]
    BY <1>0, <1>2
  <1>e. EditNote(n) => edits' = edits + 1
    BY DEF EditNote, TypeText
  <1>3. ASSUME NEW b \in BOOLEAN, SetNoteTrash(n, b)
        PROVE  \E r \in Row : /\ rows' = [rows EXCEPT ![n] = r] /\ edits' = edits /\ Exists(n) /\ ~rows[n].del
                              /\ r.sid = rows[n].sid /\ r.usn = rows[n].usn /\ r.new = rows[n].new
                              /\ r.dirty = TRUE /\ r.text = rows[n].text /\ r.textDirty = rows[n].textDirty
                              /\ ~r.del
    <2>1. rows[n] \in Row /\ ~rows[n].del /\ Exists(n) /\ edits' = edits /\ rows' = [rows EXCEPT ![n] = Trashed(rows[n], b)]
      BY <1>0, <1>3 DEF SetNoteTrash, Owned, Act
    <2>2. LET r == Trashed(rows[n], b)
          IN  /\ r \in Row /\ r.sid = rows[n].sid /\ r.usn = rows[n].usn /\ r.new = rows[n].new
              /\ r.dirty = TRUE /\ r.text = rows[n].text /\ r.textDirty = rows[n].textDirty /\ ~r.del
      BY <2>1 DEF Trashed, Row
    <2> QED
      BY <2>1, <2>2
  <1>4. ASSUME MoveNote(n)
        PROVE  \E r \in Row : /\ rows' = [rows EXCEPT ![n] = r] /\ edits' = edits /\ Exists(n) /\ ~rows[n].del
                              /\ r.sid = rows[n].sid /\ r.usn = rows[n].usn /\ r.new = rows[n].new
                              /\ r.dirty = TRUE /\ r.text = rows[n].text /\ r.textDirty = rows[n].textDirty
                              /\ ~r.del
    <2>1. rows[n] \in Row /\ ~rows[n].del /\ Exists(n) /\ edits' = edits /\ rows' = [rows EXCEPT ![n] = Moved(rows[n])]
      BY <1>0, <1>4 DEF MoveNote, Owned, Act
    <2>2. LET r == Moved(rows[n])
          IN  /\ r \in Row /\ r.sid = rows[n].sid /\ r.usn = rows[n].usn /\ r.new = rows[n].new
              /\ r.dirty = TRUE /\ r.text = rows[n].text /\ r.textDirty = rows[n].textDirty /\ ~r.del
      BY <2>1 DEF Moved, Row
    <2> QED
      BY <2>1, <2>2
  <1>5. ASSUME MarkNoteLocalDelete(n)
        PROVE  \E r \in Row : /\ rows' = [rows EXCEPT ![n] = r] /\ edits' = edits /\ Exists(n) /\ ~rows[n].del
                              /\ r.sid = rows[n].sid /\ r.usn = rows[n].usn /\ r.new = rows[n].new
                              /\ r.dirty = TRUE /\ r.text = rows[n].text /\ r.textDirty = rows[n].textDirty
    <2>1. rows[n] \in Row /\ ~rows[n].del /\ Exists(n) /\ edits' = edits /\ rows' = [rows EXCEPT ![n] = Marked(rows[n])]
      BY <1>0, <1>5 DEF MarkNoteLocalDelete, Owned, Act
    <2>2. LET r == Marked(rows[n])
          IN  /\ r \in Row /\ r.sid = rows[n].sid /\ r.usn = rows[n].usn /\ r.new = rows[n].new
              /\ r.dirty = TRUE /\ r.text = rows[n].text /\ r.textDirty = rows[n].textDirty
      BY <2>1 DEF Marked, Row
    <2> QED
      BY <2>1, <2>2
  <1>6. CASE ~EditNote(n)
    <2>1. \E r \in Row : /\ rows' = [rows EXCEPT ![n] = r] /\ edits' = edits /\ Exists(n) /\ ~rows[n].del
                         /\ r.sid = rows[n].sid /\ r.usn = rows[n].usn /\ r.new = rows[n].new
                         /\ r.dirty = TRUE /\ r.text = rows[n].text /\ r.textDirty = rows[n].textDirty
                         /\ r.del => MarkNoteLocalDelete(n)
      BY <1>3, <1>4, <1>5, <1>6 DEF Handled
    <2> QED
      BY <1>2, <1>6, <2>1
  <1> QED
    BY <1>1, <1>6

-----------------------------------------------------------------------------
(* How the server, the table, the list and the awaited answer change       *)

\* One object of the server changes: a new one appears, or a live one gets a
\* text that has seen the old one and goes only with texts that were discarded.
ServerChange(s) ==
    /\ susn' = susn + 1
    /\ srv'[s] \in Object /\ srv'[s].usn = susn + 1
    /\ \A x \in Ids : x # s => srv'[x] = srv[x]
    /\ \/ s \in Fresh /\ srv[s] = None /\ ~srv'[s].deleted
       \/ IsLive(s) /\ srv[s].text \subseteq srv'[s].text
    /\ srv'[s].deleted => srv'[s].text \subseteq discarded'
    /\ UNCHANGED <<rows, cursor, phase, mode, queue, failed, pulling>>

\* A changed server note takes the account's next USN.
LEMMA ChangedObject ==
    ASSUME ServerType, NEW s \in Ids, NEW object \in Object, Changed(s, object)
    PROVE  /\ susn' = susn + 1
           /\ srv'[s] \in Object /\ srv'[s].usn = susn + 1
           /\ srv'[s].text = object.text /\ srv'[s].deleted = object.deleted
           /\ \A x \in Ids : x # s => srv'[x] = srv[x]
  <1> DEFINE o == [object EXCEPT !.usn = susn + 1]
  <1>1. o \in Object /\ o.usn = susn + 1 /\ o.text = object.text /\ o.deleted = object.deleted
    BY DEF ServerType, Object
  <1>2. srv' = [srv EXCEPT ![s] = o] /\ susn' = susn + 1
    BY DEF Changed
  <1> HIDE DEF o
  <1> QED
    BY <1>1, <1>2 DEF ServerType

\* How the notes of the server move: each stays, or takes a higher USN and no
\* smaller text.
LEMMA ServerMoves ==
    ASSUME TypeOK, SyncInv, TextsDiscarded, [Next]_vars
    PROVE  UNCHANGED server \/ \E s \in Ids : ServerChange(s)
  <1>t. ServerType /\ edits \in Nat
    BY DEF TypeOK, ObservedType
  <1>n. ASSUME NEW s \in Ids, s \in Fresh, NEW text \in Text, Changed(s, NewObject(text)),
               UNCHANGED <<rows, cursor, phase, mode, queue, failed, pulling>>
        PROVE  ServerChange(s)
    <2>1. NewObject(text) \in Object /\ ~NewObject(text).deleted
      BY NewObjectType DEF NewObject
    <2>2. srv[s] = None
      BY <1>n DEF Fresh, SyncInv, IdsInUse
    <2> QED
      BY <1>t, <1>n, <2>1, <2>2, ChangedObject DEF ServerChange
  <1>l. ASSUME NEW s \in Ids, IsLive(s), NEW object \in Object, Changed(s, object),
               srv[s].text \subseteq object.text, object.deleted => object.text \subseteq discarded',
               UNCHANGED <<rows, cursor, phase, mode, queue, failed, pulling>>
        PROVE  ServerChange(s)
    BY <1>t, <1>l, ChangedObject DEF ServerChange
  <1>1. CASE UserStep
    BY <1>1 DEF UserStep, CreateNote, EditNote, SetNoteTrash, MoveNote, MarkNoteLocalDelete
  <1>2. CASE RemoteStep
    <2> PICK s \in Ids : RemoteCreate(s) \/ RemoteEdit(s) \/ RemoteTrash(s) \/ RemoteDelete(s)
      BY <1>2 DEF RemoteStep
    <2>u. UNCHANGED <<rows, cursor, phase, mode, queue, failed, pulling>>
      BY DEF RemoteCreate, RemoteEdit, RemoteTrash, RemoteDelete, db, round
    <2>1. CASE RemoteCreate(s)
      <3>1. {edits + 1} \in Text
        BY <1>t DEF Text
      <3>2. s \in Fresh /\ Changed(s, NewObject({edits + 1}))
        BY <2>1 DEF RemoteCreate
      <3> QED
        BY <1>n, <2>u, <3>1, <3>2
    <2>2. CASE RemoteEdit(s) \/ RemoteTrash(s) \/ RemoteDelete(s)
      <3>1. IsLive(s) /\ srv[s] \in Object /\ ~srv[s].deleted
        BY <1>t, <2>2 DEF RemoteEdit, RemoteTrash, RemoteDelete, IsLive, ServerType
      <3>2. srv[s].text \cup {edits + 1} \in SUBSET Nat
        BY <1>t, <3>1 DEF Object, Text
      <3>3. LET o == [srv[s] EXCEPT !.text = @ \cup {edits + 1}]
            IN  o \in Object /\ srv[s].text \subseteq o.text /\ ~o.deleted
        BY <3>1, <3>2 DEF Object, Text
      <3>4. LET o == [srv[s] EXCEPT !.trash = ~@]
            IN  o \in Object /\ srv[s].text \subseteq o.text /\ ~o.deleted
        BY <3>1 DEF Object
      <3>5. LET o == [srv[s] EXCEPT !.deleted = TRUE]
            IN  o \in Object /\ srv[s].text = o.text
        BY <3>1 DEF Object
      <3>6. CASE RemoteEdit(s)
        <4>1. Changed(s, [srv[s] EXCEPT !.text = @ \cup {edits + 1}])
          BY <3>6 DEF RemoteEdit
        <4> QED
          BY <1>l, <2>u, <3>1, <3>3, <4>1
      <3>7. CASE RemoteTrash(s)
        <4>1. Changed(s, [srv[s] EXCEPT !.trash = ~@])
          BY <3>7 DEF RemoteTrash
        <4> QED
          BY <1>l, <2>u, <3>1, <3>4, <4>1
      <3>8. CASE RemoteDelete(s)
        <4>1. Changed(s, [srv[s] EXCEPT !.deleted = TRUE]) /\ srv[s].text \subseteq discarded'
          BY <3>8 DEF RemoteDelete
        <4> QED
          BY <1>l, <2>u, <3>1, <3>5, <4>1
      <3> QED
        BY <2>2, <3>6, <3>7, <3>8
    <2> QED
      BY <2>1, <2>2
  <1>3. CASE Asking
    <2>u. UNCHANGED <<rows, cursor, phase, mode, queue, failed, pulling, discarded>>
      BY <1>3, AskingStep
    <2>q. \A n \in Ids : queue[n] # None => queue[n] \in Row /\ queue[n].text \in Text
      BY DEF TypeOK, RoundType, Row
    <2>1. ASSUME NEW n \in Ids, PushAdd(n) PROVE \E s \in Ids : ServerChange(s)
      <3>1. PICK s \in Ids : s \in Fresh /\ Changed(s, NewObject(queue[n].text))
        BY <2>1 DEF PushAdd, AddNote
      <3>2. queue[n].text \in Text
        BY <2>1, <2>q DEF PushAdd, Turn
      <3> QED
        BY <1>n, <2>u, <3>1, <3>2
    <2>2. CASE Recreate \/ RecreateLost
      <3>1. work.id \in Ids /\ queue[work.id] # None
        BY <2>2, WorkFields DEF Recreate, RecreateLost, SyncInv, WorkPush, TypeOK, RoundType
      <3>2. PICK s \in Ids : s \in Fresh /\ Changed(s, NewObject(queue[work.id].text))
        BY <2>2 DEF Recreate, RecreateLost, AddNote
      <3> QED
        BY <1>n, <2>u, <2>q, <3>1, <3>2
    <2>3. ASSUME NEW n \in Ids, PushErase(n) PROVE \E s \in Ids : ServerChange(s)
      <3> DEFINE q == queue[n]
      <3>1. q # None /\ q \in Row /\ q.sid \in Ids /\ q.sid # None /\ q.del /\ IsLive(q.sid) /\ srv[q.sid].usn = q.usn
        BY <2>3, <2>q, NoteSyncAssumption DEF PushErase, Turn, IsNewRow, Row
      <3>2. srv[q.sid] \in Object
        BY <1>t, <3>1 DEF IsLive, ServerType
      <3>3. LET o == [srv[q.sid] EXCEPT !.deleted = TRUE]
            IN  o \in Object /\ srv[q.sid].text = o.text
        BY <3>2 DEF Object
      <3>4. Changed(q.sid, [srv[q.sid] EXCEPT !.deleted = TRUE])
        BY <2>3 DEF PushErase
      <3>5. srv[q.sid].text \subseteq q.text /\ q.text \subseteq discarded
        BY <3>1 DEF SyncInv, QueueBased, Based, TextsDiscarded
      <3> HIDE DEF q
      <3> QED
        BY <1>l, <2>u, <3>1, <3>3, <3>4, <3>5
    <2>4. ASSUME NEW n \in Ids, PushUpdate(n) PROVE \E s \in Ids : ServerChange(s)
      <3> DEFINE q == queue[n]
      <3> DEFINE o == [srv[q.sid] EXCEPT !.text = IF q.textDirty THEN q.text ELSE @, !.trash = q.trash]
      <3>1. q # None /\ q \in Row /\ q.sid \in Ids /\ q.sid # None /\ IsLive(q.sid) /\ srv[q.sid].usn = q.usn
        BY <2>4, <2>q, NoteSyncAssumption DEF PushUpdate, Turn, IsNewRow, Row
      <3>2. srv[q.sid] \in Object /\ ~srv[q.sid].deleted
        BY <1>t, <3>1 DEF IsLive, ServerType
      <3>3. srv[q.sid].text \subseteq q.text
        BY <3>1 DEF SyncInv, QueueBased, Based
      <3>4. o \in Object /\ srv[q.sid].text \subseteq o.text /\ ~o.deleted
        BY <3>1, <3>2, <3>3 DEF Object, Row
      <3>5. Changed(q.sid, o)
        BY <2>4 DEF PushUpdate
      <3> HIDE DEF q, o
      <3> QED
        BY <1>l, <2>u, <3>1, <3>4, <3>5
    <2>5. \/ UNCHANGED server \/ Recreate \/ RecreateLost
          \/ \E n \in Ids : PushAdd(n) \/ PushErase(n) \/ PushUpdate(n)
      BY <1>3 DEF Asking, PushConflict, PushMissing, RecreateRefused, ResolveMeta, ResolveFetch, ResolveLost, PullFetch
    <2> QED
      BY <2>1, <2>2, <2>3, <2>4, <2>5
  <1>4. CASE Settling
    BY <1>4, SettlingStep DEF server
  <1>5. CASE Turning
    BY <1>5, TurningStep DEF server
  <1> QED
    BY <1>1, <1>2, <1>3, <1>4, <1>5, Steps DEF vars

\* The server's objects seen one by one: texts only grow, the dead stay dead,
\* and what is live was live or has just appeared.
LEMMA ServerObject ==
    ASSUME TypeOK, SyncInv, TextsDiscarded, [Next]_vars, NEW s \in Ids
    PROVE  /\ srv[s] # None => srv'[s] # None /\ srv[s].text \subseteq srv'[s].text
           /\ srv[s] # None /\ ~IsLive(s) => srv'[s] = srv[s]
           /\ IsLive(s)' => IsLive(s) \/ (s \in Fresh /\ srv[s] = None /\ rows' = rows)
           /\ srv'[s] # None /\ srv'[s].deleted /\ srv'[s] # srv[s] => srv'[s].text \subseteq discarded'
           /\ discarded \subseteq discarded' /\ raced \subseteq raced'
  <1>1. UNCHANGED server \/ \E x \in Ids : ServerChange(x)
    BY ServerMoves
  <1>2. \A o \in Object : o # None
    BY NoneAssumption
  <1>3. discarded \subseteq discarded' /\ raced \subseteq raced'
    <2>1. CASE UserStep \/ RemoteStep
      BY <2>1 DEF UserStep, CreateNote, EditNote, SetNoteTrash, MoveNote, MarkNoteLocalDelete, RemoteStep,
                  RemoteCreate, RemoteEdit, RemoteTrash, RemoteDelete, ghost
    <2>2. CASE Asking
      BY <2>2, AskingStep
    <2>3. CASE Settling
      <3>1. raced \subseteq raced'
        BY <2>3 DEF Settling, PushForget, PushPassOver, PushEraseRefused, PushFails, RecreateGiveUp, AckSaved,
                    AckErased, AnswerLost, ResolveVanished, ResolveLost, ghost
      <3> QED
        BY <2>3, <3>1, SettlingStep
    <2>4. CASE Turning
      <3>1. raced \subseteq raced'
        BY <2>4 DEF Turning, StartSync, PushDone, Abort, GetLastSyncState, GetSyncNotes, PullDone, PullSkipTombstone,
                    PullTombstone, PullUpToDate, PullVanished, Insert, ApplyStep, Apply, ApplyConflict, ghost
      <3> QED
        BY <2>4, <3>1, TurningStep
    <2> QED
      BY <2>1, <2>2, <2>3, <2>4, Steps DEF vars, ghost
  <1>4. CASE UNCHANGED server
    BY <1>3, <1>4 DEF server, IsLive
  <1>5. ASSUME NEW x \in Ids, ServerChange(x)
        PROVE  /\ srv[s] # None => srv'[s] # None /\ srv[s].text \subseteq srv'[s].text
               /\ srv[s] # None /\ ~IsLive(s) => srv'[s] = srv[s]
               /\ IsLive(s)' => IsLive(s) \/ (s \in Fresh /\ srv[s] = None /\ rows' = rows)
               /\ srv'[s] # None /\ srv'[s].deleted /\ srv'[s] # srv[s] => srv'[s].text \subseteq discarded'
    <2>1. CASE s = x
      BY <1>2, <1>5, <2>1 DEF ServerChange, IsLive
    <2>2. CASE s # x
      BY <1>5, <2>2 DEF ServerChange, IsLive
    <2> QED
      BY <2>1, <2>2
  <1> QED
    BY <1>1, <1>3, <1>4, <1>5

\* Where a row comes from: one note of the table seen across a step.
Born(n) == n \in Fresh /\ rows[n] = None /\ \E t \in Text : rows'[n] = NewRow(t)
Gone(n) == /\ rows'[n] = None
           /\ \/ PushForget(n)
              \/ AckErased /\ n = work.id
              \/ \E m \in page : PullTombstone(m) /\ rows[n].sid \in RowsOf(m.sid)
AckedRow(n) == AckSaved /\ n = work.id /\ rows'[n] = Acked(rows[n], work.sid, work.usn)
Inserted(n) == /\ Insert /\ n = work.meta.sid
               /\ rows'[n] = CleanRow(n, work.meta.usn, work.text, work.meta.trash)
AppliedRow(n) == /\ ApplyStep /\ n = work.id /\ SameRow(rows[n], work.before)
                 /\ rows'[n] = Applied(rows[n], work.meta, work.text)
RequeuedRow(n) == PullDone /\ snapshot /\ rows'[n] = Requeued(rows[n])

\* How rows move, and what becomes of the text of a row that goes.
LEMMA RowMoves ==
    ASSUME TypeOK, SyncInv, [Next]_vars, NEW n \in Ids
    PROVE  \/ rows'[n] = rows[n] \/ Handled(n) \/ Born(n) \/ Gone(n)
           \/ AckedRow(n) \/ Inserted(n) \/ AppliedRow(n) \/ RequeuedRow(n)
  <1>t. rows \in [Ids -> Row \cup {None}] /\ edits \in Nat
    BY DEF TypeOK, DbType, ObservedType
  <1>f. n \in Fresh => rows[n] = None
    BY DEF Fresh, SyncInv, IdsInUse, Exists
  <1>w. /\ work.kind \in {"saved", "erased", "apply"} => work.id \in Ids
        /\ work.kind \in {"insert", "apply"} => work.meta \in Meta /\ work.meta.sid \in Ids
    BY WorkFields DEF TypeOK, RoundType, Meta
  <1>1. CASE UserStep
    <2> PICK x \in Ids : CreateNote(x) \/ Handled(x)
      BY <1>1 DEF UserStep, Handled
    <2>1. CASE CreateNote(x)
      <3>1. {edits + 1} \in Text /\ rows' = [rows EXCEPT ![x] = NewRow({edits + 1})] /\ x \in Fresh
        BY <1>t, <2>1 DEF CreateNote, Text
      <3>2. x = n => Born(n)
        BY <1>t, <1>f, <3>1 DEF Born
      <3> QED
        BY <1>t, <3>1, <3>2
    <2>2. CASE Handled(x)
      BY <2>2, HandledStep
    <2> QED
      BY <2>1, <2>2
  <1>2. ASSUME NEW x \in Ids, PushForget(x) PROVE rows'[n] = rows[n] \/ Gone(n)
    BY <1>t, <1>2 DEF PushForget, Gone
  <1>3. CASE AckSaved
    BY <1>t, <1>w, <1>3 DEF AckSaved, AckedRow
  <1>4. CASE AckErased
    BY <1>t, <1>w, <1>4 DEF AckErased, Gone
  <1>5. ASSUME NEW m \in page, PullTombstone(m) PROVE rows'[n] = rows[n] \/ Gone(n)
    BY <1>t, <1>5 DEF PullTombstone, Gone
  <1>6. CASE Insert
    <2>1. rows' = [rows EXCEPT ![work.meta.sid] =
                      CleanRow(work.meta.sid, work.meta.usn, work.text, work.meta.trash)]
      BY <1>6 DEF Insert
    <2> QED
      BY <1>t, <1>6, <2>1 DEF Inserted
  <1>7. CASE Apply
    <2>1. /\ work.kind = "apply"
          /\ rows' = [rows EXCEPT ![work.id] = IF SameRow(rows[work.id], work.before)
                                               THEN Applied(@, work.meta, work.text) ELSE @]
      BY <1>7 DEF Apply
    <2> QED
      BY <1>t, <1>w, <1>7, <2>1 DEF AppliedRow, ApplyStep
  <1>8. CASE ApplyConflict
    <2>1. PICK c \in Fresh :
            /\ work.kind = "apply"
            /\ rows' = [rows EXCEPT ![c] = NewRow(rows[work.id].text),
                                    ![work.id] = IF SameRow(rows[work.id], work.before)
                                                 THEN Applied(@, work.meta, work.text) ELSE @]
      BY <1>8 DEF ApplyConflict
    <2>2. Exists(work.id) /\ rows[work.id] \in Row /\ rows[work.id].text \in Text
      BY <1>t, <1>w, <2>1 DEF SyncInv, WorkPull, Exists, Row
    <2>3. c \in Ids /\ rows[c] = None /\ c # work.id
      BY <2>1, <2>2 DEF Fresh, SyncInv, IdsInUse, Exists
    <2> QED
      BY <1>t, <1>f, <1>w, <1>8, <2>1, <2>2, <2>3 DEF AppliedRow, ApplyStep, Born
  <1>9. CASE PullDone
    BY <1>t, <1>9 DEF PullDone, RequeuedRow
  <1> QED
    BY <1>1, <1>2, <1>3, <1>4, <1>5, <1>6, <1>7, <1>8, <1>9, WritersOfRows

\* A note on the list was on it, or is the row as the list found it.
LEMMA QueueMoves ==
    ASSUME TypeOK, [Next]_vars, NEW n \in Ids, queue'[n] # None
    PROVE  queue'[n] = queue[n] \/ (rows'[n] # None /\ queue'[n] = rows'[n])
  <1>t. queue \in [Ids -> Row \cup {None}]
    BY DEF TypeOK, RoundType
  <1>d. \A t : DirtyNotes(t)[n] # None => t[n] # None /\ DirtyNotes(t)[n] = t[n]
    BY DEF DirtyNotes
  <1>e. EndRound => queue'[n] = None
    BY DEF EndRound, NoQueue
  <1>1. CASE UserStep \/ RemoteStep
    BY <1>1, OutsideStep DEF round
  <1>2. CASE Asking
    BY <1>2, AskingStep
  <1>3. CASE Settling
    BY <1>3, <1>t, SettlingStep DEF NextNote
  <1>4. CASE Turning
    <2>1. ASSUME NEW m \in {"full", "incr", "force"}, StartSync(m) PROVE rows' = rows /\ queue' = DirtyNotes(rows)
      BY <2>1 DEF StartSync
    <2>2. GetLastSyncState => rows' = rows /\ (queue' = queue \/ queue' = DirtyNotes(rows))
      BY DEF GetLastSyncState, db
    <2>3. PullDone => queue' = DirtyNotes(rows')
      BY DEF PullDone
    <2>4. CASE PushDone \/ Abort \/ GetSyncNotes \/ Insert \/ ApplyStep
               \/ \E m \in page : PullSkipTombstone(m) \/ PullTombstone(m) \/ PullUpToDate(m) \/ PullVanished(m)
      <3>1. \/ EndRound \/ queue' = queue \/ \E ok \in BOOLEAN : NextNote(work.id, ok) /\ work.kind = "apply"
        BY <2>4 DEF PushDone, Abort, GetSyncNotes, PullSkipTombstone, PullTombstone, PullUpToDate, PullVanished,
                    Insert, ApplyStep, Apply, ApplyConflict, Returned, Processed, SameRow
      <3>2. work.kind = "apply" => work.id \in Ids
        BY WorkFields DEF TypeOK, RoundType
      <3> QED
        BY <1>e, <1>t, <3>1, <3>2 DEF NextNote
    <2> QED
      BY <1>4, <1>d, <2>1, <2>2, <2>3, <2>4 DEF Turning
  <1> QED
    BY <1>1, <1>2, <1>3, <1>4, Steps DEF vars, round

Clean(r) == ~r.textDirty /\ ~r.dirty /\ ~r.new /\ ~r.del

\* A row after a step, field by field.
LEMMA RowAfter ==
    ASSUME TypeOK, SyncInv, [Next]_vars, NEW n \in Ids, Exists(n)'
    PROVE  LET r == rows'[n]
               e == rows[n]
           IN  \/ Exists(n) /\ r = e
               \/ /\ Handled(n) /\ Exists(n) /\ r.sid = e.sid /\ r.usn = e.usn /\ r.new = e.new /\ r.dirty
                  /\ e.text \subseteq r.text
                  /\ r.textDirty \/ (r.textDirty = e.textDirty /\ r.text = e.text)
                  /\ r.del => MarkNoteLocalDelete(n) /\ r.text = e.text
               \/ Born(n) /\ r.sid = None /\ ~r.textDirty /\ r.dirty /\ r.new /\ ~r.del
               \/ /\ AckedRow(n) /\ work.kind = "saved" /\ work.id = n /\ Exists(n) /\ Clean(r)
                  /\ r.sid = work.sid /\ r.usn = work.usn /\ r.text = e.text
                  /\ raced' = raced \cup (e.text \ work.sent.text)
               \/ /\ Inserted(n) /\ work.kind = "insert" /\ n = work.meta.sid /\ Clean(r)
                  /\ r.sid = n /\ r.usn = work.meta.usn /\ r.text = work.text
               \/ /\ AppliedRow(n) /\ work.kind = "apply" /\ work.id = n /\ Exists(n) /\ Clean(r)
                  /\ r.sid = e.sid /\ e.sid = work.meta.sid /\ r.usn = work.meta.usn /\ r.text = work.text
               \/ /\ RequeuedRow(n) /\ Exists(n) /\ r.sid = e.sid /\ r.usn = e.usn /\ r.text = e.text
                  /\ r.textDirty = e.textDirty
                  /\ r = e \/ (r.dirty /\ ~r.new /\ ~r.del)
  <1>r. /\ rows'[n] # None
        /\ Exists(n) => rows[n] \in Row
        /\ ~Exists(n) => rows[n] = None
    BY DEF TypeOK, DbType, Exists
  <1>w. /\ work.kind = "saved" => work.id \in Ids /\ work.sid \in Ids /\ work.usn \in Nat /\ work.sent \in Row
        /\ work.kind = "insert" => work.meta \in Meta /\ work.text \in Text
        /\ work.kind = "apply" => work.id \in Ids /\ work.meta \in Meta /\ work.text \in Text
    BY WorkFields DEF TypeOK, RoundType
  <1>1. CASE rows'[n] = rows[n]
    BY <1>1, <1>r
  <1>2. CASE Handled(n)
    BY <1>2, HandledStep
  <1>3. CASE Born(n)
    <2>1. PICK t \in Text : rows'[n] = NewRow(t)
      BY <1>3 DEF Born
    <2> QED
      BY <1>3, <2>1 DEF NewRow
  <1>4. CASE Gone(n)
    BY <1>4, <1>r DEF Gone
  <1>5. CASE AckedRow(n)
    <2>1. /\ work.kind = "saved" /\ work.id = n /\ rows'[n] = Acked(rows[n], work.sid, work.usn)
          /\ raced' = raced \cup (rows[n].text \ work.sent.text)
      BY <1>5 DEF AckedRow, AckSaved
    <2>2. Exists(n)
      BY <2>1, <1>w DEF SyncInv, WorkSaved, QueueBased
    <2> QED
      <3>1. rows[n] \in Row
        BY <1>r, <2>2
      <3>2. LET a == Acked(rows[n], work.sid, work.usn)
            IN  Clean(a) /\ a.sid = work.sid /\ a.usn = work.usn /\ a.text = rows[n].text
        BY <3>1 DEF Clean, Acked, Row
      <3> QED
        BY <1>5, <2>1, <2>2, <3>2
  <1>6. CASE Inserted(n)
    <2>1. /\ work.kind = "insert" /\ n = work.meta.sid
          /\ rows'[n] = CleanRow(n, work.meta.usn, work.text, work.meta.trash)
      BY <1>6 DEF Inserted, Insert
    <2> QED
      BY <1>6, <2>1 DEF Clean, CleanRow
  <1>7. CASE AppliedRow(n)
    <2>1. work.kind = "apply" /\ work.id = n /\ rows'[n] = Applied(rows[n], work.meta, work.text)
      BY <1>7 DEF AppliedRow, ApplyStep, Apply, ApplyConflict
    <2>2. Exists(n) /\ rows[n].sid = work.meta.sid
      BY <2>1 DEF SyncInv, WorkPull
    <2> QED
      <3>1. rows[n] \in Row
        BY <1>r, <2>2
      <3>2. LET p == Applied(rows[n], work.meta, work.text)
            IN  Clean(p) /\ p.sid = rows[n].sid /\ p.usn = work.meta.usn /\ p.text = work.text
        BY <3>1 DEF Clean, Applied, Row
      <3> QED
        BY <1>7, <2>1, <2>2, <3>2
  <1>8. CASE RequeuedRow(n)
    <2>1. rows'[n] = Requeued(rows[n])
      BY <1>8 DEF RequeuedRow
    <2>2. Exists(n)
      BY <1>r, <2>1 DEF Requeued
    <2>3. rows[n] \in Row
      BY <1>r, <2>2
    <2> QED
      BY <1>8, <2>1, <2>2, <2>3, NoneAssumption DEF Requeued, Row
  <1> QED
    BY <1>1, <1>2, <1>3, <1>4, <1>5, <1>6, <1>7, <1>8, RowMoves

\* What is awaited after a step was awaited before, and the round stands still
\* meanwhile, or it has just been asked for.
LEMMA WorkMoves ==
    ASSUME TypeOK, Unasked, [Next]_vars, work' # NoWork
    PROVE  (work' = work /\ UNCHANGED <<cursor, round>>) \/ Asking
  <1>1. CASE UserStep \/ RemoteStep
    BY <1>1, OutsideStep DEF round
  <1>2. CASE Settling
    BY <1>2, SettlingStep DEF NextNote
  <1>3. CASE Turning
    <2>1. ~EndRound /\ \A m : ~Processed(m) /\ \A n, ok : ~NextNote(n, ok)
      BY DEF EndRound, Processed, NextNote
    <2>2. ~\E m \in {"full", "incr", "force"} : StartSync(m)
      BY DEF StartSync, Unasked
    <2>3. ~Apply /\ ~ApplyConflict
      BY <2>1 DEF Apply, ApplyConflict, Returned
    <2>4. ~PushDone
      BY <2>1 DEF PushDone
    <2>5. ~GetLastSyncState /\ ~GetSyncNotes /\ ~PullDone /\ ~Abort /\ ~Insert
      BY <2>1 DEF GetLastSyncState, GetSyncNotes, PullDone, Abort, Insert, Unasked
    <2>6. ~\E m \in page : PullSkipTombstone(m) \/ PullTombstone(m) \/ PullUpToDate(m) \/ PullVanished(m)
      BY <2>1 DEF PullSkipTombstone, PullTombstone, PullUpToDate, PullVanished
    <2> QED
      BY <1>3, <2>2, <2>3, <2>4, <2>5, <2>6 DEF Turning, ApplyStep
  <1>4. CASE UNCHANGED vars
    BY <1>4 DEF vars, db, round
  <1> QED
    BY <1>1, <1>2, <1>3, <1>4, Steps

\* Who asks for what.
LEMMA AskedFor ==
    ASSUME Asking
    PROVE  /\ work'.kind = "saved" => Recreate \/ \E n \in Ids : PushAdd(n) \/ PushUpdate(n)
           /\ work'.kind = "erased" => \E n \in Ids : PushErase(n)
           /\ work'.kind = "resolve" => ResolveMeta
           /\ work'.kind = "recreate" => \/ RecreateLost \/ RecreateRefused \/ ResolveLost
                                         \/ \E n \in Ids : PushMissing(n)
           /\ work'.kind = "insert" => \E m \in page : PullFetch(m)
           /\ work'.kind = "apply" => ResolveFetch \/ \E m \in page : PullFetch(m)
  <1>1. \A n \in Ids : /\ PushAdd(n) \/ PushUpdate(n) => work'.kind = "saved"
                       /\ PushErase(n) => work'.kind = "erased"
                       /\ PushConflict(n) => work'.kind = "conflict"
                       /\ PushMissing(n) => work'.kind = "recreate"
    BY DEF PushAdd, PushUpdate, PushErase, PushConflict, PushMissing, Await
  <1>2. /\ Recreate => work'.kind = "saved"
        /\ RecreateLost => work'.kind = "recreate"
        /\ ResolveMeta => work'.kind = "resolve"
        /\ ResolveFetch => work'.kind = "apply"
        /\ \A m \in page : PullFetch(m) => work'.kind \in {"insert", "apply"}
    BY DEF Recreate, RecreateLost, ResolveMeta, ResolveFetch, PullFetch, Await
  <1>3. RecreateRefused => work'.kind = work.kind /\ work.kind = "recreate"
    BY DEF RecreateRefused, Await
  <1> QED
    BY <1>1, <1>2, <1>3 DEF Asking

-----------------------------------------------------------------------------
(* The first half of the invariant is kept                                 *)

\* No step leaves a request behind when a round ends or asks for the state.
LEMMA UnaskedStep ==
    ASSUME TypeOK, SyncInv, Unasked, [Next]_vars
    PROVE  Unasked'
  <1> SUFFICES ASSUME phase' \in {"idle", "state"}, work' # NoWork PROVE FALSE
    BY DEF Unasked
  <1>1. CASE work' = work /\ UNCHANGED round
    BY <1>1 DEF Unasked, round
  <1>2. CASE Asking
    <2>1. phase' = phase
      BY <1>2, AskingStep
    <2>2. ~\E n \in Ids : PushAdd(n) \/ PushErase(n) \/ PushUpdate(n) \/ PushConflict(n) \/ PushMissing(n)
      BY <2>1 DEF PushAdd, PushErase, PushUpdate, PushConflict, PushMissing, Turn, Pushing
    <2>3. ~\E m \in page : PullFetch(m)
      BY <2>1 DEF PullFetch, Head
    <2>4. work = NoWork
      BY <2>1 DEF Unasked
    <2>5. ~(Recreate \/ RecreateLost \/ RecreateRefused \/ ResolveMeta \/ ResolveFetch \/ ResolveLost)
      BY <2>4 DEF Recreate, RecreateLost, RecreateRefused, ResolveMeta, ResolveFetch, ResolveLost, NoWork
    <2> QED
      BY <1>2, <2>2, <2>3, <2>5 DEF Asking
  <1> QED
    BY <1>1, <1>2, WorkMoves

\* Every step keeps local ids apart from those of other devices' live notes.
LEMMA OwnIdsStep ==
    ASSUME TypeOK, SyncInv, EditsInv, [Next]_vars
    PROVE  OwnIds'
  <1>s. \A s \in Ids : IsLive(s)' => IsLive(s) \/ (s \in Fresh /\ srv[s] = None /\ rows' = rows)
    BY ServerObject DEF EditsInv
  <1>u. \A x \in Ids : Exists(x) \/ srv[x] # None => x \notin Fresh
    BY DEF SyncInv, IdsInUse, Fresh
  <1>1. ASSUME NEW n \in Ids, Exists(n)', rows'[n].sid # n PROVE ~IsLive(n)'
    <2> SUFFICES ASSUME IsLive(n)' PROVE FALSE
      OBVIOUS
    <2>1. IsLive(n)
      <3> SUFFICES ASSUME n \in Fresh, rows' = rows PROVE FALSE
        BY <1>s
      <3> QED
        BY <1>u, <1>1 DEF Exists
    <2>2. Exists(n) => rows[n].sid = n
      BY <2>1 DEF EditsInv, OwnIds
    <2>3. n \notin Fresh
      BY <1>u, <2>1 DEF IsLive
    <2>4. ~(work.kind = "saved" /\ work.id = n /\ rows'[n].sid = work.sid /\ Exists(n))
      <3> SUFFICES ASSUME work.kind = "saved", work.id = n, rows'[n].sid = work.sid, Exists(n) PROVE FALSE
        OBVIOUS
      <3>1. work.sent.sid = n
        BY <2>2 DEF SyncInv, WorkSaved, QueueBased
      <3>2. n # None
        BY NoteSyncAssumption
      <3> QED
        BY <1>1, <2>1, <3>1, <3>2 DEF EditsInv, Renewed
    <2> QED
      BY <1>1, <2>2, <2>3, <2>4, RowAfter DEF Born
  <1>2. ASSUME NEW n \in Ids, Exists(n)', rows'[n].new PROVE rows'[n].sid = None
    BY <1>2, RowAfter DEF EditsInv, OwnIds, Clean
  <1>3. ASSUME NEW n \in Ids, queue'[n] # None, queue'[n].new PROVE queue'[n].sid = None
    <2>1. CASE queue'[n] = queue[n]
      BY <1>3, <2>1 DEF EditsInv, OwnIds
    <2>2. CASE Exists(n)' /\ queue'[n] = rows'[n]
      BY <1>2, <1>3, <2>2
    <2> QED
      BY <1>3, <2>1, <2>2, QueueMoves DEF Exists
  <1>4. ASSUME work'.kind = "insert" PROVE rows'[work'.meta.sid] = None
    <2>0. work' # NoWork
      BY <1>4 DEF NoWork
    <2>1. CASE work' = work
      <3>1. work.meta.sid \in Ids /\ srv[work.meta.sid] # None /\ ~Exists(work.meta.sid)
        BY <1>4, <2>1, WorkFields DEF EditsInv, OwnIds, SyncInv, WorkPull, Based, TypeOK, RoundType, Meta
      <3>2. work.meta.sid \notin Fresh
        BY <1>u, <3>1
      <3>3. ~Insert
        BY <2>0, <2>1 DEF Insert, Processed
      <3>4. work.kind = "insert" /\ work'.meta = work.meta
        BY <1>4, <2>1
      <3> QED
        BY <3>1, <3>2, <3>3, <3>4, RowAfter DEF Exists, Born, Inserted
    <2>2. CASE Asking
      <3>1. PICK m \in page : PullFetch(m)
        BY <1>4, <2>2, AskedFor
      <3>2. IsLive(m.sid) /\ m.sid \in Ids /\ rows' = rows
        BY <3>1 DEF PullFetch, db, TypeOK, RoundType, Meta
      <3>3. RowsOf(m.sid) = {} /\ work'.meta = m
        BY <1>4, <3>1 DEF PullFetch, Await
      <3>4. ~Exists(m.sid)
        BY <3>2, <3>3 DEF RowsOf, EditsInv, OwnIds
      <3> QED
        BY <3>2, <3>3, <3>4 DEF Exists
    <2> QED
      BY <2>0, <2>1, <2>2, WorkMoves DEF EditsInv
  <1> QED
    BY <1>1, <1>2, <1>3, <1>4 DEF OwnIds, Exists

\* What the list and the answers point at is there.
LEMMA Pointers ==
    ASSUME TypeOK, SyncInv
    PROVE  /\ \A n \in Ids : Exists(n) => rows[n] \in Row /\ (rows[n].sid # None => rows[n].sid \in Ids /\ srv[rows[n].sid] # None)
           /\ \A n \in Ids : queue[n] # None =>
                /\ queue[n] \in Row
                /\ queue[n].sid # None => queue[n].sid \in Ids /\ srv[queue[n].sid] # None
           /\ work.kind = "saved" => /\ work.id \in Ids /\ queue[work.id] # None /\ queue[work.id] = work.sent
                                     /\ work.sid \in Ids /\ srv[work.sid] # None
           /\ work.kind \in {"erased", "recreate", "resolve", "conflict"} => work.id \in Ids /\ queue[work.id] # None
           /\ work.kind \in {"insert", "apply", "resolve"} => work.meta.sid \in Ids /\ srv[work.meta.sid] # None
           /\ \A m \in page : m.sid \in Ids
  <1>1. \A r \in Row : r.sid # None => r.sid \in Ids
    BY DEF Row
  <1>2. \A n \in Ids : Exists(n) => rows[n] \in Row /\ (rows[n].sid # None => rows[n].sid \in Ids /\ srv[rows[n].sid] # None)
    BY <1>1 DEF TypeOK, DbType, SyncInv, RowsBased, Based, Exists
  <1>3. \A n \in Ids : queue[n] # None => queue[n] \in Row /\ (queue[n].sid # None => queue[n].sid \in Ids /\ srv[queue[n].sid] # None)
    BY <1>1 DEF TypeOK, RoundType, SyncInv, QueueBased, Based
  <1>4. \A m \in Meta : m.sid \in Ids
    BY DEF Meta
  <1>5. work.kind = "saved" => /\ work.id \in Ids /\ queue[work.id] # None /\ queue[work.id] = work.sent
                               /\ work.sid \in Ids /\ srv[work.sid] # None
    BY WorkFields DEF TypeOK, RoundType, SyncInv, WorkSaved, Based
  <1>6. work.kind \in {"erased", "recreate", "resolve", "conflict"} => work.id \in Ids /\ queue[work.id] # None
    BY WorkFields DEF TypeOK, RoundType, SyncInv, WorkPush
  <1>7. work.kind \in {"insert", "apply", "resolve"} => work.meta.sid \in Ids /\ srv[work.meta.sid] # None
    BY <1>4, WorkFields DEF TypeOK, RoundType, SyncInv, WorkPull, WorkPush, Based
  <1>8. \A m \in page : m.sid \in Ids
    BY <1>4 DEF TypeOK, RoundType
  <1> QED
    BY <1>2, <1>3, <1>5, <1>6, <1>7, <1>8

\* IsLive on the objects of another moment.
LiveIn(objects, s) == objects[s] # None /\ ~objects[s].deleted

\* A note is added again only after the server has lost it.
LEMMA RenewedStep ==
    ASSUME TypeOK, SyncInv, EditsInv, [Next]_vars
    PROVE  Renewed'
  <1>d. \A s \in Ids : srv[s] # None /\ ~IsLive(s) => ~LiveIn(srv', s)
    BY ServerObject DEF EditsInv, IsLive, LiveIn
  <1>w. work' # NoWork => (work' = work /\ UNCHANGED queue) \/ (Asking /\ UNCHANGED queue)
    BY WorkMoves, AskingStep DEF EditsInv, round
  <1>k. work'.kind # "none" => work' # NoWork
    BY DEF NoWork
  <1>1. ASSUME work'.kind = "resolve" PROVE queue'[work'.id].sid = work'.meta.sid
    <2>1. CASE work' = work /\ UNCHANGED queue
      BY <1>1, <2>1 DEF EditsInv, Renewed
    <2>2. CASE Asking /\ UNCHANGED queue
      <3>1. /\ work.kind = "conflict"
            /\ work' = [kind |-> "resolve", id |-> work.id, meta |-> MetaOf(work.sid)]
        BY <1>1, <2>2, AskedFor DEF ResolveMeta, Await
      <3>2. queue[work.id].sid = work.sid
        BY <3>1 DEF SyncInv, WorkPush
      <3> QED
        BY <2>2, <3>1, <3>2 DEF MetaOf
    <2> QED
      BY <1>w, <1>k, <1>1, <2>1, <2>2
  <1>2. ASSUME work'.kind = "recreate" PROVE queue'[work'.id].sid = None \/ ~LiveIn(srv', queue'[work'.id].sid)
    <2>1. queue' = queue
      BY <1>w, <1>k, <1>2
    <2>2. work'.id \in Ids /\ queue[work'.id] # None /\ (queue[work'.id].sid = None \/ ~IsLive(queue[work'.id].sid))
      <3>1. CASE work' = work
        BY <1>2, <3>1, Pointers DEF EditsInv, Renewed
      <3>2. ASSUME NEW n \in Ids, PushMissing(n)
            PROVE  work'.id \in Ids /\ queue[work'.id] # None /\ (queue[work'.id].sid = None \/ ~IsLive(queue[work'.id].sid))
        BY <3>2 DEF PushMissing, Turn, Await
      <3>3. CASE RecreateLost \/ RecreateRefused
        <4>1. work.kind = "recreate" /\ work'.id = work.id
          <5>1. CASE RecreateLost
            BY <5>1 DEF RecreateLost, Await
          <5>2. CASE RecreateRefused
            BY <5>2 DEF RecreateRefused, Await
          <5> QED
            BY <3>3, <5>1, <5>2
        <4> QED
          BY <4>1, Pointers DEF EditsInv, Renewed
      <3>4. CASE ResolveLost
        <4>1. work.kind = "resolve" /\ ~IsLive(work.meta.sid) /\ work'.id = work.id
          BY <1>2, <3>4 DEF ResolveLost, Await, NextNote, NoWork
        <4> QED
          BY <4>1, Pointers DEF EditsInv, Renewed
      <3> QED
        BY <1>w, <1>k, <1>2, <3>1, <3>2, <3>3, <3>4, AskedFor
    <2>3. queue[work'.id].sid # None => queue[work'.id].sid \in Ids /\ srv[queue[work'.id].sid] # None
      BY <2>2, Pointers
    <2> QED
      BY <1>d, <2>1, <2>2, <2>3
  <1>3. ASSUME work'.kind = "saved" PROVE work'.sent.sid \in {None, work'.sid} \/ ~LiveIn(srv', work'.sent.sid)
    <2>1. CASE work' = work
      <3>1. work.sent.sid # None => work.sent.sid \in Ids /\ srv[work.sent.sid] # None
        BY <1>3, <2>1, Pointers
      <3> QED
        BY <1>d, <1>3, <2>1, <3>1 DEF EditsInv, Renewed
    <2>2. ASSUME NEW n \in Ids, PushAdd(n) PROVE work'.sent.sid = None
      BY <2>2 DEF PushAdd, Await, Turn, IsNewRow, EditsInv, OwnIds
    <2>3. ASSUME NEW n \in Ids, PushUpdate(n) PROVE work'.sent.sid = work'.sid
      BY <2>3 DEF PushUpdate, Await
    <2>4. CASE Recreate
      <3>1. work.kind = "recreate" /\ work'.sent = queue[work.id]
        BY <2>4 DEF Recreate, Await
      <3>2. work'.sent.sid # None => work'.sent.sid \in Ids /\ srv[work'.sent.sid] # None /\ ~IsLive(work'.sent.sid)
        BY <3>1, Pointers DEF EditsInv, Renewed
      <3> QED
        BY <1>d, <3>2
    <2> QED
      BY <1>w, <1>k, <1>3, <2>1, <2>2, <2>3, <2>4, AskedFor
  <1>4. ASSUME work'.kind = "erased"
        PROVE  queue'[work'.id] = work'.sent /\ work'.sent.sid # None /\ ~LiveIn(srv', work'.sent.sid)
    <2>1. CASE work' = work /\ UNCHANGED queue
      <3>1. queue[work.id] = work.sent /\ work.sent.sid # None /\ ~IsLive(work.sent.sid)
        BY <1>4, <2>1 DEF EditsInv, Renewed
      <3>2. work.sent.sid \in Ids /\ srv[work.sent.sid] # None
        BY <1>4, <2>1, <3>1, Pointers
      <3> QED
        BY <1>d, <2>1, <3>1, <3>2
    <2>2. ASSUME NEW n \in Ids, PushErase(n), UNCHANGED queue
          PROVE  queue'[work'.id] = work'.sent /\ work'.sent.sid # None /\ ~LiveIn(srv', work'.sent.sid)
      <3>1. queue[n].sid # None /\ queue[n].sid \in Ids /\ work'.id = n /\ work'.sent = queue[n]
        BY <2>2, Pointers DEF PushErase, Await, Turn, IsNewRow
      <3>2. Changed(queue[n].sid, [srv[queue[n].sid] EXCEPT !.deleted = TRUE]) /\ srv[queue[n].sid] \in Object
        BY <2>2, <3>1 DEF PushErase, IsLive, TypeOK, ServerType
      <3>3. LET o == [srv[queue[n].sid] EXCEPT !.deleted = TRUE] IN o \in Object /\ o.deleted
        BY <3>2 DEF Object
      <3>4. srv'[queue[n].sid].deleted
        BY <3>1, <3>2, <3>3, ChangedObject DEF TypeOK
      <3> QED
        BY <2>2, <3>1, <3>4 DEF LiveIn
    <2> QED
      BY <1>w, <1>k, <1>4, <2>1, <2>2, AskedFor
  <1> QED
    BY <1>1, <1>2, <1>3, <1>4 DEF Renewed, IsLive, LiveIn

\* Text that is added to a server note is in it.
LEMMA AddedText ==
    ASSUME TypeOK, SyncInv, NEW n \in Ids, queue[n] # None, NEW s \in Ids, AddNote(n, s)
    PROVE  srv'[s].text = queue[n].text
  <1>1. NewObject(queue[n].text) \in Object /\ NewObject(queue[n].text).text = queue[n].text
    BY NewObjectType DEF TypeOK, RoundType, Row, NewObject
  <1> QED
    BY <1>1, ChangedObject DEF AddNote, TypeOK

\* Texts that are not dirty stay on the server, whatever is sent, fetched or
\* answered late.
LEMMA TextsHeldStep ==
    ASSUME TypeOK, SyncInv, EditsInv, [Next]_vars
    PROVE  TextsHeld'
  <1>g. /\ \A s \in Ids : srv[s] # None => srv[s].text \subseteq srv'[s].text
        /\ raced \subseteq raced'
    <2>1. raced \subseteq raced'
      BY NoteSyncAssumption, ServerObject DEF EditsInv
    <2> QED
      BY <2>1, ServerObject DEF EditsInv
  <1>h. TextsHeld
    BY DEF EditsInv
  <1>w. work' # NoWork => work' = work \/ (Asking /\ UNCHANGED raced)
    BY WorkMoves, AskingStep DEF EditsInv
  <1>k. work'.kind # "none" => work' # NoWork
    BY DEF NoWork
  <1>1. ASSUME NEW n \in Ids, Exists(n)'
        PROVE  /\ rows'[n].textDirty => rows'[n].dirty
               /\ rows'[n].sid # None /\ ~rows'[n].textDirty => rows'[n].text \subseteq srv'[rows'[n].sid].text \cup raced'
    <2> DEFINE r == rows'[n]
               e == rows[n]
    <2>1. CASE Exists(n) /\ r.sid = e.sid /\ r.textDirty = e.textDirty /\ r.text = e.text /\ (e.dirty => r.dirty)
      <3>1. e.sid # None => srv[e.sid] # None /\ e.sid \in Ids
        BY <2>1, Pointers
      <3> QED
        BY <1>g, <1>h, <2>1, <3>1 DEF TextsHeld
    <2>2. CASE work.kind = "saved" /\ work.id = n /\ Clean(r) /\ r.sid = work.sid /\ r.text = e.text
                 /\ raced' = raced \cup (e.text \ work.sent.text)
      <3>1. work.sid \in Ids /\ srv[work.sid] # None
        BY <2>2, Pointers
      <3>2. work.sent.text \subseteq srv[work.sid].text \cup raced
        BY <1>h, <2>2 DEF TextsHeld
      <3> QED
        BY <1>g, <2>2, <3>1, <3>2 DEF Clean
    <2>3. CASE work.kind \in {"insert", "apply"} /\ Clean(r) /\ r.sid = work.meta.sid /\ r.text = work.text
      <3>1. work.meta.sid \in Ids /\ srv[work.meta.sid] # None
        BY <2>3, Pointers
      <3>2. work.text \subseteq srv[work.meta.sid].text
        BY <1>h, <2>3 DEF TextsHeld
      <3> QED
        BY <1>g, <2>3, <3>1, <3>2 DEF Clean
    <2>4. CASE r.textDirty /\ r.dirty
      BY <2>4
    <2>5. CASE r.sid = None /\ ~r.textDirty
      BY <2>5
    <2> QED
      BY <1>1, <2>1, <2>2, <2>3, <2>4, <2>5, RowAfter
  <1>2. ASSUME NEW n \in Ids, queue'[n] # None, queue'[n].sid # None, ~queue'[n].textDirty
        PROVE  queue'[n].text \subseteq srv'[queue'[n].sid].text \cup raced'
    <2>1. CASE queue'[n] = queue[n]
      <3>1. srv[queue[n].sid] # None /\ queue[n].sid \in Ids
        BY <1>2, <2>1, Pointers
      <3> QED
        BY <1>2, <1>g, <1>h, <2>1, <3>1 DEF TextsHeld
    <2>2. CASE Exists(n)' /\ queue'[n] = rows'[n]
      BY <1>1, <1>2, <2>2
    <2> QED
      BY <1>2, <2>1, <2>2, QueueMoves DEF Exists
  <1>3. ASSUME work'.kind = "saved" PROVE work'.sent.text \subseteq srv'[work'.sid].text \cup raced'
    <2>1. CASE work' = work
      BY <1>3, <1>g, <1>h, <2>1, Pointers DEF TextsHeld
    <2>2. ASSUME NEW n \in Ids, PushAdd(n) PROVE work'.sent.text \subseteq srv'[work'.sid].text
      <3>1. PICK s \in Ids : AddNote(n, s) /\ work'.sid = s /\ work'.sent = queue[n]
        BY <2>2 DEF PushAdd, Await
      <3>2. queue[n] # None
        BY <2>2 DEF PushAdd, Turn
      <3> QED
        BY <3>1, <3>2, AddedText
    <2>3. CASE Recreate
      <3>1. PICK s \in Ids : AddNote(work.id, s) /\ work'.sid = s /\ work'.sent = queue[work.id]
        BY <2>3 DEF Recreate, Await
      <3>2. work.id \in Ids /\ queue[work.id] # None
        BY <2>3, Pointers DEF Recreate
      <3> QED
        BY <3>1, <3>2, AddedText
    <2>4. ASSUME NEW n \in Ids, PushUpdate(n), UNCHANGED raced PROVE work'.sent.text \subseteq srv'[work'.sid].text \cup raced'
      <3> DEFINE q == queue[n]
                 o == [srv[q.sid] EXCEPT !.text = IF q.textDirty THEN q.text ELSE @, !.trash = q.trash]
      <3>1. q # None /\ q \in Row /\ q.sid \in Ids /\ q.sid # None /\ srv[q.sid] \in Object
        BY <2>4, Pointers DEF PushUpdate, Turn, IsNewRow, TypeOK, ServerType
      <3>2. o \in Object /\ o.text = IF q.textDirty THEN q.text ELSE srv[q.sid].text
        BY <3>1 DEF Object, Row
      <3>3. Changed(q.sid, o) /\ work'.sid = q.sid /\ work'.sent = q
        BY <2>4 DEF PushUpdate, Await
      <3> HIDE DEF o
      <3>4. srv'[q.sid].text = o.text
        BY <3>1, <3>2, <3>3, ChangedObject DEF TypeOK
      <3>5. ~q.textDirty => q.text \subseteq srv[q.sid].text \cup raced
        BY <1>h, <3>1 DEF TextsHeld
      <3> QED
        BY <2>4, <3>2, <3>3, <3>4, <3>5
    <2> QED
      BY <1>w, <1>k, <1>3, <2>1, <2>2, <2>3, <2>4, AskedFor
  <1>4. ASSUME work'.kind \in {"insert", "apply"} PROVE work'.text \subseteq srv'[work'.meta.sid].text
    <2>1. CASE work' = work
      BY <1>4, <1>g, <1>h, <2>1, Pointers DEF TextsHeld
    <2>2. CASE ResolveFetch \/ \E m \in page : PullFetch(m)
      <3>1. \E s : work'.text = srv[s].text /\ work'.meta.sid = s /\ srv' = srv
        BY <2>2 DEF ResolveFetch, PullFetch, Await, server
      <3> QED
        BY <3>1
    <2> QED
      BY <1>w, <1>k, <1>4, <2>1, <2>2, AskedFor
  <1> QED
    BY <1>1, <1>2, <1>3, <1>4 DEF TextsHeld, Exists

\* What a deleted note holds stays discarded.
LEMMA TextsDiscardedStep ==
    ASSUME TypeOK, SyncInv, EditsInv, [Next]_vars
    PROVE  TextsDiscarded'
  <1>h. TextsDiscarded
    BY DEF EditsInv
  <1>g. discarded \subseteq discarded'
    BY <1>h, NoteSyncAssumption, ServerObject
  <1>1. ASSUME NEW s \in Ids, srv'[s] # None, srv'[s].deleted PROVE srv'[s].text \subseteq discarded'
    <2>1. srv'[s] = srv[s] \/ srv'[s].text \subseteq discarded'
      BY <1>1, <1>h, ServerObject
    <2> QED
      BY <1>1, <1>g, <1>h, <2>1 DEF TextsDiscarded
  <1>2. ASSUME NEW n \in Ids, Exists(n)', rows'[n].del PROVE rows'[n].text \subseteq discarded'
    <2>1. CASE Exists(n) /\ rows'[n].text = rows[n].text /\ rows[n].del
      BY <1>g, <1>h, <2>1 DEF TextsDiscarded
    <2>2. CASE MarkNoteLocalDelete(n) /\ rows'[n].text = rows[n].text
      BY <2>2 DEF MarkNoteLocalDelete
    <2> QED
      BY <1>2, <2>1, <2>2, RowAfter DEF Clean
  <1>3. ASSUME NEW n \in Ids, queue'[n] # None, queue'[n].del PROVE queue'[n].text \subseteq discarded'
    <2>1. CASE queue'[n] = queue[n]
      BY <1>3, <1>g, <1>h, <2>1 DEF TextsDiscarded
    <2>2. CASE Exists(n)' /\ queue'[n] = rows'[n]
      BY <1>2, <1>3, <2>2
    <2> QED
      BY <1>3, <2>1, <2>2, QueueMoves DEF Exists
  <1>4. ASSUME work'.kind = "erased" PROVE work'.sent.text \subseteq discarded'
    <2>1. CASE work' = work
      BY <1>4, <1>g, <1>h, <2>1 DEF TextsDiscarded
    <2>2. ASSUME NEW n \in Ids, PushErase(n) PROVE work'.sent.text \subseteq discarded
      BY <1>h, <2>2 DEF PushErase, Turn, Await, TextsDiscarded
    <2>3. work' # NoWork
      BY <1>4 DEF NoWork
    <2> QED
      BY <1>g, <1>4, <2>1, <2>2, <2>3, WorkMoves, AskedFor DEF EditsInv
  <1> QED
    BY <1>1, <1>2, <1>3, <1>4 DEF TextsDiscarded, Exists

\* A row that goes goes by a deletion.
LEMMA RowGone ==
    ASSUME TypeOK, SyncInv, [Next]_vars, NEW n \in Ids, Exists(n), ~Exists(n)'
    PROVE  Gone(n)
  <1>r. rows[n] \in Row
    BY DEF TypeOK, DbType, Exists
  <1>t. \A r \in Row : r # None
    BY NoneAssumption
  <1>w. /\ work.kind = "saved" => work.sid \in Ids /\ work.usn \in Nat
        /\ work.kind = "insert" => work.meta \in Meta /\ work.text \in Text
        /\ work.kind = "apply" => work.meta \in Meta /\ work.text \in Text
    BY WorkFields DEF TypeOK, RoundType
  <1>1. ~Handled(n)
    BY <1>t, HandledStep DEF Exists
  <1>2. ~Born(n)
    BY DEF Born, Exists
  <1>3. ~AckedRow(n)
    BY <1>r, <1>t, <1>w, AckedType DEF AckedRow, AckSaved, Exists
  <1>4. ~Inserted(n)
    <2> SUFFICES ASSUME Inserted(n) PROVE FALSE
      OBVIOUS
    <2>1. work.kind = "insert" /\ rows'[n] = CleanRow(n, work.meta.usn, work.text, work.meta.trash)
      BY DEF Inserted, Insert
    <2>2. work.meta.usn \in Nat /\ work.meta.trash \in BOOLEAN /\ work.text \in Text
      BY <1>w, <2>1 DEF Meta
    <2>3. rows'[n] \in Row
      BY <2>1, <2>2, CleanRowType
    <2> QED
      BY <1>t, <2>3 DEF Exists
  <1>5. ~AppliedRow(n)
    BY <1>r, <1>t, <1>w, AppliedType DEF AppliedRow, ApplyStep, Apply, ApplyConflict, Exists
  <1>6. ~RequeuedRow(n)
    <2> SUFFICES ASSUME RequeuedRow(n) PROVE FALSE
      OBVIOUS
    <2>1. rows'[n] = Requeued(rows[n])
      BY DEF RequeuedRow
    <2>2. Requeued(rows[n]) \in Row
      BY <1>r DEF Requeued, Row
    <2> QED
      BY <1>t, <2>1, <2>2 DEF Exists
  <1> QED
    BY <1>1, <1>2, <1>3, <1>4, <1>5, <1>6, RowMoves DEF Exists

\* An edit that is neither discarded nor raced, seen in a row or on the server,
\* is seen there after the step.
Seen(e) == \/ \E n \in Ids : Exists(n) /\ e \in rows[n].text
           \/ \E s \in Ids : IsLive(s) /\ e \in srv[s].text

\* An edit that a row is rid of was seen by the server, discarded or raced.
LEMMA SeenInRow ==
    ASSUME TypeOK, SyncInv, EditsInv, [Next]_vars, NEW n \in Ids, Exists(n),
           NEW e \in rows[n].text, e \notin discarded' \cup raced'
    PROVE  Seen(e)'
  <1>g. discarded \subseteq discarded' /\ raced \subseteq raced'
    BY ServerObject DEF EditsInv
  <1>e. TextsHeld /\ TextsDiscarded /\ OwnIds
    BY DEF EditsInv
  <1>1. ASSUME Exists(n)', rows[n].text \subseteq rows'[n].text PROVE Seen(e)'
    BY <1>1 DEF Seen, Exists
  <1>2. CASE ~Exists(n)'
    <2>1. Gone(n)
      BY <1>2, RowGone
    <2>2. CASE PushForget(n)
      <3>1. queue[n] # None /\ queue[n].del /\ raced' = raced \cup (rows[n].text \ queue[n].text)
        BY <2>2 DEF PushForget, Turn
      <3> QED
        BY <1>e, <1>g, <3>1 DEF TextsDiscarded
    <2>3. CASE AckErased /\ n = work.id
      <3>1. work.kind = "erased" /\ raced' = raced \cup (rows[n].text \ work.sent.text)
        BY <2>3 DEF AckErased
      <3> QED
        BY <1>e, <1>g, <3>1 DEF TextsDiscarded
    <2>4. ASSUME NEW m \in page, PullTombstone(m), rows[n].sid \in RowsOf(m.sid) PROVE e \in raced'
      BY <2>4 DEF PullTombstone
    <2> QED
      BY <2>1, <2>2, <2>3, <2>4 DEF Gone
  <1>3. CASE Exists(n)' /\ AppliedRow(n)
    <2>1. /\ work.kind = "apply" /\ work.id = n /\ rows[n].sid = work.meta.sid /\ rows'[n].text = work.text
          /\ rows[n].text = work.before.text /\ rows[n].dirty = work.before.dirty
      <3>1. rows'[n] = Applied(rows[n], work.meta, work.text) /\ rows[n] \in Row /\ work.kind = "apply" /\ work.id = n
        BY <1>3 DEF AppliedRow, ApplyStep, Apply, ApplyConflict, TypeOK, DbType, Exists
      <3>2. rows'[n].text = work.text
        BY <3>1 DEF Applied, Row
      <3> QED
        BY <1>3, <3>1, <3>2 DEF AppliedRow, SameRow, SyncInv, WorkPull
    <2>2. CASE work.before.text = work.text
      BY <1>1, <1>3, <2>1, <2>2
    <2>3. CASE Apply /\ ~work.before.dirty
      <3>1. work.meta.sid \in Ids /\ srv[work.meta.sid] # None /\ work.meta.sid # None
        BY <2>1, Pointers, NoteSyncAssumption
      <3>2. rows[n].text \subseteq srv[work.meta.sid].text \cup raced
        BY <1>e, <2>1, <2>3, <3>1 DEF TextsHeld
      <3>3. e \in srv[work.meta.sid].text
        BY <1>g, <3>2
      <3>4. IsLive(work.meta.sid)
        BY <1>e, <1>g, <3>1, <3>3 DEF TextsDiscarded, IsLive
      <3>5. srv' = srv
        BY <2>3 DEF Apply, server
      <3> QED
        BY <3>1, <3>3, <3>4, <3>5 DEF Seen, IsLive
    <2>4. CASE ApplyConflict
      <3>1. PICK c \in Fresh :
              rows' = [rows EXCEPT ![c] = NewRow(rows[work.id].text),
                                   ![work.id] = IF SameRow(rows[work.id], work.before)
                                                THEN Applied(@, work.meta, work.text) ELSE @]
        BY <2>4 DEF ApplyConflict
      <3>2. c \in Ids /\ c # n /\ NewRow(rows[n].text) \in Row /\ NewRow(rows[n].text).text = rows[n].text
        <4>1. rows[n].text \in Text
          BY DEF TypeOK, DbType, Exists, Row
        <4> QED
          BY <4>1, NewRowType DEF NewRow, Fresh, SyncInv, IdsInUse
      <3>3. rows'[c] = NewRow(rows[n].text)
        BY <2>1, <3>1, <3>2 DEF TypeOK, DbType
      <3>4. rows'[c] # None /\ e \in rows'[c].text
        BY <3>2, <3>3, NoneAssumption
      <3> QED
        BY <3>2, <3>4 DEF Seen, Exists
    <2> QED
      BY <1>3, <2>2, <2>3, <2>4 DEF AppliedRow, ApplyStep, Apply
  <1>4. CASE Exists(n)' /\ ~AppliedRow(n)
    <2>1. ~(work.kind = "insert" /\ n = work.meta.sid)
      BY <1>e DEF OwnIds
    <2>2. ~Born(n)
      BY DEF Born, Exists
    <2>3. rows[n].text \subseteq rows'[n].text
      BY <1>4, <2>1, <2>2, RowAfter
    <2> QED
      BY <1>1, <1>4, <2>3
  <1> QED
    BY <1>2, <1>3, <1>4

\* No step loses an edit.
LEMMA NoLostEditStep ==
    ASSUME TypeOK, SyncInv, EditsInv, [Next]_vars
    PROVE  NoLostEdit'
  <1> SUFFICES ASSUME NEW e \in 1..edits', e \notin discarded' \cup raced'
               PROVE  Seen(e)'
    BY DEF NoLostEdit, Seen, Exists, IsLive
  <1>g. discarded \subseteq discarded' /\ raced \subseteq raced'
    BY NoteSyncAssumption, ServerObject DEF EditsInv
  <1>t. edits \in Nat
    BY DEF TypeOK, ObservedType
  <1>1. CASE e \in 1..edits
    <2>1. Seen(e)
      BY <1>1, <1>g DEF EditsInv, NoLostEdit, Seen
    <2>2. ASSUME NEW s \in Ids, IsLive(s), e \in srv[s].text PROVE Seen(e)'
      <3>1. srv'[s] # None /\ e \in srv'[s].text
        BY <2>2, ServerObject DEF EditsInv, IsLive
      <3>2. ~srv'[s].deleted
        BY <2>2, <3>1, ServerObject DEF EditsInv, IsLive
      <3> QED
        BY <3>1, <3>2 DEF Seen, IsLive
    <2> QED
      BY <2>1, <2>2, SeenInRow DEF Seen
  <1>2. CASE e \notin 1..edits
    <2>1. edits' # edits
      BY <1>2
    <2>2. UserStep \/ RemoteStep
      BY <2>1, Steps, AskingStep, SettlingStep, TurningStep DEF vars, bounds
    <2>3. ASSUME edits' = edits + 1 PROVE e = edits + 1
      BY <1>2, <1>t, <2>3
    <2>4. CASE UserStep
      <3> PICK n \in Ids : CreateNote(n) \/ Handled(n)
        BY <2>4 DEF UserStep, Handled
      <3>1. CASE CreateNote(n)
        <4>1. edits' = edits + 1 /\ rows' = [rows EXCEPT ![n] = NewRow({edits + 1})]
          BY <3>1 DEF CreateNote, TypeText
        <4>2. {edits + 1} \in Text
          BY <1>t DEF Text
        <4>3. NewRow({edits + 1}) # None /\ NewRow({edits + 1}).text = {edits + 1}
          BY <4>2, NewRowType, NoneAssumption DEF NewRow
        <4>4. rows'[n] = NewRow({edits + 1})
          BY <4>1 DEF TypeOK, DbType
        <4> QED
          BY <2>3, <4>1, <4>3, <4>4 DEF Seen, Exists
      <3>2. CASE Handled(n)
        <4>1. EditNote(n) /\ rows'[n] \in Row /\ edits + 1 \in rows'[n].text
          BY <2>1, <3>2, HandledStep
        <4>2. edits' = edits + 1
          BY <4>1 DEF EditNote, TypeText
        <4> QED
          BY <2>3, <4>1, <4>2, NoneAssumption DEF Seen, Exists
      <3> QED
        BY <3>1, <3>2
    <2>5. CASE RemoteStep
      <3> PICK s \in Ids : RemoteCreate(s) \/ RemoteEdit(s)
        BY <2>1, <2>5 DEF RemoteStep, RemoteTrash, RemoteDelete, Act
      <3>1. edits' = edits + 1
        BY DEF RemoteCreate, RemoteEdit, TypeText
      <3>2. CASE RemoteCreate(s)
        <4>1. {edits + 1} \in Text
          BY <1>t DEF Text
        <4>2. LET o == NewObject({edits + 1}) IN o \in Object /\ o.text = {edits + 1} /\ ~o.deleted
          BY <4>1, NewObjectType DEF NewObject
        <4>3. Changed(s, NewObject({edits + 1}))
          BY <3>2 DEF RemoteCreate
        <4>4. srv'[s] \in Object /\ srv'[s].text = {edits + 1} /\ ~srv'[s].deleted
          BY <4>2, <4>3, ChangedObject DEF TypeOK
        <4> QED
          BY <2>3, <3>1, <4>4, NoneAssumption DEF Seen, IsLive
      <3>3. CASE RemoteEdit(s)
        <4>1. srv[s] \in Object /\ ~srv[s].deleted
          BY <3>3 DEF RemoteEdit, IsLive, TypeOK, ServerType
        <4>2. srv[s].text \cup {edits + 1} \in SUBSET Nat
          BY <1>t, <4>1 DEF Object, Text
        <4>3. LET o == [srv[s] EXCEPT !.text = @ \cup {edits + 1}]
              IN  o \in Object /\ edits + 1 \in o.text /\ ~o.deleted
          BY <4>1, <4>2 DEF Object, Text
        <4>4. Changed(s, [srv[s] EXCEPT !.text = @ \cup {edits + 1}])
          BY <3>3 DEF RemoteEdit
        <4>5. srv'[s] \in Object /\ edits + 1 \in srv'[s].text /\ ~srv'[s].deleted
          BY <4>3, <4>4, ChangedObject DEF TypeOK
        <4> QED
          BY <2>3, <3>1, <4>5, NoneAssumption DEF Seen, IsLive
      <3> QED
        BY <3>2, <3>3
    <2> QED
      BY <2>2, <2>4, <2>5
  <1> QED
    BY <1>1, <1>2

\* The first half of the strengthening is inductive.
LEMMA EditsStep ==
    ASSUME TypeOK, SyncInv, EditsInv, [Next]_vars
    PROVE  EditsInv'
  <1>1. Unasked'
    BY UnaskedStep DEF EditsInv
  <1> QED
    BY <1>1, OwnIdsStep, RenewedStep, TextsHeldStep, TextsDiscardedStep, NoLostEditStep DEF EditsInv

-----------------------------------------------------------------------------
(* A page of getSyncNotes                                                  *)

\* Of finitely many sets, one has no other inside.
LEMMA Smallest ==
    ASSUME NEW S, IsFiniteSet(S), S # {}, NEW f \in [S -> SUBSET S]
    PROVE  \E n \in S : \A m \in S : f[m] \subseteq f[n] => f[m] = f[n]
  <1> DEFINE T == {f[n] : n \in S}
  <1>1. IsWellFoundedOn(StrictSubsetOrdering(S), FiniteSubsetsOf(S)) /\ FiniteSubsetsOf(S) = SUBSET S
    BY FS_StrictSubsetOrderingWellFounded, FS_FiniteSubsetsOfFinite
  <1>2. T \subseteq SUBSET S /\ T # {}
    OBVIOUS
  <1>3. \E x \in T : \A y \in T : <<y, x>> \notin StrictSubsetOrdering(S)
    <2>1. IsWellFoundedOn(StrictSubsetOrdering(S), SUBSET S)
      BY <1>1
    <2> HIDE DEF T
    <2> QED
      BY <2>1, <1>2, WFMin
  <1>4. PICK n \in S : \A m \in S : <<f[m], f[n]>> \notin StrictSubsetOrdering(S)
    BY <1>3
  <1>5. ASSUME NEW m \in S, f[m] \subseteq f[n], f[m] # f[n] PROVE FALSE
    <2>1. <<f[m], f[n]>> \in StrictSubsetOrdering(S)
      BY <1>5 DEF StrictSubsetOrdering
    <2> QED
      BY <1>4, <2>1
  <1> QED
    BY <1>5

\* The entries of a list that fewer than `size' older ones precede: a page that
\* leaves an entry out is full, and older than what it leaves out.
Older(list, m) == {k \in list : k.usn < m.usn}
Oldest(list, size) == {m \in list : Cardinality(Older(list, m)) < size}

\* A page is the oldest entries: what it leaves out is newer than all of it, and
\* then it is full.
LEMMA OldestPage ==
    ASSUME NEW list, IsFiniteSet(list), NEW size \in Nat \ {0},
           \A m \in list : m.usn \in Nat,
           \A k, m \in list : k.usn = m.usn => k = m,
           NEW first, first = Oldest(list, size),
           NEW o \in list, o \notin first
    PROVE  Cardinality(first) = size /\ \A m \in first : m.usn < o.usn
  <1> USE DEF Oldest
  <1>f. \A m \in list : IsFiniteSet(Older(list, m)) /\ Cardinality(Older(list, m)) \in Nat
    <2> SUFFICES ASSUME NEW m \in list PROVE IsFiniteSet(Older(list, m)) /\ Cardinality(Older(list, m)) \in Nat
      OBVIOUS
    <2>1. Older(list, m) \in SUBSET list
      BY DEF Older
    <2> QED
      BY <2>1, FS_Subset, FS_CardinalityType
  <1>g. first \in SUBSET list /\ IsFiniteSet(first) /\ Cardinality(first) \in Nat
    BY FS_Subset, FS_CardinalityType
  <1>1. ASSUME NEW k \in list, NEW m \in first, k.usn <= m.usn PROVE k \in first
    <2>1. Older(list, k) \in SUBSET Older(list, m)
      BY <1>1, <1>g DEF Older
    <2>2. Cardinality(Older(list, k)) <= Cardinality(Older(list, m))
      BY <1>f, <1>g, <2>1, FS_Subset
    <2> QED
      BY <1>f, <1>g, <2>2
  <1>2. ASSUME NEW m \in first, NEW k \in list, k \notin first PROVE m.usn < k.usn
    BY <1>1, <1>2, <1>g
  <1>3. \E l \in list \ first : first = Older(list, l)
    <2> DEFINE rest == list \ first
               f == [m \in rest |-> {k \in rest : k.usn <= m.usn}]
    <2>1. IsFiniteSet(rest) /\ rest # {} /\ f \in [rest -> SUBSET rest]
      BY FS_Subset
    <2> HIDE DEF f, rest
    <2>2. PICK l \in rest : \A m \in rest : f[m] \subseteq f[l] => f[m] = f[l]
      BY <2>1, Smallest
    <2> USE DEF f, rest
    <2>3. ASSUME NEW m \in rest, m.usn < l.usn PROVE FALSE
      <3>1. f[m] \subseteq f[l] /\ l \in f[l] /\ l \notin f[m]
        BY <2>3
      <3> QED
        BY <2>2, <3>1
    <2>4. first \subseteq Older(list, l)
      BY <1>2, <1>g DEF Older
    <2>5. Older(list, l) \subseteq first
      BY <2>3 DEF Older
    <2> QED
      BY <2>4, <2>5
  <1>4. Cardinality(first) >= size
    BY <1>3, <1>f
  <1>5. \E l \in first : first \ {l} = Older(list, l)
    <2> DEFINE f == [m \in first |-> {k \in first : m.usn <= k.usn}]
    <2>1. first # {}
      BY <1>4, <1>g, FS_EmptySet
    <2>2. f \in [first -> SUBSET first]
      OBVIOUS
    <2> HIDE DEF f
    <2>3. PICK l \in first : \A m \in first : f[m] \subseteq f[l] => f[m] = f[l]
      BY <1>g, <2>1, <2>2, Smallest
    <2> USE DEF f
    <2>4. ASSUME NEW m \in first, l.usn < m.usn PROVE FALSE
      <3>1. f[m] \subseteq f[l] /\ l \in f[l] /\ l \notin f[m]
        BY <1>g, <2>4
      <3> QED
        BY <2>3, <3>1
    <2> HIDE DEF f
    <2>5. first \ {l} \subseteq Older(list, l)
      <3> SUFFICES ASSUME NEW k \in first, k # l PROVE k.usn < l.usn
        BY <1>g DEF Older
      <3>1. k \in list /\ l \in list /\ k.usn \in Nat /\ l.usn \in Nat /\ k.usn # l.usn
        BY <1>g
      <3> QED
        BY <2>4, <3>1
    <2>6. Older(list, l) \subseteq first \ {l}
      BY <1>1, <1>g DEF Older
    <2> QED
      BY <2>5, <2>6
  <1>6. Cardinality(first) <= size
    <2> PICK l \in first : first \ {l} = Older(list, l)
      BY <1>5
    <2>1. Cardinality(first \ {l}) = Cardinality(first) - 1
      BY <1>g, FS_RemoveElement
    <2>2. Cardinality(Older(list, l)) < size
      OBVIOUS
    <2>3. Cardinality(first) - 1 < size
      BY <2>1, <2>2
    <2> QED
      BY <1>g, <2>3
  <1> QED
    BY <1>2, <1>4, <1>6, <1>g

\* What getSyncNotes leaves out is newer than the page, and the page is full.
LEMMA NextPage ==
    ASSUME TypeOK, SyncInv, UsnsApart, GetSyncNotes
    PROVE  /\ \A m \in page' : \E s \in Ids : srv[s] # None /\ m = MetaOf(s)
           /\ \A s \in Ids : srv[s] # None /\ srv[s].usn > after =>
                \/ MetaOf(s) \in page'
                \/ more' /\ \A m \in page' : m.usn < srv[s].usn
  <1> DEFINE newer == {MetaOf(s) : s \in {x \in Ids : srv[x] # None /\ srv[x].usn > after}}
  <1>1. /\ page' = {m \in newer : Cardinality({k \in newer : k.usn < m.usn}) < PageSize}
        /\ more' = (Cardinality(page') = PageSize)
    BY DEF GetSyncNotes
  <1>2. \A s \in Ids : srv[s] # None => srv[s].usn \in 0..susn /\ susn \in Nat
    BY DEF TypeOK, ServerType, Object, SyncInv, ServerUsns
  <1>3. \A m \in newer : \E s \in Ids : srv[s] # None /\ m = MetaOf(s) /\ m.usn = srv[s].usn
    BY DEF MetaOf
  <1>4. \A m \in newer : m.usn \in Nat /\ m.usn \in 0..susn /\ susn \in Nat
    BY <1>2, <1>3
  <1>5. \A k, m \in newer : k.usn = m.usn => k = m
    BY <1>3 DEF UsnsApart
  <1>6. \A s \in Ids : srv[s] # None /\ srv[s].usn > after => MetaOf(s) \in newer /\ MetaOf(s).usn = srv[s].usn
    BY DEF MetaOf
  <1> HIDE DEF newer
  <1>7. IsFiniteSet(newer)
    <2>1. [m \in newer |-> m.usn] \in Injection(newer, 0..susn)
      BY <1>4, <1>5 DEF Injection, IsInjective
    <2>2. IsFiniteSet(0..susn)
      BY FS_Interval DEF TypeOK, ServerType
    <2> QED
      BY <2>1, <2>2, FS_Injection
  <1>8. page' = Oldest(newer, PageSize) /\ PageSize \in Nat \ {0}
    BY <1>1, NoteSyncAssumption DEF Older, Oldest
  <1>9. ASSUME NEW s \in Ids, srv[s] # None, srv[s].usn > after, MetaOf(s) \notin page'
        PROVE  more' /\ \A m \in page' : m.usn < srv[s].usn
    <2>1. MetaOf(s) \in newer /\ MetaOf(s).usn = srv[s].usn
      BY <1>6, <1>9
    <2>2. Cardinality(page') = PageSize /\ \A m \in page' : m.usn < MetaOf(s).usn
      BY <1>4, <1>5, <1>7, <1>8, <1>9, <2>1, OldestPage
    <2> QED
      BY <1>1, <2>1, <2>2
  <1> QED
    BY <1>1, <1>3, <1>9

-----------------------------------------------------------------------------
(* The second half of the invariant is kept                                *)

\* Who moves the cursor.
LEMMA CursorMoves ==
    ASSUME TypeOK, [Next]_vars
    PROVE  \/ cursor' = cursor
           \/ cursor' = -1 /\ \E m \in {"full", "incr", "force"} : StartSync(m)
           \/ (AckSaved \/ AckErased) /\ cursor' = work.usn /\ work.usn = cursor + 1
           \/ PushDone /\ phase = "push2" /\ mode = "full" /\ cursor' = target /\ rows' = rows
  <1>1. Asking => cursor' = cursor
    BY AskingStep
  <1>2. UserStep \/ RemoteStep => cursor' = cursor
    BY OutsideStep
  <1>3. AckSaved \/ AckErased => cursor' = cursor \/ (cursor' = work.usn /\ work.usn = cursor + 1)
    BY DEF AckSaved, AckErased, Advance
  <1>4. CASE Settling
    BY <1>3, <1>4 DEF Settling, PushForget, PushPassOver, PushEraseRefused, PushFails, RecreateGiveUp,
                      AnswerLost, ResolveVanished, ResolveLost, db
  <1>5. ASSUME NEW m \in {"full", "incr", "force"}, StartSync(m) PROVE cursor' = cursor \/ cursor' = -1
    BY <1>5 DEF StartSync
  <1>6. PushDone => cursor' = cursor \/ (phase = "push2" /\ mode = "full" /\ cursor' = target /\ rows' = rows)
    BY DEF PushDone
  <1>7. CASE \/ Abort \/ GetLastSyncState \/ GetSyncNotes \/ PullDone \/ Insert \/ ApplyStep
             \/ \E m \in page : PullSkipTombstone(m) \/ PullTombstone(m) \/ PullUpToDate(m) \/ PullVanished(m)
    BY <1>7 DEF Abort, GetLastSyncState, GetSyncNotes, PullDone, PullSkipTombstone, PullTombstone, PullUpToDate,
                PullVanished, Insert, ApplyStep, Apply, ApplyConflict, db
  <1> QED
    BY <1>1, <1>2, <1>3, <1>4, <1>5, <1>6, <1>7, Steps DEF Turning, vars, db

\* A step that goes past the entry m of the page.
Past(m) == /\ Processed(m)
           /\ \/ m \in page /\ (PullSkipTombstone(m) \/ PullTombstone(m) \/ PullUpToDate(m))
              \/ (Insert \/ ApplyStep) /\ m = work.meta

\* How the round goes on.
LEMMA RoundMoves ==
    ASSUME TypeOK, SyncInv, [Next]_vars
    PROVE  \/ UNCHANGED <<phase, mode, pulling>>
           \/ EndRound
           \/ \E m \in {"full", "incr", "force"} : StartSync(m)
           \/ PushDone /\ phase = "push1" /\ phase' = "state" /\ UNCHANGED <<mode, pulling>>
           \/ GetLastSyncState \/ GetSyncNotes \/ PullDone
           \/ phase = "pull" /\ \E m \in Meta : Past(m)
  <1>1. UserStep \/ RemoteStep => UNCHANGED <<phase, mode, pulling>>
    BY OutsideStep DEF round
  <1>2. Asking => UNCHANGED <<phase, mode, pulling>>
    BY AskingStep
  <1>3. Settling => UNCHANGED <<phase, mode, pulling>>
    BY SettlingStep DEF NextNote
  <1>4. PushDone => EndRound \/ (phase = "push1" /\ phase' = "state" /\ UNCHANGED <<mode, pulling>>)
    BY DEF PushDone
  <1>5. Abort => EndRound
    BY DEF Abort
  <1>6. ASSUME NEW m \in page, PullSkipTombstone(m) \/ PullTombstone(m) \/ PullUpToDate(m)
        PROVE  phase = "pull" /\ \E k \in Meta : Past(k)
    <2>1. m \in Meta /\ phase = "pull" /\ Past(m)
      BY <1>6 DEF TypeOK, RoundType, Past, PullSkipTombstone, PullTombstone, PullUpToDate, Head
    <2> QED
      BY <2>1
  <1>7. \A m \in page : PullVanished(m) => EndRound
    BY DEF PullVanished
  <1>8. CASE Insert
    <2>1. work.meta \in Meta /\ Past(work.meta)
      BY <1>8, WorkFields DEF Insert, TypeOK, RoundType, Past
    <2>2. phase = "pull"
      BY <1>8 DEF Insert, SyncInv, WorkPull
    <2> QED
      BY <2>1, <2>2
  <1>9. CASE ApplyStep
    <2>1. work.meta \in Meta
      BY <1>9, WorkFields DEF ApplyStep, Apply, ApplyConflict, TypeOK, RoundType
    <2>2. \/ UNCHANGED <<phase, mode, pulling>> \/ EndRound
          \/ phase = "pull" /\ Processed(work.meta)
      BY <1>9 DEF ApplyStep, Apply, ApplyConflict, Returned, NextNote
    <2> QED
      BY <1>9, <2>1, <2>2 DEF Past
  <1>10. UNCHANGED vars => UNCHANGED <<phase, mode, pulling>>
    BY DEF vars, round
  <1> QED
    BY <1>1, <1>2, <1>3, <1>4, <1>5, <1>6, <1>7, <1>8, <1>9, <1>10, Steps DEF Turning

\* A live note up to one of the cursors has not just changed.
LEMMA OldNote ==
    ASSUME TypeOK, SyncInv, EditsInv, CursorInv, [Next]_vars,
           NEW s \in Ids, IsLive(s)', srv'[s].usn <= cursor \/ srv'[s].usn <= target
    PROVE  IsLive(s) /\ srv'[s] = srv[s]
  <1>1. UNCHANGED server \/ \E x \in Ids : ServerChange(x)
    BY ServerMoves DEF EditsInv
  <1>2. cursor \in Int /\ target \in Int /\ susn \in Int /\ cursor <= susn /\ target <= susn
    BY DEF TypeOK, DbType, RoundType, ServerType, CursorInv
  <1>3. ASSUME NEW x \in Ids, ServerChange(x) PROVE srv'[s] = srv[s]
    BY <1>2, <1>3 DEF ServerChange
  <1>4. srv'[s] = srv[s]
    BY <1>1, <1>3 DEF server
  <1> QED
    BY <1>4 DEF IsLive

\* A row at the version of such a note stays there.
LEMMA StaysAtVersion ==
    ASSUME TypeOK, SyncInv, EditsInv, CursorInv, [Next]_vars,
           NEW s \in Ids, IsLive(s), srv'[s] = srv[s], srv[s].usn <= cursor \/ srv[s].usn <= target,
           AtVersion(s)
    PROVE  AtVersion(s)'
  <1> PICK n \in Ids : Exists(n) /\ rows[n].sid = s /\ rows[n].usn = srv[s].usn
    BY DEF AtVersion, RowsOf
  <1>t. srv[s].usn \in Int /\ cursor \in Int /\ target \in Int /\ s # None
    BY NoteSyncAssumption DEF IsLive, TypeOK, ServerType, Object, DbType, RoundType
  <1>i. OwnIds /\ Renewed /\ Answered /\ Entries
    BY DEF EditsInv, CursorInv
  <1>p. \A m \in Meta : Present(m) /\ m.sid = s => m.usn = srv[s].usn /\ ~m.deleted
    <2> SUFFICES ASSUME NEW m \in Meta, Present(m), m.sid = s PROVE m.usn = srv[s].usn /\ ~m.deleted
      OBVIOUS
    <2>1. ~(cursor < srv[s].usn /\ target < srv[s].usn)
      BY <1>t
    <2> QED
      BY <2>1 DEF Present, IsLive
  <1>1. Exists(n)'
    <2> SUFFICES ASSUME Gone(n) PROVE FALSE
      BY RowGone
    <2>1. ~PushForget(n)
      BY <1>i, <1>t DEF PushForget, Turn, IsNewRow, OwnIds, SyncInv, QueueBased
    <2>2. ~(AckErased /\ n = work.id)
      <3> SUFFICES ASSUME work.kind = "erased", n = work.id PROVE FALSE
        BY DEF AckErased
      <3>1. queue[n] # None /\ queue[n] = work.sent
        BY <1>i, Pointers DEF Renewed
      <3>2. work.sent.sid = s
        BY <3>1 DEF SyncInv, QueueBased
      <3> QED
        BY <1>i, <3>2 DEF Renewed
    <2>3. ASSUME NEW m \in page, PullTombstone(m), s \in RowsOf(m.sid) PROVE FALSE
      <3>1. m \in Meta /\ m.deleted /\ Present(m)
        BY <1>i, <2>3 DEF PullTombstone, Entries, TypeOK, RoundType
      <3>2. m.sid = s
        BY <1>i, <2>3 DEF RowsOf, OwnIds
      <3> QED
        BY <1>p, <3>1, <3>2
    <2> QED
      BY <2>1, <2>2, <2>3 DEF Gone
  <1>2. rows'[n].sid = s /\ rows'[n].usn = srv[s].usn
    <2>1. CASE work.kind = "saved" /\ work.id = n /\ rows'[n].sid = work.sid /\ rows'[n].usn = work.usn
      <3>1. work.sent.sid = s
        BY <2>1, Pointers DEF SyncInv, QueueBased
      <3>2. work.sid = s
        BY <1>i, <1>t, <2>1, <3>1 DEF Renewed
      <3>3. work.usn <= srv[s].usn /\ work.usn \in Int /\ cursor < work.usn /\ target < work.usn
        BY <1>i, <2>1, <3>2, WorkFields DEF SyncInv, WorkSaved, Based, Answered, TypeOK, RoundType
      <3> QED
        BY <1>t, <3>3
    <2>2. CASE work.kind = "apply" /\ work.id = n /\ rows'[n].sid = rows[n].sid /\ rows[n].sid = work.meta.sid
               /\ rows'[n].usn = work.meta.usn
      <3>1. work.meta \in Meta /\ Present(work.meta)
        BY <1>i, <2>2, WorkFields DEF Entries, TypeOK, RoundType
      <3> QED
        BY <1>p, <2>2, <3>1
    <2>3. ~Born(n)
      BY DEF Born, Exists
    <2>4. ~(work.kind = "insert" /\ n = work.meta.sid)
      BY <1>i DEF OwnIds
    <2> QED
      BY <1>1, <2>1, <2>2, <2>3, <2>4, RowAfter
  <1> QED
    BY <1>1, <1>2 DEF AtVersion, RowsOf, Exists

\* The cursors stay within the account's USN.
LEMMA BoundsStep ==
    ASSUME TypeOK, SyncInv, EditsInv, CursorInv, [Next]_vars
    PROVE  cursor' <= susn' /\ target' <= susn'
  <1>t. cursor \in Int /\ target \in Int /\ susn \in Nat /\ cursor <= susn /\ target <= susn
    BY DEF TypeOK, DbType, RoundType, ServerType, CursorInv
  <1>1. susn' = susn \/ susn' = susn + 1
    BY ServerMoves DEF EditsInv, server, ServerChange
  <1>2. cursor' <= susn
    <2>1. work.kind \in {"saved", "erased"} => work.usn <= susn
      BY DEF CursorInv, Answered
    <2>2. AckSaved \/ AckErased => work.usn <= susn
      BY <2>1 DEF AckSaved, AckErased
    <2> QED
      BY <1>t, <2>2, CursorMoves
  <1>3. target' \in {target, 0, susn}
    <2>1. EndRound => target' = 0
      BY DEF EndRound
    <2>2. \A m : StartSync(m) \/ Past(m) => target' = target
      BY DEF StartSync, Past, Processed
    <2>3. GetLastSyncState => target' = susn
      BY DEF GetLastSyncState
    <2>4. GetSyncNotes \/ PullDone => target' = target
      BY DEF GetSyncNotes, PullDone, pulling
    <2> QED
      BY <2>1, <2>2, <2>3, <2>4, RoundMoves DEF pulling
  <1>4. cursor' \in Int /\ target' \in Int
    BY Inductive DEF TypeOK, DbType, RoundType
  <1> QED
    BY <1>t, <1>1, <1>2, <1>3, <1>4

\* Two changes never take the same USN.
LEMMA UsnsApartStep ==
    ASSUME TypeOK, SyncInv, EditsInv, CursorInv, [Next]_vars
    PROVE  UsnsApart'
  <1>1. UNCHANGED server \/ \E x \in Ids : ServerChange(x)
    BY ServerMoves DEF EditsInv
  <1>2. \A s \in Ids : srv[s] # None => srv[s].usn \in Nat /\ srv[s].usn <= susn
    BY DEF TypeOK, ServerType, Object, SyncInv, ServerUsns
  <1>3. CASE UNCHANGED server
    BY <1>3 DEF CursorInv, UsnsApart, server
  <1>4. ASSUME NEW x \in Ids, ServerChange(x) PROVE UsnsApart'
    <2>1. \A s \in Ids : s # x /\ srv'[s] # None => srv'[s] = srv[s] /\ srv'[s].usn # srv'[x].usn
      BY <1>2, <1>4 DEF ServerChange, TypeOK, ServerType
    <2> QED
      BY <2>1 DEF CursorInv, UsnsApart
  <1> QED
    BY <1>1, <1>3, <1>4

\* The USN of an answer stays ahead of the cursors until the answer is written.
LEMMA AnsweredStep ==
    ASSUME TypeOK, SyncInv, EditsInv, CursorInv, [Next]_vars
    PROVE  Answered'
  <1> SUFFICES ASSUME work'.kind \in {"saved", "erased"}
               PROVE  /\ work'.usn <= susn' /\ cursor' < work'.usn /\ target' < work'.usn
                      /\ \A s \in Ids : LiveIn(srv', s) /\ srv'[s].usn = work'.usn => work'.kind = "saved" /\ s = work'.sid
    BY DEF Answered, IsLive, LiveIn
  <1>t. cursor \in Int /\ target \in Int /\ susn \in Nat /\ cursor <= susn /\ target <= susn
    BY DEF TypeOK, DbType, RoundType, ServerType, CursorInv
  <1>u. \A s \in Ids : srv[s] # None => srv[s].usn \in Nat /\ srv[s].usn <= susn
    BY DEF TypeOK, ServerType, Object, SyncInv, ServerUsns
  <1>k. work' # NoWork
    BY DEF NoWork
  <1>1. CASE work' = work /\ UNCHANGED <<cursor, round>>
    <2>1. /\ work.usn <= susn /\ cursor < work.usn /\ target < work.usn /\ work.usn \in Nat
          /\ \A s \in Ids : IsLive(s) /\ srv[s].usn = work.usn => work.kind = "saved" /\ s = work.sid
      BY <1>1, WorkFields DEF CursorInv, Answered, TypeOK, RoundType
    <2>2. UNCHANGED server \/ \E x \in Ids : ServerChange(x)
      BY ServerMoves DEF EditsInv
    <2>3. target' = target /\ cursor' = cursor
      BY <1>1 DEF round, pulling
    <2>4. CASE UNCHANGED server
      BY <1>1, <2>1, <2>3, <2>4 DEF server, IsLive, LiveIn
    <2>5. ASSUME NEW x \in Ids, ServerChange(x)
          PROVE  /\ work.usn <= susn'
                 /\ \A s \in Ids : LiveIn(srv', s) /\ srv'[s].usn = work.usn => work.kind = "saved" /\ s = work.sid
      BY <1>t, <2>1, <2>5 DEF ServerChange, IsLive, LiveIn
    <2> QED
      BY <1>1, <2>1, <2>2, <2>3, <2>4, <2>5
  <1>2. CASE Asking
    <2>1. cursor' = cursor /\ target' = target
      BY <1>2, AskingStep DEF pulling
    <2>2. /\ work'.usn = susn + 1
          /\ \E x \in Ids : \E o : Changed(x, o) /\ ((work'.kind = "saved" /\ x = work'.sid) \/ (o \in Object /\ o.deleted))
      <3>1. ASSUME NEW n \in Ids, PushAdd(n) PROVE work'.usn = susn + 1 /\ \E x \in Ids : \E o : Changed(x, o) /\ work'.kind = "saved" /\ x = work'.sid
        BY <3>1 DEF PushAdd, AddNote, Await
      <3>2. ASSUME NEW n \in Ids, PushUpdate(n) PROVE work'.usn = susn + 1 /\ \E x \in Ids : \E o : Changed(x, o) /\ work'.kind = "saved" /\ x = work'.sid
        <4>1. queue[n].sid \in Ids
          BY <3>2, Pointers DEF PushUpdate, Turn, IsNewRow
        <4> QED
          BY <3>2, <4>1 DEF PushUpdate, Await
      <3>3. ASSUME Recreate PROVE work'.usn = susn + 1 /\ \E x \in Ids : \E o : Changed(x, o) /\ work'.kind = "saved" /\ x = work'.sid
        BY <3>3 DEF Recreate, AddNote, Await
      <3>4. ASSUME NEW n \in Ids, PushErase(n) PROVE work'.usn = susn + 1 /\ \E x \in Ids : \E o : Changed(x, o) /\ o \in Object /\ o.deleted
        <4>1. queue[n].sid \in Ids /\ srv[queue[n].sid] \in Object
          BY <3>4, Pointers DEF PushErase, Turn, IsNewRow, IsLive, TypeOK, ServerType
        <4>2. LET o == [srv[queue[n].sid] EXCEPT !.deleted = TRUE] IN o \in Object /\ o.deleted
          BY <4>1 DEF Object
        <4>3. Changed(queue[n].sid, [srv[queue[n].sid] EXCEPT !.deleted = TRUE]) /\ work'.usn = susn + 1
          BY <3>4 DEF PushErase, Await
        <4> QED
          BY <4>1, <4>2, <4>3
      <3> QED
        BY <1>2, <3>1, <3>2, <3>3, <3>4, AskedFor
    <2>3. PICK x \in Ids : \E o : Changed(x, o) /\ ((work'.kind = "saved" /\ x = work'.sid) \/ (o \in Object /\ o.deleted))
      BY <2>2
    <2>o. PICK o : Changed(x, o) /\ ((work'.kind = "saved" /\ x = work'.sid) \/ (o \in Object /\ o.deleted))
      BY <2>3
    <2>4. susn' = susn + 1 /\ \A s \in Ids : s # x => srv'[s] = srv[s]
      BY <2>o DEF Changed, TypeOK, ServerType
    <2>5. o \in Object /\ o.deleted => ~LiveIn(srv', x)
      BY <2>o, ChangedObject DEF LiveIn, TypeOK
    <2>6. \A s \in Ids : s # x /\ LiveIn(srv', s) => srv'[s].usn <= susn /\ srv'[s].usn \in Nat
      BY <1>u, <2>4 DEF LiveIn
    <2> QED
      BY <1>t, <2>1, <2>2, <2>o, <2>4, <2>5, <2>6
  <1> QED
    BY <1>1, <1>2, <1>k, WorkMoves DEF EditsInv

\* An entry that told the present goes on to, or the note has changed beyond
\* both cursors.
LEMMA PresentStays ==
    ASSUME TypeOK, SyncInv, EditsInv, CursorInv, [Next]_vars, cursor' = cursor, target' = target,
           NEW m \in Meta, Present(m)
    PROVE  Present(m)'
  <1>1. UNCHANGED server \/ \E x \in Ids : ServerChange(x)
    BY ServerMoves DEF EditsInv
  <1>2. cursor \in Int /\ target \in Int /\ susn \in Int /\ cursor <= susn /\ target <= susn /\ m.sid \in Ids
    BY DEF TypeOK, DbType, RoundType, ServerType, CursorInv, Meta
  <1>3. CASE UNCHANGED server
    BY <1>3 DEF server, Present
  <1>4. ASSUME NEW x \in Ids, ServerChange(x) PROVE Present(m)'
    <2>1. CASE m.sid = x
      <3>1. srv'[x] # None
        BY <1>4, NoneAssumption DEF ServerChange
      <3> QED
        BY <1>2, <1>4, <2>1, <3>1 DEF ServerChange, Present
    <2>2. CASE m.sid # x
      BY <1>2, <1>4, <2>2 DEF ServerChange, Present
    <2> QED
      BY <2>1, <2>2
  <1> QED
    BY <1>1, <1>3, <1>4

\* While the list is read the cursors stand still.
LEMMA PullKeepsCursor ==
    ASSUME TypeOK, SyncInv, [Next]_vars, phase = "pull"
    PROVE  cursor' = cursor
  <1>1. ~(AckSaved \/ AckErased)
    BY Pointers DEF AckSaved, AckErased, SyncInv, QueueBased, Pushing
  <1>2. \A m : ~StartSync(m)
    BY DEF StartSync
  <1> QED
    BY <1>1, <1>2, CursorMoves

\* The entries of a page stay true, or are overtaken by a change the next round
\* will see.
LEMMA EntriesStep ==
    ASSUME TypeOK, SyncInv, EditsInv, CursorInv, [Next]_vars
    PROVE  Entries'
  <1>e. Entries
    BY DEF CursorInv
  <1>m. \A m \in page : m \in Meta
    BY DEF TypeOK, RoundType
  <1>0. EndRound => page' = {} /\ work' = NoWork
    BY DEF EndRound
  <1>p. ASSUME NEW m \in Meta, Past(m) PROVE page' = page \ {m} /\ work' = NoWork /\ target' = target /\ phase' = phase
    BY <1>p DEF Past, Processed
  <1>1. ASSUME phase' # "pull" PROVE page' = {}
    <2>1. UNCHANGED <<phase, mode, pulling>> => page' = page /\ phase' = phase
      BY DEF pulling
    <2>2. ASSUME NEW m, StartSync(m) PROVE page' = page /\ phase = "idle"
      BY <2>2 DEF StartSync
    <2>3. GetLastSyncState => page' = page /\ phase = "state"
      BY DEF GetLastSyncState
    <2>4. PullDone => page' = page /\ page = {}
      BY DEF PullDone, pulling
    <2>5. GetSyncNotes => phase' = "pull"
      BY DEF GetSyncNotes
    <2> QED
      BY <1>0, <1>1, <1>e, <1>p, <2>1, <2>2, <2>3, <2>4, <2>5, RoundMoves DEF Entries, pulling
  <1>2. ASSUME NEW m \in page' PROVE Present(m)'
    <2>1. phase' = "pull"
      BY <1>1
    <2>2. CASE m \in page /\ target' = target
      <3>1. phase = "pull" /\ Present(m)
        BY <1>e, <2>2 DEF Entries
      <3> QED
        BY <1>m, <2>2, <3>1, PresentStays, PullKeepsCursor
    <2>3. CASE GetSyncNotes
      <3>1. \E s \in Ids : srv[s] # None /\ m = MetaOf(s)
        BY <2>3, NextPage DEF CursorInv
      <3>2. UNCHANGED srv
        BY <2>3 DEF GetSyncNotes, server
      <3> QED
        BY <3>1, <3>2 DEF Present, MetaOf
    <2>4. UNCHANGED <<phase, mode, pulling>> => page' = page /\ target' = target
      BY DEF pulling
    <2>5. ~\E k \in {"full", "incr", "force"} : StartSync(k)
      BY <2>1 DEF StartSync
    <2>6. ~GetLastSyncState
      BY <1>e DEF Entries, GetLastSyncState
    <2>7. ~PullDone
      BY <2>1 DEF PullDone
    <2>8. \A k \in Meta : Past(k) => m \in page /\ target' = target
      BY <1>p
    <2>9. ~EndRound
      BY <1>0
    <2>10. PushDone => phase' # "pull"
      BY DEF PushDone, EndRound
    <2> QED
      BY <2>1, <2>2, <2>3, <2>4, <2>5, <2>6, <2>7, <2>8, <2>9, <2>10, RoundMoves
  <1>3. ASSUME work'.kind \in {"resolve", "insert", "apply"} PROVE Present(work.meta)'
    <2>0. work' # NoWork
      BY <1>3 DEF NoWork
    <2>1. CASE work' = work /\ UNCHANGED <<cursor, round>>
      <3>1. work.meta \in Meta /\ Present(work.meta)
        BY <1>3, <1>e, <2>1, WorkFields DEF Entries, TypeOK, RoundType
      <3>2. target' = target
        BY <2>1 DEF round, pulling
      <3>3. ASSUME NEW m \in Meta, Present(m) PROVE Present(m)'
        BY <2>1, <3>2, <3>3, PresentStays
      <3>4. PICK m \in Meta : m = work.meta /\ Present(m)'
        BY <3>1, <3>3
      <3> QED
        BY <2>1, <3>4 DEF Present
    <2>2. CASE Asking
      <3>0. cursor' = cursor /\ target' = target
        BY <2>2, AskingStep DEF pulling
      <3>1. CASE ResolveMeta
        <4>1. work'.meta = MetaOf(work.sid) /\ srv' = srv /\ srv[work.sid] # None
          BY <3>1 DEF ResolveMeta, Await, server, IsLive
        <4> QED
          BY <4>1 DEF Present, MetaOf
      <3>2. CASE ResolveFetch
        <4>1. work'.meta = work.meta /\ srv' = srv /\ work.kind = "resolve"
          BY <3>2 DEF ResolveFetch, Await, server
        <4> QED
          BY <1>e, <3>0, <4>1 DEF Present, Entries
      <3>3. ASSUME NEW m \in page, PullFetch(m) PROVE Present(work.meta)'
        <4>1. work'.meta = m /\ srv' = srv
          BY <3>3 DEF PullFetch, Await, server
        <4> QED
          BY <1>e, <3>0, <4>1 DEF Present, Entries
      <3> QED
        BY <1>3, <2>2, <3>1, <3>2, <3>3, AskedFor
    <2> QED
      BY <2>0, <2>1, <2>2, WorkMoves DEF EditsInv
  <1>4. ASSUME phase' = "pull", work' # NoWork
        PROVE  work'.kind \in {"insert", "apply"} /\ work'.meta \in page' /\ \A k \in page' : work'.meta.usn <= k.usn
    <2>1. CASE work' = work /\ UNCHANGED <<cursor, round>>
      BY <1>4, <1>e, <2>1 DEF Entries, round, pulling
    <2>2. CASE Asking
      <3>1. phase = "pull" /\ page' = page
        BY <1>4, <2>2, AskingStep DEF pulling
      <3>2. ~\E n \in Ids : PushAdd(n) \/ PushErase(n) \/ PushUpdate(n) \/ PushConflict(n) \/ PushMissing(n)
        BY <3>1 DEF PushAdd, PushErase, PushUpdate, PushConflict, PushMissing, Turn, Pushing
      <3>3. ~(Recreate \/ RecreateLost \/ RecreateRefused \/ ResolveMeta \/ ResolveFetch \/ ResolveLost)
        <4>1. work.kind \in {"none", "insert", "apply"}
          BY <1>e, <3>1 DEF Entries, NoWork
        <4> QED
          BY <4>1 DEF Recreate, RecreateLost, RecreateRefused, ResolveMeta, ResolveFetch, ResolveLost
      <3>4. PICK m \in page : PullFetch(m)
        BY <2>2, <3>2, <3>3 DEF Asking
      <3> QED
        BY <3>1, <3>4 DEF PullFetch, Head, Await
    <2> QED
      BY <1>4, <2>1, <2>2, WorkMoves DEF EditsInv
  <1> QED
    BY <1>1, <1>2, <1>3, <1>4 DEF Entries

\* A row the list has gone past is at the entry's version.
LEMMA PastRow ==
    ASSUME TypeOK, SyncInv, NEW m \in Meta, Past(m), phase = "pull", ~m.deleted
    PROVE  \E n \in Ids : Exists(n)' /\ rows'[n].sid = m.sid /\ rows'[n].usn = m.usn
  <1>r. \A r \in Row : r # None
    BY NoneAssumption
  <1>t. rows \in [Ids -> Row \cup {None}]
    BY DEF TypeOK, DbType
  <1>p. phase' = "pull"
    BY DEF Past, Processed
  <1>1. CASE PullUpToDate(m)
    BY <1>1 DEF PullUpToDate, RowsOf, NeedsText, Exists, db
  <1>2. CASE Insert /\ m = work.meta
    <2>1. /\ work.text \in Text /\ m.sid \in Ids /\ m.usn \in Nat /\ m.trash \in BOOLEAN
      BY <1>2, WorkFields DEF Insert, TypeOK, RoundType, Meta
    <2>2. rows' = [rows EXCEPT ![m.sid] = CleanRow(m.sid, m.usn, work.text, m.trash)]
      BY <1>2 DEF Insert
    <2>3. /\ CleanRow(m.sid, m.usn, work.text, m.trash) \in Row
          /\ CleanRow(m.sid, m.usn, work.text, m.trash).sid = m.sid
          /\ CleanRow(m.sid, m.usn, work.text, m.trash).usn = m.usn
      BY <2>1, CleanRowType DEF CleanRow
    <2>4. rows'[m.sid] = CleanRow(m.sid, m.usn, work.text, m.trash)
      BY <1>t, <2>1, <2>2
    <2> QED
      BY <1>r, <2>1, <2>3, <2>4 DEF Exists
  <1>3. CASE ApplyStep /\ m = work.meta
    <2> DEFINE n == work.id
               r == Applied(rows[n], m, work.text)
    <2>1. work.kind = "apply" /\ n \in Ids /\ work.text \in Text /\ Exists(n) /\ rows[n].sid = m.sid /\ rows[n] \in Row
      <3>1. work.kind = "apply"
        BY <1>3 DEF ApplyStep, Apply, ApplyConflict
      <3> QED
        BY <1>3, <3>1, WorkFields DEF TypeOK, RoundType, SyncInv, WorkPull, DbType, Exists
    <2>2. r \in Row /\ r.sid = m.sid /\ r.usn = m.usn
      BY <2>1, AppliedType DEF Applied, Row
    <2>3. \A ok : Returned(ok) => ok
      BY <1>p DEF Returned, Pushing, EndRound
    <2>4. rows'[n] = r
      <3>1. CASE Apply
        <4>1. SameRow(rows[n], work.before)
          BY <2>3, <3>1 DEF Apply
        <4> QED
          BY <1>3, <1>t, <2>1, <3>1, <4>1 DEF Apply
      <3>2. CASE ApplyConflict
        <4>1. PICK c \in Fresh :
                /\ rows' = [rows EXCEPT ![c] = NewRow(rows[n].text),
                                        ![n] = IF SameRow(rows[n], work.before) THEN Applied(@, work.meta, work.text) ELSE @]
                /\ Returned(SameRow(rows[n], work.before))
          BY <3>2 DEF ApplyConflict
        <4>2. SameRow(rows[n], work.before)
          BY <2>3, <4>1
        <4>3. c # n
          BY <2>1 DEF Fresh, SyncInv, IdsInUse
        <4> QED
          BY <1>3, <1>t, <2>1, <4>1, <4>2, <4>3
      <3> QED
        BY <1>3, <3>1, <3>2 DEF ApplyStep
    <2> HIDE DEF r
    <2> QED
      BY <1>r, <2>1, <2>2, <2>4 DEF Exists
  <1>4. ~PullSkipTombstone(m) /\ ~PullTombstone(m)
    BY DEF PullSkipTombstone, PullTombstone
  <1> QED
    BY <1>1, <1>2, <1>3, <1>4 DEF Past

\* In a full round no note up to the target is missed.
Reached(s) == \/ AtVersion(s)
              \/ \E m \in page : m.sid = s /\ m.usn = srv[s].usn
              \/ more /\ after < srv[s].usn /\ \A m \in page : m.usn < srv[s].usn

\* A full round has in its rows, its page or its further pages every live note
\* it must bring.
LEMMA ListedStep ==
    ASSUME TypeOK, SyncInv, EditsInv, CursorInv, [Next]_vars
    PROVE  Listed'
  <1>l. Listed /\ Entries
    BY DEF CursorInv
  <1>t. after \in Int /\ target \in Int /\ (\A m \in page : m \in Meta /\ m.usn \in Int)
        /\ \A s \in Ids : srv[s] # None => srv[s].usn \in Int /\ srv[s].usn >= 0
    BY DEF TypeOK, RoundType, Meta, ServerType, Object
  <1>s. \A s \in Ids : IsLive(s)' /\ srv'[s].usn <= target => IsLive(s) /\ srv'[s] = srv[s]
    BY OldNote
  <1>v. \A s \in Ids : IsLive(s)' /\ srv'[s].usn <= target /\ AtVersion(s) => AtVersion(s)'
    BY <1>s, StaysAtVersion
  <1>0. EndRound => phase' = "idle"
    BY DEF EndRound
  <1>1. CASE UNCHANGED <<phase, mode, pulling>>
    <2>1. UNCHANGED <<phase, mode, snapshot, after, page, more, target>>
      BY <1>1 DEF pulling
    <2>2. ASSUME NEW s \in Ids, IsLive(s)', srv'[s].usn <= target', Reached(s) PROVE Reached(s)'
      BY <1>s, <1>v, <2>1, <2>2 DEF Reached
    <2>3. Covered(target) => Covered(target)'
      BY <1>s, <1>v, <2>1 DEF Covered
    <2>4. Listed = /\ mode = "full" /\ phase \in {"push1", "state"} => after = -1
                   /\ mode = "full" /\ phase = "pull" =>
                        snapshot /\ \A s \in Ids : IsLive(s) /\ srv[s].usn <= target => Reached(s)
                   /\ mode = "full" /\ phase = "push2" => Covered(target)
      BY DEF Listed, Reached
    <2> QED
      BY <1>l, <1>s, <2>1, <2>2, <2>3 DEF Listed, Reached
  <1>2. ASSUME NEW m \in {"full", "incr", "force"}, StartSync(m) PROVE Listed'
    BY <1>2 DEF StartSync, Listed
  <1>3. CASE PushDone /\ phase = "push1" /\ phase' = "state" /\ UNCHANGED <<mode, pulling>>
    BY <1>l, <1>3 DEF Listed, pulling
  <1>4. CASE GetLastSyncState
    <2>1. phase = "state" /\ page = {} /\ page' = page /\ mode' = mode /\ after' = after /\ srv' = srv /\ target' = susn
          /\ susn >= 0
      BY <1>l, <1>4 DEF GetLastSyncState, Entries, server, TypeOK, ServerType
    <2>2. mode = "full" => after = -1
      BY <1>l, <2>1 DEF Listed
    <2>3. mode = "full" => phase' = "pull" /\ snapshot' /\ more'
      <3> SUFFICES ASSUME mode = "full" PROVE phase' = "pull" /\ snapshot' /\ more'
        OBVIOUS
      <3>1. susn > after /\ after < 0
        BY <1>t, <2>1, <2>2 DEF TypeOK, ServerType
      <3>2. phase' = "pull" /\ snapshot' = (after < 0) /\ more' = TRUE
        BY <1>4, <3>1 DEF GetLastSyncState
      <3> QED
        BY <3>1, <3>2
    <2> QED
      BY <1>t, <2>1, <2>2, <2>3 DEF Listed, IsLive
  <1>5. CASE GetSyncNotes
    <2>1. /\ phase = "pull" /\ page = {} /\ more
          /\ UNCHANGED <<phase, mode, snapshot, after, target, rows, srv>>
      BY <1>5 DEF GetSyncNotes, db, server
    <2>2. ASSUME NEW s \in Ids, IsLive(s), Reached(s) PROVE Reached(s)'
      <3>1. CASE AtVersion(s)
        BY <2>1, <3>1 DEF Reached, AtVersion, RowsOf, Exists
      <3>2. CASE after < srv[s].usn
        <4>1. srv[s] # None /\ srv[s].usn > after
          BY <1>t, <2>2, <3>2 DEF IsLive
        <4>2. \/ MetaOf(s) \in page'
              \/ more' /\ \A m \in page' : m.usn < srv[s].usn
          BY <1>5, <4>1, NextPage DEF CursorInv
        <4>3. MetaOf(s).sid = s /\ MetaOf(s).usn = srv[s].usn
          BY DEF MetaOf
        <4> QED
          BY <2>1, <3>2, <4>2, <4>3 DEF Reached
      <3> QED
        BY <2>1, <2>2, <3>1, <3>2 DEF Reached
    <2> QED
      BY <1>l, <2>1, <2>2 DEF Listed, Reached, IsLive
  <1>6. CASE PullDone
    <2>1. phase = "pull" /\ page = {} /\ ~more /\ phase' = "push2" /\ UNCHANGED <<mode, target>>
      BY <1>6 DEF PullDone, pulling
    <2>2. mode = "full" => \A s \in Ids : IsLive(s) /\ srv[s].usn <= target => AtVersion(s)
      BY <1>l, <2>1 DEF Listed
    <2>3. mode = "full" => Covered(target)'
      BY <1>s, <1>v, <2>1, <2>2 DEF Covered
    <2> QED
      BY <2>1, <2>3 DEF Listed
  <1>7. ASSUME NEW m \in Meta, Past(m), phase = "pull" PROVE Listed'
    <2>1. /\ page' = page \ {m} /\ after' = m.usn /\ work' = NoWork
          /\ UNCHANGED <<phase, mode, snapshot, more, target>>
      BY <1>7 DEF Past, Processed
    <2>2. m \in page /\ Present(m)
      BY <1>l, <1>7 DEF Past, Entries, Insert, ApplyStep, Apply, ApplyConflict, NoWork
    <2>3. ASSUME NEW s \in Ids, IsLive(s)', srv'[s].usn <= target, mode = "full" PROVE Reached(s)'
      <3>0. IsLive(s) /\ srv'[s] = srv[s] /\ srv[s].usn <= target /\ srv[s].usn \in Int
        BY <1>s, <1>t, <2>3 DEF IsLive
      <3>1. Reached(s)
        BY <1>l, <1>7, <2>3, <3>0 DEF Listed, Reached
      <3>2. CASE AtVersion(s)
        BY <1>v, <2>3, <3>2 DEF Reached
      <3>3. CASE \E k \in page : k.sid = s /\ k.usn = srv[s].usn /\ k # m
        BY <2>1, <3>0, <3>3 DEF Reached
      <3>4. CASE m.sid = s
        <4>1. m.usn = srv[s].usn /\ m.deleted = srv[s].deleted
          <5>1. ~(cursor < srv[s].usn /\ target < srv[s].usn)
            BY <1>t, <3>0
          <5> QED
            BY <2>2, <3>4, <5>1 DEF Present
        <4>2. ~m.deleted
          BY <1>t, <3>0, <4>1 DEF IsLive, TypeOK, ServerType, Object
        <4>3. \E n \in Ids : Exists(n)' /\ rows'[n].sid = s /\ rows'[n].usn = srv'[s].usn
          BY <1>7, <3>0, <3>4, <4>1, <4>2, PastRow
        <4> QED
          BY <4>3 DEF Reached, AtVersion, RowsOf, Exists
      <3>5. CASE more /\ after < srv[s].usn /\ \A k \in page : k.usn < srv[s].usn
        BY <2>1, <2>2, <3>0, <3>5 DEF Reached
      <3> QED
        BY <3>1, <3>2, <3>3, <3>4, <3>5 DEF Reached
    <2> QED
      BY <1>l, <1>7, <2>1, <2>3 DEF Listed, Reached
  <1>8. CASE EndRound
    BY <1>0, <1>8 DEF Listed
  <1> QED
    BY <1>1, <1>2, <1>3, <1>4, <1>5, <1>6, <1>7, <1>8, RoundMoves

\* The cursor moves only over changes the rows have.
LEMMA CursorSoundStep ==
    ASSUME TypeOK, SyncInv, EditsInv, CursorInv, [Next]_vars
    PROVE  CursorSound'
  <1>t. cursor \in Int /\ target \in Int /\ \A s \in Ids : IsLive(s) => srv[s].usn \in Nat
    BY DEF TypeOK, DbType, RoundType, ServerType, Object, IsLive
  <1>s. \A s \in Ids : IsLive(s)' /\ (srv'[s].usn <= cursor \/ srv'[s].usn <= target) => IsLive(s) /\ srv'[s] = srv[s]
    BY OldNote
  <1>v. \A s \in Ids : IsLive(s)' /\ (srv'[s].usn <= cursor \/ srv'[s].usn <= target) /\ AtVersion(s) => AtVersion(s)'
    BY <1>s, StaysAtVersion
  <1>c. CursorSound <=> Covered(cursor)
    BY DEF CursorSound, Covered, AtVersion
  <1>d. Covered(cursor)' => CursorSound'
    BY DEF CursorSound, Covered, AtVersion
  <1>1. CASE cursor' = cursor
    <2>1. Covered(cursor)'
      BY <1>1, <1>c, <1>s, <1>v DEF Covered, CursorInv
    <2> QED
      BY <1>d, <2>1
  <1>2. CASE cursor' = -1 /\ \E m \in {"full", "incr", "force"} : StartSync(m)
    <2>1. srv' = srv
      BY <1>2 DEF StartSync, server
    <2>2. \A s \in Ids : IsLive(s)' => srv'[s].usn \in Nat
      BY <1>t, <2>1 DEF IsLive
    <2>3. Covered(cursor)'
      BY <1>2, <2>2 DEF Covered
    <2> QED
      BY <1>d, <2>3
  <1>3. CASE (AckSaved \/ AckErased) /\ cursor' = work.usn /\ work.usn = cursor + 1
    <2>1. srv' = srv /\ work.kind \in {"saved", "erased"}
      BY <1>3 DEF AckSaved, AckErased, server
    <2>2. ASSUME NEW s \in Ids, IsLive(s)', srv'[s].usn <= cursor' PROVE AtVersion(s)'
      <3>1. IsLive(s) /\ srv[s].usn \in Nat
        BY <1>t, <2>1, <2>2 DEF IsLive
      <3>2. CASE srv[s].usn <= cursor
        <4>1. AtVersion(s)
          BY <1>c, <3>1, <3>2 DEF Covered, CursorInv
        <4> QED
          BY <1>v, <2>1, <2>2, <3>2, <4>1
      <3>3. CASE srv[s].usn = work.usn
        <4>1. work.kind = "saved" /\ s = work.sid
          BY <2>1, <3>1, <3>3 DEF CursorInv, Answered
        <4>2. AckSaved /\ work.id \in Ids /\ Exists(work.id) /\ rows[work.id] \in Row
          BY <1>3, <4>1, Pointers DEF AckErased, SyncInv, QueueBased
        <4>3. rows'[work.id] = Acked(rows[work.id], work.sid, work.usn)
          BY <4>2 DEF AckSaved, TypeOK, DbType
        <4>4. /\ Acked(rows[work.id], work.sid, work.usn) \in Row
              /\ Acked(rows[work.id], work.sid, work.usn).sid = work.sid
              /\ Acked(rows[work.id], work.sid, work.usn).usn = work.usn
          <5>1. work.sid \in Ids /\ work.usn \in Nat
            BY <4>1, WorkFields DEF TypeOK, RoundType
          <5> QED
            BY <4>2, <5>1, AckedType DEF Acked, Row
        <4>5. rows'[work.id] # None /\ rows'[work.id].sid = s /\ rows'[work.id].usn = srv'[s].usn
          BY <2>1, <3>3, <4>1, <4>3, <4>4, NoneAssumption
        <4> QED
          BY <4>2, <4>5 DEF AtVersion, RowsOf, Exists
      <3>4. srv[s].usn <= cursor \/ srv[s].usn = work.usn
        BY <1>3, <1>t, <2>1, <2>2, <3>1
      <3> QED
        BY <3>2, <3>3, <3>4
    <2> QED
      BY <1>d, <2>2 DEF Covered
  <1>4. CASE PushDone /\ phase = "push2" /\ mode = "full" /\ cursor' = target /\ rows' = rows
    <2>1. Covered(target) /\ srv' = srv
      BY <1>4 DEF CursorInv, Listed, PushDone, server
    <2>2. Covered(cursor)'
      BY <1>4, <2>1 DEF Covered, AtVersion, RowsOf, Exists, IsLive
    <2> QED
      BY <1>d, <2>2
  <1> QED
    BY <1>1, <1>2, <1>3, <1>4, CursorMoves

\* The second half of the strengthening is inductive.
LEMMA CursorStep ==
    ASSUME TypeOK, SyncInv, EditsInv, CursorInv, [Next]_vars
    PROVE  CursorInv'
  BY BoundsStep, UsnsApartStep, AnsweredStep, EntriesStep, ListedStep, CursorSoundStep DEF CursorInv

-----------------------------------------------------------------------------
(* The theorems                                                            *)

\* The invariant holds at first, in each of the three caches a client may start
\* from.
LEMMA InitIInv == Init => IInv
  <1> SUFFICES ASSUME Init PROVE IInv
    OBVIOUS
  <1>1. TypeOK /\ SyncInv
    BY InitTypeOK, InitSyncInv
  <1>2. /\ 1 \in Ids /\ srv[1].usn = 1 /\ srv[1].text = {} /\ ~srv[1].deleted /\ susn = 1 /\ edits = 0
        /\ \A s \in Ids : srv[s] # None => s = 1
        /\ \A n \in Ids : queue[n] = None
        /\ work = NoWork /\ work.kind = "none" /\ phase = "idle" /\ page = {} /\ target = 0
    BY NoteSyncAssumption DEF Init, NoQueue, NoWork
  <1>3. \/ cursor = -1 /\ \A n \in Ids : ~Exists(n)
        \/ cursor = 1 /\ \E l \in Ids : /\ Exists(l) /\ rows[l] = CleanRow(1, 1, {}, FALSE)
                                        /\ \A n \in Ids : Exists(n) => n = l
    <2>1. CASE rows = [n \in Ids |-> None] /\ cursor = -1
      BY <2>1 DEF Exists
    <2>2. ASSUME NEW l \in {1, 2}, cursor = 1,
                 rows = [n \in Ids |-> IF n = l THEN CleanRow(1, 1, {}, FALSE) ELSE None]
          PROVE  \E k \in Ids : /\ Exists(k) /\ rows[k] = CleanRow(1, 1, {}, FALSE)
                                /\ \A n \in Ids : Exists(n) => n = k
      <3>1. CleanRow(1, 1, {}, FALSE) \in Row
        BY CleanRowType, NoteSyncAssumption DEF Text
      <3>2. l \in Ids /\ rows[l] = CleanRow(1, 1, {}, FALSE)
        BY <2>2, NoteSyncAssumption
      <3>3. \A n \in Ids : n # l => rows[n] = None
        BY <2>2
      <3> QED
        BY <3>1, <3>2, <3>3, NoneAssumption DEF Exists
    <2> QED
      BY <2>1, <2>2 DEF Init
  <1>4. LET c == CleanRow(1, 1, {}, FALSE) IN Clean(c) /\ c.sid = 1 /\ c.usn = 1 /\ c.text = {}
    BY DEF CleanRow, Clean
  <1>5. \A n \in Ids : Exists(n) => Clean(rows[n]) /\ rows[n].sid = 1 /\ rows[n].usn = 1 /\ rows[n].text = {} /\ cursor = 1
    BY <1>3, <1>4
  <1>6. EditsInv
    <2>1. OwnIds
      <3>1. ASSUME NEW n \in Ids, Exists(n), rows[n].sid # n PROVE ~IsLive(n)
        BY <1>2, <1>5, <3>1 DEF IsLive
      <3> QED
        BY <1>2, <1>5, <3>1 DEF OwnIds, Clean
    <2>2. Renewed /\ Unasked
      BY <1>2 DEF Renewed, Unasked
    <2>3. TextsHeld
      BY <1>2, <1>5 DEF TextsHeld, Clean
    <2>4. TextsDiscarded
      BY <1>2, <1>5 DEF TextsDiscarded, Clean
    <2>5. NoLostEdit
      BY <1>2 DEF NoLostEdit
    <2> QED
      BY <2>1, <2>2, <2>3, <2>4, <2>5 DEF EditsInv
  <1>7. CursorInv
    <2>1. cursor <= susn /\ target <= susn
      <3>1. cursor = -1 \/ cursor = 1
        BY <1>3
      <3> QED
        BY <1>2, <3>1
    <2>2. UsnsApart /\ Answered /\ Entries /\ Listed
      BY <1>2 DEF UsnsApart, Answered, Entries, Listed
    <2>3. CursorSound
      <3>1. CASE cursor = -1
        BY <1>2, <3>1 DEF CursorSound, IsLive
      <3>2. ASSUME NEW l \in Ids, Exists(l) PROVE CursorSound
        <4>1. l \in RowsOf(1) /\ rows[l].usn = srv[1].usn
          BY <1>2, <1>5, <3>2 DEF RowsOf
        <4> QED
          BY <1>2, <4>1 DEF CursorSound, IsLive
      <3> QED
        BY <1>3, <3>1, <3>2
    <2> QED
      BY <2>1, <2>2, <2>3 DEF CursorInv
  <1> QED
    BY <1>1, <1>6, <1>7 DEF IInv

\* Every step keeps it.
LEMMA StepIInv == IInv /\ [Next]_vars => IInv'
  BY Inductive, EditsStep, CursorStep DEF IInv

\* Both halves of the invariant hold in every state of every behaviour.
THEOREM Invariant == Spec => []IInv
  BY InitIInv, StepIInv, PTL DEF Spec

\* A clean row at the server's version holds nothing the server has not got,
\* save what an answer overtook.
THEOREM CleanRows == Spec => []CleanRowAgrees
  <1>1. IInv => CleanRowAgrees
    BY DEF IInv, EditsInv, TextsHeld, CleanRowAgrees
  <1> QED
    BY <1>1, Invariant, PTL

\* What was typed is in a row or on the server, unless it was deleted on
\* purpose or overtaken by an answer.
THEOREM NothingLost == Spec => []NoLostEdit
  <1>1. IInv => NoLostEdit
    BY DEF IInv, EditsInv
  <1> QED
    BY <1>1, Invariant, PTL

\* Every live server note up to last_sync_usn is in the cache at its version,
\* whatever pages, uploads, edits and deletions interleaved.
THEOREM CursorIsSound == Spec => []CursorSound
  <1>1. IInv => CursorSound
    BY DEF IInv, CursorInv
  <1> QED
    BY <1>1, Invariant, PTL

=============================================================================
