-------------------------- MODULE AttachmentsProofs --------------------------
(***************************************************************************)
(* Proofs about Attachments, for any ids, documents and bounds: the types, *)
(* that sync takes no pending attachment away, and that an upload makes    *)
(* the server drop no file this device has had, but for those its user     *)
(* took off and those the list in hand could not have.                     *)
(***************************************************************************)
EXTENDS Attachments, TLAPS

-----------------------------------------------------------------------------
(* The inductive invariant                                                 *)

\* Ids somebody refers to: rows, the list of an upload, histories, a restore
\* under way.
Referred == Here \cup sent \cup (UNION hist)
                 \cup (IF restore = None THEN {} ELSE restore.ids \cup restore.backup)

\* A file id that is referred to stands for a document.
DocsNamed == \A i \in Referred : doc[i] \in Docs

\* The stages of an upload that have a list.
Sending == {"send", "again"}

\* The list of an upload is kept until its answer is processed.
SentUntilAck == pc \notin Sending \cup {"ack"} => sent = {}

\* What the server has held: its files, those of an answer, those still to be
\* downloaded; what a row without changes stands for, and what was stored.
OnServerOnce ==
    /\ srv.files \cup remote.files \cup jobs \subseteq reached
    /\ \A i \in Ids : rows[i] = "synced" \/ (pc = "ack" /\ i \in sent) => doc[i] \in reached

\* A note that is not on the server has no files there.
GoneIsEmpty == ~srv.live => srv.files = {}

\* A note without a server id was never added, but for an answer in hand; an
\* upload works on a row that has kept the ids it was read with.
AddedOnce ==
    /\ note.dirty => note.here
    /\ note.here /\ ~note.mapped => ~srv.live \/ pc = "ack"
    /\ pc \in {"push", "list"} \cup Sending =>
          base.mapped = note.mapped /\ (base.dirty => note.here)
    /\ pc \in {"list"} \cup Sending => base.dirty

\* A tombstone in hand is still true: only an upload adds the note again.
Tombstone == pc = "note" /\ ~remote.live => ~srv.live

\* What the server holds of the files known here, and of those the batch will
\* bring, is in the answer about to replace the rows: the others only add new
\* files to the note, or remove some.
AnswerCovers == pc \in {"note", "set", "replace"} => srv.files \cap (known \cup jobs) \subseteq remote.files

\* The list about to replace the rows has an id for every file, and no two
\* files share one.
ListComplete == pc = "replace" =>
    /\ \A f \in remote.files : files[f] \in Ids
    /\ \A f, g \in remote.files : files[f] = files[g] => f = g

\* A file of the server that this device has had a row for still has one, or
\* the user took it off.
AppliedIsHere == srv.files \cap known \subseteq DocsOf(Here) \cup removed

\* A list in hand lacks none of them either, but what it could not have.
ListCovers == pc = "send" => srv.files \cap known \subseteq DocsOf(sent) \cup removed \cup missed

\* A list is of rows, but for those the user has taken off meanwhile.
ListIsHere == pc \in Sending => DocsOf(sent) \subseteq DocsOf(Here) \cup removed

\* The list made for a note the server does not have: only it adds the note.
AgainForGone == pc = "again" => ~srv.live

IInv == /\ TypeOK /\ DocsNamed /\ SentUntilAck /\ OnServerOnce /\ GoneIsEmpty /\ AddedOnce
        /\ Tombstone /\ AnswerCovers /\ ListComplete /\ AppliedIsHere
        /\ ListCovers /\ ListIsHere /\ AgainForGone

-----------------------------------------------------------------------------
(* Types                                                                   *)

\* Every initial state has the types.
LEMMA InitType == ASSUME Init PROVE TypeOK
  <1>1. /\ NoRow \in Row /\ NoObject \in Object /\ NoFiles \in [Docs -> Ids \cup {None}]
        /\ count \in [Counters -> Nat]
    BY DEF Init, NoRow, NoObject, NoFiles, Row, Object, Counters
  <1>2. srv \in Object
    <2>1. \A set \in SUBSET Docs : [live |-> TRUE, usn |-> 1, files |-> set] \in Object
      BY DEF Object
    <2> QED
      BY <1>1, <2>1 DEF Init
  <1>3. note \in Row
    <2>1. /\ [NoRow EXCEPT !.here = TRUE, !.dirty = TRUE] \in Row
          /\ [NoRow EXCEPT !.here = TRUE, !.mapped = TRUE, !.usn = 1] \in Row
      BY DEF NoRow, Row
    <2> QED
      BY <1>1, <2>1 DEF Init
  <1>4. last \in Nat /\ jobs \subseteq Docs
    BY DEF Init, Queued
  <1> QED
    BY <1>1, <1>2, <1>3, <1>4 DEF Init, TypeOK, AttachStates, Object

\* A counted step counts.
LEMMA CountType ==
    ASSUME TypeOK, NEW c \in Counters, Counted(c)
    PROVE  count' \in [Counters -> Nat]
  BY DEF Counted, TypeOK

\* A fault counts.
LEMMA FaultType ==
    ASSUME TypeOK, Fault
    PROVE  count' \in [Counters -> Nat]
  BY CountType DEF Fault, Counters

\* The server's note with its next version and other files.
LEMMA ServerType ==
    ASSUME TypeOK
    PROVE  /\ \A f \in Docs : [srv EXCEPT !.usn = @ + 1, !.files = @ \cup {f}] \in Object
           /\ \A f \in Docs : [srv EXCEPT !.usn = @ + 1, !.files = @ \ {f}] \in Object
           /\ \A set \in SUBSET Docs : [srv EXCEPT !.usn = @ + 1, !.files = set] \in Object
           /\ \A set \in SUBSET Docs : [live |-> TRUE, usn |-> srv.usn + 1, files |-> set] \in Object
  <1>1. srv.files \in SUBSET Docs /\ srv \in Object /\ srv.usn + 1 \in Nat
    BY DEF TypeOK, Object
  <1>2. ASSUME NEW set \in SUBSET Docs PROVE [srv EXCEPT !.usn = @ + 1, !.files = set] \in Object
    <2>1. ASSUME NEW r \in Object, NEW n \in Nat PROVE [r EXCEPT !.usn = n] \in Object
      BY <2>1 DEF Object
    <2>2. ASSUME NEW r \in Object PROVE [r EXCEPT !.files = set] \in Object
      BY <2>2 DEF Object
    <2>3. [srv EXCEPT !.usn = @ + 1, !.files = set] = [[srv EXCEPT !.usn = srv.usn + 1] EXCEPT !.files = set]
      OBVIOUS
    <2> QED
      BY <1>1, <2>1, <2>2, <2>3
  <1>3. ASSUME NEW f \in Docs
        PROVE  /\ [srv EXCEPT !.usn = @ + 1, !.files = @ \cup {f}] \in Object
               /\ [srv EXCEPT !.usn = @ + 1, !.files = @ \ {f}] \in Object
    <2>1. srv.files \cup {f} \in SUBSET Docs /\ srv.files \ {f} \in SUBSET Docs
      BY <1>1
    <2>2. /\ [srv EXCEPT !.usn = @ + 1, !.files = @ \cup {f}]
              = [srv EXCEPT !.usn = @ + 1, !.files = srv.files \cup {f}]
          /\ [srv EXCEPT !.usn = @ + 1, !.files = @ \ {f}]
              = [srv EXCEPT !.usn = @ + 1, !.files = srv.files \ {f}]
      BY <1>1 DEF Object
    <2> QED
      BY <1>2, <2>1, <2>2
  <1>4. \A set \in SUBSET Docs : [live |-> TRUE, usn |-> srv.usn + 1, files |-> set] \in Object
    BY DEF TypeOK, Object
  <1> QED
    BY <1>2, <1>3, <1>4

\* The steps of the other devices keep the types.
LEMMA RemoteType == ASSUME TypeOK, Remote PROVE TypeOK'
  <1>1. ASSUME NEW object \in Object, RemoteChange(object) PROVE TypeOK'
    <2>1. count' \in [Counters -> Nat]
      BY <1>1, CountType DEF RemoteChange, Counters
    <2> QED
      BY <1>1, <2>1 DEF RemoteChange, TypeOK, Object, local, round
  <1>2. CASE RemoteAdd
    <2>1. PICK f \in Docs : RemoteChange([srv EXCEPT !.usn = @ + 1, !.files = @ \cup {f}])
      BY <1>2 DEF RemoteAdd
    <2>2. [srv EXCEPT !.usn = @ + 1, !.files = @ \cup {f}] \in Object
      BY ServerType
    <2> QED
      BY <1>1, <2>1, <2>2
  <1>3. CASE RemoteRemove
    <2>1. PICK f \in srv.files : RemoteChange([srv EXCEPT !.usn = @ + 1, !.files = @ \ {f}])
      BY <1>3 DEF RemoteRemove
    <2>2. [srv EXCEPT !.usn = @ + 1, !.files = @ \ {f}] \in Object
      BY ServerType DEF TypeOK, Object
    <2> QED
      BY <1>1, <2>1, <2>2
  <1>4. CASE RemoteEdit
    <2>1. [srv EXCEPT !.usn = @ + 1] \in Object
      BY DEF TypeOK, Object
    <2> QED
      BY <1>1, <1>4, <2>1 DEF RemoteEdit
  <1>5. CASE RemoteDelete
    <2>1. [live |-> FALSE, usn |-> srv.usn + 1, files |-> {}] \in Object
      BY DEF TypeOK, Object
    <2> QED
      BY <1>1, <1>5, <2>1 DEF RemoteDelete
  <1> QED
    BY <1>2, <1>3, <1>4, <1>5 DEF Remote

\* The row of the note after an edit.
LEMMA EditType ==
    ASSUME TypeOK
    PROVE  [note EXCEPT !.dirty = TRUE, !.rev = @ + 1] \in Row
  <1>1. note \in Row /\ note.rev + 1 \in Nat
    BY DEF TypeOK, Row
  <1> QED
    BY <1>1 DEF Row

\* The statements of the user's requests keep the types.
LEMMA UserType == ASSUME TypeOK, DocsNamed, User PROVE TypeOK'
  <1> USE DEF UserStep, round
  <1>1. Here \subseteq Ids /\ \A i \in Here : doc[i] \in Docs
    BY DEF Here, DocsNamed, Referred
  <1>2. ASSUME Recorded PROVE hist' \in SUBSET SUBSET Ids
    BY <1>1, <1>2 DEF Recorded, TypeOK
  <1>3. CASE Save
    <2>1. count' \in [Counters -> Nat]
      BY <1>3, CountType DEF Save, Counters
    <2>2. note' \in Row
      BY <1>3, EditType DEF Save
    <2> QED
      BY <1>2, <1>3, <2>1, <2>2 DEF Save, TypeOK
  <1>4. CASE Upload
    <2>1. count' \in [Counters -> Nat]
      BY <1>4, CountType DEF Upload, Counters
    <2> QED
      BY <1>4, <2>1 DEF Upload, Free, TypeOK, AttachStates
  <1>5. CASE DeleteAttach
    <2>1. count' \in [Counters -> Nat]
      BY <1>5, CountType DEF DeleteAttach, Counters
    <2> QED
      BY <1>1, <1>2, <1>5, <2>1 DEF DeleteAttach, TypeOK, AttachStates
  <1>6. CASE RetryAttachment
    BY <1>6 DEF RetryAttachment, In, TypeOK
  <1>7. CASE LoseFile
    <2>1. count' \in [Counters -> Nat]
      BY <1>7, FaultType DEF LoseFile
    <2> QED
      BY <1>7, <2>1 DEF LoseFile, Here, TypeOK
  <1>8. CASE RestoreRead
    <2>1. count' \in [Counters -> Nat]
      BY <1>8, CountType DEF RestoreRead, Counters
    <2>2. restore' \in [ids : SUBSET Ids, backup : SUBSET Ids, note : Row]
      BY <1>1, <1>8 DEF RestoreRead, TypeOK
    <2> QED
      BY <1>8, <2>1, <2>2 DEF RestoreRead, TypeOK, local
  <1>9. CASE RestoreWrite
    <2>1. note' \in Row
      BY <1>9, EditType DEF RestoreWrite
    <2>2. rows' \in [Ids -> AttachStates]
      BY <1>9 DEF RestoreWrite, AttachStates
    <2>3. hist' \in SUBSET SUBSET Ids
      BY <1>9 DEF RestoreWrite, TypeOK
    <2>4. removed' \subseteq Docs
      BY <1>1, <1>9 DEF RestoreWrite, TypeOK, DocsOf
    <2> QED
      BY <1>9, <2>1, <2>2, <2>3, <2>4 DEF RestoreWrite, TypeOK
  <1>10. CASE RestoreConflict
    BY <1>10 DEF RestoreConflict, TypeOK, local
  <1> QED
    BY <1>3, <1>4, <1>5, <1>6, <1>7, <1>8, <1>9, <1>10 DEF User

\* A row after a download, and an answer of the server, have their types.
LEMMA AppliedType ==
    ASSUME TypeOK
    PROVE  /\ [note EXCEPT !.usn = remote.usn, !.dirty = FALSE] \in Row
           /\ [note EXCEPT !.mapped = TRUE, !.dirty = FALSE, !.usn = remote.usn] \in Row
           /\ [NoRow EXCEPT !.here = TRUE, !.mapped = TRUE, !.usn = remote.usn] \in Row
           /\ NoRow \in Row /\ NoObject \in Object /\ NoFiles \in [Docs -> Ids \cup {None}]
  <1>1. note \in Row /\ remote.usn \in Nat
    BY DEF TypeOK, Object
  <1>2. NoRow \in Row /\ NoObject \in Object /\ NoFiles \in [Docs -> Ids \cup {None}]
    BY DEF NoRow, Row, NoObject, Object, NoFiles
  <1> QED
    BY <1>1, <1>2 DEF Row

\* The ends of a pass keep the types.
LEMMA PushedType ==
    ASSUME TypeOK, Pushed
    PROVE  /\ pc' \in {"idle", "pull"} /\ pass' \in {1, 2} /\ base' \in Row /\ remote' \in Object
           /\ sent' = {} /\ files' \in [Docs -> Ids \cup {None}] /\ from' \in Nat
  BY AppliedType DEF Pushed, EndRound, Goto, TypeOK

\* So does the end of a round.
LEMMA EndRoundType ==
    ASSUME TypeOK, EndRound
    PROVE  /\ pc' = "idle" /\ pass' \in {1, 2} /\ base' \in Row /\ remote' \in Object
           /\ sent' = {} /\ files' \in [Docs -> Ids \cup {None}] /\ from' = 0
  BY AppliedType DEF EndRound, Goto, TypeOK

\* A list of an upload is of rows, and these stand for documents.
LEMMA ListType ==
    ASSUME TypeOK, DocsNamed, NEW ids \in SUBSET In("pending"), WithBytes(ids)
    PROVE  /\ count' \in [Counters -> Nat]
           /\ ByReference \cup ids \subseteq Here /\ Here \subseteq Ids
           /\ DocsOf(In("pending") \ ids) \subseteq Docs
  <1>1. ByReference \cup ids \subseteq Here /\ In("pending") \subseteq Here /\ Here \subseteq Ids
    BY DEF ByReference, In, Here
  <1>2. count' \in [Counters -> Nat]
    BY FaultType DEF WithBytes, TypeOK
  <1>3. \A i \in Here : doc[i] \in Docs
    BY DEF DocsNamed, Referred
  <1> QED
    BY <1>1, <1>2, <1>3 DEF DocsOf

\* An upload that is taken keeps the types.
LEMMA StoredType ==
    ASSUME TypeOK, DocsNamed, Stored
    PROVE  srv' \in Object /\ reached' \subseteq Docs /\ missed' \subseteq Docs
  <1>1. DocsOf(sent) \in SUBSET Docs
    BY DEF DocsOf, DocsNamed, Referred
  <1>2. [live |-> TRUE, usn |-> srv.usn + 1, files |-> DocsOf(sent)] \in Object
    BY <1>1, ServerType
  <1> QED
    BY <1>1, <1>2 DEF Stored, TypeOK

\* The steps of sendChanges keep the types.
LEMMA PushType == ASSUME TypeOK, DocsNamed, StartRound \/ Push \/ AnswerLost PROVE TypeOK'
  <1> USE DEF local, watch, seen
  <1>1. CASE StartRound
    BY <1>1 DEF StartRound, TypeOK, Goto
  <1>2. CASE PushNothing
    BY <1>2, PushedType DEF PushNothing, TypeOK
  <1>3. CASE PushRefused
    BY <1>3, EndRoundType DEF PushRefused, TypeOK
  <1>4. CASE PushChecked
    BY <1>4 DEF PushChecked, Goto, TypeOK
  <1>5. CASE PushList
    <2>1. PICK ids \in SUBSET In("pending") :
             WithBytes(ids) /\ sent' = ByReference \cup ids /\ missed' = DocsOf(In("pending") \ ids)
      BY <1>5 DEF PushList
    <2>2. count' \in [Counters -> Nat] /\ sent' \subseteq Ids /\ missed' \subseteq Docs
      BY <2>1, ListType
    <2> QED
      BY <1>5, <2>2 DEF PushList, Goto, TypeOK
  <1>6. CASE PushAdd
    BY <1>6, StoredType DEF PushAdd, Answered, Goto, TypeOK
  <1>7. CASE PushUpdate
    BY <1>7, StoredType DEF PushUpdate, Answered, Goto, TypeOK
  <1>8. CASE AnswerLost
    BY <1>8, StoredType, FaultType, EndRoundType DEF AnswerLost, TypeOK
  <1>9. CASE PushMissing
    <2>1. PICK kept \in SUBSET ByReference, ids \in SUBSET In("pending") :
             WithBytes(ids) /\ sent' = kept \cup ids
      BY <1>9 DEF PushMissing
    <2>2. count' \in [Counters -> Nat] /\ sent' \subseteq Ids
      BY <2>1, ListType
    <2> QED
      BY <1>9, <2>2 DEF PushMissing, Goto, TypeOK
  <1>10. CASE PushAgain
    BY <1>10, StoredType DEF PushAgain, Answered, Goto, TypeOK
  <1>11. CASE PushConflict
    BY <1>11 DEF PushConflict, Goto, TypeOK
  <1>12. CASE AckUpload
    <2>1. rows' \in [Ids -> AttachStates]
      BY <1>12 DEF AckUpload, Acked, AttachStates, TypeOK
    <2>2. note' \in Row /\ last' \in Nat
      BY <1>12, AppliedType DEF AckUpload, TypeOK, Object
    <2> QED
      BY <1>12, <2>1, <2>2, PushedType DEF AckUpload, TypeOK
  <1>13. CASE ResolveConflict
    <2>1. note' \in Row
      BY <1>13, AppliedType DEF ResolveConflict, Applied
    <2> QED
      BY <1>13, <2>1, PushedType DEF ResolveConflict, TypeOK
  <1> QED
    BY <1>1, <1>2, <1>3, <1>4, <1>5, <1>6, <1>7, <1>8, <1>9, <1>10, <1>11, <1>12, <1>13 DEF Push

\* The steps of syncNotesMode keep the types.
LEMMA PullType == ASSUME TypeOK, ListComplete, Pull PROVE TypeOK'
  <1> USE DEF local, watch, seen
  <1>1. CASE PullNothing
    BY <1>1 DEF PullNothing, TypeOK, Goto
  <1>2. CASE PullNote
    BY <1>2 DEF PullNote, TypeOK, Goto
  <1>3. CASE PullTombstone
    <2>1. rows' \in [Ids -> AttachStates] /\ note' \in Row
      BY <1>3, AppliedType DEF PullTombstone, TypeOK, AttachStates
    <2> QED
      BY <1>3, <2>1 DEF PullTombstone, PullDone, Goto, TypeOK
  <1>4. CASE PullInsert
    BY <1>4, AppliedType DEF PullInsert, Goto, TypeOK
  <1>5. CASE PullApply
    BY <1>5, AppliedType DEF PullApply, Applied, Goto, TypeOK
  <1>6. CASE PullUpToDate
    BY <1>6 DEF PullUpToDate, Goto, TypeOK
  <1>7. CASE NoteChanged
    BY <1>7, EndRoundType DEF NoteChanged, TypeOK
  <1>8. CASE SetRefused
    BY <1>8, EndRoundType DEF SetRefused, TypeOK
  <1>9. CASE SetRead
    <2>1. files' \in [Docs -> Ids \cup {None}]
      BY <1>9 DEF SetRead
    <2> QED
      BY <1>9, <2>1 DEF SetRead, Goto, TypeOK
  <1>10. CASE ReplaceSynced
    <2>1. rows' \in [Ids -> AttachStates]
      BY <1>10 DEF ReplaceSynced, AttachStates
    <2>2. remote.files \subseteq Docs
      BY DEF TypeOK, Object
    <2>3. \A i \in Ids : DocFor(i) \in Docs \cup {None}
      BY <2>2 DEF DocFor, TypeOK
    <2>4. doc' \in [Ids -> Docs \cup {None}]
      BY <1>10, <2>3 DEF ReplaceSynced
    <2>5. disk' \in [Ids -> BOOLEAN] /\ count' \in [Counters -> Nat]
      BY <1>10, FaultType DEF ReplaceSynced, TypeOK
    <2>6. files' \in [Docs -> Ids \cup {None}]
      BY <1>10, AppliedType DEF ReplaceSynced
    <2> QED
      BY <1>10, <2>1, <2>2, <2>4, <2>5, <2>6 DEF ReplaceSynced, Goto, TypeOK
  <1>11. CASE SetStale
    BY <1>11, EndRoundType DEF SetStale, TypeOK
  <1> QED
    BY <1>1, <1>2, <1>3, <1>4, <1>5, <1>6, <1>7, <1>8, <1>9, <1>10, <1>11 DEF Pull

\* Every step keeps the types.
LEMMA TypeStep == ASSUME TypeOK, DocsNamed, ListComplete, [Next]_vars PROVE TypeOK'
  <1>1. CASE RoundFails
    BY <1>1, EndRoundType, FaultType DEF RoundFails, TypeOK, local, seen
  <1>2. CASE StoreSnapshotFile
    <2>1. PICK f \in jobs, i \in Free :
             /\ rows' = [rows EXCEPT ![i] = "synced"] /\ doc' = [doc EXCEPT ![i] = f]
             /\ known' = known \cup {f} /\ jobs' = jobs \ {f}
             /\ missed' \in {missed, missed \cup {f}}
             /\ \/ disk' = [disk EXCEPT ![i] = TRUE] /\ UNCHANGED count
                \/ disk' = [disk EXCEPT ![i] = FALSE] /\ Fault
      BY <1>2 DEF StoreSnapshotFile
    <2>2. i \in Ids /\ f \in Docs
      BY DEF Free, TypeOK
    <2>3. count' \in [Counters -> Nat]
      BY <2>1, FaultType DEF TypeOK
    <2> QED
      BY <1>2, <2>1, <2>2, <2>3 DEF StoreSnapshotFile, TypeOK, AttachStates, round
  <1>3. CASE DropSnapshotFile
    BY <1>3, FaultType DEF DropSnapshotFile, TypeOK, local, round, watch, seen
  <1>4. CASE UNCHANGED vars
    BY <1>4 DEF vars, local, round, watch, seen, TypeOK
  <1> QED
    BY <1>1, <1>2, <1>3, <1>4, RemoteType, UserType, PushType, PullType DEF Next, Round

-----------------------------------------------------------------------------
(* Who writes what                                                         *)

\* Steps outside the round leave it alone.
LEMMA Outside ==
    ASSUME [Next]_vars
    PROVE  UNCHANGED round \/ Round \/ AnswerLost \/ RoundFails
  BY DEF Next, Remote, RemoteAdd, RemoteRemove, RemoteEdit, RemoteDelete, RemoteChange,
         User, UserStep, Save, Upload, DeleteAttach, RetryAttachment, LoseFile,
         RestoreRead, RestoreWrite, RestoreConflict, StoreSnapshotFile, DropSnapshotFile, vars

\* Who writes rows and what refers to their ids.
LEMMA WritersOfRows ==
    ASSUME [Next]_vars
    PROVE  \/ UNCHANGED <<rows, doc, hist, restore>>
           \/ Save \/ Upload \/ DeleteAttach \/ RestoreRead \/ RestoreWrite \/ RestoreConflict
           \/ AckUpload \/ PullTombstone \/ ReplaceSynced \/ StoreSnapshotFile
  BY DEF Next, Remote, RemoteAdd, RemoteRemove, RemoteEdit, RemoteDelete, RemoteChange,
         User, RetryAttachment, LoseFile, Round, StartRound, Push, PushNothing, PushRefused,
         PushChecked, PushList, PushAdd, PushUpdate, PushMissing, PushAgain, PushConflict,
         ResolveConflict, AnswerLost, RoundFails, Pull,
         PullNothing, PullNote, PullInsert, PullApply, PullUpToDate, NoteChanged,
         SetRefused, SetRead, SetStale, DropSnapshotFile, vars, local

\* Who changes the server's note.
LEMMA WritersOfServer ==
    ASSUME [Next]_vars
    PROVE  \/ UNCHANGED <<srv, reached>>
           \/ Remote \/ PushAdd \/ PushUpdate \/ PushAgain \/ AnswerLost
  BY DEF Next, User, UserStep, Save, Upload, DeleteAttach, RetryAttachment, LoseFile,
         RestoreRead, RestoreWrite, RestoreConflict, StoreSnapshotFile, DropSnapshotFile, vars,
         watch, seen, Round, StartRound, Push, PushNothing, PushRefused, PushChecked, PushList,
         PushMissing, PushConflict, AckUpload, ResolveConflict,
         RoundFails, Pull, PullNothing, PullNote, PullTombstone, PullInsert, PullApply,
         PullUpToDate, NoteChanged, SetRefused, SetRead, ReplaceSynced, SetStale

\* What another device does to the note, and to nothing here.
LEMMA RemoteStep ==
    ASSUME TypeOK, Remote
    PROVE  /\ srv.live /\ UNCHANGED <<local, last, jobs, round, restore, removed, known, missed>>
           /\ reached' = reached \cup srv'.files
           /\ srv'.files \subseteq srv.files \cup (Docs \ (reached \cup known))
           /\ srv'.live \in BOOLEAN /\ (~srv'.live => srv'.files = {})
  <1>1. srv \in Object /\ srv.files \subseteq Docs
    BY DEF TypeOK, Object
  <1>2. CASE RemoteAdd
    <2>1. PICK f \in Docs \ (reached \cup known) :
             RemoteChange([srv EXCEPT !.usn = @ + 1, !.files = @ \cup {f}])
      BY <1>2 DEF RemoteAdd
    <2>2. srv.live /\ srv'.files = srv.files \cup {f} /\ srv'.live = srv.live
      BY <1>1, <2>1 DEF RemoteChange, Object
    <2> QED
      BY <2>1, <2>2 DEF RemoteChange
  <1>3. CASE RemoteRemove
    <2>1. PICK f \in srv.files : RemoteChange([srv EXCEPT !.usn = @ + 1, !.files = @ \ {f}])
      BY <1>3 DEF RemoteRemove
    <2>2. srv.live /\ srv'.files = srv.files \ {f} /\ srv'.live = srv.live
      BY <1>1, <2>1 DEF RemoteChange, Object
    <2> QED
      BY <2>1, <2>2 DEF RemoteChange
  <1>4. CASE RemoteEdit
    <2>1. srv.live /\ srv'.files = srv.files /\ srv'.live = srv.live
      BY <1>1, <1>4 DEF RemoteEdit, RemoteChange, Object
    <2> QED
      BY <1>4, <2>1 DEF RemoteEdit, RemoteChange
  <1>5. CASE RemoteDelete
    <2>1. srv.live /\ srv'.files = {} /\ srv'.live = FALSE
      BY <1>5 DEF RemoteDelete, RemoteChange
    <2> QED
      BY <1>5, <2>1 DEF RemoteDelete, RemoteChange
  <1> QED
    BY <1>2, <1>3, <1>4, <1>5 DEF Remote

\* What an upload does to the server, which takes the list, and to nothing here.
LEMMA UploadStep ==
    ASSUME PushAdd \/ PushUpdate \/ PushAgain \/ AnswerLost
    PROVE  /\ pc \in Sending /\ pc' \in {"ack", "idle"} /\ srv'.live
           /\ pc' = "ack" => UNCHANGED sent
           /\ UNCHANGED <<local, last, jobs, restore, removed, known>>
           /\ reached' = reached \cup srv'.files
           /\ srv'.files = DocsOf(sent)
  <1>1. CASE PushAdd \/ PushUpdate \/ PushAgain
    BY <1>1 DEF PushAdd, PushUpdate, PushAgain, Stored, Answered, Goto, Sending
  <1>2. CASE AnswerLost
    BY <1>2 DEF AnswerLost, Stored, EndRound, Goto, Sending
  <1> QED
    BY <1>1, <1>2

\* Only an upload has an answer to process.
LEMMA AnswersAnUpload ==
    ASSUME [Next]_vars, pc' = "ack"
    PROVE  UNCHANGED round \/ PushAdd \/ PushUpdate \/ PushAgain
  <1>1. ASSUME Pushed \/ EndRound PROVE FALSE
    BY <1>1 DEF Pushed, EndRound, Goto
  <1>2. CASE StartRound \/ AnswerLost \/ RoundFails
    BY <1>1, <1>2 DEF StartRound, AnswerLost, RoundFails, Goto
  <1>3. CASE Push
    BY <1>1, <1>3 DEF Push, PushNothing, PushRefused, PushChecked, PushList, PushMissing,
                      PushConflict, AckUpload, ResolveConflict, Goto
  <1>4. CASE Pull
    BY <1>1, <1>4 DEF Pull, PullNothing, PullNote, PullTombstone, PullDone, PullInsert, PullApply,
                      PullUpToDate, NoteChanged, SetRefused, SetRead, ReplaceSynced, SetStale, Goto
  <1> QED
    BY <1>2, <1>3, <1>4, Outside DEF Round

\* While a list is in hand, the round makes it, or waits for the server.
LEMMA ListsInHand ==
    ASSUME [Next]_vars, pc' \in Sending
    PROVE  UNCHANGED round \/ PushList \/ PushMissing
  <1>1. ASSUME Pushed \/ EndRound PROVE FALSE
    BY <1>1 DEF Pushed, EndRound, Goto, Sending
  <1>2. CASE StartRound \/ AnswerLost \/ RoundFails
    BY <1>1, <1>2 DEF StartRound, AnswerLost, RoundFails, Goto, Sending
  <1>3. CASE Push
    BY <1>1, <1>3 DEF Push, PushNothing, PushRefused, PushChecked, PushAdd, PushUpdate, PushAgain,
                      Answered, PushConflict, AckUpload, ResolveConflict, Goto, Sending
  <1>4. CASE Pull
    BY <1>1, <1>4 DEF Pull, PullNothing, PullNote, PullTombstone, PullDone, PullInsert, PullApply,
                      PullUpToDate, NoteChanged, SetRefused, SetRead, ReplaceSynced, SetStale,
                      Goto, Sending
  <1> QED
    BY <1>2, <1>3, <1>4, Outside DEF Round

-----------------------------------------------------------------------------
(* The steps and the invariant                                             *)

\* The rows after a replacement: the ids of the list, each for its file.
LEMMA ReplacedRows ==
    ASSUME TypeOK, ListComplete, ReplaceSynced
    PROVE  /\ Here' = Replacing /\ Replacing \subseteq Ids
           /\ \A i \in Replacing : doc'[i] \in remote.files
           /\ \A i \in Ids \ Replacing : doc'[i] = doc[i]
           /\ \A f \in remote.files : doc'[files[f]] = f
  <1>1. Replacing \subseteq Ids
    BY DEF ReplaceSynced, ListComplete, Replacing
  <1>2. Here' = Replacing
    BY <1>1 DEF ReplaceSynced, Here
  <1>3. \A i \in Ids : doc'[i] = DocFor(i)
    BY DEF ReplaceSynced
  <1>4. \A i \in Replacing : \E f \in remote.files : files[f] = i
    BY DEF Replacing
  <1>5. \A i \in Replacing : DocFor(i) \in remote.files /\ files[DocFor(i)] = i
    BY <1>4 DEF DocFor
  <1>6. \A i \in Ids \ Replacing : DocFor(i) = doc[i]
    BY DEF DocFor, Replacing
  <1>7. \A f \in remote.files : files[f] \in Replacing
    BY DEF Replacing
  <1>8. \A f, g \in remote.files : files[f] = files[g] => f = g
    BY DEF ReplaceSynced, ListComplete
  <1> QED
    BY <1>1, <1>2, <1>3, <1>5, <1>6, <1>7, <1>8

\* Who fills the list of an upload, and with rows.
LEMMA ListsSent ==
    ASSUME [Next]_vars
    PROVE  \/ sent' \subseteq sent
           \/ /\ PushList \/ PushMissing
              /\ sent' \subseteq Here /\ UNCHANGED local
  <1>1. ASSUME EndRound \/ Pushed PROVE sent' = {}
    BY <1>1 DEF EndRound, Pushed
  <1>2. CASE PushList
    BY <1>2 DEF PushList, ByReference, In, Here
  <1>3. CASE PushMissing
    BY <1>3 DEF PushMissing, ByReference, In, Here
  <1>4. CASE StartRound \/ AnswerLost \/ RoundFails
    BY <1>1, <1>4 DEF StartRound, AnswerLost, RoundFails
  <1>5. CASE Push
    BY <1>1, <1>2, <1>3, <1>5 DEF Push, PushNothing, PushRefused, PushChecked, PushAdd, PushUpdate,
                      PushAgain, PushConflict, AckUpload, ResolveConflict
  <1>6. CASE Pull
    BY <1>1, <1>6 DEF Pull, PullNothing, PullNote, PullTombstone, PullInsert, PullApply,
                      PullUpToDate, NoteChanged, SetRefused, SetRead, ReplaceSynced, SetStale
  <1> QED
    BY <1>4, <1>5, <1>6, Outside DEF Round, round

\* Ids that are referred to keep standing for a document.
LEMMA NamedStep ==
    ASSUME TypeOK, DocsNamed, ListComplete, [Next]_vars
    PROVE  DocsNamed'
  <1> DEFINE Kept == Here \cup (UNION hist)
                          \cup (IF restore = None THEN {} ELSE restore.ids \cup restore.backup)
  <1>1. Referred = Kept \cup sent /\ Kept \cup sent \subseteq Ids
    <2>1. Here \subseteq Ids /\ UNION hist \subseteq Ids /\ sent \subseteq Ids
      BY DEF Here, TypeOK
    <2>2. restore # None => restore.ids \subseteq Ids /\ restore.backup \subseteq Ids
      BY DEF TypeOK
    <2> QED
      BY <2>1, <2>2 DEF Referred
  <1>2. \A i \in Kept \cup sent : doc[i] \in Docs
    BY <1>1 DEF DocsNamed
  <1>3. SUFFICES ASSUME TRUE
                 PROVE  Kept' \subseteq Kept \cup {i \in Ids : doc'[i] \in Docs}
                        /\ \A i \in Ids : doc[i] \in Docs => doc'[i] \in Docs
    <2>1. sent' \subseteq Kept \cup sent
      BY ListsSent
    <2>2. Referred' = Kept' \cup sent'
      BY DEF Referred
    <2> QED
      BY <1>1, <1>2, <1>3, <2>1, <2>2 DEF DocsNamed
  <1>4. CASE UNCHANGED <<rows, doc, hist, restore>>
    BY <1>4 DEF Here
  <1>5. CASE Save
    BY <1>5 DEF Save, Recorded, Here
  <1>6. CASE Upload \/ StoreSnapshotFile
    <2>1. PICK i \in Free, f \in Docs : /\ \A k \in Ids : k # i => rows'[k] = rows[k]
                                        /\ doc' = [doc EXCEPT ![i] = f]
                                        /\ UNCHANGED <<hist, restore>>
      BY <1>6 DEF Upload, StoreSnapshotFile, TypeOK
    <2>2. i \in Ids /\ \A k \in Ids : doc[k] \in Docs => doc'[k] \in Docs
      BY <2>1 DEF Free, TypeOK
    <2>3. Here' \subseteq Here \cup {i} /\ doc'[i] \in Docs
      BY <2>1, <2>2 DEF Here, TypeOK
    <2> QED
      BY <2>1, <2>2, <2>3
  <1>7. CASE DeleteAttach
    <2>1. Here' \subseteq Here /\ doc' = doc /\ restore' = restore
      BY <1>7 DEF DeleteAttach, Here, TypeOK
    <2>2. hist' \subseteq hist \cup {Here}
      BY <1>7 DEF DeleteAttach, Recorded
    <2> QED
      BY <2>1, <2>2
  <1>8. CASE RestoreRead
    <2>1. /\ UNCHANGED <<rows, doc, hist>> /\ Here' = Here
          /\ \E h \in hist : restore' = [ids |-> h, backup |-> Here, note |-> note]
      BY <1>8 DEF RestoreRead, local, Here
    <2>2. restore'.ids \subseteq UNION hist /\ restore'.backup = Here
      BY <2>1
    <2> QED
      BY <2>1, <2>2
  <1>9. CASE RestoreWrite
    <2>1. Here' \subseteq restore.ids /\ doc' = doc /\ restore # None /\ restore' = None
      BY <1>9 DEF RestoreWrite, Here
    <2>2. hist' \subseteq hist \cup {restore.backup}
      BY <1>9 DEF RestoreWrite
    <2>3. UNION hist' \subseteq (UNION hist) \cup restore.backup
      BY <2>2
    <2> QED
      BY <2>1, <2>3
  <1>10. CASE RestoreConflict
    BY <1>10 DEF RestoreConflict, Here, local
  <1>11. CASE AckUpload
    BY <1>11 DEF AckUpload, Acked, TypeOK, Here
  <1>12. CASE PullTombstone
    BY <1>12 DEF PullTombstone, Here
  <1>13. CASE ReplaceSynced
    <2>1. remote.files \subseteq Docs
      BY DEF TypeOK, Object
    <2>2. UNCHANGED <<hist, restore>>
      BY <1>13 DEF ReplaceSynced
    <2>3. /\ Here' \subseteq Ids /\ \A i \in Here' : doc'[i] \in Docs
          /\ \A i \in Ids : doc[i] \in Docs => doc'[i] \in Docs
      BY <1>13, <2>1, ReplacedRows
    <2> QED
      BY <2>2, <2>3
  <1> QED
    BY <1>4, <1>5, <1>6, <1>7, <1>8, <1>9, <1>10, <1>11, <1>12, <1>13, WritersOfRows

\* A list of an upload goes on standing for the documents it was made of.
LEMMA SentDocs ==
    ASSUME TypeOK, SentUntilAck, [Next]_vars
    PROVE  \A i \in sent : doc'[i] = doc[i]
  <1>1. CASE UNCHANGED <<rows, doc, hist, restore>>
    BY <1>1
  <1>2. CASE \/ Save \/ DeleteAttach \/ RestoreRead \/ RestoreWrite \/ RestoreConflict
             \/ AckUpload \/ PullTombstone
    BY <1>2 DEF Save, DeleteAttach, RestoreRead, RestoreWrite, RestoreConflict, AckUpload,
                PullTombstone, local
  <1>3. CASE Upload \/ StoreSnapshotFile
    <2>1. PICK i \in Free, f \in Docs : doc' = [doc EXCEPT ![i] = f]
      BY <1>3 DEF Upload, StoreSnapshotFile, TypeOK
    <2> QED
      BY <2>1 DEF Free, TypeOK
  <1>4. CASE ReplaceSynced
    BY <1>4 DEF ReplaceSynced, SentUntilAck, Sending
  <1> QED
    BY <1>1, <1>2, <1>3, <1>4, WritersOfRows

\* The list of an upload is dropped with its answer.
LEMMA SentStep == ASSUME TypeOK, SentUntilAck, [Next]_vars PROVE SentUntilAck'
  <1> USE DEF Sending
  <1>1. CASE UNCHANGED round
    BY <1>1 DEF SentUntilAck, round
  <1>2. CASE AnswerLost \/ RoundFails
    BY <1>2, EndRoundType DEF AnswerLost, RoundFails, SentUntilAck
  <1>3. CASE StartRound
    BY <1>3 DEF StartRound, Goto, SentUntilAck
  <1>4. CASE Push
    <2>1. CASE PushNothing \/ AckUpload \/ ResolveConflict
      BY <2>1, PushedType DEF PushNothing, AckUpload, ResolveConflict, SentUntilAck
    <2>2. CASE PushRefused
      BY <2>2, EndRoundType DEF PushRefused, SentUntilAck
    <2>3. CASE PushAdd \/ PushUpdate \/ PushAgain
      BY <2>3 DEF PushAdd, PushUpdate, PushAgain, Answered, Goto, SentUntilAck
    <2>4. CASE PushChecked \/ PushList \/ PushMissing \/ PushConflict
      BY <2>4 DEF PushChecked, PushList, PushMissing, PushConflict, Goto, SentUntilAck
    <2> QED
      BY <1>4, <2>1, <2>2, <2>3, <2>4 DEF Push
  <1>5. CASE Pull
    <2>1. CASE NoteChanged \/ SetRefused \/ SetStale
      BY <2>1, EndRoundType DEF NoteChanged, SetRefused, SetStale, SentUntilAck
    <2>2. CASE \/ PullNothing \/ PullNote \/ PullTombstone \/ PullInsert \/ PullApply
               \/ PullUpToDate \/ SetRead \/ ReplaceSynced
      BY <2>2 DEF PullNothing, PullNote, PullTombstone, PullDone, PullInsert, PullApply,
                  PullUpToDate, SetRead, ReplaceSynced, Goto, SentUntilAck
    <2> QED
      BY <1>5, <2>1, <2>2 DEF Pull
  <1> QED
    BY <1>1, <1>2, <1>3, <1>4, <1>5, Outside DEF Round

\* A note that goes takes its files with it.
LEMMA GoneStep == ASSUME TypeOK, GoneIsEmpty, [Next]_vars PROVE GoneIsEmpty'
  <1>1. CASE UNCHANGED <<srv, reached>>
    BY <1>1 DEF GoneIsEmpty
  <1>2. CASE Remote
    BY <1>2, RemoteStep DEF GoneIsEmpty
  <1>3. CASE PushAdd \/ PushUpdate \/ PushAgain \/ AnswerLost
    BY <1>3, UploadStep DEF GoneIsEmpty
  <1> QED
    BY <1>1, <1>2, <1>3, WritersOfServer

\* The answer in hand is of the server.
LEMMA AnswerStep ==
    ASSUME TypeOK, [Next]_vars
    PROVE  remote'.files \in {remote.files, srv.files, srv'.files, {}}
  <1>1. CASE UNCHANGED round
    BY <1>1 DEF round
  <1>2. ASSUME EndRound \/ Pushed PROVE remote'.files \in {remote.files, {}}
    BY <1>2 DEF EndRound, Pushed, NoObject
  <1>3. CASE AnswerLost \/ RoundFails
    BY <1>2, <1>3 DEF AnswerLost, RoundFails
  <1>4. CASE StartRound
    BY <1>4 DEF StartRound
  <1>5. CASE Push
    BY <1>2, <1>5 DEF Push, PushNothing, PushRefused, PushChecked, PushList, PushAdd, PushUpdate,
                      PushMissing, PushAgain, Answered, PushConflict, AckUpload, ResolveConflict
  <1>6. CASE Pull
    BY <1>2, <1>6 DEF Pull, PullNothing, PullNote, PullTombstone, PullInsert, PullApply,
                      PullUpToDate, NoteChanged, SetRefused, SetRead, ReplaceSynced, SetStale
  <1> QED
    BY <1>1, <1>3, <1>4, <1>5, <1>6, Outside DEF Round

\* What the server holds it has held, and what it has held it has held.
LEMMA ReachedGrows ==
    ASSUME TypeOK, srv.files \subseteq reached, [Next]_vars
    PROVE  reached \subseteq reached' /\ srv'.files \subseteq reached'
  BY WritersOfServer, RemoteStep, UploadStep

\* Jobs are only taken from the batch.
LEMMA JobsShrink == ASSUME TypeOK, [Next]_vars PROVE jobs' \subseteq jobs
  BY DEF Next, Remote, RemoteAdd, RemoteRemove, RemoteEdit, RemoteDelete, RemoteChange,
         User, UserStep, Save, Upload, DeleteAttach, RetryAttachment, LoseFile,
         RestoreRead, RestoreWrite, RestoreConflict, StoreSnapshotFile, DropSnapshotFile, vars,
         Round, StartRound, Push, PushNothing, PushRefused, PushChecked, PushList, PushAdd,
         PushUpdate, PushMissing, PushAgain, PushConflict, AckUpload, ResolveConflict, AnswerLost, RoundFails, Pull, PullNothing,
         PullNote, PullTombstone, PullInsert, PullApply, PullUpToDate, NoteChanged,
         SetRefused, SetRead, ReplaceSynced, SetStale

\* Clean rows, lists sent, answers and jobs are of files the server has held.
LEMMA OnServerStep ==
    ASSUME TypeOK, SentUntilAck, OnServerOnce, ListComplete, [Next]_vars
    PROVE  OnServerOnce'
  <1>1. reached \subseteq reached' /\ srv'.files \subseteq reached'
    BY ReachedGrows DEF OnServerOnce
  <1>2. srv'.files \cup remote'.files \cup jobs' \subseteq reached'
    BY <1>1, AnswerStep, JobsShrink DEF OnServerOnce
  <1>3. ASSUME NEW i \in Ids, pc' = "ack", i \in sent' PROVE doc'[i] \in reached'
    <2>1. CASE UNCHANGED round
      BY <1>1, <1>3, <2>1, SentDocs DEF round, OnServerOnce
    <2>2. CASE PushAdd \/ PushUpdate \/ PushAgain \/ AnswerLost
      BY <1>1, <1>3, <2>2, UploadStep DEF DocsOf, local
    <2>3. CASE ~UNCHANGED round /\ ~(PushAdd \/ PushUpdate \/ PushAgain \/ AnswerLost)
      BY <1>3, <2>3, AnswersAnUpload
    <2> QED
      BY <2>1, <2>2, <2>3
  <1>4. ASSUME NEW i \in Ids, rows'[i] = "synced" PROVE doc'[i] \in reached'
    <2>1. CASE UNCHANGED <<rows, doc, hist, restore>>
      BY <1>1, <1>4, <2>1 DEF OnServerOnce
    <2>2. CASE Save \/ RestoreRead \/ RestoreConflict
      BY <1>1, <1>4, <2>2 DEF Save, RestoreRead, RestoreConflict, local, OnServerOnce
    <2>3. CASE Upload
      <3>1. PICK j \in Free : /\ rows' = [rows EXCEPT ![j] = "pending"]
                              /\ \A k \in Ids : k # j => doc'[k] = doc[k]
        BY <2>3 DEF Upload, Free, TypeOK
      <3> QED
        BY <1>1, <1>4, <3>1 DEF OnServerOnce, Free, TypeOK
    <2>4. CASE DeleteAttach
      <3>1. UNCHANGED doc /\ rows[i] = "synced"
        BY <1>4, <2>4 DEF DeleteAttach, TypeOK
      <3> QED
        BY <1>1, <1>4, <3>1 DEF OnServerOnce
    <2>5. CASE RestoreWrite \/ PullTombstone
      <3>1. UNCHANGED doc /\ rows[i] = "synced"
        BY <1>4, <2>5 DEF RestoreWrite, PullTombstone
      <3> QED
        BY <1>1, <1>4, <3>1 DEF OnServerOnce
    <2>6. CASE AckUpload
      <3>1. UNCHANGED doc /\ pc = "ack" /\ (rows[i] = "synced" \/ i \in sent)
        BY <1>4, <2>6 DEF AckUpload, Acked
      <3> QED
        BY <1>1, <1>4, <3>1 DEF OnServerOnce
    <2>7. CASE ReplaceSynced
      <3>1. i \in Replacing
        BY <1>4, <2>7 DEF ReplaceSynced
      <3> QED
        BY <1>1, <2>7, <3>1, ReplacedRows DEF OnServerOnce
    <2>8. CASE StoreSnapshotFile
      <3>1. PICK j \in Free, f \in jobs : /\ rows' = [rows EXCEPT ![j] = "synced"]
                                          /\ doc' = [doc EXCEPT ![j] = f]
        BY <2>8 DEF StoreSnapshotFile
      <3>2. j \in Ids /\ doc'[j] = f /\ \A k \in Ids : k # j => doc'[k] = doc[k]
        BY <3>1 DEF Free, TypeOK
      <3> QED
        BY <1>1, <1>4, <3>1, <3>2 DEF OnServerOnce, TypeOK
    <2> QED
      BY <2>1, <2>2, <2>3, <2>4, <2>5, <2>6, <2>7, <2>8, WritersOfRows
  <1> QED
    BY <1>2, <1>3, <1>4 DEF OnServerOnce

\* A note is added once, and an upload works on the row it has read.
LEMMA AddedStep == ASSUME TypeOK, AddedOnce, [Next]_vars PROVE AddedOnce'
  <1> USE DEF Sending
  <1>1. note \in Row /\ srv \in Object
    BY DEF TypeOK
  <1>2. CASE Remote
    BY <1>2, RemoteStep DEF AddedOnce, local, round
  <1>3. CASE Save \/ RestoreWrite
    <2>1. /\ note.here /\ note'.here /\ note'.mapped = note.mapped /\ UNCHANGED <<srv, round>>
      BY <1>1, <1>3 DEF Save, RestoreWrite, UserStep, Row
    <2> QED
      BY <2>1 DEF AddedOnce, round
  <1>4. CASE \/ Upload \/ DeleteAttach \/ RetryAttachment \/ LoseFile \/ RestoreRead
             \/ RestoreConflict \/ StoreSnapshotFile \/ DropSnapshotFile \/ UNCHANGED vars
    <2>1. UNCHANGED <<srv, note, round>>
      BY <1>4 DEF Upload, DeleteAttach, RetryAttachment, LoseFile, RestoreRead,
                  RestoreConflict, UserStep, StoreSnapshotFile, DropSnapshotFile, vars, local
    <2> QED
      BY <2>1 DEF AddedOnce, round
  <1>5. CASE RoundFails
    <2>1. UNCHANGED <<srv, note>> /\ pc # "ack" /\ pc' = "idle"
      BY <1>5, EndRoundType DEF RoundFails, local
    <2> QED
      BY <2>1 DEF AddedOnce
  <1>6. CASE StartRound \/ PullNothing
    <2>1. UNCHANGED <<srv, note>> /\ pc # "ack" /\ pc' = "push" /\ base' = note
      BY <1>6 DEF StartRound, PullNothing, Goto, local
    <2> QED
      BY <2>1 DEF AddedOnce
  <1>7. CASE PushAdd \/ PushUpdate \/ PushAgain
    <2>1. UNCHANGED note /\ pc' = "ack"
      BY <1>7 DEF PushAdd, PushUpdate, PushAgain, Answered, Goto, local
    <2> QED
      BY <2>1 DEF AddedOnce
  <1>8. CASE AnswerLost
    <2>1. UNCHANGED note /\ pc = "send" /\ base.mapped /\ pc' = "idle"
      BY <1>8, EndRoundType DEF AnswerLost, local
    <2> QED
      BY <2>1 DEF AddedOnce
  <1>9. CASE \/ PushNothing \/ PushRefused \/ PushConflict \/ PullNote \/ PullUpToDate
             \/ NoteChanged \/ SetRefused \/ SetRead \/ SetStale
    <2>1. UNCHANGED <<srv, note>> /\ pc # "ack" /\ pc' \notin {"push", "list", "send", "again"}
      BY <1>9, EndRoundType, PushedType
         DEF PushNothing, PushRefused, PushConflict, PullNote, PullUpToDate, NoteChanged, SetRefused,
             SetRead, SetStale, Goto, local
    <2> QED
      BY <2>1 DEF AddedOnce
  <1>10. CASE AckUpload
    <2>1. /\ pc' \in {"idle", "pull"} /\ note'.here = note.here /\ (note.here => note'.mapped)
          /\ note'.dirty => note.here
      BY <1>1, <1>10, PushedType DEF AckUpload, Row, AddedOnce
    <2> QED
      BY <2>1 DEF AddedOnce
  <1>11. CASE PullApply \/ ResolveConflict
    <2>1. /\ pc # "ack" /\ pc' \in {"set", "idle", "pull"} /\ UNCHANGED srv
          /\ note'.here = note.here /\ note'.mapped = note.mapped /\ note'.dirty = FALSE
      BY <1>1, <1>11, PushedType DEF PullApply, ResolveConflict, Applied, Goto, Row
    <2> QED
      BY <2>1 DEF AddedOnce
  <1>12. CASE PullInsert
    <2>1. pc' = "set" /\ note'.mapped /\ note'.here
      BY <1>12 DEF PullInsert, Goto, NoRow
    <2> QED
      BY <2>1 DEF AddedOnce
  <1>13. CASE PullTombstone
    <2>1. /\ pc # "ack" /\ UNCHANGED srv /\ base' = note'
          /\ pc' = "push" /\ (note' = note \/ (~note'.here /\ ~note'.dirty))
      BY <1>13 DEF Goto, PullTombstone, PullDone, NoRow
    <2> QED
      BY <2>1 DEF AddedOnce
  <1>14. CASE ReplaceSynced
    <2>1. pc # "ack" /\ UNCHANGED <<srv, note>> /\ base' = note /\ pc' = "push"
      BY <1>14 DEF ReplaceSynced, Goto
    <2> QED
      BY <2>1 DEF AddedOnce
  <1>15. CASE PushChecked \/ PushList \/ PushMissing
    <2>1. /\ UNCHANGED <<srv, note, base>> /\ pc' \in {"list", "send", "again"}
          /\ (pc = "push" /\ base.dirty) \/ pc \in {"list", "send"}
      BY <1>15 DEF PushChecked, PushList, PushMissing, Goto, local
    <2> QED
      BY <2>1 DEF AddedOnce
  <1> QED
    BY <1>15, <1>2, <1>3, <1>4, <1>5, <1>6, <1>7, <1>8, <1>9, <1>10, <1>11, <1>12, <1>13, <1>14
       DEF Next, User, Round, Push, Pull

\* While an answer is in hand, the round fetches one, or carries it on and
\* writes nothing that it is compared with.
LEMMA Carrying ==
    ASSUME TypeOK, [Next]_vars, pc' \in {"note", "set", "replace"}
    PROVE  \/ UNCHANGED round
           \/ PullNote
           \/ /\ PullInsert \/ PullApply \/ PullUpToDate \/ SetRead
              /\ pc \in {"note", "set"} /\ pc' # "note"
              /\ UNCHANGED <<srv, remote, known, jobs>>
  <1>1. CASE AnswerLost \/ RoundFails
    BY <1>1, EndRoundType DEF AnswerLost, RoundFails
  <1>2. CASE StartRound
    BY <1>2 DEF StartRound, Goto
  <1>3. CASE Push
    BY <1>3, EndRoundType, PushedType
       DEF Push, PushNothing, PushRefused, PushChecked, PushList, PushAdd, PushUpdate, PushMissing,
           PushAgain, Answered, PushConflict, AckUpload, ResolveConflict, Goto
  <1>4. CASE \/ PullNothing \/ PullTombstone \/ NoteChanged \/ SetRefused \/ ReplaceSynced
             \/ SetStale
    BY <1>4, EndRoundType
       DEF PullNothing, PullTombstone, PullDone, NoteChanged, SetRefused, ReplaceSynced, SetStale, Goto
  <1>5. CASE PullInsert \/ PullApply \/ PullUpToDate \/ SetRead
    BY <1>5 DEF PullInsert, PullApply, PullUpToDate, SetRead, Goto, watch, seen, local
  <1> QED
    BY <1>1, <1>2, <1>3, <1>4, <1>5, Outside DEF Round, Pull

\* Outside the round, a change of the server's note is another device's.
LEMMA OutsideServer ==
    ASSUME TypeOK, [Next]_vars, UNCHANGED round, pc \in {"note", "set", "replace"}
    PROVE  UNCHANGED <<srv, reached>> \/ Remote
  BY WritersOfServer, UploadStep DEF Sending

\* A tombstone in hand stays true.
LEMMA TombstoneStep == ASSUME TypeOK, Tombstone, [Next]_vars PROVE Tombstone'
  <1>1. SUFFICES ASSUME pc' = "note" PROVE Tombstone'
    BY DEF Tombstone
  <1>2. CASE UNCHANGED round
    <2>1. pc = "note" /\ remote' = remote
      BY <1>1, <1>2 DEF round
    <2> QED
      BY <1>2, <2>1, OutsideServer, RemoteStep DEF Tombstone
  <1>3. CASE PullNote
    BY <1>3 DEF PullNote, Tombstone
  <1> QED
    BY <1>1, <1>2, <1>3, Carrying

\* Which files become known: the user's new ones, those of a download, those
\* of the batch.
LEMMA WritersOfKnown ==
    ASSUME [Next]_vars
    PROVE  UNCHANGED known \/ Upload \/ ReplaceSynced \/ StoreSnapshotFile
  BY DEF Next, Remote, RemoteAdd, RemoteRemove, RemoteEdit, RemoteDelete, RemoteChange,
         User, Save, DeleteAttach, RetryAttachment, LoseFile, RestoreRead, RestoreWrite,
         RestoreConflict, DropSnapshotFile, vars, watch, seen,
         Round, StartRound, Push, PushNothing, PushRefused, PushChecked, PushList, PushAdd,
         PushUpdate, PushMissing, PushAgain, PushConflict, AckUpload, ResolveConflict, AnswerLost, RoundFails, Pull, PullNothing,
         PullNote, PullTombstone, PullInsert, PullApply, PullUpToDate, NoteChanged,
         SetRefused, SetRead, SetStale

\* The answer in hand keeps covering what is known here.
LEMMA CoversStep ==
    ASSUME TypeOK, OnServerOnce, AnswerCovers, [Next]_vars
    PROVE  AnswerCovers'
  <1>1. SUFFICES ASSUME pc' \in {"note", "set", "replace"} PROVE AnswerCovers'
    BY DEF AnswerCovers
  <1>2. CASE UNCHANGED round
    <2>1. pc \in {"note", "set", "replace"} /\ remote' = remote
      BY <1>1, <1>2 DEF round
    <2>2. srv.files \cap (known \cup jobs) \subseteq remote.files /\ srv.files \cup jobs \subseteq reached
      BY <2>1 DEF AnswerCovers, OnServerOnce
    <2>3. CASE Remote
      BY <2>1, <2>2, <2>3, RemoteStep DEF AnswerCovers
    <2>4. CASE UNCHANGED <<srv, reached>>
      <3>1. CASE UNCHANGED known
        BY <2>1, <2>2, <2>4, <3>1, JobsShrink DEF AnswerCovers
      <3>2. CASE Upload
        <4>1. \E f \in Docs \ (reached \cup known) : known' = known \cup {f}
          BY <3>2 DEF Upload
        <4> QED
          BY <2>1, <2>2, <2>4, <4>1, JobsShrink DEF AnswerCovers
      <3>3. CASE ReplaceSynced
        BY <1>2, <3>3 DEF ReplaceSynced, Goto, round
      <3>4. CASE StoreSnapshotFile
        <4>1. known' \cup jobs' \subseteq known \cup jobs
          BY <3>4 DEF StoreSnapshotFile
        <4> QED
          BY <2>1, <2>2, <2>4, <4>1 DEF AnswerCovers
      <3> QED
        BY <3>1, <3>2, <3>3, <3>4, WritersOfKnown
    <2> QED
      BY <1>2, <2>1, <2>3, <2>4, OutsideServer
  <1>3. CASE PullNote
    BY <1>3 DEF PullNote, AnswerCovers
  <1>4. CASE pc \in {"note", "set"} /\ UNCHANGED <<srv, remote, known, jobs>>
    BY <1>4 DEF AnswerCovers
  <1> QED
    BY <1>1, <1>2, <1>3, <1>4, Carrying

\* The list about to replace the rows stays as it was made.
LEMMA ListStep == ASSUME TypeOK, ListComplete, [Next]_vars PROVE ListComplete'
  <1>1. SUFFICES ASSUME pc' = "replace" PROVE ListComplete'
    BY DEF ListComplete
  <1>2. CASE UNCHANGED round
    BY <1>2 DEF round, ListComplete
  <1>3. CASE PullNote \/ PullInsert \/ PullApply \/ PullUpToDate
    BY <1>1, <1>3 DEF PullNote, PullInsert, PullApply, PullUpToDate, Goto
  <1>4. CASE SetRead
    <2>1. PICK list \in [remote.files -> Ids] :
             /\ \A f, g \in remote.files : list[f] = list[g] => f = g
             /\ files' = [f \in Docs |-> IF f \in remote.files THEN list[f] ELSE None]
      BY <1>4 DEF SetRead
    <2>2. remote.files \subseteq Docs /\ remote' = remote
      BY <1>4 DEF SetRead, TypeOK, Object
    <2>3. \A f \in remote.files : files'[f] = list[f] /\ list[f] \in Ids
      BY <2>1, <2>2
    <2> QED
      BY <2>1, <2>2, <2>3 DEF ListComplete
  <1> QED
    BY <1>1, <1>2, <1>3, <1>4, Carrying

\* The replacement of the rows brings a row for every file of the answer.
LEMMA AppliedReplace ==
    ASSUME TypeOK, AnswerCovers, ListComplete, ReplaceSynced
    PROVE  AppliedIsHere'
  <1>1. srv.files \cap known \subseteq remote.files
    BY DEF ReplaceSynced, AnswerCovers
  <1>2. UNCHANGED <<srv, removed>> /\ known' = known \cup remote.files
    BY DEF ReplaceSynced
  <1>3. \A f \in remote.files : files[f] \in Here' /\ doc'[files[f]] = f
    BY ReplacedRows DEF Replacing
  <1>4. remote.files \subseteq DocsOf(Here)'
    BY <1>3 DEF DocsOf
  <1> QED
    BY <1>1, <1>2, <1>4 DEF AppliedIsHere

\* What the user takes off stays noted.
LEMMA RemovedGrows == ASSUME [Next]_vars PROVE removed \subseteq removed'
  BY DEF Next, Remote, RemoteAdd, RemoteRemove, RemoteEdit, RemoteDelete, RemoteChange,
         User, Save, Upload, DeleteAttach, RetryAttachment, LoseFile, RestoreRead, RestoreWrite,
         RestoreConflict, StoreSnapshotFile, DropSnapshotFile, vars, watch, seen,
         Round, StartRound, Push, PushNothing, PushRefused, PushChecked, PushList, PushAdd,
         PushUpdate, PushMissing, PushAgain, PushConflict, AckUpload, ResolveConflict, AnswerLost,
         RoundFails, Pull, PullNothing, PullNote, PullTombstone, PullInsert, PullApply,
         PullUpToDate, NoteChanged, SetRefused, SetRead, ReplaceSynced, SetStale

\* A new row is of one file: the user's, that the server has not held, or one
\* of the batch's, that a list being sent lacks.
LEMMA RowAdded ==
    ASSUME TypeOK, srv.files \subseteq reached, Upload \/ StoreSnapshotFile
    PROVE  \E f \in Docs :
             /\ known' = known \cup {f} /\ f \in DocsOf(Here)'
             /\ DocsOf(Here) \subseteq DocsOf(Here)'
             /\ missed \subseteq missed' /\ (f \in srv.files /\ pc = "send" => f \in missed')
             /\ UNCHANGED <<srv, removed, round>>
  <1>1. PICK i \in Free, f \in Docs :
           /\ \E state \in {"pending", "synced"} : rows' = [rows EXCEPT ![i] = state]
           /\ doc' = [doc EXCEPT ![i] = f] /\ known' = known \cup {f}
           /\ UNCHANGED <<srv, removed, round>>
           /\ \/ f \notin srv.files /\ UNCHANGED missed
              \/ missed' = IF pc = "send" THEN missed \cup {f} ELSE missed
    <2>1. CASE Upload
      BY <2>1 DEF Upload, UserStep
    <2>2. CASE StoreSnapshotFile
      BY <2>2 DEF StoreSnapshotFile, TypeOK
    <2> QED
      BY <2>1, <2>2
  <1>2. /\ i \in Here' /\ doc'[i] = f
        /\ \A j \in Here : j \in Here' /\ doc'[j] = doc[j]
    BY <1>1 DEF Free, Here, TypeOK
  <1>3. DocsOf(Here) \cup {f} \subseteq DocsOf(Here)'
    BY <1>2 DEF DocsOf
  <1> QED
    BY <1>1, <1>3

\* A row keeps its document, or the user takes it off: but for what a download
\* does to the rows.
LEMMA HereStays ==
    ASSUME TypeOK, [Next]_vars, ~PullTombstone, ~ReplaceSynced
    PROVE  DocsOf(Here) \subseteq DocsOf(Here)' \cup removed'
  <1>1. CASE UNCHANGED <<rows, doc, hist, restore>>
    BY <1>1 DEF DocsOf, Here
  <1>2. CASE Save \/ RestoreRead \/ RestoreConflict
    <2>1. UNCHANGED <<rows, doc>>
      BY <1>2 DEF Save, RestoreRead, RestoreConflict, local
    <2> QED
      BY <2>1 DEF DocsOf, Here
  <1>3. CASE Upload \/ StoreSnapshotFile
    <2>1. PICK i \in Free :
             /\ \E state \in {"pending", "synced"} : rows' = [rows EXCEPT ![i] = state]
             /\ \E f \in Docs : doc' = [doc EXCEPT ![i] = f]
      BY <1>3 DEF Upload, StoreSnapshotFile, TypeOK
    <2>2. \A j \in Here : j \in Here' /\ doc'[j] = doc[j]
      BY <2>1 DEF Free, Here, TypeOK
    <2> QED
      BY <2>2 DEF DocsOf
  <1>4. CASE DeleteAttach
    <2>1. PICK i \in Here : rows' = [rows EXCEPT ![i] = "absent"] /\ removed' = removed \cup {doc[i]}
      BY <1>4 DEF DeleteAttach
    <2>2. UNCHANGED doc /\ \A j \in Here : j = i \/ j \in Here'
      BY <1>4, <2>1 DEF DeleteAttach, Here, TypeOK
    <2> QED
      BY <2>1, <2>2 DEF DocsOf
  <1>5. CASE RestoreWrite
    <2>1. /\ UNCHANGED doc /\ removed' = removed \cup DocsOf(Here \ restore.ids)
          /\ \A j \in Here : j \in restore.ids => j \in Here'
      BY <1>5 DEF RestoreWrite, Here
    <2> QED
      BY <2>1 DEF DocsOf
  <1>6. CASE AckUpload
    <2>1. UNCHANGED doc /\ Here' = Here
      BY <1>6 DEF AckUpload, Acked, Here, TypeOK
    <2> QED
      BY <2>1 DEF DocsOf
  <1> QED
    BY <1>1, <1>2, <1>3, <1>4, <1>5, <1>6, WritersOfRows

\* A known file of the server's keeps its row, or the user takes it off.
LEMMA AppliedStep == ASSUME IInv, [Next]_vars PROVE AppliedIsHere'
  <1> USE DEF IInv
  <1>1. srv.files \cap known \subseteq DocsOf(Here) \cup removed /\ srv.files \subseteq reached
    BY DEF AppliedIsHere, OnServerOnce
  <1>2. CASE PullTombstone
    <2>1. srv'.files = {}
      BY <1>2 DEF PullTombstone, Tombstone, GoneIsEmpty
    <2> QED
      BY <2>1 DEF AppliedIsHere
  <1>3. CASE ReplaceSynced
    BY <1>3, AppliedReplace
  <1>4. CASE Upload \/ StoreSnapshotFile
    BY <1>1, <1>4, RowAdded DEF AppliedIsHere
  <1>5. ASSUME UNCHANGED known, ~PullTombstone, ~ReplaceSynced
        PROVE  AppliedIsHere'
    <2>1. DocsOf(Here) \cup removed \subseteq DocsOf(Here)' \cup removed'
      BY <1>5, HereStays, RemovedGrows
    <2>2. CASE UNCHANGED <<srv, reached>>
      BY <1>1, <1>5, <2>1, <2>2 DEF AppliedIsHere
    <2>3. CASE Remote
      BY <1>1, <1>5, <2>1, <2>3, RemoteStep DEF AppliedIsHere
    <2>4. CASE PushAdd \/ PushUpdate \/ PushAgain \/ AnswerLost
      BY <1>5, <2>1, <2>4, UploadStep DEF AppliedIsHere, ListIsHere
    <2> QED
      BY <2>2, <2>3, <2>4, WritersOfServer
  <1> QED
    BY <1>2, <1>3, <1>4, <1>5, WritersOfKnown

\* A list goes on being of rows, or of what the user takes off.
LEMMA ListHereStep ==
    ASSUME TypeOK, SentUntilAck, ListIsHere, [Next]_vars
    PROVE  ListIsHere'
  <1>1. SUFFICES ASSUME pc' \in Sending PROVE ListIsHere'
    BY DEF ListIsHere
  <1>2. CASE UNCHANGED round
    <2>1. pc \in Sending /\ sent' = sent /\ ~PullTombstone /\ ~ReplaceSynced
      BY <1>1, <1>2 DEF round, PullTombstone, ReplaceSynced, Sending
    <2>2. DocsOf(sent)' = DocsOf(sent)
      BY <2>1, SentDocs DEF DocsOf
    <2> QED
      BY <2>1, <2>2, HereStays, RemovedGrows DEF ListIsHere
  <1>3. CASE PushList \/ PushMissing
    <2>1. sent' \subseteq Here /\ UNCHANGED local
      BY <1>3 DEF PushList, PushMissing, ByReference, In, Here
    <2> QED
      BY <2>1 DEF ListIsHere, DocsOf, Here, local
  <1> QED
    BY <1>1, <1>2, <1>3, ListsInHand

\* A list made for a note the server does not have stays one.
LEMMA AgainStep == ASSUME TypeOK, AgainForGone, [Next]_vars PROVE AgainForGone'
  <1>1. SUFFICES ASSUME pc' = "again" PROVE ~srv'.live
    BY DEF AgainForGone
  <1>2. CASE UNCHANGED round
    <2>1. pc = "again" /\ ~srv.live
      BY <1>1, <1>2 DEF round, AgainForGone
    <2> QED
      BY <1>1, <2>1, WritersOfServer, RemoteStep, UploadStep
  <1>3. CASE PushList \/ PushMissing
    BY <1>1, <1>3 DEF PushList, PushMissing, Goto
  <1> QED
    BY <1>1, <1>2, <1>3, ListsInHand DEF Sending

\* While a list is in hand, what it lacks stays noted.
LEMMA MissedStays ==
    ASSUME [Next]_vars, UNCHANGED round, pc = "send"
    PROVE  UNCHANGED missed \/ StoreSnapshotFile
  <1>1. CASE Round \/ AnswerLost \/ RoundFails
    <2>1. ~(Pushed \/ EndRound)
      BY DEF Pushed, EndRound, Goto, round
    <2> QED
      BY <1>1, <2>1 DEF Round, StartRound, AnswerLost, RoundFails, Push, PushNothing, PushRefused,
         PushChecked, PushList, PushAdd, PushUpdate, PushMissing, PushAgain, Answered, PushConflict,
         AckUpload, ResolveConflict, Pull, PullNothing, PullNote, PullTombstone, PullDone,
         PullInsert, PullApply, PullUpToDate, NoteChanged, SetRefused, SetRead, ReplaceSynced,
         SetStale, Goto, round
  <1>2. CASE Remote \/ User \/ DropSnapshotFile \/ UNCHANGED vars
    BY <1>2 DEF Remote, RemoteAdd, RemoteRemove, RemoteEdit, RemoteDelete, RemoteChange,
         User, UserStep, Save, Upload, DeleteAttach, RetryAttachment, LoseFile, RestoreRead,
         RestoreWrite, RestoreConflict, DropSnapshotFile, vars, watch
  <1> QED
    BY <1>1, <1>2 DEF Next

\* A list goes on lacking nothing but what it could not have.
LEMMA ListCoversStep == ASSUME IInv, [Next]_vars PROVE ListCovers'
  <1> USE DEF IInv
  <1>1. SUFFICES ASSUME pc' = "send" PROVE ListCovers'
    BY DEF ListCovers
  <1>2. srv.files \subseteq reached
    BY DEF OnServerOnce
  <1>3. CASE UNCHANGED round
    <2>1. pc = "send" /\ sent' = sent /\ ~ReplaceSynced
      BY <1>1, <1>3 DEF round, ReplaceSynced
    <2>2. DocsOf(sent)' = DocsOf(sent)
      BY <2>1, SentDocs DEF DocsOf
    <2>3. srv.files \cap known \subseteq DocsOf(sent) \cup removed \cup missed
      BY <2>1 DEF ListCovers
    <2>4. CASE Upload \/ StoreSnapshotFile
      BY <1>2, <2>1, <2>2, <2>3, <2>4, RowAdded DEF ListCovers
    <2>5. CASE UNCHANGED known /\ ~StoreSnapshotFile
      <3>1. UNCHANGED missed
        BY <1>3, <2>1, <2>5, MissedStays
      <3>2. srv'.files \cap known' \subseteq srv.files \cap known
        <4>1. UNCHANGED srv \/ Remote
          BY <1>3, <2>1, WritersOfServer, UploadStep DEF round
        <4> QED
          BY <2>5, <4>1, RemoteStep
      <3> QED
        BY <2>2, <2>3, <3>1, <3>2, RemovedGrows DEF ListCovers
    <2> QED
      BY <2>1, <2>4, <2>5, WritersOfKnown
  <1>4. CASE PushList
    <2>1. PICK ids \in SUBSET In("pending") :
             sent' = ByReference \cup ids /\ missed' = DocsOf(In("pending") \ ids)
      BY <1>4 DEF PushList
    <2>2. UNCHANGED <<srv, doc, known, removed>>
      BY <1>4 DEF PushList, local, seen
    <2>3. Here \subseteq sent' \cup (In("pending") \ ids)
      BY <2>1 DEF Here, In, ByReference, TypeOK, AttachStates
    <2>4. DocsOf(Here) \subseteq DocsOf(sent)' \cup missed'
      BY <2>1, <2>2, <2>3 DEF DocsOf
    <2> QED
      BY <2>2, <2>4 DEF ListCovers, AppliedIsHere
  <1>5. CASE PushMissing
    BY <1>1, <1>5 DEF PushMissing, Goto
  <1> QED
    BY <1>1, <1>3, <1>4, <1>5, ListsInHand DEF Sending

\* The invariant holds at first.
LEMMA InitInvariant == ASSUME Init PROVE IInv
  <1>1. TypeOK
    BY InitType
  <1>2. /\ rows = [i \in Ids |-> "absent"] /\ hist = {} /\ restore = None /\ sent = {}
        /\ pc = "idle" /\ reached = srv.files /\ known = {} /\ remote.files = {} /\ jobs \subseteq srv.files
    BY DEF Init, NoObject, Queued
  <1>3. Referred = {}
    BY <1>2 DEF Referred, Here
  <1>4. \/ srv = NoObject /\ note = [NoRow EXCEPT !.here = TRUE, !.dirty = TRUE]
        \/ srv.live /\ note \in {NoRow, [NoRow EXCEPT !.here = TRUE, !.mapped = TRUE, !.usn = 1]}
    BY DEF Init
  <1>5. /\ ~srv.live => srv.files = {}
        /\ note.dirty => note.here
        /\ note.here /\ ~note.mapped => ~srv.live
    <2>1. CASE srv = NoObject /\ note = [NoRow EXCEPT !.here = TRUE, !.dirty = TRUE]
      BY <2>1 DEF NoObject, NoRow
    <2>2. CASE srv.live /\ note = NoRow
      BY <2>2 DEF NoRow
    <2>3. CASE srv.live /\ note = [NoRow EXCEPT !.here = TRUE, !.mapped = TRUE, !.usn = 1]
      BY <2>3 DEF NoRow
    <2> QED
      BY <1>4, <2>1, <2>2, <2>3
  <1> QED
    BY <1>1, <1>2, <1>3, <1>4, <1>5
       DEF IInv, DocsNamed, SentUntilAck, OnServerOnce, GoneIsEmpty, AddedOnce, Tombstone,
           AnswerCovers, ListComplete, AppliedIsHere, ListCovers, ListIsHere, AgainForGone, Sending

\* Every step keeps it.
LEMMA StepInvariant == ASSUME IInv, [Next]_vars PROVE IInv'
  BY TypeStep, NamedStep, SentStep, OnServerStep, GoneStep, AddedStep, TombstoneStep, CoversStep,
     ListStep, AppliedStep, ListCoversStep, ListHereStep, AgainStep DEF IInv

-----------------------------------------------------------------------------
(* Theorems                                                                *)

\* The inductive invariant holds in every reachable state.
THEOREM Invariant == Spec => []IInv
  BY InitInvariant, StepInvariant, PTL DEF Spec

\* Every variable keeps its type.
THEOREM TypeCorrect == Spec => []TypeOK
  <1>1. IInv => TypeOK
    BY DEF IInv
  <1> QED
    BY <1>1, Invariant, PTL

\* A file the server has for the note and this device has had is in a row
\* here, or the user took it off: whatever sets other devices wrote, whatever
\* answers were lost and whatever histories were restored.
THEOREM AppliedFilesAreHere == Spec => []AppliedIsHere
  <1>1. IInv => AppliedIsHere
    BY DEF IInv
  <1> QED
    BY <1>1, Invariant, PTL

\* Sync takes no pending attachment away.
THEOREM PendingIsKept == Spec => PendingKept
  <1>1. ASSUME IInv, [Next]_vars
        PROVE  [\A i \in Ids : rows[i] = "pending" /\ rows'[i] # "pending" =>
                  \/ rows'[i] = "synced" /\ doc[i] \in reached
                  \/ rows'[i] = "absent" /\ (doc[i] \in removed' \/ (pc = "note" /\ ~remote.live))]_vars
    <2>1. SUFFICES ASSUME NEW i \in Ids, rows[i] = "pending", rows'[i] # "pending"
                   PROVE  \/ rows'[i] = "synced" /\ doc[i] \in reached
                          \/ rows'[i] = "absent" /\ (doc[i] \in removed' \/ (pc = "note" /\ ~remote.live))
      OBVIOUS
    <2>2. TypeOK /\ OnServerOnce /\ i \in Here
      BY <1>1, <2>1 DEF IInv, Here
    <2>3. CASE UNCHANGED <<rows, doc, hist, restore>> \/ Save \/ RestoreRead \/ RestoreConflict
      BY <2>1, <2>3 DEF Save, RestoreRead, RestoreConflict, local
    <2>4. CASE Upload \/ StoreSnapshotFile
      BY <2>1, <2>2, <2>4 DEF Upload, StoreSnapshotFile, Free, TypeOK
    <2>5. CASE DeleteAttach
      BY <2>1, <2>2, <2>5 DEF DeleteAttach, TypeOK
    <2>6. CASE RestoreWrite
      <3>1. i \notin restore.ids /\ rows'[i] = "absent"
        BY <2>1, <2>6 DEF RestoreWrite
      <3> QED
        BY <2>2, <2>6, <3>1 DEF RestoreWrite, DocsOf
    <2>7. CASE AckUpload
      <3>1. pc = "ack" /\ i \in sent /\ rows'[i] = "synced"
        BY <2>1, <2>7 DEF AckUpload, Acked
      <3> QED
        BY <2>2, <3>1 DEF OnServerOnce
    <2>8. CASE PullTombstone
      BY <2>1, <2>8 DEF PullTombstone
    <2>9. CASE ReplaceSynced
      BY <2>1, <2>9 DEF ReplaceSynced, Replaceable, In
    <2> QED
      BY <1>1, <2>3, <2>4, <2>5, <2>6, <2>7, <2>8, <2>9, WritersOfRows
  <1> QED
    BY <1>1, Invariant, PTL DEF Spec, PendingKept

\* An upload makes the server drop no file this device has had a row for,
\* unless the user took it off here, its bytes could not be read for the list,
\* or the batch stored its row after the list was read.
THEOREM UploadKeepsFiles == Spec => UploadKeepsApplied
  <1>1. ASSUME IInv, [Next]_vars
        PROVE  [Dropped \cap known \subseteq removed \cup missed]_vars
    <2>1. /\ TypeOK /\ GoneIsEmpty /\ AddedOnce /\ ListCovers /\ AgainForGone
      BY <1>1 DEF IInv
    <2>2. CASE UNCHANGED <<srv, reached>>
      BY <2>2 DEF Dropped
    <2>3. CASE Remote
      BY <2>1, <2>3, RemoteStep DEF Dropped, round
    <2>4. CASE PushAdd
      <3>1. ~base.mapped /\ pc = "send"
        BY <2>4 DEF PushAdd
      <3>2. srv.files = {}
        BY <2>1, <3>1 DEF AddedOnce, GoneIsEmpty, Sending
      <3> QED
        BY <3>2 DEF Dropped
    <2>5. CASE PushAgain
      BY <2>1, <2>5 DEF PushAgain, AgainForGone, GoneIsEmpty, Dropped
    <2>6. CASE PushUpdate \/ AnswerLost
      <3>1. pc = "send" /\ srv'.files = DocsOf(sent)
        BY <2>6, UploadStep DEF PushUpdate, AnswerLost
      <3> QED
        BY <2>1, <3>1 DEF Dropped, ListCovers
    <2> QED
      BY <1>1, <2>2, <2>3, <2>4, <2>5, <2>6, WritersOfServer
  <1> QED
    BY <1>1, Invariant, PTL DEF Spec, UploadKeepsApplied

=============================================================================
