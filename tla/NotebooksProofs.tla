-------------------------- MODULE NotebooksProofs ---------------------------
(***************************************************************************)
(* Theorems of Notebooks, for every set of ids and titles and every bound. *)
(***************************************************************************)
EXTENDS Notebooks, FiniteSetTheorems, WellFoundedInduction, TLAPS

-----------------------------------------------------------------------------
(* The inductive invariant                                                 *)

\* The copies a round works on: a row that is still there is the same notebook
\* of the server, and no other row is; between collecting and answering what
\* is to be deleted stays hidden.  No copy outlives its upload.
Copied ==
    /\ \A i \in Ids : snap[i].here /\ rows[i].here =>
         /\ rows[i].sid = snap[i].sid /\ rows[i].new = snap[i].new
         /\ pc \in {"push", "answer"} /\ snap[i].hidden => rows[i].hidden
    /\ \A i, j \in Ids : i # j /\ snap[i].here /\ snap[i].sid # None =>
         /\ rows[j].here => rows[j].sid # snap[i].sid
         /\ snap[j].here => snap[j].sid # snap[i].sid
    /\ \A i \in Ids : snap[i].here => (snap[i].new <=> snap[i].sid = None)
    /\ pc \in {"idle", "state", "pull", "merge"} => \A i \in Ids : ~snap[i].here
    /\ pc \in {"push", "answer"} => \A i \in queue : snap[i].here
    /\ pc = "merge" => \A s \in queue : page[s].state # "unused"

\* An answer is the one of the notebook whose request is under way; what was
\* accepted belongs to no other row or copy.
Answering ==
    /\ pc = "answer" => cur \in Ids \ queue /\ snap[cur].here
    /\ pc # "answer" => cur = None /\ reply = Silent
    /\ reply.kind = "ok" => /\ reply.id \in Ids
                            /\ \A j \in Ids : j # cur =>
                                 /\ rows[j].here => rows[j].sid # reply.id
                                 /\ snap[j].here => snap[j].sid # reply.id
    /\ reply.kind = "deleted" => ~snap[cur].new

\* In an upload that has not failed, what is dirty and was not written since
\* it began waits for its turn or for its answer, or was kept by its notes.
Uploading ==
    pass = 1 /\ pc \in {"push", "answer"} /\ ~failed =>
        \A i \in Here : rows[i].dirty => i \in touched \cup stuck \cup queue \cup {cur}

\* s is at the version of the object.
Same(s, object) == srv.nb[s].state = "live" /\ srv.nb[s].usn = object.usn

\* Until the server is restored from its backup: no version is from its
\* future, and one that is its present has the same title.
Versions ==
    count.restored = 0 =>
        /\ \A s \in Ids : /\ srv.nb[s].usn <= srv.top /\ page[s].usn <= srv.top
                          /\ rows[s].usn <= srv.top
                          /\ page[s].state = "live" /\ Same(s, page[s]) => srv.nb[s].title = page[s].title
        /\ reply.kind = "ok" => /\ reply.object.usn <= srv.top
                                /\ Same(reply.id, reply.object) => srv.nb[reply.id].title = reply.object.title
        /\ reply.kind = "deleted" => srv.nb[snap[cur].sid].state = "deleted"

IInv ==
    /\ TypeOK /\ Copied /\ Answering /\ Uploading /\ Versions
    /\ OneRowPerNotebook /\ AcceptedBeforeDownload /\ CleanRowAgrees

-----------------------------------------------------------------------------
(* Rows and objects                                                        *)

\* What stands for no row and no object.
LEMMA Blank == /\ NoRow \in Row /\ NoObject \in Object /\ None \notin Ids
               /\ ~NoRow.here /\ ~NoRow.dirty /\ NoObject.state = "unused" /\ NoObject.usn = 0
  BY NotebooksAssumption DEF NoRow, NoObject, Row, Object

\* A row is what its columns are.
LEMMA SameRow ==
    ASSUME NEW r \in Row, NEW e \in Row,
           r.here = e.here, r.sid = e.sid, r.parent = e.parent, r.title = e.title, r.usn = e.usn,
           r.dirty = e.dirty, r.new = e.new, r.hidden = e.hidden
    PROVE  r = e
  BY DEF Row

\* Writing one row.
LEMMA RowWritten ==
    ASSUME TypeOK, NEW i \in Ids, NEW r \in Row, rows' = [rows EXCEPT ![i] = r]
    PROVE  /\ rows' \in [Ids -> Row] /\ rows'[i] = r
           /\ \A j \in Ids : j # i => rows'[j] = rows[j]
  BY DEF TypeOK

\* The operations of the user on a row that is there.
Edit == MoveNotebook \/ RenameNotebook \/ DragNotebooks \/ UpdateNotebookTitle \/ DeleteNotebook

\* They leave its identity and its version alone and mark it.
LEMMA EditStep ==
    ASSUME TypeOK, Edit
    PROVE  /\ UserStep /\ Held' = Held
           /\ \E i \in Here, r \in Row :
                /\ rows' = [rows EXCEPT ![i] = r]
                /\ touched' = IF pc = "idle" THEN {} ELSE touched \cup {i}
                /\ r.here /\ r.dirty /\ r.sid = rows[i].sid /\ r.new = rows[i].new /\ r.usn = rows[i].usn
                /\ rows[i].hidden => r.hidden
  <1> DEFINE Marked(i, r) ==
          /\ Write(i, r) /\ r \in Row
          /\ r.here /\ r.dirty /\ r.sid = rows[i].sid /\ r.new = rows[i].new /\ r.usn = rows[i].usn
          /\ rows[i].hidden => r.hidden
  <1>0. \A i \in Here : i \in Ids /\ rows[i] \in Row /\ rows[i].here
    BY DEF Here, TypeOK
  <1>1. ASSUME NEW i \in Here, NEW parent \in Ids \cup {None},
               Write(i, [rows[i] EXCEPT !.parent = parent, !.dirty = TRUE])
        PROVE  Marked(i, [rows[i] EXCEPT !.parent = parent, !.dirty = TRUE])
    BY <1>0, <1>1 DEF Row
  <1>2. ASSUME NEW i \in Here, NEW title \in Titles,
               Write(i, [rows[i] EXCEPT !.title = title, !.dirty = TRUE])
        PROVE  Marked(i, [rows[i] EXCEPT !.title = title, !.dirty = TRUE])
    BY <1>0, <1>2 DEF Row
  <1>3. ASSUME NEW i \in Here, NEW title \in Titles,
               Write(i, [rows[i] EXCEPT !.title = title, !.parent = None, !.dirty = TRUE])
        PROVE  Marked(i, [rows[i] EXCEPT !.title = title, !.parent = None, !.dirty = TRUE])
    BY <1>0, <1>3 DEF Row
  <1>4. ASSUME NEW i \in Here, Write(i, [rows[i] EXCEPT !.dirty = TRUE, !.hidden = TRUE])
        PROVE  Marked(i, [rows[i] EXCEPT !.dirty = TRUE, !.hidden = TRUE])
    BY <1>0, <1>4 DEF Row
  <1>5. \E i \in Here, r \in Row : Marked(i, r)
    <2>1. CASE MoveNotebook
      <3>1. PICK i \in Visible, parent \in Visible \cup {None} :
              Write(i, [rows[i] EXCEPT !.parent = parent, !.dirty = TRUE])
        BY <2>1 DEF MoveNotebook
      <3>2. i \in Here /\ parent \in Ids \cup {None}
        BY DEF Visible, Here
      <3> QED
        BY <1>1, <3>1, <3>2
    <2>2. CASE RenameNotebook
      BY <1>2, <2>2 DEF RenameNotebook, Visible
    <2>3. CASE DragNotebooks
      <3>1. PICK i \in Here, parent \in Here \cup {None} :
              Write(i, [rows[i] EXCEPT !.parent = parent, !.dirty = TRUE])
        BY <2>3 DEF DragNotebooks
      <3>2. parent \in Ids \cup {None}
        BY DEF Here
      <3> QED
        BY <1>1, <3>1, <3>2
    <2>4. CASE UpdateNotebookTitle
      BY <1>3, <2>4 DEF UpdateNotebookTitle
    <2>5. CASE DeleteNotebook
      BY <1>4, <2>5 DEF DeleteNotebook, Visible
    <2> QED
      BY <2>1, <2>2, <2>3, <2>4, <2>5 DEF Edit
  <1> QED
    BY <1>5 DEF Write, notes, Held

\* A new notebook.
LEMMA AddStep ==
    ASSUME TypeOK, AddNotebook
    PROVE  /\ UserStep /\ Held' = Held
           /\ \E i \in Fresh, r \in Row :
                /\ rows' = [rows EXCEPT ![i] = r]
                /\ touched' = IF pc = "idle" THEN {} ELSE touched \cup {i}
                /\ r.here /\ r.dirty /\ r.new /\ ~r.hidden /\ r.sid = None /\ r.usn = 0
  <1>1. PICK i \in Fresh, parent \in Visible \cup {None}, title \in Titles :
          Write(i, [NoRow EXCEPT !.here = TRUE, !.parent = parent, !.title = title,
                                 !.dirty = TRUE, !.new = TRUE])
    BY DEF AddNotebook
  <1> DEFINE r == [NoRow EXCEPT !.here = TRUE, !.parent = parent, !.title = title,
                                !.dirty = TRUE, !.new = TRUE]
  <1>2. parent \in Ids \cup {None}
    BY DEF Visible, Here
  <1>3. r \in Row /\ r.here /\ r.dirty /\ r.new /\ ~r.hidden /\ r.sid = None /\ r.usn = 0
    BY <1>2 DEF NoRow, Row
  <1>4. Write(i, r)
    BY <1>1
  <1> HIDE DEF r
  <1> QED
    BY <1>3, <1>4 DEF Write, notes, Held

\* What the user does with the notes.
Refiling == FileNote \/ MoveNote \/ MoveTrash \/ TrashNote \/ RestoreNote \/ PurgeNote

\* It leaves the table alone, and only a notebook that is there gets a note.
LEMMA RefileStep ==
    ASSUME Refiling, Held \subseteq Here
    PROVE  rows' = rows /\ touched' = touched /\ Held' \subseteq Here'
  <1>1. rows' = rows /\ touched' = touched
    BY DEF Refiling, FileNote, MoveNote, MoveTrash, TrashNote, RestoreNote, PurgeNote, Refile
  <1>2. Held' \subseteq Held \cup Here
    BY DEF Refiling, FileNote, MoveNote, MoveTrash, TrashNote, RestoreNote, PurgeNote, Refile, Held, Visible
  <1> QED
    BY <1>1, <1>2 DEF Here

-----------------------------------------------------------------------------
(* Who writes what                                                         *)

\* Who writes the table.
LEMMA WritersOfRows ==
    ASSUME [Next]_vars
    PROVE  \/ rows' = rows \/ AddNotebook \/ Edit \/ \E i \in Ids : ForgetNotebook(i)
           \/ Acknowledge \/ AcknowledgeDelete \/ MergeNotebook
           \/ ReconcileFullNotebooks \/ RestoreNotebookParents
  BY DEF Next, vars, table, notes, round, Remote, RemoteStep, RemoteAdd, RemoteRename, RemoteMove,
         RemoteDelete, RestoreServer,
         User, UserStep, FileNote, MoveNote, MoveTrash, TrashNote, RestoreNote, PurgeNote, Refile, Edit, Faults,
         LoseRequest, LoseAnswer, CutOff, Upload,
         Request, AddAgain, RecordError, EndUpload, Download, ReadState, GetSyncNotebooks, EndMerge, Start

\* Who changes the server.
LEMMA WritersOfServer ==
    ASSUME [Next]_vars
    PROVE  /\ srv' = srv \/ Remote \/ AddAgain \/ \E i \in Ids : Request(i)
           /\ saved' = saved
  BY DEF Next, vars, table, notes, round, Remote, RemoteStep, RemoteAdd, RemoteRename, RemoteMove,
         RemoteDelete, RestoreServer,
         User, UserStep, AddNotebook, Write, MoveNotebook, RenameNotebook, DragNotebooks, UpdateNotebookTitle,
         DeleteNotebook, FileNote, MoveNote, MoveTrash, TrashNote, RestoreNote, PurgeNote, Refile, Faults,
         LoseRequest, LoseAnswer, Refused, CutOff, Upload,
         ForgetNotebook, Request, AddAgain, Acknowledge, AcknowledgeDelete, RecordError, EndUpload, Answered,
         Download, ReadState, GetSyncNotebooks, MergeNotebook, EndMerge, ReconcileFullNotebooks,
         RestoreNotebookParents, Start

\* What leaves the round alone, and the steps of the round.
Outside == Remote \/ AddNotebook \/ Edit \/ Refiling

RoundStep ==
    \/ \E i \in Ids : ForgetNotebook(i) \/ Request(i) \/ LoseRequest(i)
    \/ AddAgain \/ LoseAnswer \/ Acknowledge \/ AcknowledgeDelete \/ RecordError \/ EndUpload \/ CutOff
    \/ ReadState \/ GetSyncNotebooks \/ MergeNotebook \/ EndMerge \/ ReconcileFullNotebooks
    \/ RestoreNotebookParents \/ Start("full") \/ Start("incr")

\* Every step is of the user, of others, or of the round.
LEMMA Steps ==
    ASSUME [Next]_vars
    PROVE  UNCHANGED vars \/ Outside \/ RoundStep
  BY DEF Next, Remote, User, Edit, Refiling, Outside, RoundStep, Faults, Upload, Download

\* Steps outside a round leave it alone.
LEMMA OutsideStep == ASSUME Outside PROVE UNCHANGED <<round, last>>
  BY DEF Outside, Refiling, Remote, RemoteStep, RemoteAdd, RemoteRename, RemoteMove, RemoteDelete, RestoreServer,
         UserStep, AddNotebook, Write, Edit, MoveNotebook, RenameNotebook, DragNotebooks, UpdateNotebookTitle,
         DeleteNotebook, FileNote, MoveNote, MoveTrash, TrashNote, RestoreNote, PurgeNote, Refile

-----------------------------------------------------------------------------
(* The server                                                              *)

\* The server writes one object and counts.
LEMMA StoredStep ==
    ASSUME TypeOK, NEW s \in Ids, NEW object \in Object
    PROVE  LET new == Stored(s, object)
           IN  /\ new \in [top : Nat, nb : [Ids -> Object]] /\ new.top = srv.top + 1
               /\ new.nb[s] \in Object /\ new.nb[s].usn = srv.top + 1
               /\ new.nb[s].state = object.state /\ new.nb[s].title = object.title
               /\ \A t \in Ids : t # s => new.nb[t] = srv.nb[t]
  <1> DEFINE o == [object EXCEPT !.usn = srv.top + 1]
             nb == [srv.nb EXCEPT ![s] = o]
  <1>1. srv.top \in Nat /\ srv.top + 1 \in Nat /\ srv.nb \in [Ids -> Object]
    BY DEF TypeOK
  <1>2. o \in Object /\ o.usn = srv.top + 1 /\ o.state = object.state /\ o.title = object.title
    BY <1>1 DEF Object
  <1> HIDE DEF o
  <1>3. nb \in [Ids -> Object] /\ nb[s] = o /\ \A t \in Ids : t # s => nb[t] = srv.nb[t]
    BY <1>1, <1>2
  <1>4. Stored(s, object) = [top |-> srv.top + 1, nb |-> nb]
    BY DEF Stored, o
  <1> HIDE DEF nb
  <1> QED
    BY <1>1, <1>2, <1>3, <1>4

\* Sets of ids.
LEMMA LiveIds == Live \subseteq Ids /\ Fresh \subseteq Ids /\ Here \subseteq Ids /\ Visible \subseteq Here
  BY DEF Live, Fresh, Here, Visible

\* Another device writes an object that is not deleted.
LEMMA RemoteStored ==
    ASSUME TypeOK, Remote, ~RestoreServer
    PROVE  \E s \in Ids, object \in Object : srv' = Stored(s, object) /\ srv.nb[s].state # "deleted"
  <1>1. CASE RemoteAdd
    <2>1. PICK s \in Fresh, parent \in Live \cup {None}, title \in Titles :
            srv' = Stored(s, [state |-> "live", parent |-> parent, title |-> title, usn |-> 0])
      BY <1>1 DEF RemoteAdd
    <2>2. [state |-> "live", parent |-> parent, title |-> title, usn |-> 0] \in Object
      BY LiveIds DEF Object
    <2>3. s \in Ids /\ srv.nb[s].state # "deleted"
      BY DEF Fresh
    <2> QED
      BY <2>1, <2>2, <2>3
  <1>0. \A s \in Live : s \in Ids /\ srv.nb[s] \in Object /\ srv.nb[s].state # "deleted"
    BY DEF Live, TypeOK
  <1>2. CASE RemoteRename
    <2>1. PICK s \in Live, title \in Titles : srv' = Stored(s, [srv.nb[s] EXCEPT !.title = title])
      BY <1>2 DEF RemoteRename
    <2>2. [srv.nb[s] EXCEPT !.title = title] \in Object
      BY <1>0 DEF Object
    <2> QED
      BY <1>0, <2>1, <2>2
  <1>3. CASE RemoteMove
    <2>1. PICK s \in Live, parent \in Live \cup {None} : srv' = Stored(s, [srv.nb[s] EXCEPT !.parent = parent])
      BY <1>3 DEF RemoteMove
    <2>2. [srv.nb[s] EXCEPT !.parent = parent] \in Object
      BY <1>0, LiveIds DEF Object
    <2> QED
      BY <1>0, <2>1, <2>2
  <1>4. CASE RemoteDelete
    <2>1. PICK s \in Live : srv' = Stored(s, [srv.nb[s] EXCEPT !.state = "deleted"])
      BY <1>4 DEF RemoteDelete
    <2>2. [srv.nb[s] EXCEPT !.state = "deleted"] \in Object
      BY <1>0 DEF Object
    <2> QED
      BY <1>0, <2>1, <2>2
  <1> QED
    BY <1>1, <1>2, <1>3, <1>4 DEF Remote

\* What is sent is an object.
LEMMA SentType == ASSUME TypeOK, NEW i \in Ids PROVE Sent(i) \in Object /\ Sent(i).state = "live"
  <1>1. snap[i] \in Row /\ \A j \in Ids : rows[j] \in Row
    BY DEF TypeOK
  <1>2. snap[i].parent \in Ids \cup {None} /\ snap[i].title \in Titles \cup {None}
    BY <1>1 DEF Row
  <1>3. ParentSent(i) \in Ids \cup {None}
    BY <1>1, <1>2 DEF ParentSent, Row
  <1> QED
    BY <1>2, <1>3 DEF Sent, Object

\* What an answer says: nothing was done; an object was written, a new one or
\* the row's own; the row's own was deleted.
Failing == /\ srv' = srv
           /\ \E kind \in {"error", "missing"} : reply' = [kind |-> kind, id |-> None, object |-> NoObject]

Adding(s) == \E object \in Object :
    /\ srv' = Stored(s, object) /\ object.state = "live"
    /\ reply' = [kind |-> "ok", id |-> s, object |-> srv'.nb[s]]

Deleting(s) == \E object \in Object :
    /\ srv' = Stored(s, object) /\ object.state = "deleted"
    /\ reply' = [kind |-> "deleted", id |-> s, object |-> srv'.nb[s]]

\* The answer to an add.
LEMMA AddAnswer ==
    ASSUME TypeOK, NEW object \in Object, object.state = "live", ServerAdd(object)
    PROVE  (Failing /\ reply'.kind = "error") \/ \E s \in Fresh : Adding(s)
  BY DEF ServerAdd, Accepted, Refused, Answers, Failing, Adding

\* The answer to any request is silence, an error or about the notebook that was
\* sent.
LEMMA RequestAnswer ==
    ASSUME TypeOK, Copied, NEW i \in Ids, Request(i)
    PROVE  \/ Failing /\ (reply'.kind = "missing" => ~snap[i].new)
           \/ \E s \in Fresh : Adding(s)
           \/ /\ ~snap[i].new /\ snap[i].sid \in Ids /\ srv.nb[snap[i].sid].state = "live"
              /\ Adding(snap[i].sid) \/ Deleting(snap[i].sid)
  <1>1. /\ snap[i].here /\ snap[i] \in Row /\ (snap[i].new <=> snap[i].sid = None)
        /\ Sent(i) \in Object /\ Sent(i).state = "live"
    BY SentType DEF Request, Turn, Copied, TypeOK
  <1>2. CASE snap[i].new
    BY <1>1, <1>2, AddAnswer DEF Request
  <1>3. CASE ~snap[i].new /\ snap[i].hidden
    <2> DEFINE s == snap[i].sid
               o == [srv.nb[s] EXCEPT !.state = "deleted"]
    <2>1. s \in Ids
      BY <1>1, <1>3 DEF Row
    <2>2. o \in Object /\ o.state = "deleted"
      BY <2>1 DEF TypeOK, Object
    <2>3. ServerDelete(s, snap[i].usn)
      BY <1>3 DEF Request
    <2>4. (Failing /\ reply'.kind = "error") \/ (srv.nb[s].state = "live" /\ Accepted("deleted", s, o))
      BY <2>3 DEF ServerDelete, Refused, Answers, Failing
    <2> HIDE DEF o
    <2> QED
      BY <1>3, <2>1, <2>2, <2>4 DEF Accepted, Answers, Deleting
  <1>4. CASE ~snap[i].new /\ ~snap[i].hidden
    <2> DEFINE s == snap[i].sid
    <2>1. s \in Ids
      BY <1>1, <1>4 DEF Row
    <2>2. ServerUpdate(s, snap[i].usn, Sent(i))
      BY <1>4 DEF Request
    <2>3. Failing \/ (srv.nb[s].state = "live" /\ Accepted("ok", s, Sent(i)))
      BY <2>2 DEF ServerUpdate, Refused, Answers, Failing
    <2> QED
      BY <1>1, <1>4, <2>1, <2>3 DEF Accepted, Answers, Adding
  <1> QED
    BY <1>2, <1>3, <1>4

\* The server and an answer keep their types.
LEMMA ServerType ==
    ASSUME TypeOK, Copied, Answering, [Next]_vars
    PROVE  srv' \in [top : Nat, nb : [Ids -> Object]] /\ saved' \in [top : Nat, nb : [Ids -> Object]]
  <1>1. saved' \in [top : Nat, nb : [Ids -> Object]]
    BY WritersOfServer DEF TypeOK
  <1>s. SUFFICES srv' \in [top : Nat, nb : [Ids -> Object]]
    BY <1>1
  <1>2. ASSUME NEW s \in Ids, NEW object \in Object, srv' = Stored(s, object)
        PROVE  srv' \in [top : Nat, nb : [Ids -> Object]]
    BY <1>2, StoredStep
  <1>3. CASE RestoreServer
    BY <1>1, <1>3 DEF RestoreServer, TypeOK
  <1>4. CASE Remote /\ ~RestoreServer
    <2>1. PICK s \in Ids, object \in Object : srv' = Stored(s, object)
      BY <1>4, RemoteStored
    <2> QED
      BY <2>1, StoredStep
  <1>5. CASE AddAgain
    <2>1. cur \in Ids /\ ServerAdd(Sent(cur))
      BY <1>5 DEF AddAgain, Answering
    <2>2. Failing \/ \E s \in Fresh : Adding(s)
      BY <2>1, SentType, AddAnswer
    <2>3. CASE Failing
      BY <2>3 DEF Failing, TypeOK
    <2>4. ASSUME NEW s \in Fresh, Adding(s) PROVE srv' \in [top : Nat, nb : [Ids -> Object]]
      BY <2>4, StoredStep, LiveIds DEF Adding
    <2> QED
      BY <2>2, <2>3, <2>4
  <1>6. ASSUME NEW i \in Ids, Request(i) PROVE srv' \in [top : Nat, nb : [Ids -> Object]]
    BY <1>2, <1>6, RequestAnswer, LiveIds DEF Failing, Adding, Deleting, TypeOK
  <1> QED
    BY <1>1, <1>3, <1>4, <1>5, <1>6, WritersOfServer DEF TypeOK

-----------------------------------------------------------------------------
(* The table                                                               *)

\* A notebook that was never uploaded is forgotten without a request.
LEMMA ForgetStep ==
    ASSUME TypeOK, Copied, NEW i \in Ids, ForgetNotebook(i)
    PROVE  /\ rows' \in [Ids -> Row] /\ \A j \in Ids : j # i => rows'[j] = rows[j]
           /\ i \in queue /\ snap[i].here /\ snap[i].hidden /\ pc = "push"
           /\ (i \in Held /\ rows' = rows /\ i \in stuck') \/ (i \notin Held /\ rows'[i] = NoRow)
  BY Blank DEF ForgetNotebook, Turn, Copied, TypeOK

\* The answer's version is written into the row, if it is still there.
LEMMA AckedStep ==
    ASSUME TypeOK, Answering, Acknowledge
    PROVE  /\ cur \in Ids /\ reply.id \in Ids /\ rows' \in [Ids -> Row]
           /\ \A j \in Ids : j # cur => rows'[j] = rows[j]
           /\ ~rows[cur].here => rows'[cur] = rows[cur]
           /\ rows[cur].here =>
                LET r == rows'[cur]
                IN  /\ r.here /\ r.sid = reply.id /\ r.title = reply.object.title /\ r.usn = reply.object.usn
                    /\ ~r.dirty /\ ~r.new /\ ~r.hidden
  <1>1. cur \in Ids /\ reply.id \in Ids /\ reply.object \in Object
    BY DEF Acknowledge, Answered, Answering, TypeOK
  <1>2. PICK parent \in OrNone(LocalIds(reply.object.parent)) : rows' = Acked(cur, reply.id, reply.object, parent)
    BY DEF Acknowledge
  <1>3. parent \in Ids \cup {None}
    BY DEF OrNone, LocalIds, Here
  <1> DEFINE r == [rows[cur] EXCEPT !.sid = reply.id, !.title = reply.object.title, !.parent = parent,
                       !.usn = reply.object.usn, !.dirty = FALSE, !.new = FALSE, !.hidden = FALSE]
  <1>4. rows[cur] \in Row
    BY <1>1 DEF TypeOK
  <1>5. /\ r \in Row /\ r.here = rows[cur].here /\ r.sid = reply.id /\ r.title = reply.object.title
        /\ r.usn = reply.object.usn /\ ~r.dirty /\ ~r.new /\ ~r.hidden
    BY <1>1, <1>3, <1>4 DEF Row, Object
  <1>6. rows' = [rows EXCEPT ![cur] = IF rows[cur].here THEN r ELSE rows[cur]]
    BY <1>1, <1>2 DEF Acked
  <1> HIDE DEF r
  <1>7. (IF rows[cur].here THEN r ELSE rows[cur]) \in Row
    BY <1>4, <1>5
  <1>8. /\ rows' \in [Ids -> Row] /\ rows'[cur] = (IF rows[cur].here THEN r ELSE rows[cur])
        /\ \A j \in Ids : j # cur => rows'[j] = rows[j]
    BY <1>1, <1>6, <1>7, RowWritten
  <1> QED
    BY <1>1, <1>5, <1>8

\* The row of an accepted deletion stays.
LEMMA SettledStep ==
    ASSUME TypeOK, Answering, AcknowledgeDelete
    PROVE  /\ cur \in Ids /\ rows' \in [Ids -> Row] /\ snap[cur].here /\ ~snap[cur].new
           /\ \A j \in Ids : j # cur => rows'[j] = rows[j]
           /\ LET r == rows'[cur]
                  e == rows[cur]
              IN  /\ r.here = e.here /\ r.sid = e.sid /\ r.title = e.title /\ r.usn = e.usn
                  /\ r.dirty = FALSE /\ r.new = e.new /\ r.hidden = e.hidden /\ r.parent = e.parent
  <1>1. cur \in Ids /\ snap[cur].here /\ ~snap[cur].new /\ rows' = [rows EXCEPT ![cur].dirty = FALSE]
    BY DEF AcknowledgeDelete, Answered, Answering, Settled
  <1> DEFINE r == [rows[cur] EXCEPT !.dirty = FALSE]
  <1>2. rows[cur] \in Row
    BY <1>1 DEF TypeOK
  <1>3. LET e == rows[cur]
        IN  /\ r \in Row /\ r.here = e.here /\ r.sid = e.sid /\ r.title = e.title /\ r.usn = e.usn
            /\ r.dirty = FALSE /\ r.new = e.new /\ r.hidden = e.hidden /\ r.parent = e.parent
    BY <1>2 DEF Row
  <1>4. rows' = [rows EXCEPT ![cur] = r]
    BY <1>1
  <1> HIDE DEF r
  <1> QED
    BY <1>1, <1>3, <1>4, RowWritten

\* A row that holds the version of the server's list.
FromPage(r, s) ==
    /\ r \in Row /\ r.here /\ r.sid = s /\ r.title = page[s].title /\ r.usn = page[s].usn
    /\ ~r.dirty /\ ~r.new /\ ~r.hidden

\* A downloaded object takes its row away or is written into it; without a row
\* it gets one under its own id.
LEMMA MergedStep ==
    ASSUME TypeOK, Copied, MergeNotebook
    PROVE  \/ rows' = rows
           \/ \E s \in queue : rows' = [j \in Ids |-> IF j \in LocalIds(s) \ Held THEN NoRow ELSE rows[j]]
           \/ \E s \in queue, i \in Ids, r \in Row :
                /\ rows' = [rows EXCEPT ![i] = r] /\ FromPage(r, s) /\ page[s].state = "live"
                /\ (i = s /\ LocalIds(s) = {}) \/ i \in LocalIds(s)
  <1>1. PICK s \in queue : rows' \in Merged(s, page[s]) /\ page[s].state # "unused"
    BY DEF MergeNotebook, Copied
  <1>2. s \in Ids /\ page[s] \in Object
    BY DEF TypeOK
  <1>3. CASE page[s].state = "deleted"
    BY <1>1, <1>3 DEF Merged, Buried
  <1>4. CASE page[s].state # "deleted"
    <2>0. page[s].state = "live"
      BY <1>1, <1>2, <1>4 DEF Object
    <2>1. CASE LocalIds(s) = {}
      <3>1. PICK parent \in Translated(page[s].parent) : rows' = Pulled(s, s, page[s], parent)
        BY <1>1, <1>4, <2>1 DEF Merged
      <3> DEFINE r == [here |-> TRUE, sid |-> s, parent |-> parent, title |-> page[s].title,
                       usn |-> page[s].usn, dirty |-> FALSE, new |-> FALSE, hidden |-> FALSE]
      <3>2. parent \in Ids \cup {None}
        BY <1>2 DEF Translated, LocalIds, Here, Object
      <3>3. FromPage(r, s)
        BY <1>2, <3>2 DEF FromPage, Row, Object
      <3>4. rows' = [rows EXCEPT ![s] = r]
        BY <3>1 DEF Pulled
      <3>5. r \in Row
        BY <3>3 DEF FromPage
      <3> HIDE DEF r
      <3> QED
        BY <1>2, <2>0, <2>1, <3>3, <3>4, <3>5
    <2>2. CASE LocalIds(s) # {} /\ rows' # rows
      <3>1. PICK i \in LocalIds(s), parent \in Translated(page[s].parent) : rows' = Pulled(i, s, page[s], parent)
        BY <1>1, <1>4, <2>2 DEF Merged
      <3> DEFINE r == [here |-> TRUE, sid |-> s, parent |-> parent, title |-> page[s].title,
                       usn |-> page[s].usn, dirty |-> FALSE, new |-> FALSE, hidden |-> FALSE]
      <3>2. parent \in Ids \cup {None} /\ i \in Ids
        BY <1>2 DEF Translated, LocalIds, Here, Object
      <3>3. FromPage(r, s)
        BY <1>2, <3>2 DEF FromPage, Row, Object
      <3>4. rows' = [rows EXCEPT ![i] = r]
        BY <3>1 DEF Pulled
      <3>5. r \in Row
        BY <3>3 DEF FromPage
      <3> HIDE DEF r
      <3> QED
        BY <1>2, <2>0, <3>1, <3>2, <3>3, <3>4, <3>5
    <2> QED
      BY <2>1, <2>2
  <1> QED
    BY <1>3, <1>4

\* Reconciliation and the repair of the parents keep every row's notebook and
\* version.
LEMMA RepairStep ==
    ASSUME TypeOK, Copied, ReconcileFullNotebooks \/ RestoreNotebookParents
    PROVE  /\ rows' \in [Ids -> Row]
           /\ \A i \in Ids :
                LET r == rows'[i]
                    e == rows[i]
                IN  /\ r.here = e.here /\ r.sid = e.sid /\ r.title = e.title /\ r.usn = e.usn
                    /\ r.new = e.new /\ (e.dirty => r.dirty) /\ (r.hidden => e.hidden)
                    /\ ~e.here => r = e
  <1>0. \A i \in Ids : rows[i] \in Row /\ snap[i] \in Row
    BY DEF TypeOK
  <1>1. CASE ReconcileFullNotebooks
    <2>1. rows' = [i \in Ids |-> Reconciled(i)]
      BY <1>1 DEF ReconcileFullNotebooks
    <2>2. ASSUME NEW i \in Ids
          PROVE  LET r == Reconciled(i)
                     e == rows[i]
                 IN  /\ r \in Row
                     /\ r.here = e.here /\ r.sid = e.sid /\ r.title = e.title /\ r.usn = e.usn
                     /\ r.new = e.new /\ (e.dirty => r.dirty) /\ (r.hidden => e.hidden)
                     /\ ~e.here => r = e
      <3>1. rows[i].here /\ snap[i].here => rows[i].new = snap[i].new
        BY DEF Copied
      <3> QED
        BY <1>0, <3>1 DEF Reconciled, Row
    <2> QED
      BY <2>1, <2>2
  <1>2. CASE RestoreNotebookParents
    <2>1. PICK walked \in CutCycles(ParentsOf(Here)), blank \in OrNone(LocalIds(None)) :
            rows' = [i \in Ids |-> IF i \notin Here THEN rows[i]
                                   ELSE [rows[i] EXCEPT !.parent = Restored(i, walked, blank)]]
      BY <1>2 DEF RestoreNotebookParents
    <2>2. blank \in Ids \cup {None}
      BY DEF OrNone, LocalIds, Here
    <2>3. ASSUME NEW x PROVE Local(x) \in Ids \cup {None}
      BY DEF Local, LocalIds, Here
    <2>4. ASSUME NEW i \in Ids PROVE Restored(i, walked, blank) \in Ids \cup {None}
      BY <1>0, <2>2, <2>3 DEF Restored, Row
    <2>5. ASSUME NEW i \in Ids
          PROVE  LET r == [rows[i] EXCEPT !.parent = Restored(i, walked, blank)]
                     e == rows[i]
                 IN  /\ r \in Row
                     /\ r.here = e.here /\ r.sid = e.sid /\ r.title = e.title /\ r.usn = e.usn
                     /\ r.new = e.new /\ (e.dirty => r.dirty) /\ (r.hidden => e.hidden)
      BY <1>0, <2>4 DEF Row
    <2> QED
      BY <1>0, <2>1, <2>5 DEF Here
  <1> QED
    BY <1>1, <1>2

-----------------------------------------------------------------------------
(* Types                                                                   *)

\* Every row is one, and a new one waits for its upload.
LEMMA RowsType ==
    ASSUME TypeOK, Copied, Answering, [Next]_vars
    PROVE  /\ rows' \in [Ids -> Row]
           /\ \A i \in Ids : IF rows'[i].here THEN /\ rows'[i].new <=> rows'[i].sid = None
                                                   /\ rows'[i].new => rows'[i].dirty
                             ELSE rows'[i] = NoRow
  <1> DEFINE Good(r) == IF r.here THEN (r.new <=> r.sid = None) /\ (r.new => r.dirty) ELSE r = NoRow
  <1>0. rows \in [Ids -> Row] /\ (\A i \in Ids : Good(rows[i])) /\ Good(NoRow)
    BY Blank DEF TypeOK
  <1>s. SUFFICES rows' \in [Ids -> Row] /\ \A i \in Ids : Good(rows'[i])
    OBVIOUS
  <1> HIDE DEF Good
  <1>1. ASSUME NEW i \in Ids, NEW r \in Row, Good(r), rows' = [rows EXCEPT ![i] = r]
        PROVE  rows' \in [Ids -> Row] /\ \A j \in Ids : Good(rows'[j])
    BY <1>0, <1>1, RowWritten
  <1>2. CASE rows' = rows
    BY <1>0, <1>2
  <1>3. CASE AddNotebook
    <2>1. PICK i \in Fresh, r \in Row :
            rows' = [rows EXCEPT ![i] = r] /\ r.here /\ r.dirty /\ r.new /\ r.sid = None
      BY <1>3, AddStep
    <2>2. Good(r)
      BY <2>1 DEF Good
    <2> QED
      BY <1>1, <2>1, <2>2, LiveIds
  <1>4. CASE Edit
    <2>1. PICK i \in Here, r \in Row :
            rows' = [rows EXCEPT ![i] = r] /\ r.here /\ r.dirty /\ r.sid = rows[i].sid /\ r.new = rows[i].new
      BY <1>4, EditStep
    <2>2. i \in Ids /\ rows[i].here
      BY DEF Here
    <2>3. Good(r)
      BY <1>0, <2>1, <2>2 DEF Good
    <2> QED
      BY <1>1, <2>1, <2>2, <2>3
  <1>5. ASSUME NEW i \in Ids, ForgetNotebook(i)
        PROVE  rows' \in [Ids -> Row] /\ \A j \in Ids : Good(rows'[j])
    <2>1. \A j \in Ids : rows'[j] = rows[j] \/ rows'[j] = NoRow
      BY <1>5, ForgetStep
    <2> QED
      BY <1>0, <1>5, <2>1, ForgetStep
  <1>6. CASE Acknowledge
    <2>1. Good(rows'[cur])
      BY <1>0, <1>6, AckedStep, Blank DEF Good
    <2> QED
      BY <1>0, <1>6, <2>1, AckedStep
  <1>7. CASE AcknowledgeDelete
    <2>1. CASE rows[cur].here
      <3>1. ~rows[cur].new
        BY <1>7, <2>1, SettledStep DEF Copied
      <3>2. Good(rows'[cur])
        BY <1>0, <1>7, <2>1, <3>1, SettledStep DEF Good
      <3> QED
        BY <1>0, <1>7, <3>2, SettledStep
    <2>2. CASE ~rows[cur].here
      <3>1. rows[cur] = NoRow /\ rows[cur] \in Row /\ rows'[cur] \in Row
        BY <1>0, <1>7, <2>2, SettledStep DEF Good
      <3>2. rows'[cur] = NoRow
        <4>1. LET r == rows'[cur]
                  e == rows[cur]
              IN  /\ r.here = e.here /\ r.sid = e.sid /\ r.title = e.title /\ r.usn = e.usn
                  /\ r.dirty = FALSE /\ r.new = e.new /\ r.hidden = e.hidden /\ r.parent = e.parent
          BY <1>7, SettledStep
        <4>2. rows[cur].dirty = FALSE
          BY <3>1 DEF NoRow
        <4> QED
          BY <3>1, <4>1, <4>2, SameRow
      <3> QED
        BY <1>0, <1>7, <3>2, SettledStep
    <2> QED
      BY <2>1, <2>2
  <1>8. CASE MergeNotebook /\ rows' # rows
    <2>1. CASE \E s \in queue : rows' = [j \in Ids |-> IF j \in LocalIds(s) \ Held THEN NoRow ELSE rows[j]]
      BY <1>0, <2>1, Blank
    <2>2. ASSUME NEW s \in queue, NEW i \in Ids, NEW r \in Row, rows' = [rows EXCEPT ![i] = r], FromPage(r, s)
          PROVE  rows' \in [Ids -> Row] /\ \A j \in Ids : Good(rows'[j])
      <3>1. s \in Ids
        BY DEF TypeOK
      <3>2. Good(r)
        BY <2>2, <3>1, Blank DEF Good, FromPage
      <3> QED
        BY <1>1, <2>2, <3>2
    <2> QED
      BY <1>8, <2>1, <2>2, MergedStep
  <1>9. CASE ReconcileFullNotebooks \/ RestoreNotebookParents
    <2>1. rows' \in [Ids -> Row]
      BY <1>9, RepairStep
    <2>2. ASSUME NEW i \in Ids PROVE Good(rows'[i])
      BY <1>0, <1>9, RepairStep DEF Good
    <2> QED
      BY <2>1, <2>2
  <1> QED
    BY <1>2, <1>3, <1>4, <1>5, <1>6, <1>7, <1>8, <1>9, WritersOfRows

\* Between uploads.
Resting == {"idle", "state", "pull", "merge"}
Sending == {"push", "answer"}

\* The copies are those of the rows to upload.
Collecting == Collect(rows')

\* The copies stay, are given up, are taken anew, or one of them is used up.
LEMMA SnapStep ==
    ASSUME [Next]_vars
    PROVE  \/ /\ snap' = snap
              /\ pc' = "merge" \/ queue' \subseteq queue
              /\ pc' \in Sending => pc \in Sending
              /\ pc' \in Resting => pc \in Resting
           \/ snap' = NoRows /\ pc' \notin {"push", "answer", "merge"}
           \/ Collecting
           \/ EndMerge /\ snap' = rows' /\ rows' = rows /\ pc' = "reconcile"
           \/ Answered /\ queue' = queue
  <1>1. CASE UNCHANGED vars \/ Outside
    BY <1>1, OutsideStep DEF vars, round
  <1>2. CASE \E i \in Ids : ForgetNotebook(i) \/ Request(i) \/ LoseRequest(i)
    BY <1>2 DEF ForgetNotebook, Request, LoseRequest, Turn, Sending, Resting
  <1>3. CASE AddAgain \/ LoseAnswer \/ Acknowledge \/ AcknowledgeDelete \/ RecordError
    BY <1>3 DEF AddAgain, LoseAnswer, Acknowledge, AcknowledgeDelete, RecordError
  <1>4. CASE EndUpload \/ CutOff
    BY <1>4 DEF EndUpload, CutOff, Rest
  <1>5. CASE GetSyncNotebooks \/ MergeNotebook \/ ReconcileFullNotebooks
    BY <1>5 DEF GetSyncNotebooks, MergeNotebook, ReconcileFullNotebooks, Sending, Resting
  <1>6. CASE ReadState \/ EndMerge
    <2>1. rows' = rows
      BY <1>6 DEF ReadState, EndMerge, table
    <2>2. CASE Collect(rows)
      BY <2>1, <2>2 DEF Collecting
    <2> QED
      BY <1>6, <2>1, <2>2 DEF ReadState, EndMerge, Sending, Resting
  <1>7. CASE Start("full") \/ Start("incr")
    <2>1. rows' = rows /\ Collect(rows)
      BY <1>7 DEF Start, table
    <2> QED
      BY <2>1 DEF Collecting
  <1>8. CASE RestoreNotebookParents
    BY <1>8 DEF RestoreNotebookParents, Collecting
  <1> QED
    BY <1>1, <1>2, <1>3, <1>4, <1>5, <1>6, <1>7, <1>8, Steps DEF RoundStep

\* The copies keep their type.
LEMMA SnapType ==
    ASSUME TypeOK, Copied, Answering, [Next]_vars
    PROVE  snap' \in [Ids -> Row]
  <1>1. rows' \in [Ids -> Row] /\ NoRow \in Row
    BY RowsType, Blank
  <1>2. CASE Collecting
    BY <1>1, <1>2 DEF Collecting, Collect
  <1>3. CASE Answered
    BY <1>1, <1>3 DEF Answered, TypeOK
  <1>4. CASE snap' = snap
    BY <1>4 DEF TypeOK
  <1>5. CASE snap' = NoRows
    BY <1>1, <1>5 DEF NoRows
  <1>6. CASE snap' = rows'
    BY <1>1, <1>6
  <1>7. snap' = snap \/ snap' = NoRows \/ Collecting \/ snap' = rows' \/ Answered
    BY SnapStep
  <1> QED
    BY <1>2, <1>3, <1>4, <1>5, <1>6, <1>7

\* The place in the round keeps its type.
LEMMA RoundType ==
    ASSUME TypeOK, [Next]_vars
    PROVE  /\ pc' \in {"idle", "push", "answer", "state", "pull", "merge", "reconcile", "parents"}
           /\ mode' \in {"full", "incr", "rollback"} /\ pass' \in {1, 2} /\ failed' \in BOOLEAN
           /\ queue' \subseteq Ids /\ cur' \in Ids \cup {None} /\ top' \in Nat
  <1>0. srv.top \in Nat
    BY DEF TypeOK
  <1>1. CASE UNCHANGED vars \/ Outside
    BY <1>1, OutsideStep DEF vars, round, TypeOK
  <1>2. CASE \E i \in Ids : ForgetNotebook(i) \/ Request(i) \/ LoseRequest(i)
    BY <1>2 DEF ForgetNotebook, Request, LoseRequest, TypeOK
  <1>3. CASE AddAgain \/ LoseAnswer \/ Acknowledge \/ AcknowledgeDelete \/ RecordError
    BY <1>3 DEF AddAgain, LoseAnswer, Acknowledge, AcknowledgeDelete, RecordError, Answered, TypeOK
  <1>9. CASE Rest
    BY <1>9 DEF Rest
  <1>4. CASE EndUpload \/ CutOff
    BY <1>4, <1>9 DEF EndUpload, CutOff, TypeOK
  <1>5. CASE GetSyncNotebooks \/ MergeNotebook \/ ReconcileFullNotebooks
    BY <1>5 DEF GetSyncNotebooks, MergeNotebook, ReconcileFullNotebooks, TypeOK
  <1>6. CASE ReadState \/ EndMerge
    BY <1>0, <1>6 DEF ReadState, EndMerge, Collect, TypeOK
  <1>7. CASE Start("full") \/ Start("incr")
    BY <1>7 DEF Start, Collect, TypeOK
  <1>8. CASE RestoreNotebookParents
    BY <1>8 DEF RestoreNotebookParents, Collect, TypeOK
  <1> QED
    BY <1>1, <1>2, <1>3, <1>4, <1>5, <1>6, <1>7, <1>8, Steps DEF RoundStep

\* The page keeps its type.
LEMMA PageType ==
    ASSUME TypeOK, [Next]_vars
    PROVE  /\ page' \in [Ids -> Object]
           /\ page' = page \/ page' = NoObjects \/ (GetSyncNotebooks /\ page' = srv.nb)
  <1>0. NoObjects \in [Ids -> Object] /\ srv.nb \in [Ids -> Object]
    BY Blank DEF NoObjects, TypeOK
  <1>s. SUFFICES page' = page \/ page' = NoObjects \/ (GetSyncNotebooks /\ page' = srv.nb)
    BY <1>0 DEF TypeOK
  <1>1. CASE UNCHANGED vars \/ Outside
    BY <1>1, OutsideStep DEF vars, round
  <1>2. CASE \E i \in Ids : ForgetNotebook(i) \/ Request(i) \/ LoseRequest(i)
    BY <1>2 DEF ForgetNotebook, Request, LoseRequest
  <1>3. CASE AddAgain \/ LoseAnswer \/ Acknowledge \/ AcknowledgeDelete \/ RecordError
    BY <1>3 DEF AddAgain, LoseAnswer, Acknowledge, AcknowledgeDelete, RecordError
  <1>4. CASE EndUpload \/ CutOff
    BY <1>4 DEF EndUpload, CutOff, Rest
  <1>5. CASE GetSyncNotebooks \/ MergeNotebook \/ ReconcileFullNotebooks
    BY <1>5 DEF GetSyncNotebooks, MergeNotebook, ReconcileFullNotebooks
  <1>6. CASE ReadState \/ EndMerge
    BY <1>6 DEF ReadState, EndMerge, Collect
  <1>7. CASE Start("full") \/ Start("incr") \/ RestoreNotebookParents
    BY <1>7 DEF Start, RestoreNotebookParents, Collect
  <1> QED
    BY <1>1, <1>2, <1>3, <1>4, <1>5, <1>6, <1>7, Steps DEF RoundStep

\* Answers are given by requests; otherwise there is none, or an error.
LEMMA WritersOfReply ==
    ASSUME [Next]_vars
    PROVE  reply' = reply \/ reply' = Silent \/ AddAgain \/ LoseAnswer \/ \E i \in Ids : Request(i)
  <1>1. CASE UNCHANGED vars \/ Outside
    BY <1>1, OutsideStep DEF vars, round
  <1>2. CASE \E i \in Ids : ForgetNotebook(i) \/ LoseRequest(i)
    BY <1>2 DEF ForgetNotebook, LoseRequest
  <1>3. CASE Acknowledge \/ AcknowledgeDelete \/ RecordError
    BY <1>3 DEF Acknowledge, AcknowledgeDelete, RecordError, Answered
  <1>4. CASE EndUpload \/ CutOff
    BY <1>4 DEF EndUpload, CutOff, Rest
  <1>5. CASE GetSyncNotebooks \/ MergeNotebook \/ ReconcileFullNotebooks
    BY <1>5 DEF GetSyncNotebooks, MergeNotebook, ReconcileFullNotebooks
  <1>6. CASE ReadState \/ EndMerge \/ RestoreNotebookParents
    BY <1>6 DEF ReadState, EndMerge, RestoreNotebookParents
  <1>7. CASE Start("full") \/ Start("incr")
    BY <1>7 DEF Start
  <1> QED
    BY <1>1, <1>2, <1>3, <1>4, <1>5, <1>6, <1>7, Steps DEF RoundStep

\* The steps that answer: a request of an id, or the one under way asked again.
LEMMA AnswerStep ==
    ASSUME TypeOK, Copied, Answering, [Next]_vars
    PROVE  reply' = reply \/ reply' = Silent \/ Failing \/ \E s \in Ids : Adding(s) \/ Deleting(s)
  <1>1. CASE AddAgain
    <2>1. cur \in Ids /\ ServerAdd(Sent(cur))
      BY <1>1 DEF AddAgain, Answering
    <2>2. Failing \/ \E s \in Fresh : Adding(s)
      BY <2>1, SentType, AddAnswer
    <2> QED
      BY <2>2, LiveIds
  <1>2. CASE LoseAnswer
    BY <1>2 DEF LoseAnswer, Refused, Answers, Failing
  <1>3. ASSUME NEW i \in Ids, Request(i)
        PROVE  Failing \/ \E s \in Ids : Adding(s) \/ Deleting(s)
    BY <1>3, RequestAnswer, LiveIds
  <1> QED
    BY <1>1, <1>2, <1>3, WritersOfReply

\* The answer keeps its type.
LEMMA ReplyType ==
    ASSUME TypeOK, Copied, Answering, [Next]_vars
    PROVE  reply' \in [kind : {"none", "ok", "deleted", "missing", "error"}, id : Ids \cup {None},
                       object : Object]
  <1> DEFINE T == [kind : {"none", "ok", "deleted", "missing", "error"}, id : Ids \cup {None}, object : Object]
  <1>1. reply \in T /\ Silent \in T
    BY Blank DEF TypeOK, Silent
  <1>2. ASSUME NEW s \in Ids, Adding(s) \/ Deleting(s) PROVE reply' \in T
    <2>1. PICK object \in Object : srv' = Stored(s, object)
      BY <1>2 DEF Adding, Deleting
    <2>2. srv'.nb[s] \in Object
      BY <2>1, StoredStep
    <2> QED
      BY <1>2, <2>2 DEF Adding, Deleting
  <1>3. CASE Failing
    BY <1>3, Blank DEF Failing
  <1> QED
    BY <1>1, <1>2, <1>3, AnswerStep

\* Who files notes.
LEMMA WritersOfHeld ==
    ASSUME [Next]_vars
    PROVE  Held' = Held \/ Refiling
  BY DEF Next, vars, table, notes, round, Remote, RemoteStep, RemoteAdd, RemoteRename, RemoteMove,
         RemoteDelete, RestoreServer,
         User, Write, AddNotebook, MoveNotebook, RenameNotebook, DragNotebooks, UpdateNotebookTitle, DeleteNotebook,
         Faults, LoseRequest, LoseAnswer, CutOff, Upload, ForgetNotebook, Request, AddAgain, Acknowledge,
         AcknowledgeDelete, RecordError, EndUpload, Download, ReadState, GetSyncNotebooks, MergeNotebook, EndMerge,
         ReconcileFullNotebooks, RestoreNotebookParents, Start, Refiling, Held

\* A notebook that holds a note, in the trash or not, is not taken away.
LEMMA HeldStep ==
    ASSUME TypeOK, Copied, Answering, [Next]_vars
    PROVE  Held' \subseteq Here'
  <1>0. \A i \in Held : i \in Ids /\ rows[i].here
    BY DEF TypeOK, Here
  <1>s. SUFFICES ASSUME NEW i \in Held, rows' # rows
                 PROVE  rows'[i].here
    <2>1. CASE Held' = Held /\ rows' = rows
      BY <1>0, <2>1 DEF Here
    <2>2. CASE Refiling
      BY <2>2, RefileStep DEF TypeOK
    <2>3. CASE Held' = Held /\ rows' # rows
      BY <1>0, <1>s, <2>3 DEF Here
    <2> QED
      BY <2>1, <2>2, <2>3, WritersOfHeld
  <1>1. CASE AddNotebook
    <2>1. PICK k \in Fresh, r \in Row : rows' = [rows EXCEPT ![k] = r]
      BY <1>1, AddStep
    <2>2. k # i
      BY <1>0 DEF Fresh
    <2> QED
      BY <1>0, <2>1, <2>2, LiveIds, RowWritten
  <1>2. CASE Edit
    <2>1. PICK k \in Here, r \in Row : rows' = [rows EXCEPT ![k] = r] /\ r.here
      BY <1>2, EditStep
    <2> QED
      BY <1>0, <2>1, LiveIds, RowWritten
  <1>3. ASSUME NEW k \in Ids, ForgetNotebook(k) PROVE rows'[i].here
    BY <1>0, <1>3, <1>s, ForgetStep
  <1>4. CASE Acknowledge
    BY <1>0, <1>4, AckedStep
  <1>5. CASE AcknowledgeDelete
    BY <1>0, <1>5, SettledStep
  <1>6. CASE MergeNotebook
    <2>1. CASE \E s \in queue : rows' = [j \in Ids |-> IF j \in LocalIds(s) \ Held THEN NoRow ELSE rows[j]]
      BY <1>0, <2>1
    <2>2. ASSUME NEW s \in queue, NEW k \in Ids, NEW r \in Row, rows' = [rows EXCEPT ![k] = r], FromPage(r, s)
          PROVE  rows'[i].here
      BY <1>0, <2>2, RowWritten DEF FromPage
    <2> QED
      BY <1>6, <1>s, <2>1, <2>2, MergedStep
  <1>7. CASE ReconcileFullNotebooks \/ RestoreNotebookParents
    BY <1>0, <1>7, RepairStep
  <1> QED
    BY <1>1, <1>2, <1>3, <1>4, <1>5, <1>6, <1>7, <1>s, WritersOfRows

\* Who marks what was written during an upload.
LEMMA WritersOfTouched ==
    ASSUME [Next]_vars
    PROVE  touched' = touched \/ touched' = {} \/ AddNotebook \/ Edit
  BY DEF Next, vars, table, notes, round, Remote, RemoteStep, RemoteAdd, RemoteRename, RemoteMove,
         RemoteDelete, RestoreServer,
         User, Edit, FileNote, MoveNote, MoveTrash, TrashNote, RestoreNote, PurgeNote, Refile, Rest,
         Faults, LoseRequest, LoseAnswer, CutOff, Upload, ForgetNotebook, Request, AddAgain, Acknowledge,
         AcknowledgeDelete, RecordError, EndUpload, Download, ReadState, GetSyncNotebooks, MergeNotebook, EndMerge,
         ReconcileFullNotebooks, RestoreNotebookParents, Start

\* Who marks what the notes have kept, and who reads the cursor.
LEMMA WritersOfStuck ==
    ASSUME [Next]_vars
    PROVE  /\ stuck' \in {stuck, {}} \/ \E i \in Ids : ForgetNotebook(i) /\ stuck' \in {stuck, stuck \cup {i}}
           /\ from' \in {from, last, 0}
  <1>1. CASE UNCHANGED vars \/ Outside
    BY <1>1, OutsideStep DEF vars, round
  <1>2. ASSUME NEW i \in Ids, ForgetNotebook(i)
        PROVE  stuck' \in {stuck, stuck \cup {i}} /\ from' = from
    BY <1>2 DEF ForgetNotebook
  <1>3. CASE \E i \in Ids : Request(i) \/ LoseRequest(i)
    BY <1>3 DEF Request, LoseRequest
  <1>4. CASE AddAgain \/ LoseAnswer \/ Acknowledge \/ AcknowledgeDelete \/ RecordError
    BY <1>4 DEF AddAgain, LoseAnswer, Acknowledge, AcknowledgeDelete, RecordError
  <1>5. CASE EndUpload \/ CutOff
    BY <1>5 DEF EndUpload, CutOff, Rest
  <1>6. CASE ReadState \/ GetSyncNotebooks \/ MergeNotebook \/ EndMerge \/ ReconcileFullNotebooks
             \/ RestoreNotebookParents
    BY <1>6 DEF ReadState, GetSyncNotebooks, MergeNotebook, EndMerge, ReconcileFullNotebooks,
                RestoreNotebookParents
  <1>7. CASE Start("full") \/ Start("incr")
    BY <1>7 DEF Start
  <1> QED
    BY <1>1, <1>2, <1>3, <1>4, <1>5, <1>6, <1>7, Steps DEF RoundStep

\* Who moves the cursor.
LEMMA WritersOfLast ==
    ASSUME [Next]_vars
    PROVE  last' \in {last, top, reply.object.usn}
  BY DEF Next, vars, table, notes, round, Remote, RemoteStep, RemoteAdd, RemoteRename, RemoteMove,
         RemoteDelete, RestoreServer,
         User, UserStep, Write, AddNotebook, MoveNotebook, RenameNotebook, DragNotebooks, UpdateNotebookTitle,
         DeleteNotebook, FileNote, MoveNote, MoveTrash, TrashNote, RestoreNote, PurgeNote, Refile,
         Faults, LoseRequest, LoseAnswer, CutOff, Upload, ForgetNotebook, Request, AddAgain, Acknowledge,
         AcknowledgeDelete, RecordError, EndUpload, Download, ReadState, GetSyncNotebooks, MergeNotebook, EndMerge,
         ReconcileFullNotebooks, RestoreNotebookParents, Start

\* Who counts.
LEMMA WritersOfCount ==
    ASSUME [Next]_vars
    PROVE  count' = count \/ \E c \in Counters : Counted(c) /\ (RestoreServer => c = "restored")
  BY DEF Next, vars, table, notes, round, Remote, RemoteStep, RemoteAdd, RemoteRename, RemoteMove,
         RemoteDelete, RestoreServer,
         User, UserStep, Write, AddNotebook, MoveNotebook, RenameNotebook, DragNotebooks, UpdateNotebookTitle,
         DeleteNotebook, FileNote, MoveNote, MoveTrash, TrashNote, RestoreNote, PurgeNote, Refile, Counters,
         Faults, LoseRequest, LoseAnswer, CutOff, Upload, ForgetNotebook, Request, AddAgain, Acknowledge,
         AcknowledgeDelete, RecordError, EndUpload, Download, ReadState, GetSyncNotebooks, MergeNotebook, EndMerge,
         ReconcileFullNotebooks, RestoreNotebookParents, Start

\* Every step keeps the types.
LEMMA TypeStep ==
    ASSUME TypeOK, Copied, Answering, [Next]_vars
    PROVE  TypeOK'
  <1>1. last' \in Nat
    BY WritersOfLast DEF TypeOK, Object
  <1>2. count' \in [Counters -> Nat]
    BY WritersOfCount DEF Counted, TypeOK
  <1>3. touched' \subseteq Ids
    BY WritersOfTouched, AddStep, EditStep, LiveIds DEF TypeOK
  <1>4. Held' \subseteq Here'
    BY HeldStep
  <1>5. stuck' \subseteq Ids /\ from' \in Nat
    BY WritersOfStuck DEF TypeOK
  <1> QED
    BY <1>1, <1>2, <1>3, <1>4, <1>5, ServerType, RowsType, SnapType, PageType, RoundType, ReplyType DEF TypeOK

-----------------------------------------------------------------------------
(* One row for one notebook                                                *)

\* An id nobody has used is in no row, copy or answer.
LEMMA FreshUnknown ==
    ASSUME NEW x \in Fresh
    PROVE  /\ x \in Ids /\ ~rows[x].here /\ ~snap[x].here /\ x # reply.id
           /\ \A i \in Ids : rows[i].sid # x /\ snap[i].sid # x
  BY DEF Fresh

\* A row is the same notebook after a step, or a new one, or one the server has
\* answered for, or one that was downloaded.
LEMMA RowIdentity ==
    ASSUME TypeOK, Copied, Answering, [Next]_vars, NEW j \in Ids, rows'[j].here
    PROVE  \/ /\ rows[j].here /\ rows'[j].sid = rows[j].sid /\ rows'[j].new = rows[j].new
              /\ pc \in Sending /\ rows[j].hidden => rows'[j].hidden
           \/ AddNotebook /\ j \in Fresh /\ rows'[j].sid = None
           \/ Acknowledge /\ j = cur /\ rows[j].here /\ rows'[j].sid = reply.id
           \/ /\ MergeNotebook /\ rows'[j].sid \in Ids
              /\ \A k \in Ids : k # j => rows'[k] = rows[k]
              /\ \A k \in Ids : k # j /\ rows[k].here /\ rows[k].sid = rows'[j].sid
                                => rows[j].here /\ rows[j].sid = rows'[j].sid
  <1>1. CASE rows' = rows
    BY <1>1
  <1>2. CASE AddNotebook
    <2>1. PICK i \in Fresh, r \in Row : rows' = [rows EXCEPT ![i] = r] /\ r.sid = None
      BY <1>2, AddStep
    <2> QED
      BY <1>2, <2>1, LiveIds, RowWritten
  <1>3. CASE Edit
    <2>1. PICK i \in Here, r \in Row :
            /\ rows' = [rows EXCEPT ![i] = r]
            /\ r.sid = rows[i].sid /\ r.new = rows[i].new /\ (rows[i].hidden => r.hidden)
      BY <1>3, EditStep
    <2>2. i \in Ids /\ rows[i].here
      BY DEF Here
    <2> QED
      BY <2>1, <2>2, RowWritten
  <1>4. ASSUME NEW i \in Ids, ForgetNotebook(i)
        PROVE  rows'[j] = rows[j]
    BY <1>4, ForgetStep, Blank
  <1>5. CASE Acknowledge
    BY <1>5, AckedStep
  <1>6. CASE AcknowledgeDelete
    BY <1>6, SettledStep
  <1>7. CASE MergeNotebook /\ rows' # rows
    <2>1. CASE \E s \in queue : rows' = [k \in Ids |-> IF k \in LocalIds(s) \ Held THEN NoRow ELSE rows[k]]
      BY <2>1, Blank
    <2>2. ASSUME NEW s \in queue, NEW i \in Ids, NEW r \in Row, rows' = [rows EXCEPT ![i] = r], FromPage(r, s),
                 (i = s /\ LocalIds(s) = {}) \/ i \in LocalIds(s), j = i
          PROVE  /\ rows'[j].sid \in Ids
                 /\ \A k \in Ids : k # j => rows'[k] = rows[k]
                 /\ \A k \in Ids : k # j /\ rows[k].here /\ rows[k].sid = rows'[j].sid
                                   => rows[j].here /\ rows[j].sid = rows'[j].sid
      <3>1. s \in Ids /\ rows'[j].sid = s /\ \A k \in Ids : k # j => rows'[k] = rows[k]
        BY <2>2, RowWritten DEF FromPage, TypeOK
      <3> QED
        BY <2>2, <3>1 DEF LocalIds, Here
    <2>3. ASSUME NEW s \in queue, NEW i \in Ids, NEW r \in Row, rows' = [rows EXCEPT ![i] = r], j # i
          PROVE  rows'[j] = rows[j]
      BY <2>3, RowWritten
    <2> QED
      BY <1>7, <2>1, <2>2, <2>3, MergedStep
  <1>8. CASE ReconcileFullNotebooks \/ RestoreNotebookParents
    <2>1. pc \notin Sending
      BY <1>8 DEF ReconcileFullNotebooks, RestoreNotebookParents, Sending
    <2> QED
      BY <1>8, <2>1, RepairStep
  <1> QED
    BY <1>1, <1>2, <1>3, <1>4, <1>5, <1>6, <1>7, <1>8, WritersOfRows

\* No step makes a second row for a notebook of the server.
LEMMA OneRowStep ==
    ASSUME TypeOK, Copied, Answering, OneRowPerNotebook, [Next]_vars
    PROVE  OneRowPerNotebook'
  <1> SUFFICES ASSUME NEW i \in Ids, NEW j \in Ids, rows'[i].here, rows'[j].here, i # j,
                      rows'[i].sid = rows'[j].sid, rows'[i].sid # None
               PROVE  FALSE
    BY DEF OneRowPerNotebook, Here
  <1> DEFINE Old(k) == rows[k].here /\ rows'[k].sid = rows[k].sid
             Downloaded(k) == /\ \A m \in Ids : m # k => rows'[m] = rows[m]
                              /\ \A m \in Ids : m # k /\ rows[m].here /\ rows[m].sid = rows'[k].sid
                                                => rows[k].here /\ rows[k].sid = rows'[k].sid
  <1>1. ASSUME NEW k \in {i, j}
        PROVE  Old(k) \/ (Acknowledge /\ k = cur /\ rows'[k].sid = reply.id) \/ Downloaded(k)
    BY <1>1, RowIdentity
  <1>2. ~(Old(i) /\ Old(j))
    BY DEF OneRowPerNotebook, Here
  <1>3. ASSUME Acknowledge, NEW k \in Ids, NEW m \in Ids, k # m, k = cur, rows'[k].sid = reply.id, Old(m),
               rows'[k].sid = rows'[m].sid
        PROVE  FALSE
    <2>1. reply.kind = "ok"
      BY <1>3 DEF Acknowledge
    <2> QED
      BY <1>3, <2>1 DEF Answering
  <1>4. ASSUME NEW k \in Ids, NEW m \in Ids, k # m, Downloaded(k), rows'[k].sid = rows'[m].sid, rows'[m].here
        PROVE  Old(k) /\ Old(m)
    BY <1>4
  <1> HIDE DEF Old, Downloaded
  <1> QED
    BY <1>1, <1>2, <1>3, <1>4

\* What the loop of the download works on.
LEMMA PageStep ==
    ASSUME TypeOK, [Next]_vars, pc' = "merge"
    PROVE  \A s \in queue' : page'[s].state # "unused" \/ (pc = "merge" /\ s \in queue /\ page' = page)
  <1>1. CASE UNCHANGED vars \/ Outside
    BY <1>1, OutsideStep DEF vars, round
  <1>2. CASE GetSyncNotebooks
    BY <1>2 DEF GetSyncNotebooks
  <1>3. CASE MergeNotebook
    BY <1>3 DEF MergeNotebook
  <1>4. ASSUME NEW i \in Ids, ForgetNotebook(i) \/ Request(i) \/ LoseRequest(i) PROVE pc' # "merge"
    BY <1>4 DEF ForgetNotebook, Request, LoseRequest, Turn
  <1>5. AddAgain \/ LoseAnswer \/ Acknowledge \/ AcknowledgeDelete \/ RecordError => pc' # "merge"
    BY DEF AddAgain, LoseAnswer, Acknowledge, AcknowledgeDelete, RecordError, Answered
  <1>6. EndUpload \/ CutOff \/ Start("full") \/ Start("incr") \/ RestoreNotebookParents => pc' # "merge"
    BY DEF EndUpload, CutOff, Rest, Start, RestoreNotebookParents, Collect
  <1>7. ReadState \/ EndMerge \/ ReconcileFullNotebooks => pc' # "merge"
    BY DEF ReadState, EndMerge, ReconcileFullNotebooks, Collect
  <1> QED
    BY <1>1, <1>2, <1>3, <1>4, <1>5, <1>6, <1>7, Steps DEF RoundStep

\* Copies stay copies of their rows.
LEMMA CopiedStep ==
    ASSUME TypeOK, Copied, Answering, OneRowPerNotebook, [Next]_vars
    PROVE  Copied'
  <1>0. TypeOK' /\ OneRowPerNotebook'
    BY TypeStep, OneRowStep
  <1>p. pc' = "merge" => \A s \in queue' : page'[s].state # "unused"
    BY PageStep DEF Copied
  <1>1. CASE /\ snap' = snap
             /\ pc' = "merge" \/ queue' \subseteq queue
             /\ pc' \in Sending => pc \in Sending
             /\ pc' \in Resting => pc \in Resting
    <2>1. ASSUME NEW i \in Ids, snap[i].here, rows'[i].here
          PROVE  /\ rows'[i].sid = snap[i].sid /\ rows'[i].new = snap[i].new
                 /\ pc' \in Sending /\ snap[i].hidden => rows'[i].hidden
      <3>1. ~Acknowledge \/ i # cur
        BY <1>1, <2>1, Blank DEF Acknowledge, Answered, Answering, TypeOK
      <3>2. ~MergeNotebook
        BY <2>1 DEF MergeNotebook, Copied
      <3>3. ~(i \in Fresh)
        BY <2>1, FreshUnknown
      <3>4. /\ rows[i].here /\ rows'[i].sid = rows[i].sid /\ rows'[i].new = rows[i].new
            /\ pc \in Sending /\ rows[i].hidden => rows'[i].hidden
        BY <2>1, <3>1, <3>2, <3>3, RowIdentity
      <3> QED
        BY <1>1, <2>1, <3>4 DEF Copied, Sending
    <2>2. ASSUME NEW i \in Ids, NEW j \in Ids, i # j, snap[i].here, snap[i].sid # None, rows'[j].here
          PROVE  rows'[j].sid # snap[i].sid
      <3>1. ~Acknowledge
        BY <1>1, Blank DEF Acknowledge, Answered, Answering, TypeOK
      <3>2. ~MergeNotebook
        BY <2>2 DEF MergeNotebook, Copied
      <3>3. (rows[j].here /\ rows'[j].sid = rows[j].sid) \/ rows'[j].sid = None
        BY <2>2, <3>1, <3>2, RowIdentity
      <3> QED
        BY <2>2, <3>3 DEF Copied
    <2> QED
      BY <1>1, <1>p, <2>1, <2>2 DEF Copied, Sending, Resting
  <1>2. CASE snap' = NoRows /\ pc' \notin {"push", "answer", "merge"}
    BY <1>2, <1>p, Blank DEF Copied, NoRows
  <1>3. ASSUME \A i \in Ids : snap'[i] = rows'[i] \/ snap'[i] = NoRow, pc' \notin Resting,
               pc' \in Sending => \A i \in queue' : snap'[i].here
        PROVE  Copied'
    <2>1. \A i \in Ids : snap'[i].here => snap'[i] = rows'[i]
      BY <1>3, Blank
    <2>2. \A i, j \in Ids : i # j /\ snap'[i].here /\ snap'[i].sid # None
                            => /\ rows'[j].here => rows'[j].sid # snap'[i].sid
                               /\ snap'[j].here => snap'[j].sid # snap'[i].sid
      BY <1>0, <2>1 DEF OneRowPerNotebook, Here
    <2>3. \A i \in Ids : snap'[i].here => (snap'[i].new <=> snap'[i].sid = None)
      BY <1>0, <2>1 DEF TypeOK
    <2> QED
      BY <1>3, <1>p, <2>1, <2>2, <2>3 DEF Copied, Sending, Resting
  <1>4. CASE Collecting
    <2>1. \A i \in Ids : snap'[i] = rows'[i] \/ snap'[i] = NoRow
      BY <1>4 DEF Collecting, Collect
    <2>2. pc' = "push" /\ \A i \in queue' : snap'[i].here
      BY <1>4 DEF Collecting, Collect
    <2> QED
      BY <1>3, <2>1, <2>2 DEF Resting
  <1>5. CASE EndMerge /\ snap' = rows' /\ rows' = rows /\ pc' = "reconcile"
    BY <1>3, <1>5 DEF Resting, Sending
  <1>6. CASE Answered /\ queue' = queue
    <2>1. /\ pc = "answer" /\ pc' = "push" /\ cur \in Ids \ queue /\ snap[cur].here
          /\ snap'[cur] = NoRow /\ \A i \in Ids : i # cur => snap'[i] = snap[i]
      BY <1>6, Blank DEF Answered, Answering, TypeOK
    <2>2. ASSUME NEW i \in Ids, i # cur, snap[i].here, rows'[i].here
          PROVE  /\ rows'[i].sid = snap[i].sid /\ rows'[i].new = snap[i].new
                 /\ snap[i].hidden => rows'[i].hidden
      <3>1. ~MergeNotebook /\ i \notin Fresh
        BY <2>1, <2>2, FreshUnknown DEF MergeNotebook
      <3>2. /\ rows[i].here /\ rows'[i].sid = rows[i].sid /\ rows'[i].new = rows[i].new
            /\ rows[i].hidden => rows'[i].hidden
        BY <2>1, <2>2, <3>1, RowIdentity DEF Sending
      <3> QED
        BY <2>1, <2>2, <3>2 DEF Copied
    <2>3. ASSUME NEW i \in Ids, NEW j \in Ids, i # j, i # cur, snap[i].here, snap[i].sid # None, rows'[j].here
          PROVE  rows'[j].sid # snap[i].sid
      <3>1. ~MergeNotebook
        BY <2>1 DEF MergeNotebook
      <3>2. CASE Acknowledge /\ j = cur /\ rows'[j].sid = reply.id
        BY <2>3, <3>2 DEF Acknowledge, Answering
      <3>3. (rows[j].here /\ rows'[j].sid = rows[j].sid) \/ rows'[j].sid = None
            \/ (Acknowledge /\ j = cur /\ rows'[j].sid = reply.id)
        BY <2>3, <3>1, RowIdentity
      <3> QED
        BY <2>3, <3>2, <3>3 DEF Copied
    <2>4. \A i \in queue' : i \in Ids /\ snap'[i].here
      BY <1>6, <2>1 DEF Copied, TypeOK
    <2> QED
      BY <1>p, <2>1, <2>2, <2>3, <2>4, Blank DEF Copied
  <1> QED
    BY <1>1, <1>2, <1>4, <1>5, <1>6, SnapStep

-----------------------------------------------------------------------------
(* Answers                                                                 *)

\* The answer under way stays, is given, or there is none.
LEMMA AnswerMoves ==
    ASSUME Answering, [Next]_vars
    PROVE  \/ UNCHANGED round
           \/ \E i \in Ids : Request(i)
           \/ (AddAgain \/ LoseAnswer) /\ pc = "answer" /\ UNCHANGED <<pc, cur, queue, snap, rows>>
           \/ pc' # "answer" /\ cur' = None /\ reply' = Silent
  <1>1. CASE UNCHANGED vars \/ Outside
    BY <1>1, OutsideStep DEF vars
  <1>2. CASE \E i \in Ids : ForgetNotebook(i) \/ LoseRequest(i)
    BY <1>2 DEF ForgetNotebook, LoseRequest, Turn, Answering
  <1>3. CASE AddAgain \/ LoseAnswer
    BY <1>3 DEF AddAgain, LoseAnswer, table
  <1>4. CASE Acknowledge \/ AcknowledgeDelete \/ RecordError
    BY <1>4 DEF Acknowledge, AcknowledgeDelete, RecordError, Answered
  <1>5. CASE EndUpload \/ CutOff
    BY <1>5 DEF EndUpload, CutOff, Rest, Answering
  <1>6. CASE GetSyncNotebooks \/ MergeNotebook \/ ReconcileFullNotebooks
    BY <1>6 DEF GetSyncNotebooks, MergeNotebook, ReconcileFullNotebooks, Answering
  <1>7. CASE ReadState \/ EndMerge
    BY <1>7 DEF ReadState, EndMerge, Collect, Answering
  <1>8. CASE RestoreNotebookParents \/ Start("full") \/ Start("incr")
    BY <1>8 DEF RestoreNotebookParents, Start, Collect, Answering
  <1> QED
    BY <1>1, <1>2, <1>3, <1>4, <1>5, <1>6, <1>7, <1>8, Steps DEF RoundStep

\* An answer stays about its own notebook.
LEMMA AnsweringStep ==
    ASSUME TypeOK, Copied, Answering, [Next]_vars
    PROVE  Answering'
  <1>1. CASE UNCHANGED round
    <2>1. UNCHANGED <<pc, cur, queue, snap, reply>>
      BY <1>1 DEF round
    <2>2. ASSUME NEW j \in Ids, rows'[j].here, reply.kind = "ok", j # cur
          PROVE  rows'[j].sid # reply.id
      <3>1. pc = "answer"
        BY <2>2 DEF Answering, Silent
      <3>2. ~Acknowledge /\ ~MergeNotebook
        BY <2>1, <3>1 DEF Acknowledge, Answered, MergeNotebook
      <3>3. (rows[j].here /\ rows'[j].sid = rows[j].sid) \/ rows'[j].sid = None
        BY <2>2, <3>2, RowIdentity
      <3> QED
        BY <2>2, <3>3, Blank DEF Answering
    <2> QED
      BY <2>1, <2>2 DEF Answering
  <1>2. ASSUME NEW i \in Ids, Request(i) PROVE Answering'
    <2>1. /\ pc' = "answer" /\ cur' = i /\ queue' = queue \ {i} /\ snap' = snap /\ rows' = rows
          /\ i \in queue /\ snap[i].here
      BY <1>2 DEF Request, Turn, table, Copied
    <2>2. CASE Failing
      BY <2>1, <2>2 DEF Failing, Answering
    <2>3. ASSUME NEW s \in Fresh, Adding(s) PROVE Answering'
      <3>1. reply'.kind = "ok" /\ reply'.id = s
        BY <2>3 DEF Adding
      <3> QED
        BY <2>1, <3>1, FreshUnknown DEF Answering
    <2>4. ASSUME ~snap[i].new, snap[i].sid \in Ids, Adding(snap[i].sid) \/ Deleting(snap[i].sid)
          PROVE  Answering'
      <3>1. reply'.kind \in {"ok", "deleted"} /\ reply'.id = snap[i].sid
        BY <2>4 DEF Adding, Deleting
      <3>2. ASSUME NEW j \in Ids, j # i
            PROVE  /\ rows[j].here => rows[j].sid # snap[i].sid
                   /\ snap[j].here => snap[j].sid # snap[i].sid
        BY <2>1, <2>4, <3>2, Blank DEF Copied
      <3> QED
        BY <2>1, <2>4, <3>1, <3>2 DEF Answering
    <2> QED
      BY <1>2, <2>2, <2>3, <2>4, RequestAnswer
  <1>3. CASE (AddAgain \/ LoseAnswer) /\ pc = "answer" /\ UNCHANGED <<pc, cur, queue, snap, rows>>
    <2>1. cur \in Ids \ queue /\ snap[cur].here /\ UNCHANGED <<pc, cur, queue, snap, rows>> /\ pc = "answer"
      BY <1>3 DEF Answering
    <2>2. CASE Failing
      BY <2>1, <2>2 DEF Failing, Answering
    <2>3. ASSUME NEW s \in Fresh, Adding(s) PROVE Answering'
      <3>1. reply'.kind = "ok" /\ reply'.id = s
        BY <2>3 DEF Adding
      <3> QED
        BY <2>1, <3>1, FreshUnknown DEF Answering
    <2>4. CASE AddAgain
      BY <2>1, <2>2, <2>3, <2>4, SentType, AddAnswer DEF AddAgain
    <2>5. CASE LoseAnswer
      BY <2>2, <2>5 DEF LoseAnswer, Refused, Answers, Failing
    <2> QED
      BY <1>3, <2>4, <2>5
  <1>4. CASE pc' # "answer" /\ cur' = None /\ reply' = Silent
    BY <1>4 DEF Answering, Silent
  <1> QED
    BY <1>1, <1>2, <1>3, <1>4, AnswerMoves

-----------------------------------------------------------------------------
(* Local work first                                                        *)

\* A row that waits for an upload after a step did before, or is noted as
\* written, or as kept by its notes.
LEMMA DirtyStep ==
    ASSUME TypeOK, Copied, Answering, [Next]_vars, NEW j \in Ids, rows'[j].here, rows'[j].dirty
    PROVE  \/ /\ rows[j].here /\ rows[j].dirty /\ ~ForgetNotebook(j)
              /\ Acknowledge \/ AcknowledgeDelete => j # cur
           \/ j \in touched' \cup stuck' \/ pc = "idle" \/ ReconcileFullNotebooks \/ RestoreNotebookParents
  <1>0. ~(Acknowledge \/ AcknowledgeDelete) \/ j # cur
    BY AckedStep, SettledStep DEF TypeOK
  <1>f. ForgetNotebook(j) => j \in stuck'
    BY ForgetStep, Blank
  <1>s. SUFFICES (rows[j].here /\ rows[j].dirty) \/ j \in touched' \cup stuck' \/ pc = "idle"
                 \/ ReconcileFullNotebooks \/ RestoreNotebookParents
    BY <1>0, <1>f
  <1>1. CASE AddNotebook
    <2>1. PICK i \in Fresh, r \in Row :
            /\ rows' = [rows EXCEPT ![i] = r]
            /\ touched' = IF pc = "idle" THEN {} ELSE touched \cup {i}
      BY <1>1, AddStep
    <2> QED
      BY <2>1, LiveIds, RowWritten
  <1>2. CASE Edit
    <2>1. PICK i \in Here, r \in Row :
            /\ rows' = [rows EXCEPT ![i] = r]
            /\ touched' = IF pc = "idle" THEN {} ELSE touched \cup {i}
      BY <1>2, EditStep
    <2> QED
      BY <2>1, LiveIds, RowWritten
  <1>3. ASSUME NEW i \in Ids, ForgetNotebook(i) PROVE rows'[j] = rows[j]
    BY <1>3, ForgetStep, Blank
  <1>4. CASE Acknowledge
    BY <1>0, <1>4, AckedStep
  <1>5. CASE AcknowledgeDelete
    BY <1>0, <1>5, SettledStep
  <1>6. CASE MergeNotebook
    <2>1. CASE \E s \in queue : rows' = [k \in Ids |-> IF k \in LocalIds(s) \ Held THEN NoRow ELSE rows[k]]
      BY <2>1, Blank
    <2>2. ASSUME NEW s \in queue, NEW i \in Ids, NEW r \in Row, rows' = [rows EXCEPT ![i] = r], FromPage(r, s)
          PROVE  rows'[j] = rows[j]
      BY <2>2, RowWritten DEF FromPage
    <2> QED
      BY <1>6, <2>1, <2>2, MergedStep
  <1> QED
    BY <1>1, <1>2, <1>3, <1>4, <1>5, <1>6, WritersOfRows

\* Within a round the rows written since it began, or kept, stay noted.
LEMMA TouchedStep ==
    ASSUME TypeOK, [Next]_vars
    PROVE  touched \cup stuck \subseteq touched' \cup stuck' \/ pc = "idle" \/ pc' = "idle"
  <1>1. CASE AddNotebook \/ Edit
    <2>1. stuck' = stuck
      BY <1>1, OutsideStep DEF Outside, round
    <2> QED
      BY <1>1, <2>1, AddStep, EditStep
  <1>2. CASE EndUpload \/ CutOff
    BY <1>2 DEF EndUpload, CutOff, Rest
  <1>3. CASE UNCHANGED vars \/ Remote \/ Refiling
    <2>1. stuck' = stuck
      BY <1>3, OutsideStep DEF Outside, vars, round
    <2>2. touched' = touched
      BY <1>3, RefileStep DEF TypeOK, vars, Remote, RemoteStep, RemoteAdd, RemoteRename, RemoteMove, RemoteDelete,
                              RestoreServer
    <2> QED
      BY <2>1, <2>2
  <1>4. CASE \E i \in Ids : ForgetNotebook(i) \/ Request(i) \/ LoseRequest(i)
    BY <1>4 DEF ForgetNotebook, Request, LoseRequest
  <1>5. CASE AddAgain \/ LoseAnswer \/ Acknowledge \/ AcknowledgeDelete \/ RecordError
    BY <1>5 DEF AddAgain, LoseAnswer, Acknowledge, AcknowledgeDelete, RecordError
  <1>6. CASE ReadState \/ GetSyncNotebooks \/ MergeNotebook \/ EndMerge \/ ReconcileFullNotebooks
             \/ RestoreNotebookParents
    BY <1>6 DEF ReadState, GetSyncNotebooks, MergeNotebook, EndMerge, ReconcileFullNotebooks,
                RestoreNotebookParents
  <1>7. CASE Start("full") \/ Start("incr")
    BY <1>7 DEF Start
  <1> QED
    BY <1>1, <1>2, <1>3, <1>4, <1>5, <1>6, <1>7, Steps DEF Outside, RoundStep

\* The first upload of a round begins, or handles one notebook.
LEMMA UploadMoves ==
    ASSUME TypeOK, Answering, [Next]_vars, pass' = 1, pc' \in Sending, ~failed'
    PROVE  \/ Collecting
           \/ /\ pass = 1 /\ pc \in Sending /\ ~failed
              /\ \A j \in Ids : j \in queue \cup {cur} =>
                   \/ j \in queue' \cup {cur'} \/ ForgetNotebook(j)
                   \/ (Acknowledge \/ AcknowledgeDelete) /\ j = cur
  <1>1. CASE UNCHANGED vars \/ Outside
    BY <1>1, OutsideStep DEF vars, round
  <1>2. ASSUME NEW i \in Ids, ForgetNotebook(i) \/ Request(i) \/ LoseRequest(i)
        PROVE  /\ pass = 1 /\ pc \in Sending /\ ~failed
               /\ \A j \in Ids : j \in queue \cup {cur} => j \in queue' \cup {cur'} \/ ForgetNotebook(j)
    BY <1>2, Blank DEF ForgetNotebook, Request, LoseRequest, Turn, Sending, Answering
  <1>3. CASE AddAgain \/ LoseAnswer
    BY <1>3 DEF AddAgain, LoseAnswer, Sending
  <1>4. CASE Acknowledge \/ AcknowledgeDelete \/ RecordError
    BY <1>4 DEF Acknowledge, AcknowledgeDelete, RecordError, Answered, Sending
  <1>5. EndUpload \/ CutOff => FALSE
    BY DEF EndUpload, CutOff, Rest, Sending
  <1>6. GetSyncNotebooks \/ MergeNotebook \/ ReconcileFullNotebooks => FALSE
    BY DEF GetSyncNotebooks, MergeNotebook, ReconcileFullNotebooks, Sending
  <1>7. ReadState \/ EndMerge \/ RestoreNotebookParents => FALSE
    BY DEF ReadState, EndMerge, RestoreNotebookParents, Sending
  <1>8. CASE Start("full") \/ Start("incr")
    <2>1. rows' = rows /\ Collect(rows)
      BY <1>8 DEF Start, table
    <2> QED
      BY <2>1 DEF Collecting
  <1> QED
    BY <1>1, <1>2, <1>3, <1>4, <1>5, <1>6, <1>7, <1>8, Steps DEF RoundStep

\* What an upload has still to accept is queued or in hand.
LEMMA UploadingStep ==
    ASSUME TypeOK, Copied, Answering, Uploading, [Next]_vars
    PROVE  Uploading'
  <1> SUFFICES ASSUME pass' = 1, pc' \in Sending, ~failed', NEW j \in Ids, rows'[j].here, rows'[j].dirty
               PROVE  j \in touched' \cup stuck' \cup queue' \cup {cur'}
    BY DEF Uploading, Here, Sending
  <1>1. CASE Collecting
    BY <1>1 DEF Collecting, Collect
  <1>2. CASE /\ pass = 1 /\ pc \in Sending /\ ~failed
             /\ \A k \in Ids : k \in queue \cup {cur} =>
                  \/ k \in queue' \cup {cur'} \/ ForgetNotebook(k)
                  \/ (Acknowledge \/ AcknowledgeDelete) /\ k = cur
    <2>1. ~ReconcileFullNotebooks /\ ~RestoreNotebookParents /\ pc # "idle" /\ pc' # "idle"
      BY <1>2 DEF ReconcileFullNotebooks, RestoreNotebookParents, Sending
    <2>2. CASE j \notin touched' \cup stuck'
      <3>1. /\ rows[j].here /\ rows[j].dirty /\ ~ForgetNotebook(j)
            /\ Acknowledge \/ AcknowledgeDelete => j # cur
        BY <2>1, <2>2, DirtyStep
      <3>2. j \notin touched \cup stuck
        BY <2>1, <2>2, TouchedStep
      <3>3. j \in queue \cup {cur}
        BY <1>2, <3>1, <3>2 DEF Uploading, Here, Sending
      <3> QED
        BY <1>2, <3>1, <3>3
    <2> QED
      BY <2>2
  <1> QED
    BY <1>1, <1>2, UploadMoves

\* Before the second upload the round downloads.
Downloading == {"state", "pull", "merge", "reconcile"}

\* During a download rows become dirty only by the user.
LEMMA DownloadMoves ==
    ASSUME TypeOK, Answering, [Next]_vars, pass' = 1, pc' \in Downloading
    PROVE  /\ pass = 1
           /\ pc \in Downloading \/ (pc = "push" /\ queue = {} /\ ~failed)
  <1>1. CASE UNCHANGED vars \/ Outside
    BY <1>1, OutsideStep DEF vars, round
  <1>2. ASSUME NEW i \in Ids, ForgetNotebook(i) \/ Request(i) \/ LoseRequest(i)
        PROVE  FALSE
    BY <1>2 DEF ForgetNotebook, Request, LoseRequest, Turn, Downloading
  <1>3. AddAgain \/ LoseAnswer \/ Acknowledge \/ AcknowledgeDelete \/ RecordError => FALSE
    BY DEF AddAgain, LoseAnswer, Acknowledge, AcknowledgeDelete, RecordError, Answered, Downloading
  <1>4. CASE EndUpload \/ CutOff
    BY <1>4 DEF EndUpload, CutOff, Rest, Downloading
  <1>5. CASE GetSyncNotebooks \/ MergeNotebook \/ ReconcileFullNotebooks
    BY <1>5 DEF GetSyncNotebooks, MergeNotebook, ReconcileFullNotebooks, Downloading
  <1>6. CASE ReadState \/ EndMerge
    BY <1>6 DEF ReadState, EndMerge, Downloading
  <1>7. Start("full") \/ Start("incr") \/ RestoreNotebookParents => FALSE
    BY DEF Start, RestoreNotebookParents, Collect, Downloading
  <1> QED
    BY <1>1, <1>2, <1>3, <1>4, <1>5, <1>6, <1>7, Steps DEF RoundStep

\* A download starts after an upload without a failure, and only the user writes
\* after that.
LEMMA AcceptedStep ==
    ASSUME TypeOK, Copied, Answering, Uploading, AcceptedBeforeDownload, [Next]_vars
    PROVE  AcceptedBeforeDownload'
  <1> SUFFICES ASSUME pass' = 1, pc' \in Downloading, NEW j \in Ids, rows'[j].here, rows'[j].dirty,
                      j \notin touched' \cup stuck'
               PROVE  FALSE
    BY DEF AcceptedBeforeDownload, Here, Downloading
  <1>1. pass = 1 /\ (pc \in Downloading \/ (pc = "push" /\ queue = {} /\ ~failed))
    BY DownloadMoves
  <1>2. ~ReconcileFullNotebooks /\ ~RestoreNotebookParents /\ pc # "idle" /\ pc' # "idle"
    BY <1>1 DEF ReconcileFullNotebooks, RestoreNotebookParents, Downloading
  <1>3. rows[j].here /\ rows[j].dirty /\ j \notin touched \cup stuck
    BY <1>2, DirtyStep, TouchedStep
  <1>4. CASE pc \in Downloading
    BY <1>1, <1>3, <1>4 DEF AcceptedBeforeDownload, Here, Downloading
  <1>5. CASE pc = "push" /\ queue = {} /\ ~failed
    BY <1>1, <1>3, <1>5, Blank DEF Uploading, Answering, Here
  <1> QED
    BY <1>1, <1>4, <1>5

-----------------------------------------------------------------------------
(* Versions                                                                *)

\* Without a restoration the server's objects stay or get the next USN, and a
\* deleted one stays deleted.
LEMMA ServerMoves ==
    ASSUME TypeOK, Copied, Answering, [Next]_vars, count'.restored = 0
    PROVE  /\ count.restored = 0 /\ srv.top \in Nat /\ srv'.top \in Nat /\ srv.top <= srv'.top
           /\ \A s \in Ids : /\ srv.nb[s].usn \in Nat
                             /\ \/ srv'.nb[s] = srv.nb[s]
                                \/ /\ srv'.nb[s].usn = srv.top + 1 /\ srv'.top = srv.top + 1
                                   /\ srv.nb[s].state # "deleted"
  <1>1. count.restored = 0 /\ ~RestoreServer
    <2>1. count.restored \in Nat /\ "restored" \in Counters
      BY DEF TypeOK, Counters
    <2>2. ~Counted("restored")
      BY <2>1 DEF Counted, TypeOK
    <2>3. ~RestoreServer
      BY <2>2 DEF RestoreServer
    <2>4. count' = count \/ \E c \in Counters \ {"restored"} : Counted(c)
      BY <2>2, WritersOfCount
    <2> QED
      BY <2>1, <2>3, <2>4 DEF Counted, TypeOK
  <1>2. srv.top \in Nat /\ \A s \in Ids : srv.nb[s].usn \in Nat
    BY DEF TypeOK, Object
  <1>3. srv' = srv \/ \E s \in Ids, object \in Object : srv' = Stored(s, object) /\ srv.nb[s].state # "deleted"
    <2>0. ASSUME NEW s \in Fresh PROVE s \in Ids /\ srv.nb[s].state # "deleted"
      BY DEF Fresh
    <2>1. CASE Remote
      BY <1>1, <2>1, RemoteStored
    <2>2. CASE AddAgain
      <3>1. cur \in Ids /\ ServerAdd(Sent(cur))
        BY <2>2 DEF AddAgain, Answering
      <3>2. Failing \/ \E s \in Fresh : Adding(s)
        BY <3>1, SentType, AddAnswer
      <3> QED
        BY <2>0, <3>2 DEF Failing, Adding
    <2>3. ASSUME NEW i \in Ids, Request(i)
          PROVE  srv' = srv \/ \E s \in Ids, object \in Object : srv' = Stored(s,
         object) /\ srv.nb[s].state # "deleted"
      <3>1. CASE Failing
        BY <3>1 DEF Failing
      <3>2. ASSUME NEW s \in Fresh, Adding(s)
            PROVE  \E object \in Object : srv' = Stored(s, object)
        BY <3>2 DEF Adding
      <3>3. ASSUME snap[i].sid \in Ids, Adding(snap[i].sid) \/ Deleting(snap[i].sid)
            PROVE  \E object \in Object : srv' = Stored(snap[i].sid, object)
        BY <3>3 DEF Adding, Deleting
      <3> QED
        BY <2>0, <2>3, <3>1, <3>2, <3>3, RequestAnswer
    <2> QED
      BY <2>1, <2>2, <2>3, WritersOfServer
  <1>4. CASE srv' = srv
    BY <1>1, <1>2, <1>4
  <1>5. ASSUME NEW s \in Ids, NEW object \in Object, srv' = Stored(s, object), srv.nb[s].state # "deleted"
        PROVE  /\ srv'.top = srv.top + 1 /\ srv'.nb[s].usn = srv.top + 1
               /\ \A t \in Ids : t # s => srv'.nb[t] = srv.nb[t]
    BY <1>5, StoredStep
  <1>6. CASE srv' # srv
    <2>1. PICK s \in Ids, object \in Object : srv' = Stored(s, object) /\ srv.nb[s].state # "deleted"
      BY <1>3, <1>6
    <2>2. /\ srv'.top = srv.top + 1 /\ srv'.nb[s].usn = srv.top + 1
          /\ \A t \in Ids : t # s => srv'.nb[t] = srv.nb[t]
      BY <1>5, <2>1
    <2> QED
      BY <1>1, <1>2, <2>1, <2>2
  <1> QED
    BY <1>4, <1>6

\* Whose version a row has after a step: its own, still; the one an answer
\* brought; the one of the list.  A row that is not clean has its own.
LEMMA RowVersion ==
    ASSUME TypeOK, Copied, Answering, [Next]_vars, NEW j \in Ids, rows'[j].here
    PROVE  \/ rows'[j].dirty /\ (rows'[j].usn = 0 \/ rows'[j].usn = rows[j].usn)
           \/ /\ rows[j].here /\ ~rows[j].dirty
              /\ rows'[j].sid = rows[j].sid /\ rows'[j].title = rows[j].title /\ rows'[j].usn = rows[j].usn
           \/ /\ Acknowledge /\ rows'[j].sid = reply.id
              /\ rows'[j].title = reply.object.title /\ rows'[j].usn = reply.object.usn
           \/ /\ AcknowledgeDelete /\ j = cur /\ rows[j].here
              /\ rows'[j].sid = snap[j].sid /\ rows'[j].usn = rows[j].usn
           \/ \E s \in queue : MergeNotebook /\ page[s].state = "live" /\ FromPage(rows'[j], s)
  <1>0. ASSUME rows'[j] = rows[j]
        PROVE  \/ rows'[j].dirty /\ rows'[j].usn = rows[j].usn
               \/ /\ rows[j].here /\ ~rows[j].dirty
                  /\ rows'[j].sid = rows[j].sid /\ rows'[j].title = rows[j].title /\ rows'[j].usn = rows[j].usn
    BY <1>0
  <1>1. CASE AddNotebook
    <2>1. PICK i \in Fresh, r \in Row : rows' = [rows EXCEPT ![i] = r] /\ r.dirty /\ r.usn = 0
      BY <1>1, AddStep
    <2>2. CASE i = j
      BY <2>1, <2>2, RowWritten
    <2>3. CASE i # j
      BY <1>0, <2>1, <2>3, LiveIds, RowWritten
    <2> QED
      BY <2>2, <2>3
  <1>2. CASE Edit
    <2>1. PICK i \in Here, r \in Row : rows' = [rows EXCEPT ![i] = r] /\ r.dirty /\ r.usn = rows[i].usn
      BY <1>2, EditStep
    <2>2. CASE i = j
      BY <2>1, <2>2, RowWritten
    <2>3. CASE i # j
      BY <1>0, <2>1, <2>3, LiveIds, RowWritten
    <2> QED
      BY <2>2, <2>3
  <1>3. ASSUME NEW i \in Ids, ForgetNotebook(i) PROVE rows'[j] = rows[j]
    BY <1>3, ForgetStep, Blank
  <1>4. CASE Acknowledge
    BY <1>0, <1>4, AckedStep
  <1>5. CASE AcknowledgeDelete
    <2>1. CASE j = cur
      <3>1. rows[j].here /\ rows'[j].sid = rows[j].sid /\ rows'[j].usn = rows[j].usn /\ snap[j].here
        BY <1>5, <2>1, SettledStep
      <3>2. rows[j].sid = snap[j].sid
        BY <3>1 DEF Copied
      <3> QED
        BY <1>5, <2>1, <3>1, <3>2
    <2>2. CASE j # cur
      BY <1>0, <1>5, <2>2, SettledStep
    <2> QED
      BY <2>1, <2>2
  <1>6. CASE MergeNotebook
    <2>1. CASE \E s \in queue : rows' = [k \in Ids |-> IF k \in LocalIds(s) \ Held THEN NoRow ELSE rows[k]]
      <3>1. rows'[j] = rows[j]
        BY <2>1, Blank
      <3> QED
        BY <1>0, <3>1
    <2>2. ASSUME NEW s \in queue, NEW i \in Ids, NEW r \in Row, rows' = [rows EXCEPT ![i] = r], FromPage(r, s)
          PROVE  rows'[j] = rows[j] \/ FromPage(rows'[j], s)
      BY <2>2, RowWritten
    <2>3. rows'[j] = rows[j] \/ \E s \in queue : page[s].state = "live" /\ FromPage(rows'[j], s)
      BY <1>6, <2>1, <2>2, MergedStep, Blank
    <2> QED
      BY <1>0, <1>6, <2>3
  <1>7. CASE ReconcileFullNotebooks \/ RestoreNotebookParents
    BY <1>7, RepairStep
  <1> QED
    BY <1>0, <1>1, <1>2, <1>3, <1>4, <1>5, <1>6, <1>7, WritersOfRows

\* An answer or a list entry of the server's present is not of its past.
LEMMA SameStep ==
    ASSUME TypeOK, Copied, Answering, [Next]_vars, count'.restored = 0,
           NEW s \in Ids, NEW object \in Object, object.usn <= srv.top
    PROVE  object.usn <= srv'.top /\ (Same(s, object)' => Same(s, object) /\ srv'.nb[s] = srv.nb[s])
  <1>1. object.usn \in Nat
    BY DEF Object
  <1> QED
    BY <1>1, ServerMoves DEF Same

\* Versions in flight never come from the future of the server.
LEMMA VersionsStep ==
    ASSUME TypeOK, Copied, Answering, Versions, [Next]_vars
    PROVE  Versions'
  <1> SUFFICES ASSUME count'.restored = 0 PROVE Versions'
    BY DEF Versions
  <1>1. count.restored = 0 /\ srv.top \in Nat /\ srv'.top \in Nat /\ srv.top <= srv'.top
    BY ServerMoves
  <1>2. ASSUME NEW s \in Ids PROVE srv'.nb[s].usn <= srv'.top
    BY <1>1, ServerMoves DEF Versions
  <1>3. ASSUME NEW s \in Ids
        PROVE  /\ page'[s].usn <= srv'.top
               /\ page'[s].state = "live" /\ Same(s, page[s])' => srv'.nb[s].title = page'[s].title
    <2>1. CASE page' = page
      <3>1. page[s] \in Object /\ page[s].usn <= srv.top
        BY <1>1 DEF TypeOK, Versions
      <3>2. page[s].usn <= srv'.top /\ (srv'.nb[s].state = "live" /\ srv'.nb[s].usn = page[s].usn
                                         => Same(s, page[s]) /\ srv'.nb[s] = srv.nb[s])
        BY <3>1, SameStep DEF Same
      <3> QED
        BY <1>1, <2>1, <3>2 DEF Versions, Same
    <2>2. CASE page' = NoObjects
      BY <1>1, <2>2, Blank DEF NoObjects
    <2>3. CASE GetSyncNotebooks /\ page' = srv.nb
      <3>1. srv' = srv
        BY <2>3 DEF GetSyncNotebooks
      <3> QED
        BY <1>2, <2>3, <3>1
    <2> QED
      BY <2>1, <2>2, <2>3, PageType
  <1>4. ASSUME NEW j \in Ids PROVE rows'[j].usn <= srv'.top
    <2>0. rows[j].usn <= srv.top /\ rows[j].usn \in Nat /\ rows'[j].usn \in Nat
      BY <1>1, RowsType DEF Versions, TypeOK, Row
    <2>1. CASE ~rows'[j].here
      <3>1. rows'[j] = NoRow
        BY <2>1, RowsType
      <3> QED
        BY <1>1, <3>1 DEF NoRow
    <2>2. CASE Acknowledge /\ rows'[j].usn = reply.object.usn
      BY <1>1, <2>2 DEF Acknowledge, Versions
    <2>3. ASSUME NEW s \in queue, FromPage(rows'[j], s) PROVE rows'[j].usn <= srv'.top
      <3>1. page[s].usn <= srv.top /\ rows'[j].usn = page[s].usn
        BY <1>1, <2>3 DEF FromPage, Versions, TypeOK
      <3> QED
        BY <1>1, <2>0, <3>1
    <2> QED
      BY <1>1, <2>0, <2>1, <2>2, <2>3, RowVersion
  <1>5. ASSUME reply'.kind = "ok"
        PROVE  /\ reply'.object.usn <= srv'.top
               /\ Same(reply.id, reply.object)' => srv'.nb[reply'.id].title = reply'.object.title
    <2>1. CASE reply' = reply
      <3>1. reply.id \in Ids /\ reply.object \in Object /\ reply.object.usn <= srv.top
        BY <1>1, <1>5, <2>1 DEF Answering, Versions, TypeOK
      <3>2. reply.object.usn <= srv'.top
            /\ (srv'.nb[reply.id].state = "live" /\ srv'.nb[reply.id].usn = reply.object.usn
                => Same(reply.id, reply.object) /\ srv'.nb[reply.id] = srv.nb[reply.id])
        BY <3>1, SameStep DEF Same
      <3> QED
        BY <1>1, <1>5, <2>1, <3>2 DEF Versions, Same
    <2>2. ASSUME NEW s \in Ids, Adding(s) \/ Deleting(s)
          PROVE  reply'.object = srv'.nb[s] /\ reply'.id = s
      BY <2>2 DEF Adding, Deleting
    <2>3. CASE reply' = Silent \/ Failing
      BY <1>5, <2>3 DEF Silent, Failing
    <2> QED
      BY <1>2, <2>1, <2>2, <2>3, AnswerStep
  <1>6. ASSUME reply'.kind = "deleted" PROVE srv'.nb[snap'[cur'].sid].state = "deleted"
    <2>1. CASE UNCHANGED round
      <3>1. UNCHANGED <<snap, cur, reply>>
        BY <2>1 DEF round
      <3>2. cur \in Ids /\ snap[cur].here /\ ~snap[cur].new
        BY <1>6, <3>1 DEF Answering, Silent
      <3>3. snap[cur].sid \in Ids
        BY <3>2 DEF Copied, TypeOK, Row
      <3>4. srv.nb[snap[cur].sid].state = "deleted"
        BY <1>1, <1>6, <3>1 DEF Versions
      <3> QED
        BY <3>1, <3>3, <3>4, ServerMoves
    <2>2. ASSUME NEW i \in Ids, Request(i) PROVE srv'.nb[snap'[cur'].sid].state = "deleted"
      <3>1. cur' = i /\ snap' = snap
        BY <2>2 DEF Request
      <3>2. ASSUME NEW s, Adding(s) PROVE FALSE
        BY <1>6, <3>2 DEF Adding
      <3>3. ~Failing
        BY <1>6 DEF Failing
      <3>4. snap[i].sid \in Ids /\ Deleting(snap[i].sid)
        BY <2>2, <3>2, <3>3, RequestAnswer
      <3>5. PICK object \in Object : srv' = Stored(snap[i].sid, object) /\ object.state = "deleted"
        BY <3>4 DEF Deleting
      <3> QED
        BY <3>1, <3>4, <3>5, StoredStep
    <2>3. CASE (AddAgain \/ LoseAnswer) /\ pc = "answer"
      <3>1. CASE AddAgain
        <4>1. cur \in Ids /\ ServerAdd(Sent(cur))
          BY <3>1 DEF AddAgain, Answering
        <4>2. Failing \/ \E s \in Fresh : Adding(s)
          BY <4>1, SentType, AddAnswer
        <4> QED
          BY <1>6, <4>2 DEF Failing, Adding
      <3>2. CASE LoseAnswer
        BY <1>6, <3>2 DEF LoseAnswer, Refused, Answers
      <3> QED
        BY <2>3, <3>1, <3>2
    <2>4. CASE reply' = Silent
      BY <1>6, <2>4 DEF Silent
    <2> QED
      BY <2>1, <2>2, <2>3, <2>4, AnswerMoves
  <1> QED
    BY <1>2, <1>3, <1>4, <1>5, <1>6 DEF Versions

\* A row becomes clean by an answer or an entry that names its title.
LEMMA CleanRowStep ==
    ASSUME TypeOK, Copied, Answering, Versions, CleanRowAgrees, [Next]_vars
    PROVE  CleanRowAgrees'
  <1> SUFFICES ASSUME NEW j \in Ids, rows'[j].here, ~rows'[j].dirty, count'.restored = 0,
                      srv'.nb[rows'[j].sid].state = "live", srv'.nb[rows'[j].sid].usn = rows'[j].usn
               PROVE  srv'.nb[rows'[j].sid].title = rows'[j].title
    BY DEF CleanRowAgrees, Here
  <1>1. count.restored = 0 /\ srv.top \in Nat
    BY ServerMoves
  <1>2. CASE /\ rows[j].here /\ ~rows[j].dirty
             /\ rows'[j].sid = rows[j].sid /\ rows'[j].title = rows[j].title /\ rows'[j].usn = rows[j].usn
    <2>1. rows[j].sid \in Ids /\ rows[j].usn \in Nat /\ rows[j].usn <= srv.top
      BY <1>1, <1>2 DEF TypeOK, Row, Versions
    <2>2. srv'.nb[rows[j].sid] = srv.nb[rows[j].sid]
      BY <1>1, <1>2, <2>1, ServerMoves
    <2> QED
      BY <1>1, <1>2, <2>2 DEF CleanRowAgrees, Here
  <1>3. CASE /\ Acknowledge /\ rows'[j].sid = reply.id
             /\ rows'[j].title = reply.object.title /\ rows'[j].usn = reply.object.usn
    <2>1. srv' = srv /\ reply.kind = "ok"
      BY <1>3 DEF Acknowledge
    <2> QED
      BY <1>1, <1>3, <2>1 DEF Versions, Same
  <1>4. CASE AcknowledgeDelete /\ j = cur /\ rows'[j].sid = snap[j].sid
    <2>1. srv' = srv /\ reply.kind = "deleted"
      BY <1>4 DEF AcknowledgeDelete
    <2> QED
      BY <1>1, <1>4, <2>1 DEF Versions
  <1>5. ASSUME NEW s \in queue, MergeNotebook, page[s].state = "live", FromPage(rows'[j], s)
        PROVE  srv'.nb[rows'[j].sid].title = rows'[j].title
    <2>1. srv' = srv /\ s \in Ids
      BY <1>5 DEF MergeNotebook, TypeOK
    <2> QED
      BY <1>1, <1>5, <2>1 DEF Versions, Same, FromPage
  <1> QED
    BY <1>2, <1>3, <1>4, <1>5, RowVersion

-----------------------------------------------------------------------------
(* The theorems                                                            *)

\* The invariant holds at first.
LEMMA InitInvariant == Init => IInv
  <1> SUFFICES ASSUME Init PROVE IInv
    OBVIOUS
  <1>1. PICK set \in {s \in SUBSET Ids : Cardinality(s) <= MaxKept}, title \in Titles :
          \E order \in Bijection(set, 1..Cardinality(set)) :
            srv = [top |-> Cardinality(set), nb |-> [s \in Ids |->
                     IF s \notin set THEN NoObject
                     ELSE [state |-> "live", parent |-> None, title |-> title, usn |-> order[s]]]]
    BY DEF Init
  <1>2. PICK order \in Bijection(set, 1..Cardinality(set)) :
          srv = [top |-> Cardinality(set), nb |-> [s \in Ids |->
                   IF s \notin set THEN NoObject
                   ELSE [state |-> "live", parent |-> None, title |-> title, usn |-> order[s]]]]
    BY <1>1
  <1>3. Cardinality(set) \in Nat
    BY FS_Subset, FS_CardinalityType, NotebooksAssumption
  <1>4. \A s \in set : order[s] \in 1..Cardinality(set)
    BY DEF Bijection, Injection, Surjection
  <1>5. /\ srv.top = Cardinality(set) /\ srv.nb \in [Ids -> Object]
        /\ \A s \in Ids : srv.nb[s].usn <= srv.top
    BY <1>2, <1>3, <1>4, Blank DEF Object
  <1>6. ASSUME NEW s \in Ids
        PROVE  LET r == Cached(srv.nb)[s]
               IN  /\ r \in Row
                   /\ srv.nb[s].state # "live" => r = NoRow
                   /\ srv.nb[s].state = "live" =>
                        /\ r.here /\ r.sid = s /\ r.title = srv.nb[s].title /\ r.usn = srv.nb[s].usn
                        /\ ~r.dirty /\ ~r.new /\ ~r.hidden
    <2>1. srv.nb[s] \in Object
      BY <1>5
    <2> QED
      BY <2>1, Blank DEF Cached, NoRow, Row, Object
  <1>7. Cached(srv.nb) \in [Ids -> Row]
    BY <1>6 DEF Cached
  <1> DEFINE Pristine(r, s) == /\ r.here /\ r.sid = s /\ r.title = srv.nb[s].title /\ r.usn = srv.nb[s].usn
                               /\ ~r.dirty /\ ~r.new /\ ~r.hidden
             Own(r) == r.here /\ r.sid = None /\ r.usn = 0 /\ r.dirty /\ r.new
  <1>8. /\ rows \in [Ids -> Row] /\ last \in Nat /\ trashed \subseteq Here
        /\ \A s \in Ids : rows[s] = NoRow \/ Pristine(rows[s], s) \/ Own(rows[s])
    <2>1. CASE rows = Cached(srv.nb) /\ last = srv.top /\ trashed = {}
      BY <1>3, <1>5, <1>6, <1>7, <2>1
    <2>2. CASE rows = NoRows /\ last = 0 /\ trashed = {}
      BY <2>2, Blank DEF NoRows
    <2>3. ASSUME NEW i \in Ids, NEW t \in Titles, rows = [Cached(srv.nb) EXCEPT ![i] = Created(t)],
                 last = srv.top, trashed = {i}
          PROVE  /\ rows \in [Ids -> Row] /\ last \in Nat /\ trashed \subseteq Here
                 /\ \A s \in Ids : rows[s] = NoRow \/ Pristine(rows[s], s) \/ Own(rows[s])
      <3>1. Created(t) \in Row /\ Own(Created(t))
        BY DEF Created, NoRow, Row
      <3>2. /\ rows \in [Ids -> Row] /\ rows[i] = Created(t)
            /\ \A s \in Ids : s # i => rows[s] = Cached(srv.nb)[s]
        BY <1>7, <2>3, <3>1
      <3>3. \A s \in Ids : s # i => rows[s] = NoRow \/ Pristine(rows[s], s)
        BY <1>5, <1>6, <3>2
      <3> QED
        BY <1>3, <1>5, <2>3, <3>1, <3>2, <3>3 DEF Here
    <2> QED
      BY <2>1, <2>2, <2>3 DEF Init
  <1>9. /\ snap = NoRows /\ page = NoObjects /\ reply = Silent /\ noted = {} /\ touched = {} /\ queue = {}
        /\ pc = "idle" /\ mode = "incr" /\ pass = 1 /\ top = 0 /\ cur = None /\ failed = FALSE
        /\ from = 0 /\ stuck = {} /\ saved = srv
        /\ count = [c \in Counters |-> IF c = "edits" /\ trashed # {} THEN 1 ELSE 0]
    BY DEF Init
  <1>10. /\ snap \in [Ids -> Row] /\ page \in [Ids -> Object] /\ \A i \in Ids : ~snap[i].here /\ page[i] = NoObject
    BY <1>9, Blank DEF NoRows, NoObjects
  <1>11. reply \in [kind : {"none", "ok", "deleted", "missing", "error"}, id : Ids \cup {None}, object : Object]
    BY <1>9, Blank DEF Silent
  <1>12. srv \in [top : Nat, nb : [Ids -> Object]]
    BY <1>2, <1>3, <1>5
  <1>13. \A i \in Ids : IF rows[i].here THEN (rows[i].new <=> rows[i].sid = None) /\ (rows[i].new => rows[i].dirty)
                        ELSE rows[i] = NoRow
    BY <1>8, Blank
  <1>14. TypeOK
    BY <1>8, <1>9, <1>10, <1>11, <1>12, <1>13 DEF TypeOK, Held
  <1>15. Copied /\ Answering /\ Uploading
    BY <1>9, <1>10 DEF Copied, Answering, Uploading, Silent
  <1>16. Versions
    <2>1. \A s \in Ids : rows[s].usn <= srv.top /\ page[s].usn <= srv.top /\ page[s].state # "live"
      BY <1>3, <1>5, <1>8, <1>10, Blank DEF NoRow
    <2> QED
      BY <1>5, <1>9, <2>1 DEF Versions, Silent
  <1>17. OneRowPerNotebook /\ AcceptedBeforeDownload /\ CleanRowAgrees
    <2>1. \A s \in Here : /\ s \in Ids
                          /\ Own(rows[s]) \/ (rows[s].sid = s /\ rows[s].title = srv.nb[s].title)
      BY <1>8, Blank DEF Here
    <2> QED
      BY <1>9, <2>1 DEF OneRowPerNotebook, AcceptedBeforeDownload, CleanRowAgrees
  <1> QED
    BY <1>14, <1>15, <1>16, <1>17 DEF IInv

\* Every step keeps it.
LEMMA StepInvariant == IInv /\ [Next]_vars => IInv'
  <1> SUFFICES ASSUME IInv, [Next]_vars PROVE IInv'
    OBVIOUS
  <1>1. /\ TypeOK /\ Copied /\ Answering /\ Uploading /\ Versions
        /\ OneRowPerNotebook /\ AcceptedBeforeDownload /\ CleanRowAgrees
    BY DEF IInv
  <1> QED
    BY <1>1, TypeStep, CopiedStep, AnsweringStep, UploadingStep, VersionsStep, OneRowStep,
       AcceptedStep, CleanRowStep DEF IInv

\* The inductive invariant holds in every reachable state.
THEOREM Invariant == Spec => []IInv
  BY InitInvariant, StepInvariant, PTL DEF Spec

\* Every variable has its type; a row without a server id is a new one, and a
\* new one waits for its upload (db/notebook_repo.go).
THEOREM TypeCorrect == Spec => []TypeOK
  <1>1. IInv => TypeOK
    BY DEF IInv
  <1> QED
    BY <1>1, Invariant, PTL

\* Uploads, re-creations under a new server id and pulls of one's own notebooks
\* never leave two rows for one notebook of the server (processNotebookSync,
\* UpdateNotebookAfterSync).
THEOREM OneRow == Spec => []OneRowPerNotebook
  <1>1. IInv => OneRowPerNotebook
    BY DEF IInv
  <1> QED
    BY <1>1, Invariant, PTL

\* During the download of a round every dirty row was written since its upload
\* began, or is a notebook created and deleted here that the foreign key of its
\* notes kept (push.go:99): what else was dirty then has been accepted
\* (sync.go:124).
THEOREM LocalWorkFirst == Spec => []AcceptedBeforeDownload
  <1>1. IInv => AcceptedBeforeDownload
    BY DEF IInv
  <1> QED
    BY <1>1, Invariant, PTL

\* Until the server is restored from its backup, a clean row holds the title of
\* the version whose USN it carries, whatever was edited, lost or cut off.
THEOREM CleanRows == Spec => []CleanRowAgrees
  <1>1. IInv => CleanRowAgrees
    BY DEF IInv
  <1> QED
    BY <1>1, Invariant, PTL

-----------------------------------------------------------------------------
(* The tree                                                                *)

\* The parents of finitely many notebooks, none of them the root.
IsParents(p) ==
    p = [i \in DOMAIN p |-> p[i]] /\ IsFiniteSet(DOMAIN p) /\ None \notin DOMAIN p

\* How many notebooks there are.
Size(p) == Cardinality(DOMAIN p)

\* The walk up from i leaves the tree.
Ends(p, i) == Climb(p, i)[Size(p)] = None

\* The ancestors of i.
After(p, i) == {Climb(p, i)[k] : k \in 1..Size(p)} \ {None}

\* With a notebook of S, S has its parent.
UpClosed(p, S) == S \subseteq DOMAIN p /\ \A j \in S : p[j] \in DOMAIN p => p[j] \in S

\* A set of numbers that has 0, and n + 1 with n, has every number.
LEMMA SetInduction ==
    ASSUME NEW S, 0 \in S, \A n \in Nat : n \in S => n + 1 \in S
    PROVE  \A n \in Nat : n \in S
  <1> DEFINE T == Nat \ S
  <1>1. SUFFICES ASSUME T # {} PROVE FALSE
    OBVIOUS
  <1>2. \E n \in T : \A m \in T : <<m, n>> \notin OpToRel(<, Nat)
    <2>1. T \subseteq Nat
      OBVIOUS
    <2> HIDE DEF T
    <2> QED
      BY <1>1, <2>1, NatLessThanWellFounded, WFMin
  <1>3. PICK n \in T : \A m \in T : <<m, n>> \notin OpToRel(<, Nat)
    BY <1>2
  <1>4. n \in Nat /\ n # 0
    OBVIOUS
  <1>5. n - 1 \in Nat /\ n - 1 < n /\ (n - 1) + 1 = n
    BY <1>4
  <1>6. <<n - 1, n>> \in OpToRel(<, Nat)
    BY <1>4, <1>5 DEF OpToRel
  <1>7. n - 1 \in S
    BY <1>3, <1>5, <1>6
  <1> QED
    BY <1>5, <1>7

\* g is the table of the first n iterations of up from i.
IsWalk(up, i, n, g) == g = [k \in 0..n |-> IF k = 0 THEN i ELSE up[g[k - 1]]]

\* There is one for every number of iterations.
LEMMA Walks == ASSUME NEW up, NEW i PROVE \A n \in Nat : \E g : IsWalk(up, i, n, g)
  <1> DEFINE S == {n \in Nat : \E g : IsWalk(up, i, n, g)}
  <1>1. 0 \in S
    <2>1. IsWalk(up, i, 0, [k \in 0..0 |-> i])
      BY DEF IsWalk
    <2> QED
      BY <2>1
  <1>2. ASSUME NEW n \in Nat, n \in S PROVE n + 1 \in S
    <2>1. PICK g : IsWalk(up, i, n, g)
      BY <1>2
    <2> DEFINE h == [k \in 0..(n + 1) |-> IF k \in 0..n THEN g[k] ELSE up[g[n]]]
    <2>2. \A k \in 0..(n + 1) : h[k] = IF k = 0 THEN i ELSE up[h[k - 1]]
      <3> TAKE k \in 0..(n + 1)
      <3>1. CASE k = 0
        BY <3>1, <2>1 DEF IsWalk
      <3>2. CASE k # 0
        <4>1. k - 1 \in 0..n
          BY <3>2
        <4>2. h[k - 1] = g[k - 1]
          BY <4>1
        <4>3. CASE k \in 0..n
          BY <4>3, <4>1, <4>2, <2>1, <3>2 DEF IsWalk
        <4>4. CASE k \notin 0..n
          <5>1. k - 1 = n
            BY <4>4
          <5> QED
            BY <5>1, <4>4, <4>2, <3>2
        <4> QED
          BY <4>3, <4>4
      <3> QED
        BY <3>1, <3>2
    <2>3. IsWalk(up, i, n + 1, h)
      BY <2>2 DEF IsWalk
    <2> HIDE DEF h
    <2> QED
      BY <2>3
  <1>3. \A n \in Nat : n \in S
    <2> HIDE DEF S
    <2> QED
      BY <1>1, <1>2, SetInduction
  <1> QED
    BY <1>3

\* The walk as Climb defines it.
LEMMA ClimbIs ==
    ASSUME NEW p, IsParents(p), NEW i
    PROVE  /\ Size(p) \in Nat
           /\ Climb(p, i)[0] = i
           /\ \A k \in 1..Size(p) : Climb(p, i)[k] = Up(p)[Climb(p, i)[k - 1]]
           /\ DOMAIN Climb(p, i) = 0..Size(p)
  <1>1. Size(p) \in Nat
    BY FS_CardinalityType DEF IsParents, Size
  <1>2. \E g : IsWalk(Up(p), i, Size(p), g)
    BY <1>1, Walks
  <1>3. IsWalk(Up(p), i, Size(p), Climb(p, i))
    <2>1. Climb(p, i) = CHOOSE g : IsWalk(Up(p), i, Size(p), g)
      BY DEF Climb, Size, IsWalk
    <2> QED
      BY <1>2, <2>1
  <1> DEFINE c == Climb(p, i)
  <1>4. c = [k \in 0..Size(p) |-> IF k = 0 THEN i ELSE Up(p)[c[k - 1]]]
    BY <1>3 DEF IsWalk
  <1>5. DOMAIN c = 0..Size(p) /\ \A k \in 0..Size(p) : c[k] = IF k = 0 THEN i ELSE Up(p)[c[k - 1]]
    <2> HIDE DEF c
    <2> QED
      BY <1>4
  <1> QED
    BY <1>1, <1>5

\* The parents after a walk from every notebook of an order.
Walked(p, order) == FoldLeft(Promote, p, order)

\* iter is the table FoldLeft makes of the subsets of the positions.
IsFold(p, f, S, iter) ==
    iter = [s \in SUBSET S |-> IF s = {} THEN p ELSE Promote(iter[s \ {Max(s)}], f[Max(s)])]

\* The largest of the first n positions is n.
LEMMA MaxIs == ASSUME NEW n \in Nat, NEW s, s \subseteq 1..n, n \in s PROVE Max(s) = n
  <1>1. \A m \in s : m \in Nat /\ m <= n
    OBVIOUS
  <1>2. \A y \in s : n >= y
    BY <1>1
  <1>3. ASSUME NEW x \in s, \A y \in s : x >= y PROVE x = n
    BY <1>1, <1>3
  <1> QED
    BY <1>2, <1>3 DEF Max

\* There is such a table.
LEMMA FoldTables == ASSUME NEW p, NEW f PROVE \A n \in Nat : \E iter : IsFold(p, f, 1..n, iter)
  <1> DEFINE S == {n \in Nat : \E iter : IsFold(p, f, 1..n, iter)}
  <1>1. 0 \in S
    <2>1. SUBSET (1..0) = {{}}
      OBVIOUS
    <2>2. IsFold(p, f, 1..0, [s \in SUBSET (1..0) |-> p])
      BY <2>1 DEF IsFold
    <2> QED
      BY <2>2
  <1>2. ASSUME NEW n \in Nat, n \in S PROVE n + 1 \in S
    <2>1. PICK g : IsFold(p, f, 1..n, g)
      BY <1>2
    <2> DEFINE h == [s \in SUBSET (1..(n + 1)) |->
                       IF n + 1 \in s THEN Promote(g[s \ {n + 1}], f[n + 1]) ELSE g[s]]
    <2>2. \A s \in SUBSET (1..n) : g[s] = IF s = {} THEN p ELSE Promote(g[s \ {Max(s)}], f[Max(s)])
      BY <2>1 DEF IsFold
    <2>3. 1..n \subseteq 1..(n + 1) /\ n + 1 \in 1..(n + 1) /\ n + 1 \notin 1..n
      OBVIOUS
    <2>4. \A s \in SUBSET (1..(n + 1)) :
            h[s] = IF s = {} THEN p ELSE Promote(h[s \ {Max(s)}], f[Max(s)])
      <3> TAKE s \in SUBSET (1..(n + 1))
      <3>1. CASE n + 1 \in s
        <4>1. Max(s) = n + 1
          <5>1. n + 1 \in Nat /\ s \subseteq 1..(n + 1)
            OBVIOUS
          <5> QED
            BY <5>1, <3>1, MaxIs
        <4>2. h[s \ {n + 1}] = g[s \ {n + 1}]
          OBVIOUS
        <4> QED
          BY <3>1, <4>1, <4>2
      <3>2. CASE n + 1 \notin s
        <4>1. s \in SUBSET (1..n)
          BY <3>2
        <4>2. h[s] = g[s] /\ h[s \ {Max(s)}] = g[s \ {Max(s)}]
          BY <3>2
        <4> QED
          BY <4>1, <4>2, <2>2
      <3> QED
        BY <3>1, <3>2
    <2>5. IsFold(p, f, 1..(n + 1), h)
      BY <2>4 DEF IsFold
    <2> HIDE DEF h
    <2> QED
      BY <2>5
  <1>3. \A n \in Nat : n \in S
    <2> HIDE DEF S
    <2> QED
      BY <1>1, <1>2, SetInduction
  <1> QED
    BY <1>3

\* q is what the parents p become, walk by walk from the notebooks of f.
IsTrace(p, f, n, q) == q[0] = p /\ \A k \in 1..n : q[k] = Promote(q[k - 1], f[k])

\* Walking up from the notebooks of f in turn: what the parents are after
\* each, the first being p and the last what is left of the walks.
LEMMA FoldIs ==
    ASSUME NEW p, NEW n \in Nat, NEW f, DOMAIN f = 1..n
    PROVE  \E q : IsTrace(p, f, n, q) /\ Walked(p, f) = q[n]
  <1>1. PICK iter : IsFold(p, f, 1..n, iter) /\ Walked(p, f) = iter[1..n]
    <2> DEFINE chosen == CHOOSE iter : IsFold(p, f, 1..n, iter)
    <2>1. Walked(p, f) = chosen[1..n]
      BY Zenon DEF Walked, FoldLeft, MapThenFoldSet, IsFold
    <2>2. IsFold(p, f, 1..n, chosen)
      BY FoldTables
    <2> QED
      BY <2>1, <2>2
  <1> DEFINE q == [k \in 0..n |-> iter[1..k]]
  <1>2. \A s \in SUBSET (1..n) : iter[s] = IF s = {} THEN p ELSE Promote(iter[s \ {Max(s)}], f[Max(s)])
    BY <1>1 DEF IsFold
  <1>3. q[0] = p
    <2>1. 1..0 = {} /\ 0 \in 0..n
      OBVIOUS
    <2> QED
      BY <2>1, <1>2
  <1>4. ASSUME NEW k \in 1..n PROVE q[k] = Promote(q[k - 1], f[k])
    <2>1. 1..k \in SUBSET (1..n) /\ k \in 1..k /\ k \in Nat
      OBVIOUS
    <2>2. Max(1..k) = k
      BY <2>1, MaxIs
    <2>3. (1..k) \ {k} = 1..(k - 1)
      OBVIOUS
    <2>4. q[k] = iter[1..k] /\ q[k - 1] = iter[1..(k - 1)]
      OBVIOUS
    <2> HIDE DEF q
    <2> QED
      BY <2>1, <2>2, <2>3, <2>4, <1>2
  <1>5. q[n] = iter[1..n]
    OBVIOUS
  <1> HIDE DEF q
  <1> QED
    BY <1>1, <1>3, <1>4, <1>5 DEF IsTrace

\* The parent where it is a member, None where it is not, and None of None.
LEMMA UpIs ==
    ASSUME NEW p, IsParents(p)
    PROVE  /\ Up(p)[None] = None
           /\ \A i \in DOMAIN p : Up(p)[i] = IF p[i] \in DOMAIN p THEN p[i] ELSE None
  BY DEF Up, IsParents

\* The walk stays among the notebooks until it leaves them for good.
LEMMA WalkStays ==
    ASSUME NEW p, IsParents(p), NEW i \in DOMAIN p
    PROVE  /\ \A k \in 0..Size(p) : Climb(p, i)[k] \in DOMAIN p \cup {None}
           /\ \A a, b \in 0..Size(p) : a <= b /\ Climb(p, i)[a] = None => Climb(p, i)[b] = None
  <1> DEFINE c == Climb(p, i)
             S == {k \in Nat : k <= Size(p) =>
                     /\ c[k] \in DOMAIN p \cup {None}
                     /\ \A a \in 0..k : c[a] = None => c[k] = None}
  <1>1. Size(p) \in Nat /\ c[0] = i /\ \A k \in 1..Size(p) : c[k] = Up(p)[c[k - 1]]
    BY ClimbIs
  <1> HIDE DEF c
  <1>2. 0 \in S
    BY <1>1
  <1>3. ASSUME NEW k \in Nat, k \in S PROVE k + 1 \in S
    <2>1. SUFFICES ASSUME k + 1 <= Size(p)
                   PROVE  /\ c[k + 1] \in DOMAIN p \cup {None}
                          /\ \A a \in 0..(k + 1) : c[a] = None => c[k + 1] = None
      OBVIOUS
    <2>2. k <= Size(p) /\ k + 1 \in 1..Size(p) /\ (k + 1) - 1 = k
      BY <2>1, <1>1
    <2>3. c[k + 1] = Up(p)[c[k]]
      BY <2>2, <1>1
    <2>4. c[k] \in DOMAIN p \cup {None} /\ \A a \in 0..k : c[a] = None => c[k] = None
      BY <1>3, <2>2
    <2>5. c[k + 1] \in DOMAIN p \cup {None} /\ (c[k] = None => c[k + 1] = None)
      BY <2>3, <2>4, UpIs
    <2>6. ASSUME NEW a \in 0..(k + 1), c[a] = None PROVE c[k + 1] = None
      <3>1. a = k + 1 \/ a \in 0..k
        OBVIOUS
      <3> QED
        BY <3>1, <2>6, <2>5, <2>4
    <2> QED
      BY <2>5, <2>6
  <1>4. \A k \in Nat : k \in S
    <2> HIDE DEF S
    <2> QED
      BY <1>2, <1>3, SetInduction
  <1>5. \A k \in 0..Size(p) : c[k] \in DOMAIN p \cup {None}
    BY <1>4, <1>1
  <1>6. ASSUME NEW a \in 0..Size(p), NEW b \in 0..Size(p), a <= b, c[a] = None PROVE c[b] = None
    <2>1. b \in Nat /\ b <= Size(p) /\ a \in 0..b
      BY <1>6, <1>1
    <2> QED
      BY <2>1, <1>4, <1>6
  <1> QED
    BY <1>5, <1>6 DEF c

\* A walk that does not leave the tree meets a notebook twice, and goes on
\* from there as it did the first time.
LEMMA WalkRepeats ==
    ASSUME NEW p, IsParents(p), NEW i \in DOMAIN p, ~Ends(p, i)
    PROVE  /\ \A k \in 0..Size(p) : Climb(p, i)[k] \in DOMAIN p
           /\ \E a, b \in 0..Size(p) :
                /\ a < b /\ Climb(p, i)[a] = Climb(p, i)[b]
                /\ Climb(p, i)[a + (Size(p) - b)] = Climb(p, i)[Size(p)]
  <1> DEFINE c == Climb(p, i)
             n == Size(p)
  <1>1. n \in Nat /\ c[0] = i /\ \A k \in 1..n : c[k] = Up(p)[c[k - 1]]
    BY ClimbIs
  <1>2. \A k \in 0..n : c[k] \in DOMAIN p
    BY WalkStays, <1>1 DEF Ends
  <1> DEFINE f == [k \in 0..n |-> c[k]]
  <1>3. \E a, b \in 0..n : a # b /\ f[a] = f[b]
    <2>1. IsFiniteSet(0..n) /\ Cardinality(0..n) = n + 1
      BY <1>1, FS_Interval
    <2>2. f \in [0..n -> DOMAIN p]
      BY <1>2
    <2>3. IsFiniteSet(DOMAIN p) /\ Cardinality(DOMAIN p) < n + 1
      BY <1>1 DEF IsParents, Size
    <2> HIDE DEF f, n
    <2> QED
      BY <2>1, <2>2, <2>3, FS_PigeonHole
  <1> HIDE DEF c, n
  <1>4. PICK a \in 0..n, b \in 0..n : a < b /\ c[a] = c[b]
    <2>1. PICK a \in 0..n, b \in 0..n : a # b /\ c[a] = c[b]
      BY <1>3
    <2>2. a < b \/ b < a
      BY <2>1, <1>1
    <2> QED
      BY <2>1, <2>2
  <1> DEFINE S == {d \in Nat : b + d <= n => c[a + d] = c[b + d]}
  <1>5. 0 \in S
    BY <1>4
  <1>6. ASSUME NEW d \in Nat, d \in S PROVE d + 1 \in S
    <2>1. SUFFICES ASSUME b + (d + 1) <= n PROVE c[a + (d + 1)] = c[b + (d + 1)]
      OBVIOUS
    <2>2. c[a + d] = c[b + d]
      BY <2>1, <1>6, <1>1
    <2>3. /\ a + (d + 1) \in 1..n /\ b + (d + 1) \in 1..n
          /\ (a + (d + 1)) - 1 = a + d /\ (b + (d + 1)) - 1 = b + d
      BY <2>1, <1>1, <1>4
    <2> QED
      BY <2>2, <2>3, <1>1
  <1>7. \A d \in Nat : d \in S
    <2> HIDE DEF S
    <2> QED
      BY <1>5, <1>6, SetInduction
  <1>8. n - b \in Nat /\ b + (n - b) = n
    BY <1>1
  <1>9. c[a + (n - b)] = c[n]
    BY <1>7, <1>8
  <1> QED
    BY <1>2, <1>4, <1>9 DEF c, n

\* The ancestors are notebooks; the walk meets i and them.
LEMMA AfterIs ==
    ASSUME NEW p, IsParents(p), NEW i \in DOMAIN p
    PROVE  /\ Above(p, i) = {i} \cup After(p, i)
           /\ Above(p, i) \subseteq DOMAIN p
           /\ Cyclic(p, i) <=> i \in After(p, i)
           /\ Size(p) \in Nat \ {0}
  <1> DEFINE c == Climb(p, i)
             n == Size(p)
  <1>1. n \in Nat /\ c[0] = i /\ DOMAIN c = 0..n
    BY ClimbIs
  <1>2. \A k \in 0..n : c[k] \in DOMAIN p \cup {None}
    BY WalkStays
  <1>3. None \notin DOMAIN p
    BY DEF IsParents
  <1>4. n # 0
    BY FS_EmptySet DEF IsParents, Size
  <1>5. 0..n = {0} \cup 1..n
    BY <1>1
  <1>6. Above(p, i) = {c[k] : k \in 0..n} \ {None} /\ After(p, i) = {c[k] : k \in 1..n} \ {None}
    BY <1>1 DEF Above, Range, After
  <1>7. Cyclic(p, i) <=> \E k \in 1..n : c[k] = i
    BY DEF Cyclic, Size
  <1> HIDE DEF c, n
  <1>8. Above(p, i) = {i} \cup After(p, i)
    BY <1>1, <1>3, <1>5, <1>6
  <1>9. Above(p, i) \subseteq DOMAIN p
    BY <1>2, <1>6
  <1>10. Cyclic(p, i) <=> i \in After(p, i)
    BY <1>3, <1>6, <1>7
  <1> QED
    BY <1>1, <1>4, <1>8, <1>9, <1>10 DEF n

\* With an ancestor, its parent is one: beyond the last notebook of a walk
\* that does not end are only those it has met.
LEMMA AfterClosed ==
    ASSUME NEW p, IsParents(p), NEW i \in DOMAIN p
    PROVE  UpClosed(p, After(p, i)) /\ (p[i] \in DOMAIN p => p[i] \in After(p, i))
  <1> DEFINE c == Climb(p, i)
             n == Size(p)
  <1>1. n \in Nat \ {0} /\ c[0] = i /\ \A k \in 1..n : c[k] = Up(p)[c[k - 1]]
    BY ClimbIs, AfterIs
  <1>2. After(p, i) = {c[k] : k \in 1..n} \ {None} /\ None \notin DOMAIN p
    BY DEF After, IsParents
  <1>3. After(p, i) \subseteq DOMAIN p
    BY AfterIs
  <1> HIDE DEF c, n
  <1>4. ASSUME p[i] \in DOMAIN p PROVE p[i] \in After(p, i)
    <2>1. 1 \in 1..n /\ c[1] = p[i]
      BY <1>1, <1>4, UpIs
    <2> QED
      BY <2>1, <1>2, <1>4
  <1>5. ASSUME NEW j \in After(p, i), p[j] \in DOMAIN p PROVE p[j] \in After(p, i)
    <2>1. PICK k \in 1..n : c[k] = j
      BY <1>2
    <2>2. j \in DOMAIN p /\ Up(p)[j] = p[j]
      BY <1>3, <1>5, UpIs
    <2>3. CASE k < n
      <3>1. k + 1 \in 1..n /\ (k + 1) - 1 = k
        BY <2>3, <1>1
      <3>2. c[k + 1] = p[j]
        BY <3>1, <2>1, <2>2, <1>1
      <3> QED
        BY <3>1, <3>2, <1>2, <1>5
    <2>4. CASE k = n
      <3>1. ~Ends(p, i)
        BY <2>1, <2>2, <2>4, <1>2 DEF Ends, c, n
      <3>2. PICK a \in 0..n, b \in 0..n : a < b /\ c[a + (n - b)] = c[n]
        BY <3>1, WalkRepeats DEF c, n
      <3>3. (a + (n - b)) + 1 \in 1..n /\ ((a + (n - b)) + 1) - 1 = a + (n - b)
        BY <3>2, <1>1
      <3>4. c[(a + (n - b)) + 1] = p[j]
        BY <3>3, <3>2, <2>1, <2>4, <2>2, <1>1
      <3> QED
        BY <3>3, <3>4, <1>2, <1>5
    <2> QED
      BY <2>1, <2>3, <2>4, <1>1
  <1> QED
    BY <1>3, <1>4, <1>5 DEF UpClosed

\* No other set that has the parent, and with a notebook its parent, is smaller.
LEMMA AfterLeast ==
    ASSUME NEW p, IsParents(p), NEW i \in DOMAIN p, NEW S, UpClosed(p, S),
           p[i] \in DOMAIN p => p[i] \in S
    PROVE  After(p, i) \subseteq S
  <1> DEFINE c == Climb(p, i)
             n == Size(p)
             T == {k \in Nat : k + 1 <= n => c[k + 1] \in S \cup {None}}
  <1>1. n \in Nat /\ c[0] = i /\ \A k \in 1..n : c[k] = Up(p)[c[k - 1]]
    BY ClimbIs
  <1>2. After(p, i) = {c[k] : k \in 1..n} \ {None} /\ None \notin DOMAIN p
    BY DEF After, IsParents
  <1> HIDE DEF c, n
  <1>3. \A j \in S : j \in DOMAIN p /\ Up(p)[j] \in S \cup {None}
    BY UpIs DEF UpClosed
  <1>4. 0 \in T
    <2>1. SUFFICES ASSUME 1 <= n PROVE c[1] \in S \cup {None}
      OBVIOUS
    <2>2. c[1] = Up(p)[i]
      BY <2>1, <1>1
    <2> QED
      BY <2>2, UpIs
  <1>5. ASSUME NEW k \in Nat, k \in T PROVE k + 1 \in T
    <2>1. SUFFICES ASSUME (k + 1) + 1 <= n PROVE c[(k + 1) + 1] \in S \cup {None}
      OBVIOUS
    <2>2. c[(k + 1) + 1] = Up(p)[c[k + 1]]
      BY <2>1, <1>1
    <2>3. c[k + 1] \in S \cup {None}
      BY <2>1, <1>5, <1>1
    <2> QED
      BY <2>2, <2>3, <1>3, UpIs
  <1>6. \A k \in Nat : k \in T
    <2> HIDE DEF T
    <2> QED
      BY <1>4, <1>5, SetInduction
  <1>7. ASSUME NEW k \in 1..n PROVE c[k] \in S \cup {None}
    <2>1. k - 1 \in Nat /\ (k - 1) + 1 = k /\ k <= n
      BY <1>1
    <2>2. k - 1 \in T
      BY <2>1, <1>6
    <2> QED
      BY <2>1, <2>2
  <1> QED
    BY <1>2, <1>7

\* A notebook without a parent that is a member has no ancestor; the others
\* have their parent and its ancestors.
LEMMA AfterParent ==
    ASSUME NEW p, IsParents(p), NEW i \in DOMAIN p
    PROVE  After(p, i) = IF p[i] \in DOMAIN p THEN Above(p, p[i]) ELSE {}
  <1>1. CASE p[i] \notin DOMAIN p
    <2>1. UpClosed(p, {})
      BY DEF UpClosed
    <2> QED
      BY <2>1, <1>1, AfterLeast
  <1>2. CASE p[i] \in DOMAIN p
    <2>1. UpClosed(p, After(p, i)) /\ p[i] \in After(p, i)
      BY <1>2, AfterClosed
    <2>2. After(p, p[i]) \subseteq After(p, i)
      <3>1. p[p[i]] \in DOMAIN p => p[p[i]] \in After(p, i)
        BY <2>1 DEF UpClosed
      <3> QED
        BY <3>1, <2>1, <1>2, AfterLeast
    <2>3. Above(p, p[i]) = {p[i]} \cup After(p, p[i]) /\ Above(p, p[i]) \subseteq DOMAIN p
      BY <1>2, AfterIs
    <2>4. UpClosed(p, Above(p, p[i]))
      <3>1. UpClosed(p, After(p, p[i])) /\ (p[p[i]] \in DOMAIN p => p[p[i]] \in After(p, p[i]))
        BY <1>2, AfterClosed
      <3> QED
        BY <3>1, <2>3 DEF UpClosed
    <2>5. After(p, i) \subseteq Above(p, p[i])
      BY <2>3, <2>4, AfterLeast
    <2> QED
      BY <1>2, <2>1, <2>2, <2>3, <2>5
  <1> QED
    BY <1>1, <1>2

\* The ancestors of an ancestor are ancestors.
LEMMA AfterAfter ==
    ASSUME NEW p, IsParents(p), NEW i \in DOMAIN p, NEW j \in After(p, i)
    PROVE  j \in DOMAIN p /\ After(p, j) \subseteq After(p, i)
  <1>1. UpClosed(p, After(p, i))
    BY AfterClosed
  <1>2. j \in DOMAIN p /\ (p[j] \in DOMAIN p => p[j] \in After(p, i))
    BY <1>1 DEF UpClosed
  <1> QED
    BY <1>1, <1>2, AfterLeast

-----------------------------------------------------------------------------
(* Its cycles                                                              *)

\* Who is met on the way up from a notebook of a cycle is on the same cycle,
\* has a parent, and meets all of it.
LEMMA Cycle ==
    ASSUME NEW p, IsParents(p), NEW i \in DOMAIN p, Cyclic(p, i), NEW j \in Above(p, i)
    PROVE  /\ j \in DOMAIN p /\ p[j] \in Above(p, i) /\ Cyclic(p, j)
           /\ Above(p, j) = Above(p, i) /\ After(p, j) = Above(p, i)
  <1>1. i \in After(p, i) /\ Above(p, i) = After(p, i) /\ After(p, i) \subseteq DOMAIN p
    BY AfterIs
  <1> DEFINE S == {x \in After(p, i) : i \in After(p, x)}
  <1>2. ASSUME NEW x \in DOMAIN p, i \in After(p, x), p[x] \in DOMAIN p, p[x] \in After(p, i)
        PROVE  p[x] \in S
    <2>1. i \in Above(p, p[x]) /\ Above(p, p[x]) = {p[x]} \cup After(p, p[x])
      BY <1>2, AfterParent, AfterIs
    <2> QED
      BY <2>1, <1>1, <1>2
  <1>3. UpClosed(p, S)
    <2>1. UpClosed(p, After(p, i))
      BY AfterClosed
    <2> QED
      BY <2>1, <1>1, <1>2 DEF UpClosed
  <1>4. p[i] \in DOMAIN p => p[i] \in S
    <2>1. p[i] \in DOMAIN p => p[i] \in After(p, i)
      BY AfterClosed
    <2> QED
      BY <2>1, <1>1, <1>2
  <1>5. After(p, i) \subseteq S
    BY <1>3, <1>4, AfterLeast
  <1>6. j \in DOMAIN p /\ j \in After(p, i) /\ i \in After(p, j)
    BY <1>1, <1>5
  <1>7. After(p, j) = After(p, i)
    BY <1>6, AfterAfter
  <1>8. p[j] \in DOMAIN p
    BY <1>6, AfterParent
  <1>9. p[j] \in After(p, j)
    BY <1>6, <1>8, AfterClosed
  <1>10. Cyclic(p, j) /\ Above(p, j) = {j} \cup After(p, j)
    BY <1>6, <1>7, AfterIs
  <1> QED
    BY <1>1, <1>6, <1>7, <1>9, <1>10

\* On a cycle a notebook has one child.
LEMMA OneChild ==
    ASSUME NEW p, IsParents(p), NEW i \in DOMAIN p, Cyclic(p, i),
           NEW j \in Above(p, i), NEW k \in Above(p, i), p[j] = p[k]
    PROVE  j = k
  <1> DEFINE C == Above(p, i)
             f == [x \in C |-> p[x]]
  <1>1. C \subseteq DOMAIN p /\ \A x \in C : p[x] \in C /\ After(p, x) = C
    BY AfterIs, Cycle
  <1>2. ASSUME NEW x \in C PROVE \E y \in C : p[y] = x
    <2> DEFINE S == {p[y] : y \in C}
    <2>1. UpClosed(p, S)
      BY <1>1 DEF UpClosed
    <2>2. p[i] \in S /\ i \in C
      BY AfterIs
    <2>3. After(p, i) \subseteq S
      BY <2>1, <2>2, AfterLeast
    <2> QED
      BY <2>2, <2>3, <1>1
  <1>3. f \in Surjection(C, C)
    BY <1>1, <1>2 DEF Surjection
  <1>4. IsFiniteSet(C)
    BY <1>1, FS_Subset DEF IsParents
  <1> HIDE DEF f, C
  <1>5. f \in Injection(C, C)
    BY <1>3, <1>4, FS_SurjSameCardinalityImpliesInj
  <1>6. \A x, y \in C : f[x] = f[y] => x = y
    BY <1>5 DEF Injection, IsInjective
  <1> QED
    BY <1>6 DEF f, C

\* Who is met later on a walk is an ancestor of who is met earlier.
LEMMA Onward ==
    ASSUME NEW p, IsParents(p), NEW i \in DOMAIN p, NEW a \in 0..Size(p), NEW b \in 0..Size(p),
           a <= b, Climb(p, i)[b] # None
    PROVE  /\ Climb(p, i)[a] \in DOMAIN p /\ Climb(p, i)[b] \in DOMAIN p
           /\ Climb(p, i)[b] \in Above(p, Climb(p, i)[a])
  <1> DEFINE c == Climb(p, i)
             n == Size(p)
             T == {d \in Nat : a + d <= n => c[a + d] \in Above(p, c[a]) \cup {None}}
  <1>1. n \in Nat /\ c[0] = i /\ \A k \in 1..n : c[k] = Up(p)[c[k - 1]]
    BY ClimbIs
  <1>2. c[a] \in DOMAIN p /\ c[b] \in DOMAIN p
    BY WalkStays
  <1> HIDE DEF c, n
  <1>3. c[a] \in Above(p, c[a]) /\ Above(p, c[a]) \subseteq DOMAIN p
    BY <1>2, AfterIs
  <1>4. \A x \in Above(p, c[a]) : Up(p)[x] \in Above(p, c[a]) \cup {None}
    <2>1. /\ UpClosed(p, After(p, c[a])) /\ Above(p, c[a]) = {c[a]} \cup After(p, c[a])
          /\ (p[c[a]] \in DOMAIN p => p[c[a]] \in After(p, c[a]))
      BY <1>2, AfterIs, AfterClosed
    <2> QED
      BY <2>1, <1>3, UpIs DEF UpClosed
  <1>5. 0 \in T
    BY <1>3, <1>1
  <1>6. ASSUME NEW d \in Nat, d \in T PROVE d + 1 \in T
    <2>1. SUFFICES ASSUME a + (d + 1) <= n PROVE c[a + (d + 1)] \in Above(p, c[a]) \cup {None}
      OBVIOUS
    <2>2. a + (d + 1) \in 1..n /\ (a + (d + 1)) - 1 = a + d /\ a + d <= n
      BY <2>1, <1>1
    <2>3. c[a + (d + 1)] = Up(p)[c[a + d]]
      BY <2>2, <1>1
    <2>4. c[a + d] \in Above(p, c[a]) \cup {None}
      BY <2>2, <1>6
    <2> QED
      BY <2>3, <2>4, <1>4, UpIs
  <1>7. \A d \in Nat : d \in T
    <2> HIDE DEF T
    <2> QED
      BY <1>5, <1>6, SetInduction
  <1>8. c[b] \in Above(p, c[a])
    <2>1. b - a \in Nat /\ a + (b - a) = b /\ a + (b - a) <= n
      BY <1>1 DEF n
    <2>2. b - a \in T
      BY <2>1, <1>7
    <2>3. c[b] # None
      BY DEF c
    <2> QED
      BY <2>1, <2>2, <2>3
  <1> QED
    BY <1>2, <1>8 DEF c

\* The notebook before the second visit of another is on a cycle.
LEMMA RepeatIsCycle ==
    ASSUME NEW p, IsParents(p), NEW i \in DOMAIN p, NEW j \in 0..Size(p), NEW k \in 0..Size(p),
           j < k, Climb(p, i)[j] = Climb(p, i)[k], Climb(p, i)[k] # None
    PROVE  /\ Climb(p, i)[k - 1] \in Above(p, i) /\ Climb(p, i)[k - 1] \in DOMAIN p
           /\ p[Climb(p, i)[k - 1]] = Climb(p, i)[k] /\ Cyclic(p, Climb(p, i)[k - 1])
  <1> DEFINE c == Climb(p, i)
             n == Size(p)
  <1>1. n \in Nat /\ c[0] = i /\ \A m \in 1..n : c[m] = Up(p)[c[m - 1]]
    BY ClimbIs
  <1>2. k \in 1..n /\ k - 1 \in 0..n /\ k - 1 <= k /\ j <= k - 1 /\ 0 \in 0..n /\ 0 <= k - 1
    BY <1>1
  <1>3. c[k - 1] \in DOMAIN p /\ c[k] \in DOMAIN p
    BY <1>2, Onward
  <1>4. c[k - 1] # None
    BY <1>3 DEF IsParents
  <1>5. c[k - 1] \in Above(p, i) /\ c[k - 1] \in Above(p, c[j])
    BY <1>1, <1>2, <1>4, Onward
  <1>6. c[j] = c[k] /\ c[k] # None
    OBVIOUS
  <1> HIDE DEF c, n
  <1>7. p[c[k - 1]] = c[k]
    BY <1>1, <1>2, <1>3, <1>6, UpIs
  <1>8. After(p, c[k - 1]) = Above(p, c[k])
    BY <1>3, <1>7, AfterParent
  <1>9. Cyclic(p, c[k - 1])
    BY <1>3, <1>5, <1>6, <1>8, AfterIs
  <1> QED
    BY <1>3, <1>5, <1>7, <1>9 DEF c

\* A walk ends that meets no cycle, and no other.
LEMMA EndsIs ==
    ASSUME NEW p, IsParents(p), NEW i \in DOMAIN p
    PROVE  Ends(p, i) <=> \A x \in Above(p, i) : ~Cyclic(p, x)
  <1> DEFINE c == Climb(p, i)
             n == Size(p)
  <1>1. n \in Nat /\ DOMAIN c = 0..n /\ \A k \in 1..n : c[k] = Up(p)[c[k - 1]]
    BY ClimbIs
  <1>2. ASSUME ~Ends(p, i) PROVE \E x \in Above(p, i) : Cyclic(p, x)
    <2>1. (\A k \in 0..n : c[k] \in DOMAIN p) /\ \E a, b \in 0..n : a < b /\ c[a] = c[b]
      BY <1>2, WalkRepeats
    <2>2. None \notin DOMAIN p
      BY DEF IsParents
    <2>3. PICK a \in 0..n, b \in 0..n : a < b /\ c[a] = c[b]
      BY <2>1
    <2>4. c[b] # None
      BY <2>1, <2>2
    <2>5. c[b - 1] \in Above(p, i) /\ Cyclic(p, c[b - 1])
      BY <2>3, <2>4, RepeatIsCycle
    <2> QED
      BY <2>5
  <1>3. ASSUME NEW x \in Above(p, i), Cyclic(p, x), Ends(p, i) PROVE FALSE
    <2>1. x \in DOMAIN p /\ None \notin DOMAIN p
      BY AfterIs DEF IsParents
    <2>2. PICK m \in 0..n : c[m] = x
      BY <1>1 DEF Above, Range
    <2>3. x \in Above(p, x) /\ Above(p, x) \subseteq DOMAIN p
      BY <2>1, AfterIs
    <2> DEFINE T == {d \in Nat : m + d <= n => c[m + d] \in Above(p, x)}
    <2> HIDE DEF c, n
    <2>4. 0 \in T
      BY <2>2, <2>3, <1>1
    <2>5. ASSUME NEW d \in Nat, d \in T PROVE d + 1 \in T
      <3>1. SUFFICES ASSUME m + (d + 1) <= n PROVE c[m + (d + 1)] \in Above(p, x)
        OBVIOUS
      <3>2. m + (d + 1) \in 1..n /\ (m + (d + 1)) - 1 = m + d /\ m + d <= n
        BY <3>1, <1>1
      <3>3. c[m + (d + 1)] = Up(p)[c[m + d]] /\ c[m + d] \in Above(p, x)
        BY <3>2, <1>1, <2>5
      <3>4. c[m + d] \in DOMAIN p /\ p[c[m + d]] \in Above(p, x)
        BY <3>3, <2>1, <1>3, Cycle
      <3>5. p[c[m + d]] \in DOMAIN p
        BY <3>4, <2>3
      <3> QED
        BY <3>3, <3>4, <3>5, UpIs
    <2>6. \A d \in Nat : d \in T
      <3> HIDE DEF T
      <3> QED
        BY <2>4, <2>5, SetInduction
    <2>7. n - m \in Nat /\ m + (n - m) = n /\ m + (n - m) <= n
      BY <1>1
    <2>8. n - m \in T
      BY <2>6, <2>7
    <2>9. c[n] \in DOMAIN p
      BY <2>7, <2>8, <2>3
    <2> QED
      BY <2>9, <2>1, <1>3 DEF Ends, c, n
  <1> QED
    BY <1>2, <1>3

\* The least of a set of numbers is one of them.
LEMMA MinIs ==
    ASSUME NEW S \in SUBSET Nat, S # {}
    PROVE  Min(S) \in S /\ \A m \in S : Min(S) <= m
  <1>1. PICK n \in S : \A m \in S : <<m, n>> \notin OpToRel(<, Nat)
    BY NatLessThanWellFounded, WFMin
  <1>2. \A m \in S : m \in Nat
    OBVIOUS
  <1>3. \A m \in S : ~(m < n)
    BY <1>1, <1>2 DEF OpToRel
  <1>4. \A m \in S : n <= m
    BY <1>2, <1>3
  <1> QED
    BY <1>4 DEF Min

\* A walk that ends changes nothing; one that does not takes the parent of a
\* notebook of the cycle it meets: of the child of the first one, if that is
\* on the cycle.
LEMMA PromoteIs ==
    ASSUME NEW p, IsParents(p), NEW i \in DOMAIN p
    PROVE  /\ Ends(p, i) => Promote(p, i) = p
           /\ ~Ends(p, i) => \E x \in Above(p, i) :
                /\ Cyclic(p, x) /\ Promote(p, i) = [p EXCEPT ![x] = None]
                /\ Cyclic(p, i) => p[x] = i
  <1> DEFINE c == Climb(p, i)
             n == Size(p)
             repeats == {k \in DOMAIN c \ {0} : c[k] # None /\ \E j \in 0..(k - 1) : c[j] = c[k]}
  <1>1. n \in Nat /\ DOMAIN c = 0..n /\ c[0] = i
    BY ClimbIs
  <1>2. Promote(p, i) = IF repeats = {} THEN p ELSE [p EXCEPT ![c[Min(repeats) - 1]] = None]
    BY DEF Promote
  <1>3. ASSUME NEW k \in repeats
        PROVE  /\ k \in 1..n /\ \E j \in 0..n : j < k /\ c[j] = c[k]
               /\ c[k - 1] \in Above(p, i) /\ c[k - 1] \in DOMAIN p
               /\ p[c[k - 1]] = c[k] /\ Cyclic(p, c[k - 1])
    <2>1. k \in 1..n /\ k \in 0..n /\ c[k] # None
      BY <1>1
    <2>2. PICK j \in 0..(k - 1) : c[j] = c[k]
      OBVIOUS
    <2>3. j \in 0..n /\ j < k
      BY <2>1, <2>2, <1>1
    <2> QED
      BY <2>1, <2>2, <2>3, RepeatIsCycle
  <1>4. ASSUME Ends(p, i) PROVE repeats = {}
    <2> HIDE DEF repeats
    <2> QED
      BY <1>3, <1>4, EndsIs
  <1>5. ASSUME ~Ends(p, i) PROVE repeats # {}
    <2>1. (\A k \in 0..n : c[k] \in DOMAIN p) /\ \E a, b \in 0..n : a < b /\ c[a] = c[b]
      BY <1>5, WalkRepeats
    <2>2. None \notin DOMAIN p
      BY DEF IsParents
    <2>3. PICK a \in 0..n, b \in 0..n : a < b /\ c[a] = c[b]
      BY <2>1
    <2>4. c[b] # None /\ b \in DOMAIN c \ {0} /\ a \in 0..(b - 1)
      BY <2>1, <2>2, <2>3, <1>1
    <2> QED
      BY <2>3, <2>4
  <1>6. ASSUME ~Ends(p, i)
        PROVE  \E x \in Above(p, i) :
                 /\ Cyclic(p, x) /\ Promote(p, i) = [p EXCEPT ![x] = None]
                 /\ Cyclic(p, i) => p[x] = i
    <2> DEFINE m == Min(repeats)
    <2>1. m \in repeats /\ \A k \in repeats : m <= k
      <3>1. repeats \in SUBSET Nat
        BY <1>1
      <3> HIDE DEF repeats
      <3> QED
        BY <3>1, <1>5, <1>6, MinIs
    <2>2. Promote(p, i) = [p EXCEPT ![c[m - 1]] = None]
      BY <1>2, <1>5, <1>6
    <2>3. m \in 1..n /\ c[m - 1] \in Above(p, i) /\ c[m - 1] \in DOMAIN p /\ p[c[m - 1]] = c[m] /\ Cyclic(p, c[m - 1])
      <3> HIDE DEF repeats, m
      <3> QED
        BY <2>1, <1>3
    <2>4. PICK j \in 0..n : j < m /\ c[j] = c[m]
      <3> HIDE DEF repeats, m
      <3> QED
        BY <2>1, <1>3
    <2>5. ASSUME Cyclic(p, i) PROVE c[m] = i
      <3>1. SUFFICES ASSUME j # 0 PROVE FALSE
        BY <2>4, <1>1
      <3> HIDE DEF m
      <3>2. /\ j \in 1..n /\ j - 1 \in 0..n /\ j - 1 <= j /\ 0 <= j - 1 /\ 0 \in 0..n
            /\ m - 1 \in 0..n /\ m \in 0..n /\ m - 1 <= m /\ 0 <= m - 1 /\ m - 1 # 0
            /\ j - 1 \in 0..((m - 1) - 1) /\ ~(m <= m - 1)
        BY <3>1, <2>3, <2>4, <1>1
      <3>3. c[m] # None
        BY <2>1
      <3>4. c[j - 1] \in DOMAIN p
        BY <3>2, <3>3, <2>4, Onward
      <3>5. c[j - 1] # None /\ c[m - 1] # None
        BY <3>4, <2>3 DEF IsParents
      <3>6. c[j - 1] \in Above(p, i)
        BY <3>2, <3>5, <1>1, Onward
      <3>7. p[c[j - 1]] = c[j]
        <4>1. c[j] = Up(p)[c[j - 1]]
          BY <3>2, ClimbIs
        <4> QED
          BY <4>1, <3>3, <3>4, <2>4, UpIs
      <3>8. c[j - 1] = c[m - 1]
        BY <3>6, <3>7, <2>3, <2>4, <2>5, OneChild
      <3>9. m - 1 \in repeats
        BY <3>2, <3>5, <3>8, <1>1
      <3> QED
        BY <3>9, <3>2, <2>1
    <2> HIDE DEF m
    <2> QED
      BY <2>2, <2>3, <2>5
  <1> QED
    BY <1>2, <1>4, <1>6

-----------------------------------------------------------------------------
(* Taking parents away                                                     *)

\* The notebooks of X lose their parent.
Cut(p, X) == [i \in DOMAIN p |-> IF i \in X THEN None ELSE p[i]]

\* X takes a parent from some cycles, one from each of them.
PartialCut(p, X) ==
    /\ X \subseteq DOMAIN p /\ \A x \in X : Cyclic(p, x)
    /\ \A x, y \in X : y \in Above(p, x) => x = y

\* What is left are parents, and what was cut twice is cut.
LEMMA CutIs ==
    ASSUME NEW p, IsParents(p), NEW X
    PROVE  /\ IsParents(Cut(p, X)) /\ DOMAIN Cut(p, X) = DOMAIN p
           /\ \A i \in DOMAIN p : Cut(p, X)[i] = IF i \in X THEN None ELSE p[i]
           /\ \A x \in DOMAIN p : [Cut(p, X) EXCEPT ![x] = None] = Cut(p, X \cup {x})
           /\ \A Y : Cut(Cut(p, X), Y) = Cut(p, X \cup Y)
           /\ X = {} => Cut(p, X) = p
  <1> DEFINE q == Cut(p, X)
  <1>1. DOMAIN q = DOMAIN p /\ \A i \in DOMAIN p : q[i] = IF i \in X THEN None ELSE p[i]
    BY DEF Cut
  <1>2. IsParents(q)
    BY DEF IsParents, Cut
  <1>3. ASSUME NEW x \in DOMAIN p PROVE [q EXCEPT ![x] = None] = Cut(p, X \cup {x})
    BY DEF Cut
  <1>4. \A Y : Cut(Cut(p, X), Y) = Cut(p, X \cup Y)
    BY DEF Cut
  <1>5. X = {} => q = p
    BY DEF Cut, IsParents
  <1> QED
    BY <1>1, <1>2, <1>3, <1>4, <1>5

\* No walk gets longer.
LEMMA CutAbove ==
    ASSUME NEW p, IsParents(p), NEW X, NEW i \in DOMAIN p
    PROVE  After(Cut(p, X), i) \subseteq After(p, i) /\ Above(Cut(p, X), i) \subseteq Above(p, i)
  <1> DEFINE q == Cut(p, X)
  <1>1. /\ IsParents(q) /\ DOMAIN q = DOMAIN p /\ None \notin DOMAIN p
        /\ \A j \in DOMAIN p : q[j] = IF j \in X THEN None ELSE p[j]
    BY CutIs DEF IsParents
  <1> HIDE DEF q
  <1>2. UpClosed(p, After(p, i)) /\ (p[i] \in DOMAIN p => p[i] \in After(p, i))
    BY AfterClosed
  <1>3. UpClosed(q, After(p, i)) /\ (q[i] \in DOMAIN q => q[i] \in After(p, i))
    BY <1>1, <1>2 DEF UpClosed
  <1>4. After(q, i) \subseteq After(p, i)
    BY <1>1, <1>3, AfterLeast
  <1> QED
    BY <1>1, <1>4, AfterIs DEF q

\* A cycle none of which is cut is left as it is.
LEMMA UncutCycle ==
    ASSUME NEW p, IsParents(p), NEW X, NEW i \in DOMAIN p, Cyclic(p, i), X \cap Above(p, i) = {}
    PROVE  Cyclic(Cut(p, X), i) /\ Above(Cut(p, X), i) = Above(p, i)
  <1> DEFINE q == Cut(p, X)
  <1>1. /\ IsParents(q) /\ DOMAIN q = DOMAIN p /\ None \notin DOMAIN p
        /\ \A j \in DOMAIN p : q[j] = IF j \in X THEN None ELSE p[j]
    BY CutIs DEF IsParents
  <1>2. After(q, i) \subseteq After(p, i)
    BY CutAbove
  <1> HIDE DEF q
  <1>3. After(p, i) = Above(p, i) /\ i \in Above(p, i)
    <2>1. Above(p, i) = {i} \cup After(p, i) /\ i \in After(p, i)
      BY AfterIs
    <2> QED
      BY <2>1
  <1>4. \A j \in Above(p, i) : j \in DOMAIN p /\ q[j] = p[j]
    BY <1>1, AfterIs
  <1>5. UpClosed(q, After(q, i)) /\ (q[i] \in DOMAIN q => q[i] \in After(q, i))
    BY <1>1, AfterClosed
  <1>6. UpClosed(p, After(q, i)) /\ (p[i] \in DOMAIN p => p[i] \in After(q, i))
    BY <1>1, <1>2, <1>3, <1>4, <1>5 DEF UpClosed
  <1>7. After(p, i) \subseteq After(q, i)
    BY <1>6, AfterLeast
  <1>8. Cyclic(q, i) /\ Above(q, i) = {i} \cup After(q, i)
    BY <1>1, <1>3, <1>7, AfterIs
  <1> QED
    BY <1>2, <1>3, <1>7, <1>8 DEF q

\* A cycle that is left was one before, and none of it was cut.
LEMMA CycleUncut ==
    ASSUME NEW p, IsParents(p), NEW X, NEW i \in DOMAIN p, Cyclic(Cut(p, X), i)
    PROVE  Cyclic(p, i) /\ Above(Cut(p, X), i) = Above(p, i) /\ X \cap Above(p, i) = {}
  <1> DEFINE q == Cut(p, X)
  <1>1. /\ IsParents(q) /\ DOMAIN q = DOMAIN p /\ None \notin DOMAIN p
        /\ \A j \in DOMAIN p : q[j] = IF j \in X THEN None ELSE p[j]
    BY CutIs DEF IsParents
  <1>2. After(q, i) \subseteq After(p, i) /\ Cyclic(q, i)
    BY CutAbove
  <1> HIDE DEF q
  <1>3. After(q, i) = Above(q, i) /\ i \in Above(q, i) /\ Above(q, i) \subseteq DOMAIN p
    <2>1. i \in DOMAIN q
      BY <1>1
    <2> QED
      BY <2>1, <1>1, <1>2, AfterIs
  <1>4. \A j \in Above(q, i) : j \notin X /\ p[j] = q[j] /\ p[j] \in Above(q, i)
    <2> TAKE j \in Above(q, i)
    <2>1. q[j] \in Above(q, i)
      BY <1>1, <1>2, Cycle
    <2> QED
      BY <2>1, <1>1, <1>3
  <1>5. UpClosed(p, Above(q, i)) /\ p[i] \in Above(q, i)
    BY <1>3, <1>4 DEF UpClosed
  <1>6. After(p, i) \subseteq Above(q, i)
    BY <1>5, AfterLeast
  <1>7. Cyclic(p, i) /\ Above(p, i) = After(p, i)
    <2>1. i \in After(p, i)
      BY <1>2, <1>3
    <2>2. (Cyclic(p, i) <=> i \in After(p, i)) /\ Above(p, i) = {i} \cup After(p, i)
      BY AfterIs
    <2> QED
      BY <2>1, <2>2
  <1> QED
    BY <1>2, <1>3, <1>4, <1>6, <1>7 DEF q

\* Of two who are met on one walk, one is above the other.
LEMMA OneWay ==
    ASSUME NEW p, IsParents(p), NEW i \in DOMAIN p, NEW x \in Above(p, i), NEW y \in Above(p, i)
    PROVE  x \in Above(p, y) \/ y \in Above(p, x)
  <1> DEFINE c == Climb(p, i)
  <1>1. Size(p) \in Nat /\ DOMAIN c = 0..Size(p)
    BY ClimbIs
  <1>2. Above(p, i) = {c[k] : k \in 0..Size(p)} \ {None}
    BY <1>1 DEF Above, Range
  <1>3. PICK a \in 0..Size(p), b \in 0..Size(p) : c[a] = x /\ c[b] = y
    BY <1>2
  <1>4. x # None /\ y # None
    BY <1>2
  <1>5. a <= b \/ b <= a
    BY <1>1
  <1> QED
    BY <1>3, <1>4, <1>5, Onward

\* One walk takes the parent of one notebook of a cycle no parent was taken
\* from, if it meets one, and none otherwise; it then ends.
LEMMA CutStep ==
    ASSUME NEW p, IsParents(p), NEW X, PartialCut(p, X), NEW i \in DOMAIN p
    PROVE  \E Y : /\ PartialCut(p, Y) /\ X \subseteq Y
                  /\ Promote(Cut(p, X), i) = Cut(p, Y) /\ Ends(Cut(p, Y), i)
  <1> DEFINE q == Cut(p, X)
  <1>1. IsParents(q) /\ DOMAIN q = DOMAIN p /\ i \in DOMAIN q
    BY CutIs
  <1>2. CASE Ends(q, i)
    <2>1. Promote(q, i) = q
      <3> HIDE DEF q
      <3> QED
        BY <1>1, <1>2, PromoteIs
    <2> QED
      BY <2>1, <1>2
  <1>3. CASE ~Ends(q, i)
    <2>1. PICK x \in Above(q, i) : Cyclic(q, x) /\ Promote(q, i) = [q EXCEPT ![x] = None]
      <3> HIDE DEF q
      <3> QED
        BY <1>1, <1>3, PromoteIs
    <2>2. x \in DOMAIN p
      BY <1>1, AfterIs
    <2> DEFINE Y == X \cup {x}
    <2>3. Promote(q, i) = Cut(p, Y) /\ Cut(p, Y) = Cut(q, {x})
      <3>1. [q EXCEPT ![x] = None] = Cut(p, Y)
        BY <2>2, CutIs
      <3>2. Cut(q, {x}) = Cut(p, Y)
        BY CutIs
      <3> QED
        BY <3>1, <3>2, <2>1
    <2>4. Cyclic(p, x) /\ X \cap Above(p, x) = {}
      BY <2>1, <2>2, CycleUncut
    <2>5. PartialCut(p, Y)
      <3>1. \A y \in X : y \notin Above(p, x)
        BY <2>4
      <3>2. ASSUME NEW y \in X PROVE x \notin Above(p, y)
        <4>1. y \in DOMAIN p /\ Cyclic(p, y) /\ y \in Above(p, y)
          BY AfterIs DEF PartialCut
        <4> QED
          BY <4>1, <3>1, Cycle
      <3> QED
        BY <3>1, <3>2, <2>2, <2>4 DEF PartialCut
    <2>6. Ends(Cut(q, {x}), i)
      <3>1. IsParents(Cut(q, {x})) /\ i \in DOMAIN Cut(q, {x}) /\ DOMAIN Cut(q, {x}) = DOMAIN q
        BY <1>1, CutIs
      <3>2. SUFFICES ASSUME NEW z \in Above(Cut(q, {x}), i), Cyclic(Cut(q, {x}), z) PROVE FALSE
        BY <3>1, EndsIs
      <3> HIDE DEF q
      <3>3. z \in Above(q, i) /\ z \in DOMAIN q /\ x \in DOMAIN q
        BY <3>1, <1>1, CutAbove, AfterIs
      <3>4. Cyclic(q, z) /\ x \notin Above(q, z)
        BY <3>2, <3>3, <1>1, CycleUncut
      <3>5. z \in Above(q, x)
        BY <3>3, <3>4, <1>1, OneWay
      <3>6. Above(q, z) = Above(q, x)
        BY <3>5, <3>3, <2>1, <1>1, Cycle
      <3> QED
        BY <3>3, <3>4, <3>6, <1>1, AfterIs
    <2> QED
      BY <2>3, <2>5, <2>6
  <1> QED
    BY <1>2, <1>3

\* A walk that ends still does when more is cut.
LEMMA EndsStay ==
    ASSUME NEW p, IsParents(p), NEW X, NEW Y, X \subseteq Y, NEW i \in DOMAIN p, Ends(Cut(p, X), i)
    PROVE  Ends(Cut(p, Y), i)
  <1> DEFINE q == Cut(p, X)
  <1>1. IsParents(q) /\ DOMAIN q = DOMAIN p /\ i \in DOMAIN q
    BY CutIs
  <1>2. X \cup Y = Y
    OBVIOUS
  <1>3. Cut(q, Y) = Cut(p, Y)
    BY <1>2, CutIs
  <1>4. Ends(q, i)
    OBVIOUS
  <1> HIDE DEF q
  <1>5. IsParents(Cut(q, Y)) /\ i \in DOMAIN Cut(q, Y) /\ DOMAIN Cut(q, Y) = DOMAIN q
    BY <1>1, CutIs
  <1>6. SUFFICES ASSUME NEW z \in Above(Cut(q, Y), i), Cyclic(Cut(q, Y), z) PROVE FALSE
    BY <1>3, <1>5, EndsIs
  <1>7. z \in Above(q, i) /\ z \in DOMAIN q
    BY <1>1, <1>5, CutAbove, AfterIs
  <1>8. Cyclic(q, z)
    BY <1>1, <1>6, <1>7, CycleUncut
  <1> QED
    BY <1>1, <1>4, <1>7, <1>8, EndsIs

-----------------------------------------------------------------------------
(* All walks, one after the other                                          *)

\* An order of the notebooks has each of them once.
LEMMA OrderIs ==
    ASSUME NEW D, IsFiniteSet(D), NEW order \in SetToSeqs(D)
    PROVE  /\ Cardinality(D) \in Nat /\ DOMAIN order = 1..Cardinality(D)
           /\ \A k \in 1..Cardinality(D) : order[k] \in D
           /\ \A j, k \in 1..Cardinality(D) : order[j] = order[k] => j = k
           /\ \A i \in D : \E k \in 1..Cardinality(D) : order[k] = i
  <1> DEFINE n == Cardinality(D)
  <1>1. n \in Nat
    BY FS_CardinalityType
  <1>2. order \in [1..n -> D] /\ \A j, k \in 1..n : order[j] = order[k] => j = k
    BY DEF SetToSeqs
  <1>3. IsFiniteSet(1..n) /\ Cardinality(1..n) = n
    BY <1>1, FS_Interval
  <1>4. order \in Injection(1..n, D)
    BY <1>2 DEF Injection, IsInjective
  <1>5. order \in Surjection(1..n, D)
    BY <1>3, <1>4, FS_Injection
  <1>6. \A i \in D : \E k \in 1..n : order[k] = i
    BY <1>5 DEF Surjection
  <1> QED
    BY <1>1, <1>2, <1>6

\* Whatever the order, the walks take one parent from some cycles and then
\* every walk ends.
LEMMA AllWalked ==
    ASSUME NEW p, IsParents(p), NEW order \in SetToSeqs(DOMAIN p)
    PROVE  \E X : /\ PartialCut(p, X) /\ Walked(p, order) = Cut(p, X)
                  /\ \A i \in DOMAIN p : Ends(Cut(p, X), i)
  <1> DEFINE n == Size(p)
  <1>1. /\ n \in Nat /\ DOMAIN order = 1..n /\ \A k \in 1..n : order[k] \in DOMAIN p
        /\ \A i \in DOMAIN p : \E k \in 1..n : order[k] = i
    BY OrderIs DEF IsParents, Size
  <1> HIDE DEF n
  <1>2. PICK q : /\ q[0] = p /\ \A k \in 1..n : q[k] = Promote(q[k - 1], order[k])
                 /\ Walked(p, order) = q[n]
    <2>1. \E q : IsTrace(p, order, n, q) /\ Walked(p, order) = q[n]
      BY <1>1, FoldIs
    <2> QED
      BY <2>1 DEF IsTrace
  <1> DEFINE T == {k \in Nat : k <= n =>
                     \E X : /\ PartialCut(p, X) /\ q[k] = Cut(p, X)
                            /\ \A j \in 1..k : Ends(Cut(p, X), order[j])}
  <1>3. 0 \in T
    <2>1. PartialCut(p, {}) /\ Cut(p, {}) = p
      BY CutIs DEF PartialCut
    <2>2. \A j \in 1..0 : Ends(Cut(p, {}), order[j])
      OBVIOUS
    <2> QED
      BY <2>1, <2>2, <1>2
  <1>4. ASSUME NEW k \in Nat, k \in T PROVE k + 1 \in T
    <2>1. SUFFICES ASSUME k + 1 <= n
                   PROVE  \E X : /\ PartialCut(p, X) /\ q[k + 1] = Cut(p, X)
                                 /\ \A j \in 1..(k + 1) : Ends(Cut(p, X), order[j])
      OBVIOUS
    <2>2. k <= n /\ k + 1 \in 1..n /\ (k + 1) - 1 = k /\ \A j \in 1..k : j \in 1..n
      BY <2>1, <1>1
    <2>3. PICK X : /\ PartialCut(p, X) /\ q[k] = Cut(p, X)
                   /\ \A j \in 1..k : Ends(Cut(p, X), order[j])
      BY <2>2, <1>4
    <2>4. order[k + 1] \in DOMAIN p
      BY <2>2, <1>1
    <2>5. PICK Y : /\ PartialCut(p, Y) /\ X \subseteq Y
                   /\ Promote(Cut(p, X), order[k + 1]) = Cut(p, Y)
                   /\ Ends(Cut(p, Y), order[k + 1])
      BY <2>3, <2>4, CutStep
    <2>6. q[k + 1] = Cut(p, Y)
      BY <2>2, <2>3, <2>5, <1>2
    <2>7. ASSUME NEW j \in 1..(k + 1) PROVE Ends(Cut(p, Y), order[j])
      <3>1. CASE j = k + 1
        BY <3>1, <2>5
      <3>2. CASE j # k + 1
        <4>1. j \in 1..k
          BY <3>2
        <4>2. order[j] \in DOMAIN p /\ Ends(Cut(p, X), order[j])
          BY <4>1, <2>2, <2>3, <1>1
        <4> QED
          BY <4>2, <2>5, EndsStay
      <3> QED
        BY <3>1, <3>2
    <2> QED
      BY <2>5, <2>6, <2>7
  <1>5. n \in T
    <2>1. \A k \in Nat : k \in T
      <3> HIDE DEF T
      <3> QED
        BY <1>3, <1>4, SetInduction
    <2> HIDE DEF T
    <2> QED
      BY <2>1, <1>1
  <1>6. PICK X : /\ PartialCut(p, X) /\ q[n] = Cut(p, X)
                 /\ \A j \in 1..n : Ends(Cut(p, X), order[j])
    <2>1. n <= n
      BY <1>1
    <2> QED
      BY <2>1, <1>5
  <1>7. \A i \in DOMAIN p : Ends(Cut(p, X), i)
    BY <1>1, <1>6
  <1> QED
    BY <1>2, <1>6, <1>7

\* Where every walk ends, every notebook hangs on a root.
LEMMA EndsShown ==
    ASSUME NEW p, IsParents(p), \A i \in DOMAIN p : Ends(p, i)
    PROVE  Shown(p) = DOMAIN p
  <1> DEFINE roots == {i \in DOMAIN p : Up(p)[i] = None}
  <1>1. ASSUME NEW i \in DOMAIN p, Above(p, i) \cap roots = {} PROVE FALSE
    <2> DEFINE c == Climb(p, i)
               n == Size(p)
               T == {k \in Nat : k <= n => c[k] \in Above(p, i)}
    <2>1. n \in Nat /\ DOMAIN c = 0..n /\ c[0] = i /\ \A k \in 1..n : c[k] = Up(p)[c[k - 1]]
      BY ClimbIs
    <2>2. Above(p, i) = {c[k] : k \in 0..n} \ {None} /\ Above(p, i) \subseteq DOMAIN p
      BY <2>1, AfterIs DEF Above, Range
    <2>3. c[n] = None /\ None \notin DOMAIN p
      BY DEF Ends, IsParents
    <2> HIDE DEF c, n
    <2>4. 0 \in T
      BY <2>1, AfterIs
    <2>5. ASSUME NEW k \in Nat, k \in T PROVE k + 1 \in T
      <3>1. SUFFICES ASSUME k + 1 <= n PROVE c[k + 1] \in Above(p, i)
        OBVIOUS
      <3>2. k + 1 \in 1..n /\ k + 1 \in 0..n /\ (k + 1) - 1 = k /\ k <= n
        BY <3>1, <2>1
      <3>3. c[k] \in Above(p, i) /\ c[k + 1] = Up(p)[c[k]]
        BY <3>2, <2>1, <2>5
      <3>4. c[k + 1] # None
        BY <3>3, <2>2, <1>1
      <3> QED
        BY <3>2, <3>4, <2>2
    <2>6. n \in T
      <3>1. \A k \in Nat : k \in T
        <4> HIDE DEF T
        <4> QED
          BY <2>4, <2>5, SetInduction
      <3> HIDE DEF T
      <3> QED
        BY <3>1, <2>1
    <2>7. n <= n
      BY <2>1
    <2> QED
      BY <2>2, <2>3, <2>6, <2>7
  <1>2. Shown(p) = {i \in DOMAIN p : Above(p, i) \cap roots # {}}
    BY DEF Shown
  <1> HIDE DEF roots
  <1> QED
    BY <1>1, <1>2

\* Nothing is lost when a tree is shown, whatever its cycles.
LEMMA ShownWhole ==
    ASSUME NEW p, IsParents(p), NEW q \in BreakCycles(p)
    PROVE  Shown(q) = DOMAIN p
  <1>1. PICK order \in SetToSeqs(DOMAIN p) : q = Walked(p, order)
    BY DEF BreakCycles, Walked
  <1>2. PICK X : q = Cut(p, X) /\ \A i \in DOMAIN p : Ends(Cut(p, X), i)
    BY <1>1, AllWalked
  <1>3. IsParents(Cut(p, X)) /\ DOMAIN Cut(p, X) = DOMAIN p
    BY CutIs
  <1> QED
    BY <1>2, <1>3, EndsShown

\* A cut that takes one parent from every cycle leaves walks that end, and one
\* that leaves walks that end has taken one from every cycle.
LEMMA WholeCut ==
    ASSUME NEW p, IsParents(p), NEW X
    PROVE  /\ PartialCut(p, X) /\ (\A i \in DOMAIN p : Ends(Cut(p, X), i)) <=>
                /\ X \subseteq {i \in DOMAIN p : Cyclic(p, i)}
                /\ \A i \in DOMAIN p : Cyclic(p, i) => Cardinality(X \cap Above(p, i)) = 1
  <1> DEFINE q == Cut(p, X)
  <1>1. IsParents(q) /\ DOMAIN q = DOMAIN p
    BY CutIs
  <1>2. ASSUME NEW i \in DOMAIN p
        PROVE  IsFiniteSet(X \cap Above(p, i)) /\ i \in Above(p, i) /\ Above(p, i) \subseteq DOMAIN p
    <2>1. i \in Above(p, i) /\ Above(p, i) \subseteq DOMAIN p /\ IsFiniteSet(DOMAIN p)
      BY AfterIs DEF IsParents
    <2>2. X \cap Above(p, i) \in SUBSET DOMAIN p
      BY <2>1
    <2> QED
      BY <2>1, <2>2, FS_Subset
  <1>3. ASSUME PartialCut(p, X), \A i \in DOMAIN p : Ends(q, i), NEW i \in DOMAIN p, Cyclic(p, i)
        PROVE  Cardinality(X \cap Above(p, i)) = 1
    <2>1. X \cap Above(p, i) # {}
      <3>1. SUFFICES ASSUME X \cap Above(p, i) = {} PROVE FALSE
        OBVIOUS
      <3>2. Cyclic(q, i) /\ Above(q, i) = Above(p, i)
        BY <3>1, <1>3, UncutCycle
      <3> HIDE DEF q
      <3> QED
        BY <3>2, <1>1, <1>2, <1>3, EndsIs
    <2>2. ASSUME NEW x \in X \cap Above(p, i), NEW y \in X \cap Above(p, i) PROVE x = y
      <3>1. Above(p, x) = Above(p, i)
        BY <1>3, Cycle
      <3> QED
        BY <3>1, <1>3 DEF PartialCut
    <2>3. \E x : X \cap Above(p, i) = {x}
      BY <2>1, <2>2
    <2> QED
      BY <2>3, <1>2, FS_Singleton
  <1>4. ASSUME X \subseteq {i \in DOMAIN p : Cyclic(p, i)},
               \A i \in DOMAIN p : Cyclic(p, i) => Cardinality(X \cap Above(p, i)) = 1
        PROVE  PartialCut(p, X) /\ \A i \in DOMAIN p : Ends(q, i)
    <2>1. \A i \in DOMAIN p : Cyclic(p, i) => \E x : X \cap Above(p, i) = {x}
      BY <1>2, <1>4, FS_Singleton
    <2>2. PartialCut(p, X)
      <3>1. ASSUME NEW x \in X, NEW y \in X, y \in Above(p, x) PROVE x = y
        <4>1. x \in DOMAIN p /\ Cyclic(p, x)
          BY <1>4
        <4>2. x \in Above(p, x)
          BY <4>1, <1>2
        <4> QED
          BY <4>1, <4>2, <3>1, <2>1
      <3> QED
        BY <3>1, <1>4 DEF PartialCut
    <2>3. ASSUME NEW i \in DOMAIN p, NEW x \in Above(q, i), Cyclic(q, x) PROVE FALSE
      <3>1. x \in DOMAIN p
        BY <1>1, AfterIs
      <3>2. Cyclic(p, x) /\ X \cap Above(p, x) = {}
        BY <3>1, <2>3, CycleUncut
      <3> QED
        BY <3>1, <3>2, <2>1
    <2>4. \A i \in DOMAIN p : Ends(q, i)
      <3> HIDE DEF q
      <3> QED
        BY <2>3, <1>1, EndsIs
    <2> QED
      BY <2>2, <2>4
  <1>5. PartialCut(p, X) => X \subseteq {i \in DOMAIN p : Cyclic(p, i)}
    BY DEF PartialCut
  <1> QED
    BY <1>3, <1>4, <1>5

\* The members of any set of notebooks can come first.
LEMMA FirstOrder ==
    ASSUME NEW D, IsFiniteSet(D), NEW P \in SUBSET D
    PROVE  \E order \in SetToSeqs(D) : \E m \in Nat :
             \A k \in 1..Cardinality(D) : order[k] \in P <=> k <= m
  <1> DEFINE m == Cardinality(P)
             n == Cardinality(D \ P)
  <1>1. IsFiniteSet(P) /\ IsFiniteSet(D \ P) /\ m \in Nat /\ n \in Nat
    BY FS_Subset, FS_Difference, FS_CardinalityType
  <1>2. Cardinality(D) = m + n
    <2>1. P \cup (D \ P) = D /\ P \cap (D \ P) = {}
      OBVIOUS
    <2>2. Cardinality(P \cup (D \ P)) = m + n - Cardinality(P \cap (D \ P))
      BY <1>1, FS_Union
    <2>3. Cardinality(P \cap (D \ P)) = 0
      BY <2>1, FS_EmptySet
    <2>4. Cardinality(D) = m + n - 0
      BY <2>1, <2>2, <2>3, Zenon
    <2> HIDE DEF m, n
    <2> QED
      BY <2>4, <1>1
  <1>3. PICK g \in Bijection(1..m, P) : TRUE
    BY <1>1, FS_CardinalityType DEF ExistsBijection
  <1>4. PICK h \in Bijection(1..n, D \ P) : TRUE
    BY <1>1, FS_CardinalityType DEF ExistsBijection
  <1>5. /\ g \in [1..m -> P] /\ \A j, k \in 1..m : g[j] = g[k] => j = k
        /\ h \in [1..n -> D \ P] /\ \A j, k \in 1..n : h[j] = h[k] => j = k
    BY <1>3, <1>4 DEF Bijection, Injection, IsInjective
  <1> HIDE DEF m, n
  <1> DEFINE order == [k \in 1..(m + n) |-> IF k <= m THEN g[k] ELSE h[k - m]]
  <1>6. ASSUME NEW k \in 1..(m + n)
        PROVE  /\ k <= m => k \in 1..m /\ order[k] = g[k] /\ order[k] \in P
               /\ ~(k <= m) => k - m \in 1..n /\ order[k] = h[k - m] /\ order[k] \in D \ P
    <2>1. k <= m => k \in 1..m
      BY <1>1
    <2>2. ~(k <= m) => k - m \in 1..n
      BY <1>1
    <2> QED
      BY <2>1, <2>2, <1>5
  <1>7. order \in [1..(m + n) -> D]
    <2>1. \A k \in 1..(m + n) : order[k] \in D
      BY <1>6
    <2> QED
      BY <2>1
  <1>8. ASSUME NEW j \in 1..(m + n), NEW k \in 1..(m + n), j # k PROVE order[j] # order[k]
    <2>1. CASE j <= m /\ k <= m
      BY <2>1, <1>5, <1>6, <1>8
    <2>2. CASE ~(j <= m) /\ ~(k <= m)
      <3>1. j - m # k - m
        BY <1>1, <1>8
      <3> QED
        BY <2>2, <3>1, <1>5, <1>6
    <2>3. CASE (j <= m) # (k <= m)
      BY <2>3, <1>6
    <2> QED
      BY <2>1, <2>2, <2>3
  <1>9. order \in SetToSeqs(D)
    BY <1>2, <1>7, <1>8 DEF SetToSeqs
  <1>10. \A k \in 1..Cardinality(D) : order[k] \in P <=> k <= m
    BY <1>2, <1>6
  <1> HIDE DEF order
  <1> QED
    BY <1>1, <1>9, <1>10

\* Every way of taking one parent from every cycle is reached: the walks begin
\* with the parents of those that shall lose it.
LEMMA CutReached ==
    ASSUME NEW p, IsParents(p), NEW X, PartialCut(p, X), \A i \in DOMAIN p : Ends(Cut(p, X), i)
    PROVE  Cut(p, X) \in BreakCycles(p)
  <1> DEFINE n == Size(p)
             P == {p[x] : x \in X}
  <1>1. ASSUME NEW x \in X
        PROVE  /\ x \in DOMAIN p /\ Cyclic(p, x) /\ x \in Above(p, x) /\ p[x] \in DOMAIN p
               /\ p[x] \in Above(p, x) /\ Cyclic(p, p[x]) /\ Above(p, p[x]) = Above(p, x)
    <2>1. x \in DOMAIN p /\ Cyclic(p, x)
      BY DEF PartialCut
    <2>2. x \in Above(p, x) /\ Above(p, x) \subseteq DOMAIN p
      BY <2>1, AfterIs
    <2>3. p[x] \in Above(p, x)
      BY <2>1, <2>2, Cycle
    <2>4. Cyclic(p, p[x]) /\ Above(p, p[x]) = Above(p, x)
      BY <2>1, <2>3, Cycle
    <2> QED
      BY <2>1, <2>2, <2>3, <2>4
  <1>2. P \in SUBSET DOMAIN p
    BY <1>1
  <1>3. PICK order \in SetToSeqs(DOMAIN p), m \in Nat : \A k \in 1..n : order[k] \in P <=> k <= m
    <2> HIDE DEF P
    <2> QED
      BY <1>2, FirstOrder DEF IsParents, Size
  <1>4. /\ n \in Nat /\ DOMAIN order = 1..n /\ \A k \in 1..n : order[k] \in DOMAIN p
        /\ \A j, k \in 1..n : order[j] = order[k] => j = k
        /\ \A i \in DOMAIN p : \E k \in 1..n : order[k] = i
    BY OrderIs DEF IsParents, Size
  <1> HIDE DEF n
  <1>5. PICK q : /\ q[0] = p /\ \A k \in 1..n : q[k] = Promote(q[k - 1], order[k])
                 /\ Walked(p, order) = q[n]
    <2>1. \E q : IsTrace(p, order, n, q) /\ Walked(p, order) = q[n]
      BY <1>4, FoldIs
    <2> QED
      BY <2>1 DEF IsTrace
  <1> DEFINE Xs(k) == {x \in X : \E j \in 1..k : order[j] = p[x]}
             T == {k \in Nat : k <= n => q[k] = Cut(p, Xs(k))}
  <1>6. 0 \in T
    <2>1. Xs(0) = {}
      OBVIOUS
    <2> QED
      BY <2>1, <1>5, CutIs
  <1>7. ASSUME NEW k \in Nat, k \in T PROVE k + 1 \in T
    <2>1. SUFFICES ASSUME k + 1 <= n PROVE q[k + 1] = Cut(p, Xs(k + 1))
      OBVIOUS
    <2> DEFINE i == order[k + 1]
               r == Cut(p, Xs(k))
    <2>2. k <= n /\ k + 1 \in 1..n /\ (k + 1) - 1 = k /\ (\A j \in 1..k : j \in 1..n /\ j # k + 1)
      BY <2>1, <1>4
    <2>3. q[k + 1] = Promote(r, i) /\ i \in DOMAIN p
      BY <2>2, <1>4, <1>5, <1>7
    <2>4. 1..(k + 1) = 1..k \cup {k + 1}
      OBVIOUS
    <2>5. IsParents(r) /\ DOMAIN r = DOMAIN p /\ \A z \in DOMAIN p : z \notin Xs(k) => r[z] = p[z]
      BY CutIs
    <2>6. CASE i \in P
      <3>1. PICK x \in X : p[x] = i
        BY <2>6
      <3>2. ASSUME NEW y \in X, y \in Above(p, x) PROVE y = x
        BY <3>2 DEF PartialCut
      <3>3. x \notin Xs(k)
        BY <3>1, <2>2, <1>4
      <3>4. Xs(k + 1) = Xs(k) \cup {x}
        <4>1. ASSUME NEW y \in X, p[y] = i PROVE y = x
          BY <4>1, <3>1, <3>2, <1>1
        <4> QED
          BY <4>1, <3>1, <2>4
      <3>5. Xs(k) \cap Above(p, i) = {}
        BY <3>1, <3>2, <3>3, <1>1
      <3>6. Cyclic(r, i) /\ Above(r, i) = Above(p, i)
        BY <3>1, <3>5, <2>3, <1>1, UncutCycle
      <3>7. PICK z \in Above(r, i) : Promote(r, i) = [r EXCEPT ![z] = None] /\ r[z] = i
        <4> HIDE DEF r, i, Xs
        <4>1. ~Ends(r, i)
          BY <3>6, <2>3, <2>5, AfterIs, EndsIs
        <4> QED
          BY <4>1, <3>6, <2>3, <2>5, PromoteIs
      <3>8. z \in DOMAIN p /\ z \notin Xs(k) /\ p[z] = i /\ z \in Above(p, x)
        <4> HIDE DEF r, i, Xs
        <4>1. z \in DOMAIN p
          BY <2>3, <2>5, AfterIs
        <4> QED
          BY <4>1, <3>1, <3>5, <3>6, <3>7, <2>5, <1>1
      <3>9. z = x
        <4> HIDE DEF r, i, Xs
        <4> QED
          BY <3>1, <3>8, <1>1, OneChild
      <3>10. [r EXCEPT ![z] = None] = Cut(p, Xs(k) \cup {x})
        <4>1. [Cut(p, Xs(k)) EXCEPT ![x] = None] = Cut(p, Xs(k) \cup {x})
          <5> HIDE DEF Xs
          <5> QED
            BY <1>1, CutIs
        <4> QED
          BY <4>1, <3>9
      <3> QED
        BY <3>4, <3>7, <3>10, <2>3
    <2>7. CASE i \notin P
      <3>1. ~(k + 1 <= m)
        BY <2>2, <2>7, <1>3
      <3>2. ASSUME NEW x \in X PROVE x \in Xs(k)
        <4>1. PICK j \in 1..n : order[j] = p[x]
          BY <1>1, <1>4
        <4>2. j <= m
          BY <4>1, <1>3
        <4>3. j \in 1..k
          BY <4>2, <3>1
        <4> QED
          BY <4>1, <4>3
      <3>3. Xs(k) = X /\ Xs(k + 1) = X
        BY <3>2, <2>4
      <3>4. Ends(r, i)
        BY <3>3, <2>3
      <3>5. Promote(r, i) = r
        <4> HIDE DEF r, i
        <4> QED
          BY <3>4, <2>3, <2>5, PromoteIs
      <3> QED
        BY <3>3, <3>5, <2>3
    <2> QED
      BY <2>6, <2>7
  <1>8. n \in T
    <2>1. \A k \in Nat : k \in T
      <3> HIDE DEF T
      <3> QED
        BY <1>6, <1>7, SetInduction
    <2> HIDE DEF T
    <2> QED
      BY <2>1, <1>4
  <1>9. q[n] = Cut(p, Xs(n))
    <2>1. n <= n
      BY <1>4
    <2> QED
      BY <2>1, <1>8
  <1>10. Xs(n) = X
    BY <1>1, <1>4
  <1> HIDE DEF Xs, T
  <1> QED
    BY <1>5, <1>9, <1>10 DEF BreakCycles, Walked

\* The walks, in all orders, do what CutCycles says.
THEOREM CyclesAreCut ==
    ASSUME NEW p, IsParents(p)
    PROVE  BreakCycles(p) = CutCycles(p)
  <1> DEFINE TakesOne(X) ==
               /\ X \subseteq {i \in DOMAIN p : Cyclic(p, i)}
               /\ \A i \in DOMAIN p : Cyclic(p, i) => Cardinality(X \cap Above(p, i)) = 1
  <1>1. \A q : q \in CutCycles(p) <=> \E X : TakesOne(X) /\ q = Cut(p, X)
    BY DEF CutCycles, Cut
  <1>2. \A X : TakesOne(X) <=> PartialCut(p, X) /\ \A i \in DOMAIN p : Ends(Cut(p, X), i)
    BY WholeCut
  <1>3. ASSUME NEW q \in BreakCycles(p) PROVE \E X : TakesOne(X) /\ q = Cut(p, X)
    <2>1. PICK order \in SetToSeqs(DOMAIN p) : q = Walked(p, order)
      BY DEF BreakCycles, Walked
    <2> HIDE DEF TakesOne
    <2> QED
      BY <2>1, <1>2, AllWalked
  <1>4. ASSUME NEW X, TakesOne(X) PROVE Cut(p, X) \in BreakCycles(p)
    <2> HIDE DEF TakesOne
    <2> QED
      BY <1>2, <1>4, CutReached
  <1> HIDE DEF TakesOne
  <1> QED
    BY <1>1, <1>3, <1>4

\* The parents of some of the rows.
LEMMA ParentsAre ==
    ASSUME NEW set \in SUBSET Ids
    PROVE  IsParents(ParentsOf(set)) /\ DOMAIN ParentsOf(set) = set
  BY NotebooksAssumption, FS_Subset DEF ParentsOf, IsParents

\* Every notebook is on the page, whatever the parents are (MapNotebooks).
THEOREM NoNotebookHidden == Spec => []AllShown
  <1>1. AllShown
    <2>1. IsParents(ParentsOf(Visible)) /\ DOMAIN ParentsOf(Visible) = Visible
      BY ParentsAre DEF Visible, Here
    <2> QED
      BY <2>1, ShownWhole DEF AllShown
  <1> QED
    BY <1>1, PTL

\* Each cycle loses one parent, whatever the order of the walks
\* (RestoreNotebookParents, MapNotebooks).
THEOREM OneCutPerCycle == Spec => []CyclesCutOnce
  <1>1. CyclesCutOnce
    <2>1. IsParents(ParentsOf(Here))
      BY ParentsAre DEF Here
    <2> QED
      BY <2>1, CyclesAreCut DEF CyclesCutOnce
  <1> QED
    BY <1>1, PTL

=============
