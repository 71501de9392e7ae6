------------------------- MODULE SyncControlProofs --------------------------
(***************************************************************************)
(* Theorems about SyncControl, for every number of accounts, of handlers   *)
(* and of concurrent logins and logouts.                                   *)
(***************************************************************************)
EXTENDS SyncControl, TLAPS

-----------------------------------------------------------------------------
(* What the helpers do                                                     *)

\* A job that is told to stop stays the job it is.
LEMMA ToldKeeps ==
    ASSUME NEW b \in Background
    PROVE  /\ Told(b) \in Background
           /\ Told(b).on = b.on
           /\ Told(b).acc = b.acc
  BY DEF Told, Background

\* No job is a job.
LEMMA OffType == Off \in Background /\ ~Off.on /\ Off.acc = None
  BY DEF Off, Background

\* SetAutoSyncPaused changes one setting.
LEMMA PauseType ==
    ASSUME paused \in [Accounts -> BOOLEAN], NEW b \in BOOLEAN, Pause(b)
    PROVE  paused' \in [Accounts -> BOOLEAN]
  BY DEF Pause

-----------------------------------------------------------------------------
\* Every step keeps the types.
LEMMA TypeStep ==
    ASSUME SyncControlAssumption, TypeOK, [Next]_vars
    PROVE  TypeOK'
  <1> USE DEF vars, procs, control, session, jobs, TypeOK, Stages, Opened, Asked
  <1>1. ASSUME AutoTick PROVE TypeOK'
    BY <1>1 DEF AutoTick, Request, Procs
  <1>2. ASSUME NEW p \in Procs, NEW j \in {"sync", "full"}, Click(p, j) PROVE TypeOK'
    <2>0. Pause(FALSE)
      BY <1>2 DEF Click
    <2>1. paused' \in [Accounts -> BOOLEAN]
      BY <2>0, PauseType
    <2>4. asked' \in Nat
      BY <1>2 DEF Click, Request
    <2>2. pc' \in [Procs -> Stages]
      BY <1>2 DEF Click, Request
    <2>3. job' \in [Procs -> Asked]
      BY <1>2 DEF Click, Request
    <2> QED
      BY <1>2, <2>1, <2>2, <2>3, <2>4 DEF Click
  <1>3. ASSUME NEW p \in Procs, ClickReset(p) PROVE TypeOK'
    BY <1>3 DEF ClickReset, Request
  <1>4. ASSUME NEW p \in Procs, ClickCancel(p) PROVE TypeOK'
    BY <1>4 DEF ClickCancel, Request
  <1>5. ASSUME NEW p \in Procs, ClickLogout(p) PROVE TypeOK'
    BY <1>5 DEF ClickLogout, Request
  <1>6. ASSUME NEW p \in Procs, ClickLogin(p) PROVE TypeOK'
    BY <1>6 DEF ClickLogin, Request
  <1>7. ASSUME NEW p \in Procs, BeginRefused(p) PROVE TypeOK'
    BY <1>7 DEF BeginRefused, Goto, Over
  <1>8. ASSUME NEW p \in Procs, Begin(p) PROVE TypeOK'
    <2>1. seq + 1 \in Nat
      OBVIOUS
    <2>2. pc' \in [Procs -> Stages]
      BY <1>8 DEF Begin
    <2>3. run' \in [Procs -> Nat]
      BY <1>8, <2>1 DEF Begin
    <2> QED
      BY <1>8, <2>1, <2>2, <2>3 DEF Begin
  <1>9. ASSUME NEW p \in Procs, Open(p) PROVE TypeOK'
    BY <1>9 DEF Open, Goto
  <1>10. ASSUME NEW p \in Procs, Preflight(p) PROVE TypeOK'
    BY <1>10, ToldKeeps DEF Preflight, Goto
  <1>11. ASSUME NEW p \in Procs, Quiesce(p) PROVE TypeOK'
    BY <1>11, ToldKeeps DEF Quiesce, Goto
  <1>12. ASSUME NEW p \in Procs, Suspend(p) PROVE TypeOK'
    BY <1>12 DEF Suspend, Goto
  <1>13. ASSUME NEW p \in Procs, Clear(p) PROVE TypeOK'
    BY <1>13 DEF Clear, Goto
  <1>14. ASSUME NEW p \in Procs, RoundSucceeds(p) PROVE TypeOK'
    BY <1>14, ToldKeeps DEF RoundSucceeds, Goto
  <1>15. ASSUME NEW p \in Procs, RoundFails(p) PROVE TypeOK'
    BY <1>15 DEF RoundFails, Goto
  <1>16. ASSUME NEW p \in Procs, Publish(p) PROVE TypeOK'
    BY <1>16 DEF Publish, Goto, Background
  <1>17. ASSUME NEW p \in Procs, Started(p) PROVE TypeOK'
    BY <1>17, PauseType DEF Started, Goto
  <1>18. ASSUME NEW p \in Procs, Resume(p) PROVE TypeOK'
    BY <1>18 DEF Resume, Goto
  <1>19. ASSUME NEW p \in Procs, End(p) PROVE TypeOK'
    BY <1>19, ToldKeeps, PauseType DEF End, Goto
  <1>20. ASSUME NEW p \in Procs, Ended(p) PROVE TypeOK'
    BY <1>20 DEF Ended, Goto, Over
  <1>21. ASSUME NEW p \in Procs, CancelStale(p) PROVE TypeOK'
    BY <1>21 DEF CancelStale, Goto
  <1>22. ASSUME NEW p \in Procs, Cancel(p) PROVE TypeOK'
    BY <1>22, PauseType DEF Cancel, Goto
  <1>23. ASSUME NEW p \in Procs, Cancelled(p) PROVE TypeOK'
    BY <1>23 DEF Cancelled, Goto
  <1>24. ASSUME NEW p \in Procs, Stop(p) PROVE TypeOK'
    BY <1>24 DEF Stop, Goto
  <1>25. ASSUME NEW p \in Procs, Block(p) PROVE TypeOK'
    BY <1>25 DEF Block
  <1>26. ASSUME NEW p \in Procs, JoinOp(p) PROVE TypeOK'
    BY <1>26, ToldKeeps DEF JoinOp, Goto
  <1>27. ASSUME NEW p \in Procs, JoinDownloads(p) PROVE TypeOK'
    BY <1>27, ToldKeeps DEF JoinDownloads, Goto
  <1>28. ASSUME NEW p \in Procs, JoinShared(p) PROVE TypeOK'
    BY <1>28 DEF JoinShared, Goto
  <1>29. ASSUME NEW p \in Procs, Auth(p) PROVE TypeOK'
    BY <1>29 DEF Auth, Goto
  <1>30. ASSUME NEW p \in Procs, NEW a \in Accounts, Login(p, a) PROVE TypeOK'
    BY <1>30 DEF Login, Goto
  <1>31. ASSUME NEW p \in Procs, Logout(p) PROVE TypeOK'
    BY <1>31 DEF Logout, Goto
  <1>32. ASSUME NEW p \in Procs, SetSessionLive(p) PROVE TypeOK'
    BY <1>32, PauseType DEF SetSessionLive, Goto
  <1>33. ASSUME DownloadsEnd PROVE TypeOK'
    BY <1>33, OffType DEF DownloadsEnd, Off
  <1>34. ASSUME SharedStart PROVE TypeOK'
    <2>1. shared' \in Background
      BY <1>34 DEF SharedStart, Off, Background
    <2>2. asked' \in Nat
      BY <1>34 DEF SharedStart
    <2> QED
      BY <1>34, <2>1, <2>2 DEF SharedStart
  <1>35. ASSUME SharedOpen PROVE TypeOK'
    BY <1>35 DEF SharedOpen, Background
  <1>36. ASSUME SharedEnd PROVE TypeOK'
    BY <1>36, OffType DEF SharedEnd, Off
  <1>37. CASE UNCHANGED vars
    BY <1>37
  <1>t. ASSUME Triggered PROVE TypeOK'
    BY <1>t, <1>1, <1>2, <1>3, <1>4, <1>5, <1>6, <1>34 DEF Triggered, Procs
  <1>o. ASSUME NEW p \in Procs, Operate(p) PROVE TypeOK'
    BY <1>o, <1>7, <1>8, <1>9, <1>10, <1>11, <1>12, <1>13, <1>14, <1>15, <1>16, <1>17, <1>18, <1>19, <1>20 DEF Operate
  <1>c. ASSUME NEW p \in Procs, CancelStep(p) PROVE TypeOK'
    BY <1>c, <1>21, <1>22, <1>23 DEF CancelStep
  <1>s. ASSUME NEW p \in Procs, SessionStep(p) PROVE TypeOK'
    BY <1>s, <1>24, <1>25, <1>26, <1>27, <1>28, <1>29, <1>30, <1>31, <1>32 DEF SessionStep
  <1>b. ASSUME BackgroundStep PROVE TypeOK'
    BY <1>b, <1>33, <1>35, <1>36 DEF BackgroundStep
  <1> QED
    BY <1>t, <1>o, <1>c, <1>s, <1>b, <1>37 DEF Next, Step

-----------------------------------------------------------------------------
(* The inductive invariants                                                *)

\* While a reset is between the join of the downloads and the end of the
\* clearing, no download runs; an idle shared service has no account.
Quiet ==
    /\ \A p \in Procs : pc[p] \in {"suspend", "clear"} => ~downloads.on
    /\ \A p \in Procs : pc[p] = "clear" => shared.acc = None
    /\ ~shared.on => shared.acc = None

\* A held account that is not paused belongs to a cancelled run that has not
\* come to endSyncOperation yet.
Sticks ==
    held /\ account # None /\ ~paused[account] =>
        cancelled /\ \E p \in Procs : pc[p] \in Opened \ {"ending"}

\* Every step leaves one owner to the registered operation.
LEMMA OneStep ==
    ASSUME pc \in [Procs -> Stages], run \in [Procs -> Nat], seq \in Nat,
           OneOperation, [Next]_vars
    PROVE  OneOperation'
  <1> USE DEF vars, procs, control, session, jobs, OneOperation, Opened
  <1>1. ASSUME AutoTick PROVE OneOperation'
    BY <1>1 DEF AutoTick, Request
  <1>2. ASSUME NEW p \in Procs, NEW j \in {"sync", "full"}, Click(p, j) PROVE OneOperation'
    BY <1>2 DEF Click, Request
  <1>3. ASSUME NEW p \in Procs, ClickReset(p) PROVE OneOperation'
    BY <1>3 DEF ClickReset, Request
  <1>4. ASSUME NEW p \in Procs, ClickCancel(p) PROVE OneOperation'
    BY <1>4 DEF ClickCancel, Request
  <1>5. ASSUME NEW p \in Procs, ClickLogout(p) PROVE OneOperation'
    BY <1>5 DEF ClickLogout, Request
  <1>6. ASSUME NEW p \in Procs, ClickLogin(p) PROVE OneOperation'
    BY <1>6 DEF ClickLogin, Request
  <1>7. ASSUME NEW p \in Procs, BeginRefused(p) PROVE OneOperation'
    BY <1>7 DEF BeginRefused, Goto, Over
  <1>8. ASSUME NEW p \in Procs, Begin(p) PROVE OneOperation'
    BY <1>8 DEF Begin
  <1>9. ASSUME NEW p \in Procs, Open(p) PROVE OneOperation'
    BY <1>9 DEF Open, Goto
  <1>10. ASSUME NEW p \in Procs, Preflight(p) PROVE OneOperation'
    BY <1>10 DEF Preflight, Goto
  <1>11. ASSUME NEW p \in Procs, Quiesce(p) PROVE OneOperation'
    BY <1>11 DEF Quiesce, Goto
  <1>12. ASSUME NEW p \in Procs, Suspend(p) PROVE OneOperation'
    BY <1>12 DEF Suspend, Goto
  <1>13. ASSUME NEW p \in Procs, Clear(p) PROVE OneOperation'
    BY <1>13 DEF Clear, Goto
  <1>14. ASSUME NEW p \in Procs, RoundSucceeds(p) PROVE OneOperation'
    BY <1>14 DEF RoundSucceeds, Goto
  <1>15. ASSUME NEW p \in Procs, RoundFails(p) PROVE OneOperation'
    BY <1>15 DEF RoundFails, Goto
  <1>16. ASSUME NEW p \in Procs, Publish(p) PROVE OneOperation'
    BY <1>16 DEF Publish, Goto
  <1>17. ASSUME NEW p \in Procs, Started(p) PROVE OneOperation'
    BY <1>17 DEF Started, Goto
  <1>18. ASSUME NEW p \in Procs, Resume(p) PROVE OneOperation'
    BY <1>18 DEF Resume, Goto
  <1>19. ASSUME NEW p \in Procs, End(p) PROVE OneOperation'
    BY <1>19 DEF End, Goto
  <1>20. ASSUME NEW p \in Procs, Ended(p) PROVE OneOperation'
    BY <1>20 DEF Ended, Goto, Over
  <1>21. ASSUME NEW p \in Procs, CancelStale(p) PROVE OneOperation'
    BY <1>21 DEF CancelStale, Goto
  <1>22. ASSUME NEW p \in Procs, Cancel(p) PROVE OneOperation'
    BY <1>22 DEF Cancel, Goto
  <1>23. ASSUME NEW p \in Procs, Cancelled(p) PROVE OneOperation'
    BY <1>23 DEF Cancelled, Goto
  <1>24. ASSUME NEW p \in Procs, Stop(p) PROVE OneOperation'
    BY <1>24 DEF Stop, Goto
  <1>25. ASSUME NEW p \in Procs, Block(p) PROVE OneOperation'
    BY <1>25 DEF Block
  <1>26. ASSUME NEW p \in Procs, JoinOp(p) PROVE OneOperation'
    BY <1>26 DEF JoinOp, Goto
  <1>27. ASSUME NEW p \in Procs, JoinDownloads(p) PROVE OneOperation'
    BY <1>27 DEF JoinDownloads, Goto
  <1>28. ASSUME NEW p \in Procs, JoinShared(p) PROVE OneOperation'
    BY <1>28 DEF JoinShared, Goto
  <1>29. ASSUME NEW p \in Procs, Auth(p) PROVE OneOperation'
    BY <1>29 DEF Auth, Goto
  <1>30. ASSUME NEW p \in Procs, NEW a \in Accounts, Login(p, a) PROVE OneOperation'
    BY <1>30 DEF Login, Goto
  <1>31. ASSUME NEW p \in Procs, Logout(p) PROVE OneOperation'
    BY <1>31 DEF Logout, Goto
  <1>32. ASSUME NEW p \in Procs, SetSessionLive(p) PROVE OneOperation'
    BY <1>32 DEF SetSessionLive, Goto
  <1>33. ASSUME DownloadsEnd PROVE OneOperation'
    BY <1>33 DEF DownloadsEnd, Off
  <1>34. ASSUME SharedStart PROVE OneOperation'
    BY <1>34 DEF SharedStart, Off
  <1>35. ASSUME SharedOpen PROVE OneOperation'
    BY <1>35 DEF SharedOpen
  <1>36. ASSUME SharedEnd PROVE OneOperation'
    BY <1>36 DEF SharedEnd, Off
  <1>37. CASE UNCHANGED vars
    BY <1>37
  <1>t. ASSUME Triggered PROVE OneOperation'
    BY <1>t, <1>1, <1>2, <1>3, <1>4, <1>5, <1>6, <1>34 DEF Triggered, Procs
  <1>o. ASSUME NEW p \in Procs, Operate(p) PROVE OneOperation'
    BY <1>o, <1>7, <1>8, <1>9, <1>10, <1>11, <1>12, <1>13, <1>14, <1>15, <1>16, <1>17, <1>18, <1>19, <1>20 DEF Operate
  <1>c. ASSUME NEW p \in Procs, CancelStep(p) PROVE OneOperation'
    BY <1>c, <1>21, <1>22, <1>23 DEF CancelStep
  <1>s. ASSUME NEW p \in Procs, SessionStep(p) PROVE OneOperation'
    BY <1>s, <1>24, <1>25, <1>26, <1>27, <1>28, <1>29, <1>30, <1>31, <1>32 DEF SessionStep
  <1>b. ASSUME BackgroundStep PROVE OneOperation'
    BY <1>b, <1>33, <1>35, <1>36 DEF BackgroundStep
  <1> QED
    BY <1>t, <1>o, <1>c, <1>s, <1>b, <1>37 DEF Next, Step

\* Every step keeps the background quiet for a reset.
LEMMA QuietStep ==
    ASSUME pc \in [Procs -> Stages], run \in [Procs -> Nat], seq \in Nat,
           downloads \in Background, shared \in Background, OneOperation, Quiet, [Next]_vars
    PROVE  Quiet'
  <1> USE DEF vars, procs, control, session, jobs, Quiet
  <1>1. ASSUME AutoTick PROVE Quiet'
    BY <1>1 DEF AutoTick, Request
  <1>2. ASSUME NEW p \in Procs, NEW j \in {"sync", "full"}, Click(p, j) PROVE Quiet'
    BY <1>2 DEF Click, Request
  <1>3. ASSUME NEW p \in Procs, ClickReset(p) PROVE Quiet'
    BY <1>3 DEF ClickReset, Request
  <1>4. ASSUME NEW p \in Procs, ClickCancel(p) PROVE Quiet'
    BY <1>4 DEF ClickCancel, Request
  <1>5. ASSUME NEW p \in Procs, ClickLogout(p) PROVE Quiet'
    BY <1>5 DEF ClickLogout, Request
  <1>6. ASSUME NEW p \in Procs, ClickLogin(p) PROVE Quiet'
    BY <1>6 DEF ClickLogin, Request
  <1>7. ASSUME NEW p \in Procs, BeginRefused(p) PROVE Quiet'
    BY <1>7 DEF BeginRefused, Goto, Over
  <1>8. ASSUME NEW p \in Procs, Begin(p) PROVE Quiet'
    BY <1>8 DEF Begin
  <1>9. ASSUME NEW p \in Procs, Open(p) PROVE Quiet'
    BY <1>9 DEF Open, Goto
  <1>10. ASSUME NEW p \in Procs, Preflight(p) PROVE Quiet'
    BY <1>10, ToldKeeps DEF Preflight, Goto
  <1>11. ASSUME NEW p \in Procs, Quiesce(p) PROVE Quiet'
    BY <1>11, ToldKeeps DEF Quiesce, Goto
  <1>12. ASSUME NEW p \in Procs, Suspend(p) PROVE Quiet'
    BY <1>12 DEF Suspend, Goto
  <1>13. ASSUME NEW p \in Procs, Clear(p) PROVE Quiet'
    BY <1>13 DEF Clear, Goto
  <1>14. ASSUME NEW p \in Procs, RoundSucceeds(p) PROVE Quiet'
    BY <1>14, ToldKeeps DEF RoundSucceeds, Goto
  <1>15. ASSUME NEW p \in Procs, RoundFails(p) PROVE Quiet'
    BY <1>15 DEF RoundFails, Goto
  <1>16. ASSUME NEW p \in Procs, Publish(p) PROVE Quiet'
    BY <1>16 DEF Publish, Goto, Background, Off, Opened, OneOperation
  <1>17. ASSUME NEW p \in Procs, Started(p) PROVE Quiet'
    BY <1>17 DEF Started, Goto
  <1>18. ASSUME NEW p \in Procs, Resume(p) PROVE Quiet'
    BY <1>18 DEF Resume, Goto
  <1>19. ASSUME NEW p \in Procs, End(p) PROVE Quiet'
    BY <1>19, ToldKeeps DEF End, Goto
  <1>20. ASSUME NEW p \in Procs, Ended(p) PROVE Quiet'
    BY <1>20 DEF Ended, Goto, Over
  <1>21. ASSUME NEW p \in Procs, CancelStale(p) PROVE Quiet'
    BY <1>21 DEF CancelStale, Goto
  <1>22. ASSUME NEW p \in Procs, Cancel(p) PROVE Quiet'
    BY <1>22 DEF Cancel, Goto
  <1>23. ASSUME NEW p \in Procs, Cancelled(p) PROVE Quiet'
    BY <1>23 DEF Cancelled, Goto
  <1>24. ASSUME NEW p \in Procs, Stop(p) PROVE Quiet'
    BY <1>24 DEF Stop, Goto
  <1>25. ASSUME NEW p \in Procs, Block(p) PROVE Quiet'
    BY <1>25 DEF Block
  <1>26. ASSUME NEW p \in Procs, JoinOp(p) PROVE Quiet'
    BY <1>26, ToldKeeps DEF JoinOp, Goto
  <1>27. ASSUME NEW p \in Procs, JoinDownloads(p) PROVE Quiet'
    BY <1>27, ToldKeeps DEF JoinDownloads, Goto
  <1>28. ASSUME NEW p \in Procs, JoinShared(p) PROVE Quiet'
    BY <1>28 DEF JoinShared, Goto
  <1>29. ASSUME NEW p \in Procs, Auth(p) PROVE Quiet'
    BY <1>29 DEF Auth, Goto
  <1>30. ASSUME NEW p \in Procs, NEW a \in Accounts, Login(p, a) PROVE Quiet'
    BY <1>30 DEF Login, Goto
  <1>31. ASSUME NEW p \in Procs, Logout(p) PROVE Quiet'
    BY <1>31 DEF Logout, Goto
  <1>32. ASSUME NEW p \in Procs, SetSessionLive(p) PROVE Quiet'
    BY <1>32 DEF SetSessionLive, Goto
  <1>33. ASSUME DownloadsEnd PROVE Quiet'
    BY <1>33, OffType DEF DownloadsEnd, Off
  <1>34. ASSUME SharedStart PROVE Quiet'
    BY <1>34 DEF SharedStart, Off, Background, Off, Opened, OneOperation
  <1>35. ASSUME SharedOpen PROVE Quiet'
    BY <1>35 DEF SharedOpen, Background, Off, Opened, OneOperation
  <1>36. ASSUME SharedEnd PROVE Quiet'
    BY <1>36, OffType DEF SharedEnd, Off
  <1>37. CASE UNCHANGED vars
    BY <1>37
  <1>t. ASSUME Triggered PROVE Quiet'
    BY <1>t, <1>1, <1>2, <1>3, <1>4, <1>5, <1>6, <1>34 DEF Triggered, Procs
  <1>o. ASSUME NEW p \in Procs, Operate(p) PROVE Quiet'
    BY <1>o, <1>7, <1>8, <1>9, <1>10, <1>11, <1>12, <1>13, <1>14, <1>15, <1>16, <1>17, <1>18, <1>19, <1>20 DEF Operate
  <1>c. ASSUME NEW p \in Procs, CancelStep(p) PROVE Quiet'
    BY <1>c, <1>21, <1>22, <1>23 DEF CancelStep
  <1>s. ASSUME NEW p \in Procs, SessionStep(p) PROVE Quiet'
    BY <1>s, <1>24, <1>25, <1>26, <1>27, <1>28, <1>29, <1>30, <1>31, <1>32 DEF SessionStep
  <1>b. ASSUME BackgroundStep PROVE Quiet'
    BY <1>b, <1>33, <1>35, <1>36 DEF BackgroundStep
  <1> QED
    BY <1>t, <1>o, <1>c, <1>s, <1>b, <1>37 DEF Next, Step

\* Every step keeps what a cancel has paused.
LEMMA SticksStep ==
    ASSUME pc \in [Procs -> Stages], run \in [Procs -> Nat], seq \in Nat,
           paused \in [Accounts -> BOOLEAN], account \in Accounts \cup {None},
           None \notin Accounts, OneOperation, Sticks, [Next]_vars
    PROVE  Sticks'
  <1> USE DEF vars, procs, control, session, jobs, Sticks, OneOperation, Opened
  <1>1. ASSUME AutoTick PROVE Sticks'
    BY <1>1 DEF AutoTick, Request
  <1>2. ASSUME NEW p \in Procs, NEW j \in {"sync", "full"}, Click(p, j) PROVE Sticks'
    BY <1>2 DEF Click, Request, Pause
  <1>3. ASSUME NEW p \in Procs, ClickReset(p) PROVE Sticks'
    BY <1>3 DEF ClickReset, Request
  <1>4. ASSUME NEW p \in Procs, ClickCancel(p) PROVE Sticks'
    BY <1>4 DEF ClickCancel, Request
  <1>5. ASSUME NEW p \in Procs, ClickLogout(p) PROVE Sticks'
    BY <1>5 DEF ClickLogout, Request
  <1>6. ASSUME NEW p \in Procs, ClickLogin(p) PROVE Sticks'
    BY <1>6 DEF ClickLogin, Request
  <1>7. ASSUME NEW p \in Procs, BeginRefused(p) PROVE Sticks'
    BY <1>7 DEF BeginRefused, Goto, Over
  <1>8. ASSUME NEW p \in Procs, Begin(p) PROVE Sticks'
    BY <1>8 DEF Begin
  <1>9. ASSUME NEW p \in Procs, Open(p) PROVE Sticks'
    BY <1>9 DEF Open, Goto
  <1>10. ASSUME NEW p \in Procs, Preflight(p) PROVE Sticks'
    BY <1>10 DEF Preflight, Goto
  <1>11. ASSUME NEW p \in Procs, Quiesce(p) PROVE Sticks'
    BY <1>11 DEF Quiesce, Goto
  <1>12. ASSUME NEW p \in Procs, Suspend(p) PROVE Sticks'
    BY <1>12 DEF Suspend, Goto
  <1>13. ASSUME NEW p \in Procs, Clear(p) PROVE Sticks'
    BY <1>13 DEF Clear, Goto
  <1>14. ASSUME NEW p \in Procs, RoundSucceeds(p) PROVE Sticks'
    BY <1>14 DEF RoundSucceeds, Goto
  <1>15. ASSUME NEW p \in Procs, RoundFails(p) PROVE Sticks'
    BY <1>15 DEF RoundFails, Goto
  <1>16. ASSUME NEW p \in Procs, Publish(p) PROVE Sticks'
    BY <1>16 DEF Publish, Goto
  <1>17. ASSUME NEW p \in Procs, Started(p) PROVE Sticks'
    BY <1>17 DEF Started, Goto, Pause
  <1>18. ASSUME NEW p \in Procs, Resume(p) PROVE Sticks'
    BY <1>18 DEF Resume, Goto
  <1>19. ASSUME NEW p \in Procs, End(p) PROVE Sticks'
    BY <1>19 DEF End, Goto, Pause
  <1>20. ASSUME NEW p \in Procs, Ended(p) PROVE Sticks'
    BY <1>20 DEF Ended, Goto, Over
  <1>21. ASSUME NEW p \in Procs, CancelStale(p) PROVE Sticks'
    BY <1>21 DEF CancelStale, Goto
  <1>22. ASSUME NEW p \in Procs, Cancel(p) PROVE Sticks'
    BY <1>22 DEF Cancel, Goto, Pause
  <1>23. ASSUME NEW p \in Procs, Cancelled(p) PROVE Sticks'
    BY <1>23 DEF Cancelled, Goto
  <1>24. ASSUME NEW p \in Procs, Stop(p) PROVE Sticks'
    BY <1>24 DEF Stop, Goto
  <1>25. ASSUME NEW p \in Procs, Block(p) PROVE Sticks'
    BY <1>25 DEF Block
  <1>26. ASSUME NEW p \in Procs, JoinOp(p) PROVE Sticks'
    BY <1>26 DEF JoinOp, Goto
  <1>27. ASSUME NEW p \in Procs, JoinDownloads(p) PROVE Sticks'
    BY <1>27 DEF JoinDownloads, Goto
  <1>28. ASSUME NEW p \in Procs, JoinShared(p) PROVE Sticks'
    BY <1>28 DEF JoinShared, Goto
  <1>29. ASSUME NEW p \in Procs, Auth(p) PROVE Sticks'
    BY <1>29 DEF Auth, Goto
  <1>30. ASSUME NEW p \in Procs, NEW a \in Accounts, Login(p, a) PROVE Sticks'
    BY <1>30 DEF Login, Goto
  <1>31. ASSUME NEW p \in Procs, Logout(p) PROVE Sticks'
    BY <1>31 DEF Logout, Goto
  <1>32. ASSUME NEW p \in Procs, SetSessionLive(p) PROVE Sticks'
    BY <1>32 DEF SetSessionLive, Goto, Pause
  <1>33. ASSUME DownloadsEnd PROVE Sticks'
    BY <1>33 DEF DownloadsEnd, Off
  <1>34. ASSUME SharedStart PROVE Sticks'
    BY <1>34 DEF SharedStart, Off
  <1>35. ASSUME SharedOpen PROVE Sticks'
    BY <1>35 DEF SharedOpen
  <1>36. ASSUME SharedEnd PROVE Sticks'
    BY <1>36 DEF SharedEnd, Off
  <1>37. CASE UNCHANGED vars
    BY <1>37
  <1>t. ASSUME Triggered PROVE Sticks'
    BY <1>t, <1>1, <1>2, <1>3, <1>4, <1>5, <1>6, <1>34 DEF Triggered, Procs
  <1>o. ASSUME NEW p \in Procs, Operate(p) PROVE Sticks'
    BY <1>o, <1>7, <1>8, <1>9, <1>10, <1>11, <1>12, <1>13, <1>14, <1>15, <1>16, <1>17, <1>18, <1>19, <1>20 DEF Operate
  <1>c. ASSUME NEW p \in Procs, CancelStep(p) PROVE Sticks'
    BY <1>c, <1>21, <1>22, <1>23 DEF CancelStep
  <1>s. ASSUME NEW p \in Procs, SessionStep(p) PROVE Sticks'
    BY <1>s, <1>24, <1>25, <1>26, <1>27, <1>28, <1>29, <1>30, <1>31, <1>32 DEF SessionStep
  <1>b. ASSUME BackgroundStep PROVE Sticks'
    BY <1>b, <1>33, <1>35, <1>36 DEF BackgroundStep
  <1> QED
    BY <1>t, <1>o, <1>c, <1>s, <1>b, <1>37 DEF Next, Step

\* The step of CancelsItsOwn.
CancelsOwn ==
    cancelled' /\ ~cancelled =>
        \E p \in Procs : \/ pc[p] = "cancel" /\ run[p] = op
                         \/ pc[p] = "block"

\* Only a cancel of the registered operation, or the end of the session,
\* cancels.
LEMMA OwnStep ==
    ASSUME pc \in [Procs -> Stages], run \in [Procs -> Nat], seq \in Nat, cancelled \in BOOLEAN, [Next]_vars
    PROVE  CancelsOwn
  <1> USE DEF vars, procs, control, session, jobs, CancelsOwn
  <1>1. ASSUME AutoTick PROVE CancelsOwn
    BY <1>1 DEF AutoTick, Request
  <1>2. ASSUME NEW p \in Procs, NEW j \in {"sync", "full"}, Click(p, j) PROVE CancelsOwn
    BY <1>2 DEF Click, Request
  <1>3. ASSUME NEW p \in Procs, ClickReset(p) PROVE CancelsOwn
    BY <1>3 DEF ClickReset, Request
  <1>4. ASSUME NEW p \in Procs, ClickCancel(p) PROVE CancelsOwn
    BY <1>4 DEF ClickCancel, Request
  <1>5. ASSUME NEW p \in Procs, ClickLogout(p) PROVE CancelsOwn
    BY <1>5 DEF ClickLogout, Request
  <1>6. ASSUME NEW p \in Procs, ClickLogin(p) PROVE CancelsOwn
    BY <1>6 DEF ClickLogin, Request
  <1>7. ASSUME NEW p \in Procs, BeginRefused(p) PROVE CancelsOwn
    BY <1>7 DEF BeginRefused, Goto, Over
  <1>8. ASSUME NEW p \in Procs, Begin(p) PROVE CancelsOwn
    BY <1>8 DEF Begin
  <1>9. ASSUME NEW p \in Procs, Open(p) PROVE CancelsOwn
    BY <1>9 DEF Open, Goto
  <1>10. ASSUME NEW p \in Procs, Preflight(p) PROVE CancelsOwn
    BY <1>10 DEF Preflight, Goto
  <1>11. ASSUME NEW p \in Procs, Quiesce(p) PROVE CancelsOwn
    BY <1>11 DEF Quiesce, Goto
  <1>12. ASSUME NEW p \in Procs, Suspend(p) PROVE CancelsOwn
    BY <1>12 DEF Suspend, Goto
  <1>13. ASSUME NEW p \in Procs, Clear(p) PROVE CancelsOwn
    BY <1>13 DEF Clear, Goto
  <1>14. ASSUME NEW p \in Procs, RoundSucceeds(p) PROVE CancelsOwn
    BY <1>14 DEF RoundSucceeds, Goto
  <1>15. ASSUME NEW p \in Procs, RoundFails(p) PROVE CancelsOwn
    BY <1>15 DEF RoundFails, Goto
  <1>16. ASSUME NEW p \in Procs, Publish(p) PROVE CancelsOwn
    BY <1>16 DEF Publish, Goto
  <1>17. ASSUME NEW p \in Procs, Started(p) PROVE CancelsOwn
    BY <1>17 DEF Started, Goto
  <1>18. ASSUME NEW p \in Procs, Resume(p) PROVE CancelsOwn
    BY <1>18 DEF Resume, Goto
  <1>19. ASSUME NEW p \in Procs, End(p) PROVE CancelsOwn
    BY <1>19 DEF End, Goto
  <1>20. ASSUME NEW p \in Procs, Ended(p) PROVE CancelsOwn
    BY <1>20 DEF Ended, Goto, Over
  <1>21. ASSUME NEW p \in Procs, CancelStale(p) PROVE CancelsOwn
    BY <1>21 DEF CancelStale, Goto
  <1>22. ASSUME NEW p \in Procs, Cancel(p) PROVE CancelsOwn
    BY <1>22 DEF Cancel, Goto
  <1>23. ASSUME NEW p \in Procs, Cancelled(p) PROVE CancelsOwn
    BY <1>23 DEF Cancelled, Goto
  <1>24. ASSUME NEW p \in Procs, Stop(p) PROVE CancelsOwn
    BY <1>24 DEF Stop, Goto
  <1>25. ASSUME NEW p \in Procs, Block(p) PROVE CancelsOwn
    BY <1>25 DEF Block
  <1>26. ASSUME NEW p \in Procs, JoinOp(p) PROVE CancelsOwn
    BY <1>26 DEF JoinOp, Goto
  <1>27. ASSUME NEW p \in Procs, JoinDownloads(p) PROVE CancelsOwn
    BY <1>27 DEF JoinDownloads, Goto
  <1>28. ASSUME NEW p \in Procs, JoinShared(p) PROVE CancelsOwn
    BY <1>28 DEF JoinShared, Goto
  <1>29. ASSUME NEW p \in Procs, Auth(p) PROVE CancelsOwn
    BY <1>29 DEF Auth, Goto
  <1>30. ASSUME NEW p \in Procs, NEW a \in Accounts, Login(p, a) PROVE CancelsOwn
    BY <1>30 DEF Login, Goto
  <1>31. ASSUME NEW p \in Procs, Logout(p) PROVE CancelsOwn
    BY <1>31 DEF Logout, Goto
  <1>32. ASSUME NEW p \in Procs, SetSessionLive(p) PROVE CancelsOwn
    BY <1>32 DEF SetSessionLive, Goto
  <1>33. ASSUME DownloadsEnd PROVE CancelsOwn
    BY <1>33 DEF DownloadsEnd, Off
  <1>34. ASSUME SharedStart PROVE CancelsOwn
    BY <1>34 DEF SharedStart, Off
  <1>35. ASSUME SharedOpen PROVE CancelsOwn
    BY <1>35 DEF SharedOpen
  <1>36. ASSUME SharedEnd PROVE CancelsOwn
    BY <1>36 DEF SharedEnd, Off
  <1>37. CASE UNCHANGED vars
    BY <1>37
  <1>t. ASSUME Triggered PROVE CancelsOwn
    BY <1>t, <1>1, <1>2, <1>3, <1>4, <1>5, <1>6, <1>34 DEF Triggered, Procs
  <1>o. ASSUME NEW p \in Procs, Operate(p) PROVE CancelsOwn
    BY <1>o, <1>7, <1>8, <1>9, <1>10, <1>11, <1>12, <1>13, <1>14, <1>15, <1>16, <1>17, <1>18, <1>19, <1>20 DEF Operate
  <1>c. ASSUME NEW p \in Procs, CancelStep(p) PROVE CancelsOwn
    BY <1>c, <1>21, <1>22, <1>23 DEF CancelStep
  <1>s. ASSUME NEW p \in Procs, SessionStep(p) PROVE CancelsOwn
    BY <1>s, <1>24, <1>25, <1>26, <1>27, <1>28, <1>29, <1>30, <1>31, <1>32 DEF SessionStep
  <1>b. ASSUME BackgroundStep PROVE CancelsOwn
    BY <1>b, <1>33, <1>35, <1>36 DEF BackgroundStep
  <1> QED
    BY <1>t, <1>o, <1>c, <1>s, <1>b, <1>37 DEF Next, Step

-----------------------------------------------------------------------------
(* The theorems                                                            *)

IInv == TypeOK /\ OneOperation /\ Quiet /\ Sticks

\* The application starts with nothing running.
LEMMA InitIInv == SyncControlAssumption /\ Init => IInv
  <1> SUFFICES ASSUME SyncControlAssumption, Init PROVE IInv
    OBVIOUS
  <1>1. TypeOK
    BY OffType DEF Init, TypeOK, Stages, Asked
  <1>2. OneOperation /\ Quiet
    BY OffType DEF Init, OneOperation, Quiet, Opened
  <1>3. Sticks
    BY DEF Init, Sticks
  <1> QED
    BY <1>1, <1>2, <1>3 DEF IInv

\* Every step keeps the invariant.
LEMMA StepIInv == SyncControlAssumption /\ IInv /\ [Next]_vars => IInv'
  <1> SUFFICES ASSUME SyncControlAssumption, IInv, [Next]_vars PROVE IInv'
    OBVIOUS
  <1>1. TypeOK'
    BY TypeStep DEF IInv
  <1>2. /\ pc \in [Procs -> Stages] /\ run \in [Procs -> Nat] /\ seq \in Nat
        /\ downloads \in Background /\ shared \in Background
        /\ paused \in [Accounts -> BOOLEAN] /\ account \in Accounts \cup {None}
        /\ None \notin Accounts
    BY DEF IInv, TypeOK, SyncControlAssumption
  <1>3. OneOperation'
    BY <1>2, OneStep DEF IInv
  <1>4. Quiet'
    BY <1>2, QuietStep DEF IInv
  <1>5. Sticks'
    BY <1>2, SticksStep DEF IInv
  <1> QED
    BY <1>1, <1>3, <1>4, <1>5 DEF IInv

\* The inductive invariant holds in every reachable state.
THEOREM Invariant == Spec => []IInv
  <1>1. SyncControlAssumption
    BY SyncControlAssumption
  <1> QED
    BY <1>1, InitIInv, StepIInv, PTL DEF Spec

\* The types hold for any number of goroutines.
THEOREM TypeCorrect == Spec => []TypeOK
  <1>1. IInv => TypeOK
    BY DEF IInv
  <1> QED
    BY <1>1, Invariant, PTL

\* app.go, beginSyncOperation: however many requests, timer ticks, cancels,
\* logins and logouts interleave, the registered operation has one owner.
THEOREM OwnerAlone == Spec => []OneOperation
  <1>1. IInv => OneOperation
    BY DEF IInv
  <1> QED
    BY <1>1, Invariant, PTL

\* app.go, resetSync: nothing in the background holds the account's files or
\* rows while a reset clears them.
THEOREM ResetIsAlone == Spec => []ResetAlone
  <1>1. IInv => ResetAlone
    BY DEF IInv, Quiet, ResetAlone
  <1> QED
    BY <1>1, Invariant, PTL

\* app_sync_control.go, CancelSync: once a cancelled run is over the account
\* is paused, whatever the run and the session did in the meantime.
THEOREM CancelIsKept == Spec => []CancelSticks
  <1>1. ASSUME IInv PROVE CancelSticks
    BY <1>1 DEF IInv, OneOperation, Sticks, CancelSticks, Opened
  <1> QED
    BY <1>1, Invariant, PTL

\* app_sync_control.go:56, "a delayed cancel from an earlier dialog must never
\* cancel a newer sync".
THEOREM CancelOwnRun == Spec => CancelsItsOwn
  <1>1. ASSUME IInv, [Next]_vars PROVE [CancelsOwn]_vars
    BY <1>1, OwnStep DEF IInv, TypeOK
  <1> QED
    BY <1>1, Invariant, PTL DEF Spec, CancelsItsOwn, CancelsOwn

-----------------------------------------------------------------------------
(* One account at a time                                                   *)

\* Stages in which the registered operation has read the account.
Working == {"preflight", "quiesce", "suspend", "clear", "round", "publish", "started", "resume"}

\* A login or logout between blockSync and the switch of the account.
Joining == {"joinOp", "joinDownloads", "joinShared", "auth", "switch"}

\* The operation works on the active account; downloads that are off have none.
WritesActive ==
    /\ \A p \in Procs : pc[p] \in Working => writer = account /\ account # None
    /\ writer # None => \E p \in Procs : pc[p] \in Working
    /\ ~downloads.on => downloads.acc = None

\* What a login or logout has joined stays joined until it switches.
Joined ==
    \A s \in Procs :
        /\ pc[s] \in Joining => blocked
        /\ pc[s] = "joinOp" => op \in {0, run[s]}
        /\ pc[s] \in Joining \ {"joinOp"} => op = 0
        /\ pc[s] \in {"joinShared", "auth", "switch"} => ~downloads.on /\ suspended
        /\ pc[s] \in {"auth", "switch"} => ~shared.on

\* A login goes live only while no other login or logout is between the two.
NoOverlap == \A s, t \in Procs : pc[s] = "live" /\ pc[t] \in Joining => s = t

\* Only the goroutines of logins and logouts end a session.
Roles ==
    \A p \in Procs :
        /\ job[p] \in {"login", "logout"} => p \in Sessions
        /\ pc[p] \in Joining \cup {"stop", "block", "live"} => p \in Sessions

\* Every step keeps the roles.
LEMMA RolesStep ==
    ASSUME pc \in [Procs -> Stages], job \in [Procs -> Asked], SyncControlAssumption, Roles, [Next]_vars
    PROVE  Roles'
  <1> USE DEF vars, procs, control, session, jobs, Roles, Joining
  <1>1. ASSUME AutoTick PROVE Roles'
    BY <1>1 DEF AutoTick, Request
  <1>2. ASSUME NEW p \in Procs, NEW j \in {"sync", "full"}, Click(p, j) PROVE Roles'
    BY <1>2 DEF Click, Request
  <1>3. ASSUME NEW p \in Procs, ClickReset(p) PROVE Roles'
    BY <1>3 DEF ClickReset, Request
  <1>4. ASSUME NEW p \in Procs, ClickCancel(p) PROVE Roles'
    BY <1>4 DEF ClickCancel, Request
  <1>5. ASSUME NEW p \in Sessions, ClickLogout(p) PROVE Roles'
    BY <1>5 DEF ClickLogout, Request
  <1>6. ASSUME NEW p \in Sessions, ClickLogin(p) PROVE Roles'
    BY <1>6 DEF ClickLogin, Request
  <1>7. ASSUME NEW p \in Procs, BeginRefused(p) PROVE Roles'
    BY <1>7 DEF BeginRefused, Goto, Over
  <1>8. ASSUME NEW p \in Procs, Begin(p) PROVE Roles'
    BY <1>8 DEF Begin
  <1>9. ASSUME NEW p \in Procs, Open(p) PROVE Roles'
    BY <1>9 DEF Open, Goto
  <1>10. ASSUME NEW p \in Procs, Preflight(p) PROVE Roles'
    BY <1>10, ToldKeeps DEF Preflight, Goto
  <1>11. ASSUME NEW p \in Procs, Quiesce(p) PROVE Roles'
    BY <1>11, ToldKeeps DEF Quiesce, Goto
  <1>12. ASSUME NEW p \in Procs, Suspend(p) PROVE Roles'
    BY <1>12 DEF Suspend, Goto
  <1>13. ASSUME NEW p \in Procs, Clear(p) PROVE Roles'
    BY <1>13 DEF Clear, Goto
  <1>14. ASSUME NEW p \in Procs, RoundSucceeds(p) PROVE Roles'
    BY <1>14, ToldKeeps DEF RoundSucceeds, Goto
  <1>15. ASSUME NEW p \in Procs, RoundFails(p) PROVE Roles'
    BY <1>15 DEF RoundFails, Goto
  <1>16. ASSUME NEW p \in Procs, Publish(p) PROVE Roles'
    BY <1>16 DEF Publish, Goto
  <1>17. ASSUME NEW p \in Procs, Started(p) PROVE Roles'
    BY <1>17 DEF Started, Goto
  <1>18. ASSUME NEW p \in Procs, Resume(p) PROVE Roles'
    BY <1>18 DEF Resume, Goto
  <1>19. ASSUME NEW p \in Procs, End(p) PROVE Roles'
    BY <1>19, ToldKeeps DEF End, Goto
  <1>20. ASSUME NEW p \in Procs, Ended(p) PROVE Roles'
    BY <1>20 DEF Ended, Goto, Over
  <1>21. ASSUME NEW p \in Procs, CancelStale(p) PROVE Roles'
    BY <1>21 DEF CancelStale, Goto
  <1>22. ASSUME NEW p \in Procs, Cancel(p) PROVE Roles'
    BY <1>22 DEF Cancel, Goto
  <1>23. ASSUME NEW p \in Procs, Cancelled(p) PROVE Roles'
    BY <1>23 DEF Cancelled, Goto
  <1>24. ASSUME NEW p \in Procs, Stop(p) PROVE Roles'
    BY <1>24 DEF Stop, Goto
  <1>25. ASSUME NEW p \in Procs, Block(p) PROVE Roles'
    BY <1>25 DEF Block
  <1>26. ASSUME NEW p \in Procs, JoinOp(p) PROVE Roles'
    BY <1>26, ToldKeeps DEF JoinOp, Goto
  <1>27. ASSUME NEW p \in Procs, JoinDownloads(p) PROVE Roles'
    BY <1>27, ToldKeeps DEF JoinDownloads, Goto
  <1>28. ASSUME NEW p \in Procs, JoinShared(p) PROVE Roles'
    BY <1>28 DEF JoinShared, Goto
  <1>29. ASSUME NEW p \in Procs, Auth(p) PROVE Roles'
    BY <1>29 DEF Auth, Goto
  <1>30. ASSUME NEW p \in Procs, NEW a \in Accounts, Login(p, a) PROVE Roles'
    BY <1>30 DEF Login, Goto
  <1>31. ASSUME NEW p \in Procs, Logout(p) PROVE Roles'
    BY <1>31 DEF Logout, Goto
  <1>32. ASSUME NEW p \in Procs, SetSessionLive(p) PROVE Roles'
    BY <1>32 DEF SetSessionLive, Goto
  <1>33. ASSUME DownloadsEnd PROVE Roles'
    BY <1>33, OffType DEF DownloadsEnd, Off
  <1>34. ASSUME SharedStart PROVE Roles'
    BY <1>34 DEF SharedStart, Off
  <1>35. ASSUME SharedOpen PROVE Roles'
    BY <1>35 DEF SharedOpen
  <1>36. ASSUME SharedEnd PROVE Roles'
    BY <1>36, OffType DEF SharedEnd, Off
  <1>37. CASE UNCHANGED vars
    BY <1>37
  <1>t. ASSUME Triggered PROVE Roles'
    BY <1>t, <1>1, <1>2, <1>3, <1>4, <1>5, <1>6, <1>34 DEF Triggered, Procs
  <1>o. ASSUME NEW p \in Procs, Operate(p) PROVE Roles'
    BY <1>o, <1>7, <1>8, <1>9, <1>10, <1>11, <1>12, <1>13, <1>14, <1>15, <1>16, <1>17, <1>18, <1>19, <1>20 DEF Operate
  <1>c. ASSUME NEW p \in Procs, CancelStep(p) PROVE Roles'
    BY <1>c, <1>21, <1>22, <1>23 DEF CancelStep
  <1>s. ASSUME NEW p \in Procs, SessionStep(p) PROVE Roles'
    BY <1>s, <1>24, <1>25, <1>26, <1>27, <1>28, <1>29, <1>30, <1>31, <1>32 DEF SessionStep
  <1>b. ASSUME BackgroundStep PROVE Roles'
    BY <1>b, <1>33, <1>35, <1>36 DEF BackgroundStep
  <1> QED
    BY <1>t, <1>o, <1>c, <1>s, <1>b, <1>37 DEF Next, Step

\* Every step of an operation or a job keeps to the account, as long as no two
\* logins overlap.
LEMMA ActiveStep ==
    ASSUME pc \in [Procs -> Stages], run \in [Procs -> Nat], seq \in Nat, None \notin Accounts,
           downloads \in Background, OneOperation, WritesActive, Joined, [Next]_vars
    PROVE  WritesActive'
  <1> USE DEF vars, procs, control, session, jobs, WritesActive, OneOperation, Opened, Working
  <1>a. ASSUME NEW p \in Procs, pc[p] = "switch" PROVE \A q \in Procs : pc[q] \notin Opened
    BY <1>a DEF Joined, Joining
  <1>1. ASSUME AutoTick PROVE WritesActive'
    BY <1>1 DEF AutoTick, Request
  <1>2. ASSUME NEW p \in Procs, NEW j \in {"sync", "full"}, Click(p, j) PROVE WritesActive'
    BY <1>2 DEF Click, Request
  <1>3. ASSUME NEW p \in Procs, ClickReset(p) PROVE WritesActive'
    BY <1>3 DEF ClickReset, Request
  <1>4. ASSUME NEW p \in Procs, ClickCancel(p) PROVE WritesActive'
    BY <1>4 DEF ClickCancel, Request
  <1>5. ASSUME NEW p \in Procs, ClickLogout(p) PROVE WritesActive'
    BY <1>5 DEF ClickLogout, Request
  <1>6. ASSUME NEW p \in Procs, ClickLogin(p) PROVE WritesActive'
    BY <1>6 DEF ClickLogin, Request
  <1>7. ASSUME NEW p \in Procs, BeginRefused(p) PROVE WritesActive'
    BY <1>7 DEF BeginRefused, Goto, Over
  <1>8. ASSUME NEW p \in Procs, Begin(p) PROVE WritesActive'
    BY <1>8 DEF Begin
  <1>9. ASSUME NEW p \in Procs, Open(p) PROVE WritesActive'
    BY <1>9 DEF Open, Goto
  <1>10. ASSUME NEW p \in Procs, Preflight(p) PROVE WritesActive'
    BY <1>10, ToldKeeps DEF Preflight, Goto
  <1>11. ASSUME NEW p \in Procs, Quiesce(p) PROVE WritesActive'
    BY <1>11, ToldKeeps DEF Quiesce, Goto
  <1>12. ASSUME NEW p \in Procs, Suspend(p) PROVE WritesActive'
    BY <1>12 DEF Suspend, Goto
  <1>13. ASSUME NEW p \in Procs, Clear(p) PROVE WritesActive'
    BY <1>13 DEF Clear, Goto
  <1>14. ASSUME NEW p \in Procs, RoundSucceeds(p) PROVE WritesActive'
    BY <1>14, ToldKeeps DEF RoundSucceeds, Goto
  <1>15. ASSUME NEW p \in Procs, RoundFails(p) PROVE WritesActive'
    BY <1>15 DEF RoundFails, Goto
  <1>16. ASSUME NEW p \in Procs, Publish(p) PROVE WritesActive'
    BY <1>16 DEF Publish, Goto
  <1>17. ASSUME NEW p \in Procs, Started(p) PROVE WritesActive'
    BY <1>17 DEF Started, Goto
  <1>18. ASSUME NEW p \in Procs, Resume(p) PROVE WritesActive'
    BY <1>18 DEF Resume, Goto
  <1>19. ASSUME NEW p \in Procs, End(p) PROVE WritesActive'
    BY <1>19, ToldKeeps DEF End, Goto
  <1>20. ASSUME NEW p \in Procs, Ended(p) PROVE WritesActive'
    BY <1>20 DEF Ended, Goto, Over
  <1>21. ASSUME NEW p \in Procs, CancelStale(p) PROVE WritesActive'
    BY <1>21 DEF CancelStale, Goto
  <1>22. ASSUME NEW p \in Procs, Cancel(p) PROVE WritesActive'
    BY <1>22 DEF Cancel, Goto
  <1>23. ASSUME NEW p \in Procs, Cancelled(p) PROVE WritesActive'
    BY <1>23 DEF Cancelled, Goto
  <1>24. ASSUME NEW p \in Procs, Stop(p) PROVE WritesActive'
    BY <1>24 DEF Stop, Goto
  <1>25. ASSUME NEW p \in Procs, Block(p) PROVE WritesActive'
    BY <1>25 DEF Block
  <1>26. ASSUME NEW p \in Procs, JoinOp(p) PROVE WritesActive'
    BY <1>26, ToldKeeps DEF JoinOp, Goto
  <1>27. ASSUME NEW p \in Procs, JoinDownloads(p) PROVE WritesActive'
    BY <1>27, ToldKeeps DEF JoinDownloads, Goto
  <1>28. ASSUME NEW p \in Procs, JoinShared(p) PROVE WritesActive'
    BY <1>28 DEF JoinShared, Goto
  <1>29. ASSUME NEW p \in Procs, Auth(p) PROVE WritesActive'
    BY <1>29 DEF Auth, Goto
  <1>30. ASSUME NEW p \in Procs, NEW a \in Accounts, Login(p, a) PROVE WritesActive'
    BY <1>a, <1>30 DEF Login, Goto
  <1>31. ASSUME NEW p \in Procs, Logout(p) PROVE WritesActive'
    BY <1>a, <1>31 DEF Logout, Goto
  <1>32. ASSUME NEW p \in Procs, SetSessionLive(p) PROVE WritesActive'
    BY <1>32 DEF SetSessionLive, Goto
  <1>33. ASSUME DownloadsEnd PROVE WritesActive'
    BY <1>33, OffType DEF DownloadsEnd, Off
  <1>34. ASSUME SharedStart PROVE WritesActive'
    BY <1>34 DEF SharedStart, Off
  <1>35. ASSUME SharedOpen PROVE WritesActive'
    BY <1>35 DEF SharedOpen
  <1>36. ASSUME SharedEnd PROVE WritesActive'
    BY <1>36, OffType DEF SharedEnd, Off
  <1>37. CASE UNCHANGED vars
    BY <1>37
  <1>t. ASSUME Triggered PROVE WritesActive'
    BY <1>t, <1>1, <1>2, <1>3, <1>4, <1>5, <1>6, <1>34 DEF Triggered, Procs
  <1>o. ASSUME NEW p \in Procs, Operate(p) PROVE WritesActive'
    BY <1>o, <1>7, <1>8, <1>9, <1>10, <1>11, <1>12, <1>13, <1>14, <1>15, <1>16, <1>17, <1>18, <1>19, <1>20 DEF Operate
  <1>c. ASSUME NEW p \in Procs, CancelStep(p) PROVE WritesActive'
    BY <1>c, <1>21, <1>22, <1>23 DEF CancelStep
  <1>s. ASSUME NEW p \in Procs, SessionStep(p) PROVE WritesActive'
    BY <1>s, <1>24, <1>25, <1>26, <1>27, <1>28, <1>29, <1>30, <1>31, <1>32 DEF SessionStep
  <1>b. ASSUME BackgroundStep PROVE WritesActive'
    BY <1>b, <1>33, <1>35, <1>36 DEF BackgroundStep
  <1> QED
    BY <1>t, <1>o, <1>c, <1>s, <1>b, <1>37 DEF Next, Step

\* What is joined stays joined.
LEMMA JoinedStep ==
    ASSUME pc \in [Procs -> Stages], run \in [Procs -> Nat], op \in Nat, seq \in Nat,
           downloads \in Background, shared \in Background, OneOperation, Joined, NoOverlap, [Next]_vars
    PROVE  Joined'
  <1> USE DEF vars, procs, control, session, jobs, Joined, Joining, OneOperation, Opened
  <1>1. ASSUME AutoTick PROVE Joined'
    BY <1>1 DEF AutoTick, Request
  <1>2. ASSUME NEW p \in Procs, NEW j \in {"sync", "full"}, Click(p, j) PROVE Joined'
    BY <1>2 DEF Click, Request
  <1>3. ASSUME NEW p \in Procs, ClickReset(p) PROVE Joined'
    BY <1>3 DEF ClickReset, Request
  <1>4. ASSUME NEW p \in Procs, ClickCancel(p) PROVE Joined'
    BY <1>4 DEF ClickCancel, Request
  <1>5. ASSUME NEW p \in Procs, ClickLogout(p) PROVE Joined'
    BY <1>5 DEF ClickLogout, Request
  <1>6. ASSUME NEW p \in Procs, ClickLogin(p) PROVE Joined'
    BY <1>6 DEF ClickLogin, Request
  <1>7. ASSUME NEW p \in Procs, BeginRefused(p) PROVE Joined'
    BY <1>7 DEF BeginRefused, Goto, Over
  <1>8. ASSUME NEW p \in Procs, Begin(p) PROVE Joined'
    BY <1>8 DEF Begin
  <1>9. ASSUME NEW p \in Procs, Open(p) PROVE Joined'
    BY <1>9 DEF Open, Goto
  <1>10. ASSUME NEW p \in Procs, Preflight(p) PROVE Joined'
    BY <1>10, ToldKeeps DEF Preflight, Goto
  <1>11. ASSUME NEW p \in Procs, Quiesce(p) PROVE Joined'
    BY <1>11, ToldKeeps DEF Quiesce, Goto
  <1>12. ASSUME NEW p \in Procs, Suspend(p) PROVE Joined'
    BY <1>12 DEF Suspend, Goto
  <1>13. ASSUME NEW p \in Procs, Clear(p) PROVE Joined'
    BY <1>13 DEF Clear, Goto
  <1>14. ASSUME NEW p \in Procs, RoundSucceeds(p) PROVE Joined'
    BY <1>14, ToldKeeps DEF RoundSucceeds, Goto
  <1>15. ASSUME NEW p \in Procs, RoundFails(p) PROVE Joined'
    BY <1>15 DEF RoundFails, Goto
  <1>16. ASSUME NEW p \in Procs, Publish(p) PROVE Joined'
    BY <1>16 DEF Publish, Goto
  <1>17. ASSUME NEW p \in Procs, Started(p) PROVE Joined'
    BY <1>17 DEF Started, Goto
  <1>18. ASSUME NEW p \in Procs, Resume(p) PROVE Joined'
    BY <1>18 DEF Resume, Goto
  <1>19. ASSUME NEW p \in Procs, End(p) PROVE Joined'
    BY <1>19, ToldKeeps DEF End, Goto
  <1>20. ASSUME NEW p \in Procs, Ended(p) PROVE Joined'
    BY <1>20 DEF Ended, Goto, Over
  <1>21. ASSUME NEW p \in Procs, CancelStale(p) PROVE Joined'
    BY <1>21 DEF CancelStale, Goto
  <1>22. ASSUME NEW p \in Procs, Cancel(p) PROVE Joined'
    BY <1>22 DEF Cancel, Goto
  <1>23. ASSUME NEW p \in Procs, Cancelled(p) PROVE Joined'
    BY <1>23 DEF Cancelled, Goto
  <1>24. ASSUME NEW p \in Procs, Stop(p) PROVE Joined'
    BY <1>24 DEF Stop, Goto
  <1>25. ASSUME NEW p \in Procs, Block(p) PROVE Joined'
    BY <1>25 DEF Block
  <1>26. ASSUME NEW p \in Procs, JoinOp(p) PROVE Joined'
    BY <1>26, ToldKeeps DEF JoinOp, Goto
  <1>27. ASSUME NEW p \in Procs, JoinDownloads(p) PROVE Joined'
    BY <1>27, ToldKeeps DEF JoinDownloads, Goto
  <1>28. ASSUME NEW p \in Procs, JoinShared(p) PROVE Joined'
    BY <1>28 DEF JoinShared, Goto
  <1>29. ASSUME NEW p \in Procs, Auth(p) PROVE Joined'
    BY <1>29 DEF Auth, Goto
  <1>30. ASSUME NEW p \in Procs, NEW a \in Accounts, Login(p, a) PROVE Joined'
    BY <1>30 DEF Login, Goto
  <1>31. ASSUME NEW p \in Procs, Logout(p) PROVE Joined'
    BY <1>31 DEF Logout, Goto
  <1>32. ASSUME NEW p \in Procs, SetSessionLive(p) PROVE Joined'
    BY <1>32 DEF SetSessionLive, Goto, NoOverlap
  <1>33. ASSUME DownloadsEnd PROVE Joined'
    BY <1>33, OffType DEF DownloadsEnd, Off
  <1>34. ASSUME SharedStart PROVE Joined'
    BY <1>34 DEF SharedStart, Off
  <1>35. ASSUME SharedOpen PROVE Joined'
    BY <1>35 DEF SharedOpen
  <1>36. ASSUME SharedEnd PROVE Joined'
    BY <1>36, OffType DEF SharedEnd, Off
  <1>37. CASE UNCHANGED vars
    BY <1>37
  <1>t. ASSUME Triggered PROVE Joined'
    BY <1>t, <1>1, <1>2, <1>3, <1>4, <1>5, <1>6, <1>34 DEF Triggered, Procs
  <1>o. ASSUME NEW p \in Procs, Operate(p) PROVE Joined'
    BY <1>o, <1>7, <1>8, <1>9, <1>10, <1>11, <1>12, <1>13, <1>14, <1>15, <1>16, <1>17, <1>18, <1>19, <1>20 DEF Operate
  <1>c. ASSUME NEW p \in Procs, CancelStep(p) PROVE Joined'
    BY <1>c, <1>21, <1>22, <1>23 DEF CancelStep
  <1>s. ASSUME NEW p \in Procs, SessionStep(p) PROVE Joined'
    BY <1>s, <1>24, <1>25, <1>26, <1>27, <1>28, <1>29, <1>30, <1>31, <1>32 DEF SessionStep
  <1>b. ASSUME BackgroundStep PROVE Joined'
    BY <1>b, <1>33, <1>35, <1>36 DEF BackgroundStep
  <1> QED
    BY <1>t, <1>o, <1>c, <1>s, <1>b, <1>37 DEF Next, Step

\* What a step may do to the jobs and the account: nothing, start or stop one
\* job, or switch while there is none.
JobStep ==
    \/ UNCHANGED <<account, writer, downloads.acc, shared.acc>>
    \/ /\ account # None /\ UNCHANGED account
       /\ \/ writer = None /\ writer' = account /\ UNCHANGED <<downloads.acc, shared.acc>>
          \/ downloads.acc = None /\ downloads'.acc = account /\ UNCHANGED <<writer, shared.acc>>
          \/ shared.acc = None /\ shared'.acc = account /\ UNCHANGED <<writer, downloads.acc>>
    \/ /\ UNCHANGED account
       /\ \/ writer # None /\ writer' = None /\ UNCHANGED <<downloads.acc, shared.acc>>
          \/ downloads.acc # None /\ downloads'.acc = None /\ UNCHANGED <<writer, shared.acc>>
          \/ shared.acc # None /\ shared'.acc = None /\ UNCHANGED <<writer, downloads.acc>>
    \/ /\ account' \in Accounts \cup {None} /\ writer = None /\ downloads.acc = None /\ shared.acc = None
       /\ UNCHANGED <<writer, downloads.acc, shared.acc>>

\* A job starts for the active account, and the account changes when no job
\* works on one.
LEMMA JobsStep ==
    ASSUME TypeOK, None \notin Accounts, OneOperation, Quiet, WritesActive, Joined, [Next]_vars
    PROVE  JobStep
  <1> USE DEF vars, procs, control, session, jobs, JobStep, OneOperation, Opened, WritesActive, Working
  <1>a. ASSUME NEW p \in Procs, pc[p] = "switch"
        PROVE  writer = None /\ downloads.acc = None /\ shared.acc = None
    BY <1>a DEF Joined, Joining, Quiet
  <1>f. downloads \in Background /\ shared \in Background /\ \A p \in Procs : pc[p] = "open" => writer = None
    BY DEF TypeOK
  <1>k. Told(downloads).acc = downloads.acc /\ Told(shared).acc = shared.acc
    BY <1>f, ToldKeeps
  <1>1. ASSUME AutoTick PROVE JobStep
    BY <1>1 DEF AutoTick, Request
  <1>2. ASSUME NEW p \in Procs, NEW j \in {"sync", "full"}, Click(p, j) PROVE JobStep
    BY <1>2 DEF Click, Request
  <1>3. ASSUME NEW p \in Procs, ClickReset(p) PROVE JobStep
    BY <1>3 DEF ClickReset, Request
  <1>4. ASSUME NEW p \in Procs, ClickCancel(p) PROVE JobStep
    BY <1>4 DEF ClickCancel, Request
  <1>5. ASSUME NEW p \in Procs, ClickLogout(p) PROVE JobStep
    BY <1>5 DEF ClickLogout, Request
  <1>6. ASSUME NEW p \in Procs, ClickLogin(p) PROVE JobStep
    BY <1>6 DEF ClickLogin, Request
  <1>7. ASSUME NEW p \in Procs, BeginRefused(p) PROVE JobStep
    BY <1>7 DEF BeginRefused, Goto, Over
  <1>8. ASSUME NEW p \in Procs, Begin(p) PROVE JobStep
    BY <1>8 DEF Begin
  <1>9. ASSUME NEW p \in Procs, Open(p) PROVE JobStep
    BY <1>9 DEF Open, Goto
  <1>10. ASSUME NEW p \in Procs, Preflight(p) PROVE JobStep
    BY <1>f, <1>k, <1>10 DEF Preflight, Goto
  <1>11. ASSUME NEW p \in Procs, Quiesce(p) PROVE JobStep
    BY <1>f, <1>k, <1>11 DEF Quiesce, Goto
  <1>12. ASSUME NEW p \in Procs, Suspend(p) PROVE JobStep
    BY <1>12 DEF Suspend, Goto
  <1>13. ASSUME NEW p \in Procs, Clear(p) PROVE JobStep
    BY <1>13 DEF Clear, Goto
  <1>14. ASSUME NEW p \in Procs, RoundSucceeds(p) PROVE JobStep
    BY <1>f, <1>k, <1>14 DEF RoundSucceeds, Goto
  <1>15. ASSUME NEW p \in Procs, RoundFails(p) PROVE JobStep
    BY <1>15 DEF RoundFails, Goto
  <1>16. ASSUME NEW p \in Procs, Publish(p) PROVE JobStep
    BY <1>16 DEF Publish, Goto
  <1>17. ASSUME NEW p \in Procs, Started(p) PROVE JobStep
    BY <1>17 DEF Started, Goto
  <1>18. ASSUME NEW p \in Procs, Resume(p) PROVE JobStep
    BY <1>18 DEF Resume, Goto
  <1>19. ASSUME NEW p \in Procs, End(p) PROVE JobStep
    BY <1>f, <1>k, <1>19 DEF End, Goto
  <1>20. ASSUME NEW p \in Procs, Ended(p) PROVE JobStep
    BY <1>20 DEF Ended, Goto, Over
  <1>21. ASSUME NEW p \in Procs, CancelStale(p) PROVE JobStep
    BY <1>21 DEF CancelStale, Goto
  <1>22. ASSUME NEW p \in Procs, Cancel(p) PROVE JobStep
    BY <1>22 DEF Cancel, Goto
  <1>23. ASSUME NEW p \in Procs, Cancelled(p) PROVE JobStep
    BY <1>23 DEF Cancelled, Goto
  <1>24. ASSUME NEW p \in Procs, Stop(p) PROVE JobStep
    BY <1>24 DEF Stop, Goto
  <1>25. ASSUME NEW p \in Procs, Block(p) PROVE JobStep
    BY <1>25 DEF Block
  <1>26. ASSUME NEW p \in Procs, JoinOp(p) PROVE JobStep
    BY <1>f, <1>k, <1>26 DEF JoinOp, Goto
  <1>27. ASSUME NEW p \in Procs, JoinDownloads(p) PROVE JobStep
    BY <1>f, <1>k, <1>27 DEF JoinDownloads, Goto
  <1>28. ASSUME NEW p \in Procs, JoinShared(p) PROVE JobStep
    BY <1>28 DEF JoinShared, Goto
  <1>29. ASSUME NEW p \in Procs, Auth(p) PROVE JobStep
    BY <1>29 DEF Auth, Goto
  <1>30. ASSUME NEW p \in Procs, NEW a \in Accounts, Login(p, a) PROVE JobStep
    BY <1>a, <1>30 DEF Login, Goto
  <1>31. ASSUME NEW p \in Procs, Logout(p) PROVE JobStep
    BY <1>a, <1>31 DEF Logout, Goto
  <1>32. ASSUME NEW p \in Procs, SetSessionLive(p) PROVE JobStep
    BY <1>32 DEF SetSessionLive, Goto
  <1>33. ASSUME DownloadsEnd PROVE JobStep
    BY <1>33, OffType DEF DownloadsEnd, Off
  <1>34. ASSUME SharedStart PROVE JobStep
    BY <1>34 DEF SharedStart, Off
  <1>35. ASSUME SharedOpen PROVE JobStep
    BY <1>35 DEF SharedOpen
  <1>36. ASSUME SharedEnd PROVE JobStep
    BY <1>36, OffType DEF SharedEnd, Off
  <1>37. CASE UNCHANGED vars
    BY <1>37
  <1>t. ASSUME Triggered PROVE JobStep
    BY <1>t, <1>1, <1>2, <1>3, <1>4, <1>5, <1>6, <1>34 DEF Triggered, Procs
  <1>o. ASSUME NEW p \in Procs, Operate(p) PROVE JobStep
    BY <1>o, <1>7, <1>8, <1>9, <1>10, <1>11, <1>12, <1>13, <1>14, <1>15, <1>16, <1>17, <1>18, <1>19, <1>20 DEF Operate
  <1>c. ASSUME NEW p \in Procs, CancelStep(p) PROVE JobStep
    BY <1>c, <1>21, <1>22, <1>23 DEF CancelStep
  <1>s. ASSUME NEW p \in Procs, SessionStep(p) PROVE JobStep
    BY <1>s, <1>24, <1>25, <1>26, <1>27, <1>28, <1>29, <1>30, <1>31, <1>32 DEF SessionStep
  <1>b. ASSUME BackgroundStep PROVE JobStep
    BY <1>b, <1>33, <1>35, <1>36 DEF BackgroundStep
  <1> QED
    BY <1>t, <1>o, <1>c, <1>s, <1>b, <1>37 DEF Next, Step

\* The steps of the jobs are those of AccountIsolation.
LEMMA JobStepRefines == ASSUME JobStep PROVE [Isolation!Next]_(Isolation!vars)
  <1> DEFINE kinds == {"operation", "downloads", "shared"}
             w == [j \in kinds |-> CASE j = "operation" -> writer
                                     [] j = "downloads" -> downloads.acc
                                     [] j = "shared" -> shared.acc]
             v == [j \in kinds |-> CASE j = "operation" -> writer'
                                     [] j = "downloads" -> downloads'.acc
                                     [] j = "shared" -> shared'.acc]
  <1>1. /\ w["operation"] = writer /\ w["downloads"] = downloads.acc /\ w["shared"] = shared.acc
        /\ v["operation"] = writer' /\ v["downloads"] = downloads'.acc /\ v["shared"] = shared'.acc
    OBVIOUS
  <1>2. /\ w = [j \in kinds |-> w[j]] /\ v = [j \in kinds |-> v[j]]
    OBVIOUS
  <1> HIDE DEF w, v
  <1>3. ASSUME UNCHANGED <<writer, downloads.acc, shared.acc>> PROVE v = w
    BY <1>1, <1>2, <1>3
  <1>4. ASSUME NEW j \in kinds, NEW a, v[j] = a, \A k \in kinds : k # j => v[k] = w[k]
        PROVE  v = [w EXCEPT ![j] = a]
    BY <1>2, <1>4
  <1>5. CASE UNCHANGED <<account, writer, downloads.acc, shared.acc>>
    BY <1>3, <1>5 DEF Isolation!vars, w, v
  <1>6. ASSUME NEW j \in kinds, account # None, account' = account, w[j] = None, v = [w EXCEPT ![j] = account]
        PROVE  Isolation!Start(j)
    BY <1>6 DEF Isolation!Start, w, v
  <1>7. ASSUME NEW j \in kinds, account' = account, w[j] # None, v = [w EXCEPT ![j] = None]
        PROVE  Isolation!Stop(j)
    BY <1>7 DEF Isolation!Stop, w, v
  <1>8. ASSUME account' \in Accounts \cup {None}, \A j \in kinds : w[j] = None, v = w
        PROVE  Isolation!Switch(account')
    BY <1>8 DEF Isolation!Switch, w, v
  <1>9. CASE /\ account # None /\ UNCHANGED account
             /\ \/ writer = None /\ writer' = account /\ UNCHANGED <<downloads.acc, shared.acc>>
                \/ downloads.acc = None /\ downloads'.acc = account /\ UNCHANGED <<writer, shared.acc>>
                \/ shared.acc = None /\ shared'.acc = account /\ UNCHANGED <<writer, downloads.acc>>
    <2>1. \E j \in kinds : w[j] = None /\ v = [w EXCEPT ![j] = account]
      BY <1>1, <1>4, <1>9
    <2> QED
      BY <1>6, <1>9, <2>1 DEF Isolation!Next
  <1>10. CASE /\ UNCHANGED account
              /\ \/ writer # None /\ writer' = None /\ UNCHANGED <<downloads.acc, shared.acc>>
                 \/ downloads.acc # None /\ downloads'.acc = None /\ UNCHANGED <<writer, shared.acc>>
                 \/ shared.acc # None /\ shared'.acc = None /\ UNCHANGED <<writer, downloads.acc>>
    <2>1. \E j \in kinds : w[j] # None /\ v = [w EXCEPT ![j] = None]
      BY <1>1, <1>4, <1>10
    <2> QED
      BY <1>7, <1>10, <2>1 DEF Isolation!Next
  <1>11. CASE /\ account' \in Accounts \cup {None} /\ writer = None /\ downloads.acc = None /\ shared.acc = None
              /\ UNCHANGED <<writer, downloads.acc, shared.acc>>
    <2>1. v = w /\ \A j \in kinds : w[j] = None
      BY <1>1, <1>3, <1>11
    <2> QED
      BY <1>8, <1>11, <2>1 DEF Isolation!Next
  <1> QED
    BY <1>5, <1>9, <1>10, <1>11 DEF JobStep

\* At first no job works.
LEMMA InitRefines == ASSUME SyncControlAssumption, Init PROVE Isolation!Init /\ WritesActive /\ Joined /\ Roles
  <1>1. Isolation!Init
    BY OffType DEF Init, Isolation!Init
  <1>2. WritesActive
    BY OffType DEF Init, WritesActive, Working
  <1>3. Joined /\ Roles
    BY DEF Init, Joined, Joining, Roles
  <1> QED
    BY <1>1, <1>2, <1>3

\* app_sync_control.go:17, "no old-session operation can start between
\* cancellation and switching the active database account": every job starts
\* for the active account and the account changes only when all have ended, in
\* every behaviour in which no login goes live while another login or logout
\* has blocked sync and not yet switched.
THEOREM AccountsIsolated == Spec /\ []NoOverlap => IsolatedAccounts
  <1> DEFINE Inv == IInv /\ WritesActive /\ Joined
  <1>1. SyncControlAssumption
    BY SyncControlAssumption
  <1>2. Init => Inv /\ Isolation!Init
    BY <1>1, InitIInv, InitRefines
  <1>3. Inv /\ NoOverlap /\ [Next]_vars => Inv' /\ [Isolation!Next]_(Isolation!vars)
    <2> SUFFICES ASSUME Inv, NoOverlap, [Next]_vars
                 PROVE  Inv' /\ [Isolation!Next]_(Isolation!vars)
      OBVIOUS
    <2>1. IInv'
      BY <1>1, StepIInv
    <2>2. TypeOK /\ OneOperation /\ Quiet /\ None \notin Accounts
      BY <1>1 DEF IInv, SyncControlAssumption
    <2>3. WritesActive' /\ Joined'
      BY <2>2, ActiveStep, JoinedStep DEF TypeOK
    <2>4. [Isolation!Next]_(Isolation!vars)
      BY <2>2, JobsStep, JobStepRefines
    <2> QED
      BY <2>1, <2>3, <2>4
  <1> HIDE DEF Inv
  <1> QED
    BY <1>2, <1>3, PTL DEF Spec, IsolatedAccounts, Isolation!Spec

\* With one login or logout at a time the condition holds by itself.
THEOREM OneSessionIsolated ==
    ASSUME \A s, t \in Sessions : s = t
    PROVE  Spec => IsolatedAccounts
  <1>1. SyncControlAssumption
    BY SyncControlAssumption
  <1>2. Init => Roles
    BY <1>1, InitRefines
  <1>3. IInv /\ Roles /\ [Next]_vars => Roles'
    BY <1>1, RolesStep DEF IInv, TypeOK
  <1>4. Roles => NoOverlap
    BY DEF Roles, NoOverlap
  <1> QED
    BY <1>2, <1>3, <1>4, Invariant, AccountsIsolated, PTL DEF Spec

=============================================================================
