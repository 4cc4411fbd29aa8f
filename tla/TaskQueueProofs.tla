-------------------------- MODULE TaskQueueProofs --------------------------
(***************************************************************************)
(* Proofs about TaskQueue, for any rows, any number of calls in flight and *)
(* any bound on crashes and failed statements; and about ClusterGroups,    *)
(* the keycloak groups that four kinds of tasks make and clean up, for any *)
(* workspaces of a name, users, groups, requests and bounds.               *)
(***************************************************************************)
EXTENDS TaskQueue, ClusterGroups, TLAPS

\* A call awaits a handler exactly when its stage says so.
StageMatchesCur == \A r \in Runs : stage[r] = "loop" <=> cur[r] = NoTask

\* The steps that end the execution of a row, and those that do not.
Ending(r) == \/ Defer(r) \/ NothingToUpdate(r) \/ EnteredDbError(r) \/ UndoFails(r)
             \/ MarkDone(r) \/ MarkError(r) \/ MarkErrorDbError(r)
Moving(r) == \/ MarkInProgress(r) \/ MarkInProgressDbError(r)
             \/ Unsupported(r) \/ WorkFails(r)

\* Only existing rows are announced, snapshotted or executed.
OnlyExistingRows ==
  \A t \in Tasks : t \in notified \/ Held(t) => status[t] # "NONE"

\* The inductive invariant.  Mutual exclusion alone is not inductive: it needs
\* bussyTaskIds to be exact.
IInv == /\ TypeOK
        /\ StageMatchesCur
        /\ NoConcurrentExecution
        /\ BussyIsExecuting
        /\ WorkingIsInProgress
        /\ OnlyExistingRows

LEMMA TypeInit == Init => TypeOK
BY BoundsAssumption DEF Init, TypeOK, Stages

LEMMA TypeStep == TypeOK /\ [Next]_vars => TypeOK'
<1> SUFFICES ASSUME TypeOK, [Next]_vars PROVE TypeOK'
  OBVIOUS
<1> USE BoundsAssumption DEF TypeOK, Stages
<1>1. ASSUME NEW t \in Tasks, CreateTask(t) \/ OnTaskMessageDbError(t)
      PROVE TypeOK'
  BY <1>1 DEF CreateTask, NotifyNewTask, OnTaskMessageDbError
<1>2. ASSUME NEW r \in Runs, NEW t \in Tasks, OnTaskMessage(r, t)
      PROVE TypeOK'
  BY <1>2 DEF OnTaskMessage, Pending
<1>3. ASSUME NEW r \in Runs, OnTimer(r) PROVE TypeOK'
  BY <1>3 DEF OnTimer, Pending
<1>4. ASSUME NEW r \in Runs, NEW t \in Tasks, SkipBussy(r, t) \/ Claim(r, t)
      PROVE TypeOK'
  BY <1>4 DEF SkipBussy, Claim, IsNext
<1>5. ASSUME NEW r \in Runs,
             Defer(r) \/ EnteredDbError(r) \/ UndoFails(r) \/ MarkErrorDbError(r)
      PROVE TypeOK'
  BY <1>5 DEF Defer, EnteredDbError, UndoFails, MarkErrorDbError, Release
<1>6. ASSUME NEW r \in Runs, NothingToUpdate(r) \/ MarkDone(r) \/ MarkError(r)
      PROVE TypeOK'
  BY <1>6 DEF NothingToUpdate, MarkDone, MarkError, SetStatus, Release
<1>7. ASSUME NEW r \in Runs, Moving(r) PROVE TypeOK'
  BY <1>7 DEF Moving, MarkInProgress, MarkInProgressDbError, Unsupported, WorkFails,
              SetStatus
<1>8. CASE CrashRestart
  BY <1>8 DEF CrashRestart
<1>9. CASE UNCHANGED vars
  BY <1>9 DEF vars
<1> QED
  BY <1>1, <1>2, <1>3, <1>4, <1>5, <1>6, <1>7, <1>8, <1>9 DEF Next, RunStep, Moving

THEOREM TypeCorrect == Spec => []TypeOK
BY TypeInit, TypeStep, PTL DEF Spec

----------------------------------------------------------------------------
(* The inductive invariant is preserved, action by action.  What a step     *)
(* must say is which call it moves and what it does to bussyTaskIds.        *)

LEMMA InvInit == Init => IInv
<1> SUFFICES ASSUME Init PROVE IInv
  OBVIOUS
<1>1. TypeOK
  BY TypeInit
<1>2. StageMatchesCur /\ NoConcurrentExecution /\ WorkingIsInProgress
  BY DEF Init, StageMatchesCur, NoConcurrentExecution, WorkingIsInProgress
<1>3. BussyIsExecuting
  BY NoTaskAssumption DEF Init, BussyIsExecuting, Executing
<1>4. OnlyExistingRows
  BY NoTaskAssumption DEF Init, OnlyExistingRows, Held
<1> QED
  BY <1>1, <1>2, <1>3, <1>4 DEF IInv

\* Steps that leave every call's handler alone and touch no executed row.
LEMMA QuietStep ==
  ASSUME IInv, UNCHANGED <<bussyTaskIds, cur, stage>>,
         \A t \in Tasks : status[t] # "NONE" => status'[t] = status[t]
  PROVE  /\ StageMatchesCur' /\ NoConcurrentExecution'
         /\ BussyIsExecuting' /\ WorkingIsInProgress'
<1>1. StageMatchesCur' /\ NoConcurrentExecution' /\ BussyIsExecuting'
  BY DEF IInv, StageMatchesCur, NoConcurrentExecution, BussyIsExecuting, Executing
<1>2. ASSUME NEW r \in Runs, stage'[r] = "working"
      PROVE  status'[cur'[r]] = "IN_PROGRESS"
  <2>1. stage[r] = "working" /\ cur[r] \in Tasks
    BY <1>2 DEF IInv, TypeOK, StageMatchesCur, Stages
  <2>2. status[cur[r]] = "IN_PROGRESS"
    BY <2>1 DEF IInv, WorkingIsInProgress
  <2> QED
    BY <2>1, <2>2
<1> QED
  BY <1>1, <1>2 DEF WorkingIsInProgress

LEMMA CreateTaskInv ==
  ASSUME NEW t \in Tasks, IInv, CreateTask(t) PROVE IInv'
<1>1. TypeOK'
  BY TypeStep DEF IInv, Next
<1>2. \A u \in Tasks : /\ status[u] # "NONE" => status'[u] = status[u]
                       /\ status'[u] = "NONE" => u # t /\ status[u] = "NONE"
  BY DEF CreateTask, NotifyNewTask, IInv, TypeOK
<1>3. OnlyExistingRows'
  BY <1>2 DEF CreateTask, NotifyNewTask, IInv, OnlyExistingRows, Held
<1> QED
  BY <1>1, <1>2, <1>3, QuietStep DEF CreateTask, NotifyNewTask, IInv

LEMMA SnapshotInv ==
  ASSUME IInv, UNCHANGED <<status, bussyTaskIds, cur, stage>>, TypeOK',
         notified' \subseteq notified,
         \A r \in Runs : \A t \in todo'[r] : t \in todo[r] \/ status[t] # "NONE"
  PROVE  IInv'
<1>1. OnlyExistingRows'
  BY DEF IInv, OnlyExistingRows, Held
<1> QED
  BY <1>1, QuietStep DEF IInv

LEMMA QuietReadInv ==
  ASSUME IInv, NEW t \in Tasks, OnTaskMessageDbError(t) PROVE IInv'
<1>1. TypeOK'
  BY TypeStep DEF IInv, Next
<1>2. \A q \in Runs : \A u \in todo'[q] : u \in todo[q] \/ status[u] # "NONE"
  BY DEF OnTaskMessageDbError
<1> QED
  BY <1>1, <1>2, SnapshotInv DEF OnTaskMessageDbError

LEMMA TimerInv == ASSUME IInv, NEW r \in Runs, OnTimer(r) PROVE IInv'
<1>1. TypeOK'
  BY TypeStep DEF IInv, Next
<1>2. \A q \in Runs : \A u \in todo'[q] : u \in todo[q] \/ status[u] # "NONE"
  BY DEF OnTimer, Pending, IInv, TypeOK
<1> QED
  BY <1>1, <1>2, SnapshotInv DEF OnTimer

LEMMA ReadInv ==
  ASSUME IInv, NEW r \in Runs, NEW t \in Tasks,
         OnTaskMessage(r, t) \/ SkipBussy(r, t)
  PROVE  IInv'
<1>1. TypeOK'
  BY TypeStep DEF IInv, Next, RunStep
<1>2. \A q \in Runs : \A u \in todo'[q] : u \in todo[q] \/ status[u] # "NONE"
  BY DEF OnTaskMessage, SkipBussy, Pending, IInv, TypeOK
<1> QED
  BY <1>1, <1>2, SnapshotInv DEF OnTaskMessage, SkipBussy

LEMMA ClaimInv ==
  ASSUME IInv, NEW r \in Runs, NEW t \in Tasks, Claim(r, t) PROVE IInv'
<1> USE NoTaskAssumption
<1>1. TypeOK'
  BY TypeStep DEF IInv, Next, RunStep
<1>2. /\ cur' = [cur EXCEPT ![r] = t]
      /\ stage' = [stage EXCEPT ![r] = "entered"]
      /\ bussyTaskIds' = bussyTaskIds \cup {t}
      /\ \A q \in Runs : cur[q] # t
      /\ status' = status /\ notified' = notified
      /\ t \in todo[r] /\ \A q \in Runs : todo'[q] \subseteq todo[q]
  BY DEF Claim, IsNext, IInv, TypeOK, BussyIsExecuting, Executing
<1>3. StageMatchesCur'
  BY <1>2 DEF IInv, TypeOK, StageMatchesCur
<1>4. NoConcurrentExecution'
  BY <1>2 DEF IInv, TypeOK, NoConcurrentExecution
<1>5. BussyIsExecuting'
  <2>1. r \in DOMAIN cur /\ cur[r] \notin Tasks
    BY DEF Claim, IInv, TypeOK, StageMatchesCur
  <2>2. \A q \in Runs : cur'[q] = IF q = r THEN t ELSE cur[q]
    BY <1>2 DEF IInv, TypeOK
  <2>3. \A u \in Tasks : Executing(u)' <=> Executing(u) \/ u = t
    BY <2>1, <2>2 DEF Executing
  <2> QED
    BY <1>2, <2>3 DEF IInv, BussyIsExecuting
<1>6. WorkingIsInProgress'
  BY <1>2 DEF IInv, TypeOK, WorkingIsInProgress
<1>7. OnlyExistingRows'
  BY <1>2 DEF IInv, TypeOK, OnlyExistingRows, Held
<1> QED
  BY <1>1, <1>3, <1>4, <1>5, <1>6, <1>7 DEF IInv

\* The finally block, with whatever status the handler wrote to its own row.
LEMMA ReleaseInv ==
  ASSUME IInv, TypeOK', NEW r \in Runs, stage[r] # "loop", Release(r),
         \A t \in Tasks : t # cur[r] => status'[t] = status[t],
         \A t \in Tasks : status[t] # "NONE" => status'[t] # "NONE"
  PROVE  IInv'
<1> USE NoTaskAssumption
<1>1. /\ cur[r] \in Tasks
      /\ cur' = [cur EXCEPT ![r] = NoTask]
      /\ stage' = [stage EXCEPT ![r] = "loop"]
      /\ bussyTaskIds' = bussyTaskIds \ {cur[r]}
      /\ notified' = notified /\ todo' = todo
      /\ \A q \in Runs : cur[q] = cur[r] => q = r
  BY DEF Release, IInv, TypeOK, StageMatchesCur, NoConcurrentExecution
<1>2. StageMatchesCur'
  BY <1>1 DEF IInv, TypeOK, StageMatchesCur
<1>3. NoConcurrentExecution'
  BY <1>1 DEF IInv, TypeOK, NoConcurrentExecution
<1>4. BussyIsExecuting'
  BY <1>1 DEF IInv, TypeOK, BussyIsExecuting, Executing
<1>5. ASSUME NEW q \in Runs, stage'[q] = "working"
      PROVE  status'[cur'[q]] = "IN_PROGRESS"
  <2>1. q # r /\ stage[q] = "working" /\ cur'[q] = cur[q]
    BY <1>1, <1>5 DEF IInv, TypeOK
  <2>2. cur[q] \in Tasks /\ cur[q] # cur[r]
    BY <1>1, <2>1 DEF IInv, TypeOK, StageMatchesCur
  <2>3. status[cur[q]] = "IN_PROGRESS"
    BY <2>1 DEF IInv, WorkingIsInProgress
  <2> QED
    BY <2>1, <2>2, <2>3
<1>6. WorkingIsInProgress'
  BY <1>5 DEF WorkingIsInProgress
<1>7. OnlyExistingRows'
  BY <1>1 DEF IInv, TypeOK, OnlyExistingRows, Held
<1> QED
  BY <1>2, <1>3, <1>4, <1>6, <1>7 DEF IInv

LEMMA EndInv ==
  ASSUME IInv, NEW r \in Runs, Ending(r) PROVE  IInv'
<1>1. TypeOK'
  BY TypeStep DEF IInv, Next, RunStep, Ending
<1>2. stage[r] # "loop" /\ Release(r)
  BY DEF Ending, Defer, NothingToUpdate, EnteredDbError, UndoFails, MarkDone,
                  MarkError, MarkErrorDbError
<1>3. /\ \A t \in Tasks : t # cur[r] => status'[t] = status[t]
      /\ \A t \in Tasks : status[t] # "NONE" => status'[t] # "NONE"
  BY DEF Ending, Defer, NothingToUpdate, EnteredDbError, UndoFails, MarkDone,
                  MarkError, MarkErrorDbError, SetStatus, IInv, TypeOK
<1> QED
  BY <1>1, <1>2, <1>3, ReleaseInv

\* A handler moves on without settling.
LEMMA HandlerInv ==
  ASSUME IInv, NEW r \in Runs, Moving(r) PROVE  IInv'
<1> USE NoTaskAssumption
<1>1. TypeOK'
  BY TypeStep DEF IInv, Next, RunStep, Moving
<1>2. PICK s \in {"working", "failed"} :
        /\ stage[r] # "loop"
        /\ stage' = [stage EXCEPT ![r] = s]
        /\ UNCHANGED <<notified, bussyTaskIds, todo, cur>>
        /\ \/ s = "working" /\ status' = [status EXCEPT ![cur[r]] = "IN_PROGRESS"]
           \/ s = "failed" /\ status' = status
  BY DEF Moving, MarkInProgress, MarkInProgressDbError, Unsupported,
                  WorkFails, SetStatus
<1>3. cur[r] \in Tasks
  BY <1>2 DEF IInv, TypeOK, StageMatchesCur
<1>4. StageMatchesCur' /\ NoConcurrentExecution' /\ BussyIsExecuting'
  BY <1>2, <1>3 DEF IInv, TypeOK, StageMatchesCur, NoConcurrentExecution,
                    BussyIsExecuting, Executing
<1>5. ASSUME NEW q \in Runs, stage'[q] = "working"
      PROVE  status'[cur'[q]] = "IN_PROGRESS"
  <2>1. CASE q = r
    BY <1>2, <1>3, <1>5, <2>1 DEF IInv, TypeOK
  <2>2. CASE q # r
    <3>1. stage[q] = "working" /\ cur'[q] = cur[q] /\ cur[q] \in Tasks
      BY <1>2, <1>5, <2>2 DEF IInv, TypeOK, StageMatchesCur
    <3>2. status[cur[q]] = "IN_PROGRESS" /\ cur[q] # cur[r]
      BY <2>2, <3>1 DEF IInv, WorkingIsInProgress, NoConcurrentExecution
    <3> QED
      BY <1>2, <1>3, <3>1, <3>2 DEF IInv, TypeOK
  <2> QED
    BY <2>1, <2>2
<1>6. WorkingIsInProgress'
  BY <1>5 DEF WorkingIsInProgress
<1>7. OnlyExistingRows'
  BY <1>2, <1>3 DEF IInv, TypeOK, OnlyExistingRows, Held
<1> QED
  BY <1>1, <1>4, <1>6, <1>7 DEF IInv

LEMMA CrashInv == IInv /\ CrashRestart => IInv'
<1> SUFFICES ASSUME IInv, CrashRestart PROVE IInv'
  OBVIOUS
<1> USE NoTaskAssumption
<1>1. TypeOK'
  BY TypeStep DEF IInv, Next
<1>2. /\ \A r \in Runs : todo'[r] = {} /\ cur'[r] = NoTask /\ stage'[r] = "loop"
      /\ bussyTaskIds' = {} /\ notified' = {}
  BY DEF CrashRestart
<1>3. StageMatchesCur' /\ NoConcurrentExecution' /\ WorkingIsInProgress'
  BY <1>2 DEF StageMatchesCur, NoConcurrentExecution, WorkingIsInProgress
<1>4. BussyIsExecuting'
  BY <1>2 DEF BussyIsExecuting, Executing
<1>5. OnlyExistingRows'
  BY <1>2 DEF OnlyExistingRows, Held
<1> QED
  BY <1>1, <1>3, <1>4, <1>5 DEF IInv

LEMMA InvStep == IInv /\ [Next]_vars => IInv'
<1> SUFFICES ASSUME IInv, [Next]_vars PROVE IInv'
  OBVIOUS
<1>1. CASE UNCHANGED vars
  <2>1. TypeOK'
    BY TypeStep DEF IInv
  <2>2. OnlyExistingRows'
    BY <1>1 DEF vars, IInv, OnlyExistingRows, Held
  <2> QED
    BY <1>1, <2>1, <2>2, QuietStep DEF vars, IInv
<1>2. ASSUME NEW t \in Tasks, CreateTask(t) PROVE IInv'
  BY <1>2, CreateTaskInv
<1>3. ASSUME NEW t \in Tasks, OnTaskMessageDbError(t) PROVE IInv'
  BY <1>3, QuietReadInv
<1>4. ASSUME NEW r \in Runs, NEW t \in Tasks,
             OnTaskMessage(r, t) \/ SkipBussy(r, t)
      PROVE IInv'
  BY <1>4, ReadInv
<1>5. ASSUME NEW r \in Runs, OnTimer(r) PROVE IInv'
  BY <1>5, TimerInv
<1>6. ASSUME NEW r \in Runs, NEW t \in Tasks, Claim(r, t) PROVE IInv'
  BY <1>6, ClaimInv
<1>7. ASSUME NEW r \in Runs, Ending(r) PROVE IInv'
  BY <1>7, EndInv
<1>8. ASSUME NEW r \in Runs, Moving(r) PROVE IInv'
  BY <1>8, HandlerInv
<1>9. CASE CrashRestart
  BY <1>9, CrashInv
<1> QED
  BY <1>1, <1>2, <1>3, <1>4, <1>5, <1>6, <1>7, <1>8, <1>9 DEF Next, RunStep, Ending, Moving

THEOREM Invariance == Spec => []IInv
BY InvInit, InvStep, PTL DEF Spec

----------------------------------------------------------------------------
(* The results.                                                            *)

\* The guard of processPendingTasks (index.js:84) is enough: no row is ever
\* executed by two calls at the same time.
THEOREM MutualExclusion == Spec => []NoConcurrentExecution
BY Invariance, PTL DEF IInv

\* bussyTaskIds never leaks an id and never misses one (index.js:86, 135).
THEOREM BussyExact == Spec => []BussyIsExecuting
BY Invariance, PTL DEF IInv

\* A working handler always finds its row IN_PROGRESS.
THEOREM WorkingRows == Spec => []WorkingIsInProgress
BY Invariance, PTL DEF IInv

LEMMA SettledStep ==
  ASSUME IInv, [Next]_vars, NEW t \in Tasks, Settled(t), ~Held(t)
  PROVE  status'[t] = status[t] /\ ~Held(t)'
<1> USE NoTaskAssumption
<1>1. t \notin Pending /\ status[t] # "NONE"
  BY DEF Settled, Pending
<1>2. \A r \in Runs : cur[r] # t /\ t \notin todo[r]
  BY DEF Held
<1>3. ASSUME NEW u \in Tasks, CreateTask(u)
      PROVE status'[t] = status[t] /\ ~Held(t)'
  BY <1>1, <1>2, <1>3 DEF CreateTask, NotifyNewTask, Held, IInv, TypeOK
<1>4. ASSUME NEW r \in Runs, NEW u \in Tasks,
             \/ OnTaskMessage(r, u) \/ OnTaskMessageDbError(u) \/ OnTimer(r)
             \/ SkipBussy(r, u)
      PROVE status'[t] = status[t] /\ ~Held(t)'
  <2>1. status' = status /\ cur' = cur
    BY <1>4 DEF OnTaskMessage, OnTaskMessageDbError, OnTimer, SkipBussy
  <2>2. \A q \in Runs : t \notin todo'[q]
    BY <1>1, <1>2, <1>4
       DEF OnTaskMessage, OnTaskMessageDbError, OnTimer, SkipBussy, IInv, TypeOK
  <2> QED
    BY <1>2, <2>1, <2>2 DEF Held
<1>5. ASSUME NEW u \in Tasks, OnTaskMessageDbError(u)
      PROVE status'[t] = status[t] /\ ~Held(t)'
  BY <1>2, <1>5 DEF OnTaskMessageDbError, Held
<1>6. ASSUME NEW r \in Runs, OnTimer(r)
      PROVE status'[t] = status[t] /\ ~Held(t)'
  BY <1>4, <1>6
<1>7. ASSUME NEW r \in Runs, NEW u \in Tasks, Claim(r, u)
      PROVE status'[t] = status[t] /\ ~Held(t)'
  BY <1>2, <1>7 DEF Claim, IsNext, Held, IInv, TypeOK
<1>8. ASSUME NEW r \in Runs, Ending(r) PROVE status'[t] = status[t] /\ ~Held(t)'
  <2>1. cur[r] \in Tasks /\ cur[r] # t
    BY <1>2, <1>8 DEF Ending, Defer, NothingToUpdate, EnteredDbError, UndoFails, MarkDone,
                  MarkError, MarkErrorDbError, IInv, TypeOK,
                      StageMatchesCur
  <2>2. status'[t] = status[t]
    BY <1>8, <2>1 DEF Ending, Defer, NothingToUpdate, EnteredDbError, UndoFails, MarkDone,
                  MarkError, MarkErrorDbError, SetStatus,
                      IInv, TypeOK
  <2>3. todo' = todo /\ cur' = [cur EXCEPT ![r] = NoTask]
    BY <1>8 DEF Ending, Defer, NothingToUpdate, EnteredDbError, UndoFails, MarkDone,
                  MarkError, MarkErrorDbError, Release
  <2> QED
    BY <1>2, <2>2, <2>3 DEF Held, IInv, TypeOK
<1>9. ASSUME NEW r \in Runs, Moving(r) PROVE status'[t] = status[t] /\ ~Held(t)'
  <2>1. cur[r] \in Tasks /\ cur[r] # t
    BY <1>2, <1>9 DEF Moving, MarkInProgress, MarkInProgressDbError, Unsupported,
                  WorkFails, IInv,
                      TypeOK, StageMatchesCur
  <2> QED
    BY <1>2, <1>9, <2>1 DEF Moving, MarkInProgress, MarkInProgressDbError, Unsupported,
                  WorkFails,
                            SetStatus, Held, IInv, TypeOK
<1>10. CASE CrashRestart
  BY <1>10 DEF CrashRestart, Held
<1>11. CASE UNCHANGED vars
  BY <1>2, <1>11 DEF vars, Held
<1>12. ASSUME NEW r \in Runs, NEW u \in Tasks,
              OnTaskMessage(r, u) \/ SkipBussy(r, u)
       PROVE status'[t] = status[t] /\ ~Held(t)'
  BY <1>4, <1>12
<1> QED
  BY <1>3, <1>5, <1>6, <1>7, <1>8, <1>9, <1>10, <1>11, <1>12 DEF Next, RunStep, Ending, Moving

\* A row that ended, and that no snapshot holds, is never touched again.
THEOREM SettledRows == Spec => SettledIsFinal
<1>1. IInv /\ [Next]_vars =>
        [\A t \in Tasks : Settled(t) /\ ~Held(t) =>
            status'[t] = status[t] /\ ~Held(t)']_vars
  BY SettledStep
<1> QED
  BY <1>1, Invariance, PTL DEF Spec, SettledIsFinal

----------------------------------------------------------------------------
(* Rows left IN_PROGRESS.                                                  *)

FaultFree == crashes = 0 /\ dbErrors = 0

\* A row that is IN_PROGRESS is executed and was not just claimed: it is the
\* claim of a row IN_PROGRESS, then deferred, that would leave one behind.  The
\* rows a failed undo leaves are those of Undoing alone.
NoneLeftBehind ==
  FaultFree =>
    /\ \A t \in Tasks \ Undoing : status[t] = "IN_PROGRESS" => Executing(t)
    /\ \A r \in Runs : stage[r] = "entered" /\ cur[r] \notin Undoing
                        => status[cur[r]] # "IN_PROGRESS"

\* There are no rows at first.
LEMMA NoneLeftInit == Init => NoneLeftBehind
BY DEF Init, NoneLeftBehind

\* A step that moves no call: the rows IN_PROGRESS and the calls are the same.
LEMMA NoneLeftQuiet ==
  ASSUME IInv, NoneLeftBehind, FaultFree' => FaultFree, UNCHANGED <<cur, stage>>,
         \A t \in Tasks : status'[t] = "IN_PROGRESS" <=> status[t] = "IN_PROGRESS"
  PROVE  NoneLeftBehind'
<1>1. \A r \in Runs : stage[r] = "entered" => cur[r] \in Tasks
  BY DEF IInv, TypeOK, StageMatchesCur
<1> QED
  BY <1>1 DEF NoneLeftBehind, Executing

\* A step that ends the execution of a row leaves it another status.
LEMMA NoneLeftRelease ==
  ASSUME IInv, NoneLeftBehind, FaultFree' => FaultFree,
         NEW r \in Runs, stage[r] # "loop", Release(r),
         FaultFree' => cur[r] \in Undoing \/ status'[cur[r]] # "IN_PROGRESS",
         \A t \in Tasks : t # cur[r] => status'[t] = status[t]
  PROVE  NoneLeftBehind'
<1> SUFFICES ASSUME FaultFree' PROVE NoneLeftBehind'
  BY DEF NoneLeftBehind
<1>1. /\ FaultFree
      /\ \A q \in Runs : q # r => cur'[q] = cur[q] /\ stage'[q] = stage[q]
      /\ stage'[r] = "loop"
      /\ \A q \in Runs : stage[q] # "loop" => cur[q] \in Tasks
      /\ \A q \in Runs : q # r /\ stage[q] # "loop" => cur[q] # cur[r]
  BY NoTaskAssumption
     DEF Release, IInv, TypeOK, StageMatchesCur, NoConcurrentExecution
<1>2. ASSUME NEW t \in Tasks \ Undoing, status'[t] = "IN_PROGRESS"
      PROVE  Executing(t)'
  <2>1. t # cur[r] /\ status[t] = "IN_PROGRESS"
    BY <1>2
  <2>2. PICK q \in Runs : cur[q] = t
    BY <1>1, <2>1 DEF NoneLeftBehind, Executing
  <2> QED
    BY <1>1, <2>1, <2>2 DEF Executing
<1>3. ASSUME NEW q \in Runs, stage'[q] = "entered", cur'[q] \notin Undoing
      PROVE  status'[cur'[q]] # "IN_PROGRESS"
  <2>1. q # r /\ stage[q] = "entered" /\ cur[q] \notin Undoing
    BY <1>1, <1>3
  <2>2. cur[q] \in Tasks /\ cur[q] # cur[r] /\ status[cur[q]] # "IN_PROGRESS"
    BY <1>1, <2>1 DEF NoneLeftBehind
  <2> QED
    BY <1>1, <2>1, <2>2
<1> QED
  BY <1>2, <1>3 DEF NoneLeftBehind

\* Every step but a crash or a failed statement leaves none behind.
LEMMA NoneLeftStep == IInv /\ NoneLeftBehind /\ [Next]_vars => NoneLeftBehind'
<1> SUFFICES ASSUME IInv, NoneLeftBehind, [Next]_vars PROVE NoneLeftBehind'
  OBVIOUS
<1> USE DEF FaultFree
<1>1. ASSUME NEW t \in Tasks, CreateTask(t) PROVE NoneLeftBehind'
  <2>1. \A u \in Tasks : status'[u] = "IN_PROGRESS" <=> status[u] = "IN_PROGRESS"
    BY <1>1 DEF CreateTask, IInv, TypeOK
  <2> QED
    BY <1>1, <2>1, NoneLeftQuiet DEF CreateTask
<1>2. ASSUME NEW t \in Tasks, OnTaskMessageDbError(t) PROVE NoneLeftBehind'
  <2>1. dbErrors' # 0
    BY <1>2 DEF OnTaskMessageDbError, IInv, TypeOK
  <2> QED
    BY <2>1 DEF NoneLeftBehind
<1>3. ASSUME NEW r \in Runs, NEW t \in Tasks,
             OnTaskMessage(r, t) \/ SkipBussy(r, t)
      PROVE  NoneLeftBehind'
  BY <1>3, NoneLeftQuiet DEF OnTaskMessage, SkipBussy
<1>4. ASSUME NEW r \in Runs, NEW t \in Tasks, Claim(r, t) PROVE NoneLeftBehind'
  <2> SUFFICES ASSUME FaultFree' PROVE NoneLeftBehind'
    BY DEF NoneLeftBehind
  <2>1. ~Executing(t) /\ cur[r] \notin Tasks
    BY <1>4, NoTaskAssumption DEF Claim, IInv, TypeOK, StageMatchesCur, BussyIsExecuting
  <2>2. /\ FaultFree /\ status' = status /\ cur'[r] = t
        /\ \A q \in Runs : q # r => cur'[q] = cur[q] /\ stage'[q] = stage[q]
    BY <1>4 DEF Claim, IInv, TypeOK
  <2>3. t \in Undoing \/ status[t] # "IN_PROGRESS"
    BY <2>1, <2>2 DEF NoneLeftBehind
  <2>4. \A u \in Tasks : Executing(u) => Executing(u)'
    BY <2>1, <2>2 DEF Executing
  <2> QED
    BY <2>2, <2>3, <2>4 DEF NoneLeftBehind
<1>5. ASSUME NEW r \in Runs, Ending(r) PROVE  NoneLeftBehind'
  <2>1. stage[r] # "loop" /\ Release(r) /\ (FaultFree' => FaultFree)
    BY <1>5 DEF Ending, Defer, NothingToUpdate, EnteredDbError, UndoFails, MarkDone,
                  MarkError, MarkErrorDbError, Release, IInv, TypeOK
  <2>2. cur[r] \in Tasks
    BY <2>1 DEF IInv, TypeOK, StageMatchesCur
  <2>3. FaultFree' => cur[r] \in Undoing \/ status'[cur[r]] # "IN_PROGRESS"
    BY <1>5, <2>1, <2>2 DEF Ending, Defer, NothingToUpdate, EnteredDbError, UndoFails, MarkDone,
                  MarkError, MarkErrorDbError, SetStatus,
                            NoneLeftBehind, IInv, TypeOK
  <2>4. \A t \in Tasks : t # cur[r] => status'[t] = status[t]
    BY <1>5 DEF Ending, Defer, NothingToUpdate, EnteredDbError, UndoFails, MarkDone,
                  MarkError, MarkErrorDbError, SetStatus, IInv, TypeOK
  <2> QED
    BY <2>1, <2>3, <2>4, NoneLeftRelease
<1>6. ASSUME NEW r \in Runs, Moving(r) PROVE  NoneLeftBehind'
  <2> SUFFICES ASSUME FaultFree' PROVE NoneLeftBehind'
    BY DEF NoneLeftBehind
  <2>1. FaultFree /\ cur' = cur /\ stage[r] # "loop"
    BY <1>6 DEF Moving, MarkInProgress, MarkInProgressDbError, Unsupported,
                  WorkFails, IInv, TypeOK
  <2>2. \A q \in Runs : stage'[q] = "entered" => q # r /\ stage[q] = "entered"
    BY <1>6 DEF Moving, MarkInProgress, MarkInProgressDbError, Unsupported,
                  WorkFails, IInv, TypeOK
  <2>3. \A t \in Tasks : t # cur[r] => status'[t] = status[t]
    BY <1>6 DEF Moving, MarkInProgress, MarkInProgressDbError, Unsupported,
                  WorkFails, SetStatus, IInv, TypeOK
  <2>4. \A q \in Runs : q # r /\ stage[q] = "entered" => cur[q] \in Tasks /\ cur[q] # cur[r]
    BY NoTaskAssumption DEF IInv, TypeOK, StageMatchesCur, NoConcurrentExecution
  <2>5. \A t \in Tasks \ Undoing : status'[t] = "IN_PROGRESS" => Executing(t)
    BY <2>1, <2>3 DEF NoneLeftBehind, Executing
  <2> QED
    BY <2>1, <2>2, <2>3, <2>4, <2>5 DEF NoneLeftBehind, Executing
<1>7. CASE CrashRestart
  <2>1. crashes' # 0
    BY <1>7 DEF CrashRestart, IInv, TypeOK
  <2> QED
    BY <2>1 DEF NoneLeftBehind
<1>8. CASE UNCHANGED vars
  BY <1>8, NoneLeftQuiet DEF vars
<1>9. ASSUME NEW r \in Runs, OnTimer(r) PROVE NoneLeftBehind'
  BY <1>9, NoneLeftQuiet DEF OnTimer
<1> QED
  BY <1>1, <1>2, <1>3, <1>4, <1>5, <1>6, <1>7, <1>8, <1>9 DEF Next, RunStep, Ending, Moving

\* Without a crash or a failed statement every handler that marked its row
\* IN_PROGRESS writes its end (the try and catch blocks of the handlers), unless
\* its catch block asks a host first.
THEOREM NoOrphans == Spec => []NoOrphanWithoutFault
<1>1. NoneLeftBehind => NoOrphanWithoutFault
  BY DEF NoneLeftBehind, FaultFree, NoOrphanWithoutFault
<1> QED
  BY <1>1, NoneLeftInit, NoneLeftStep, Invariance, PTL DEF Spec

----------------------------------------------------------------------------
(* The abstract life cycle.                                                *)

LEMMA LifecycleInit == Init => Lifecycle!Init
BY DEF Init, Lifecycle!Init

LEMMA LifecycleStep ==
  IInv /\ [Next]_vars => [Lifecycle!Next]_<<status, bussyTaskIds>>
<1> SUFFICES ASSUME IInv, [Next]_vars
             PROVE  Lifecycle!Next \/ UNCHANGED <<status, bussyTaskIds>>
  OBVIOUS
<1>1. ASSUME NEW t \in Tasks, CreateTask(t) PROVE Lifecycle!Next
  BY <1>1 DEF CreateTask, NotifyNewTask, Lifecycle!Next, Lifecycle!Create
<1>2. ASSUME NEW r \in Runs, NEW t \in Tasks, Claim(r, t) PROVE Lifecycle!Next
  <2>1. status[t] # "NONE"
    BY <1>2 DEF Claim, IsNext, IInv, OnlyExistingRows, Held
  <2> QED
    BY <1>2, <2>1 DEF Claim, Lifecycle!Next, Lifecycle!Start
<1>3. ASSUME NEW r \in Runs, stage[r] # "loop"
      PROVE  cur[r] \in Tasks /\ cur[r] \in bussyTaskIds
  BY <1>3, NoTaskAssumption
     DEF IInv, TypeOK, StageMatchesCur, BussyIsExecuting, Executing
<1>4. ASSUME NEW r \in Runs,
             Defer(r) \/ EnteredDbError(r) \/ UndoFails(r) \/ MarkErrorDbError(r)
      PROVE  Lifecycle!Next
  <2>1. cur[r] \in Tasks /\ cur[r] \in bussyTaskIds
    BY <1>3, <1>4 DEF Defer, EnteredDbError, UndoFails, MarkErrorDbError
  <2>2. status' = status /\ bussyTaskIds' = bussyTaskIds \ {cur[r]}
    BY <1>4 DEF Defer, EnteredDbError, UndoFails, MarkErrorDbError, Release
  <2> QED
    BY <2>1, <2>2 DEF Lifecycle!Next, Lifecycle!GiveUp
<1>5. ASSUME NEW r \in Runs, MarkInProgress(r) PROVE Lifecycle!Next
  <2>1. cur[r] \in Tasks /\ cur[r] \in bussyTaskIds
    BY <1>3, <1>5 DEF MarkInProgress
  <2> QED
    BY <1>5, <2>1 DEF MarkInProgress, SetStatus, Lifecycle!Next, Lifecycle!Progress
<1>6. ASSUME NEW r \in Runs, MarkDone(r) \/ NothingToUpdate(r)
      PROVE  Lifecycle!Next
  <2>1. cur[r] \in Tasks /\ cur[r] \in bussyTaskIds
    BY <1>3, <1>6 DEF MarkDone, NothingToUpdate
  <2>2. status[cur[r]] = "IN_PROGRESS" \/ cur[r] \in Updates
    BY <1>6 DEF MarkDone, NothingToUpdate, IInv, WorkingIsInProgress
  <2> QED
    BY <1>6, <2>1, <2>2 DEF MarkDone, NothingToUpdate, SetStatus, Release,
                            Lifecycle!Next, Lifecycle!Succeed
<1>7. ASSUME NEW r \in Runs, MarkError(r) PROVE Lifecycle!Next
  <2>1. cur[r] \in Tasks /\ cur[r] \in bussyTaskIds
    BY <1>3, <1>7 DEF MarkError
  <2> QED
    BY <1>7, <2>1 DEF MarkError, SetStatus, Release, Lifecycle!Next, Lifecycle!Fail
<1>8. ASSUME NEW r \in Runs,
             \/ MarkInProgressDbError(r) \/ Unsupported(r) \/ WorkFails(r)
             \/ OnTimer(r)
      PROVE  UNCHANGED <<status, bussyTaskIds>>
  BY <1>8 DEF MarkInProgressDbError, Unsupported, WorkFails, OnTimer
<1>9. ASSUME NEW t \in Tasks, OnTaskMessageDbError(t)
      PROVE  UNCHANGED <<status, bussyTaskIds>>
  BY <1>9 DEF OnTaskMessageDbError
<1>10. ASSUME NEW r \in Runs, NEW t \in Tasks,
              OnTaskMessage(r, t) \/ SkipBussy(r, t)
       PROVE  UNCHANGED <<status, bussyTaskIds>>
  BY <1>10 DEF OnTaskMessage, SkipBussy
<1>11. CASE CrashRestart
  BY <1>11 DEF CrashRestart, Lifecycle!Next, Lifecycle!Crash
<1>12. CASE UNCHANGED vars
  BY <1>12 DEF vars
<1> QED
  BY <1>1, <1>2, <1>4, <1>5, <1>6, <1>7, <1>8, <1>9, <1>10, <1>11, <1>12
     DEF Next, RunStep

\* Every behaviour of the queue is a behaviour of the abstract life cycle.
THEOREM Refinement == Spec => ImplementsLifecycle
<1>1. Spec => Lifecycle!Init /\ [][Lifecycle!Next]_<<status, bussyTaskIds>>
  BY LifecycleInit, LifecycleStep, Invariance, PTL DEF Spec
<1> QED
  BY <1>1 DEF ImplementsLifecycle, Lifecycle!Spec
----------------------------------------------------------------------------
(* The groups of the workspaces' clusters (ClusterGroups), whose four kinds of *)
(* tasks are rows of this queue.                                               *)

\* A request has yet to grant some of the groups it is for, all of them before it
\* removes those the user has.
Consistent(x) == x.left \subseteq x.want /\ (x.pc = "checked" => x.left = x.want)

\* What ClusterGroups assumes of its constants, as one fact: the creator's group is one
\* of the groups, and the bounds are numbers.
Given == ClusterAdmin \in Groups /\ MaxDeletes \in Nat /\ MaxEvents \in Nat

LEMMA Assumed == Given
BY ClusterAdminAssumption, EventsAssumption DEF Given

Typed ==
  /\ Given
  /\ GroupsTypeOK
  /\ task \in [Kinds -> [Workspaces -> {"none", "PENDING", "DONE", "ERROR"}
                                         \cup UNION {Steps[k] : k \in Kinds}]]
  /\ request = [r \in Requests |-> request[r]]
  /\ \A r \in Requests : request[r].pc \in RbacPcs => Consistent(request[r])

\* A name belongs to one row at a time.
OnePresent == \A v, w \in Workspaces : row[v] = "present" /\ row[w] = "present" => v = w

\* The namespaces of w with their groups, and the requests for some.
NamespacesOf(w) == {n \in namespaces : n[1] = w}
OpenNamespaces(w) ==
  {r \in Requests : request[r].pc \in NamespacePcs /\ request[r].ws = w}

\* The cluster is there, and the task that makes its groups ended, if it was ever
\* scheduled.
Provisioned(w) ==
  Is("create", w, "DONE") /\ task["groups"][w] \in {"none", "DONE", "ERROR"}

\* The order of the tasks of one workspace: the groups are made after the cluster,
\* cleaned up after a deletion that had nodes, and a deletion that met no open task
\* found the cluster provisioned.  So did every request for a namespace.
Life(w) ==
  /\ row[w] = "unused" => /\ \A k \in Kinds : Is(k, w, "none")
                          /\ OpenRbac(w) = {}
  /\ w \in nodes => task["create"][w] \in {"deployed", "announced", "DONE"}
  /\ ~Is("groups", w, "none") => task["create"][w] \in {"announced", "DONE"}
  /\ ~Is("cleanup", w, "none") => w \in payload
  /\ w \in payload => ~Is("delete", w, "none")
  /\ w \in payload /\ w \notin hasty => Provisioned(w)
  /\ NamespacesOf(w) # {} \/ OpenNamespaces(w) # {} => Provisioned(w)

\* While a workspace that shared its name with no other is present, no other task
\* and no other request on memberships is open.  This is what lets the groups be
\* found by their names.
Sole(w) == row[w] = "present" /\ w \notin shared
Alone(w) == Sole(w) => \A v \in Workspaces \ {w} : ~OpenTask(v) /\ OpenRbac(v) = {}

\* Until its deletion is scheduled, the groups such a workspace had made are its
\* own, and all of them.
Kept(w) == Sole(w) /\ Is("delete", w, "none")

GroupsMade(w) ==
  Kept(w) /\ task["groups"][w] \in {"made", "DONE"} => base = w /\ groups = Groups

\* Its namespaces name all groups but the administrators': a request was let through only when no task was
\* open, i.e. before the groups are scheduled or after they are made.
NamesAll(w) ==
  Kept(w) /\ Is("groups", w, "DONE") =>
    /\ \A n \in NamespacesOf(w) \ torn : n[2] = Groups \ {ClusterAdmin}
    /\ \A r \in OpenNamespaces(w) : request[r].pc = "listed" => request[r].bound = Groups

\* No step makes a base group for a workspace whose groups were cleaned up, unless
\* its deletion was scheduled while the task that makes them was open.
CleanedUp(w) == Is("cleanup", w, "DONE") /\ w \notin hasty => base # w

\* Requests that were let through before the groups are scheduled are those of
\* mixed users, and nobody else was granted anything,
Coming(w) ==
  \/ task["create"][w] \in {"none", "PENDING", "deployed"}
  \/ task["groups"][w] \in {"PENDING", "base", "made"}
Unasked(w) ==
  Sole(w) /\ Coming(w) =>
    /\ RbacUsers(w) \subseteq mixed
    /\ \A u \in Users \ mixed : wanted[u] = {}

\* or is a member of a group that is being made.
HeldBy(m, u) == m \cap ({u} \X Groups)
Unheld(w) ==
  Kept(w) /\ task["groups"][w] \in {"base", "made"} =>
    \A u \in Users \ mixed : HeldBy(members, u) = {}

\* A user who is not mixed has at most one open request,
OneEach(w) ==
  Sole(w) => \A r, q \in OpenRbac(w) :
     request[r].user = request[q].user /\ request[r].user \notin mixed => r = q

\* and between requests what the last one granted; during one, what it granted so
\* far.
Answered(r) == {request[r].user} \X (request[r].want \ request[r].left)
Granting(w) ==
  Kept(w) /\ Is("groups", w, "DONE") =>
    /\ \A u \in Users \ (mixed \cup RbacUsers(w)) : HeldBy(members, u) = {u} \X wanted[u]
    /\ \A r \in OpenRbac(w) : request[r].pc = "removed" /\ request[r].user \notin mixed =>
         HeldBy(members, request[r].user) = Answered(r)

Followed(w) ==
  /\ Life(w) /\ Alone(w) /\ GroupsMade(w) /\ NamesAll(w) /\ CleanedUp(w)
  /\ Unasked(w) /\ Unheld(w) /\ OneEach(w) /\ Granting(w)
GroupsInv == Typed /\ OnePresent /\ \A w \in Workspaces : Followed(w)

\* The kinds of tasks and the steps of each.
LEMMA KindSteps ==
  /\ Kinds = {"create", "groups", "delete", "cleanup"}
  /\ Steps["create"] = {"deployed", "announced"} /\ Steps["groups"] = {"base", "made"}
  /\ Steps["delete"] = {"destroyed"} /\ Steps["cleanup"] = {"stripped"}
BY DEF Kinds, Steps

\* An open task, kind by kind,
LEMMA OpenTasks ==
  ASSUME NEW w
  PROVE  /\ OpenTask(w) <=>
              \/ task["create"][w] \in {"PENDING", "deployed", "announced"}
              \/ task["groups"][w] \in {"PENDING", "base", "made"}
              \/ task["delete"][w] \in {"PENDING", "destroyed"}
              \/ task["cleanup"][w] \in {"PENDING", "stripped"}
         /\ OpenTask(w)' <=>
              \/ task'["create"][w] \in {"PENDING", "deployed", "announced"}
              \/ task'["groups"][w] \in {"PENDING", "base", "made"}
              \/ task'["delete"][w] \in {"PENDING", "destroyed"}
              \/ task'["cleanup"][w] \in {"PENDING", "stripped"}
BY KindSteps DEF OpenTask

\* and what a task of a kind can be at.
Status(k) == {"none", "PENDING", "DONE", "ERROR"} \cup Steps[k]

LEMMA TaskTypes ==
  ASSUME Typed
  PROVE  \A w \in Workspaces :
           /\ task["create"][w] \in {"none", "PENDING", "DONE", "ERROR", "deployed", "announced"}
           /\ task["groups"][w] \in {"none", "PENDING", "DONE", "ERROR", "base", "made"}
           /\ task["delete"][w] \in {"none", "PENDING", "DONE", "ERROR", "destroyed"}
           /\ task["cleanup"][w] \in {"none", "PENDING", "DONE", "ERROR", "stripped"}
BY KindSteps DEF Typed, GroupsTypeOK

\* One task gets a status, every other one keeps its own.
LEMMA Becoming ==
  ASSUME Typed, NEW k \in Kinds, NEW w \in Workspaces, NEW s \in Status(k), Becomes(k, w, s)
  PROVE  /\ task'[k][w] = s
         /\ \A j \in Kinds, v \in Workspaces : j # k \/ v # w => task'[j][v] = task[j][v]
         /\ task' \in [Kinds -> [Workspaces -> {"none", "PENDING", "DONE", "ERROR"}
                                         \cup UNION {Steps[j] : j \in Kinds}]]
         /\ \A j \in Kinds : task'[j] \in [Workspaces -> Status(j)]
<1> DEFINE All == {"none", "PENDING", "DONE", "ERROR"} \cup UNION {Steps[j] : j \in Kinds}
<1>1. /\ task \in [Kinds -> [Workspaces -> All]]
      /\ \A j \in Kinds : task[j] \in [Workspaces -> Status(j)]
  BY DEF Typed, GroupsTypeOK, Status
<1>2. s \in All
  BY DEF Status
<1> HIDE DEF All
<1>3. task' = [task EXCEPT ![k] = [task[k] EXCEPT ![w] = s]]
  BY <1>1 DEF Becomes
<1>4. /\ [task[k] EXCEPT ![w] = s] \in [Workspaces -> All]
      /\ [task[k] EXCEPT ![w] = s] \in [Workspaces -> Status(k)]
  BY <1>1, <1>2
<1>5. /\ task' \in [Kinds -> [Workspaces -> All]]
      /\ \A j \in Kinds : task'[j] \in [Workspaces -> Status(j)]
  BY <1>1, <1>3, <1>4
<1>6. /\ task'[k][w] = s
      /\ \A j \in Kinds, v \in Workspaces : j # k \/ v # w => task'[j][v] = task[j][v]
  BY <1>1, <1>3
<1> USE DEF All
<1>7. QED  BY <1>5, <1>6

\* What is read from requests stays when they do,
LEMMA RequestsKept ==
  ASSUME UNCHANGED request, NEW w
  PROVE  /\ OpenRbac(w)' = OpenRbac(w) /\ OpenNamespaces(w)' = OpenNamespaces(w)
         /\ RbacUsers(w)' = RbacUsers(w)
<1>1. OpenRbac(w)' = OpenRbac(w) /\ OpenNamespaces(w)' = OpenNamespaces(w)
  BY DEF OpenRbac, OpenNamespaces
<1>2. QED  BY <1>1 DEF RbacUsers

\* and what is read from memberships.
LEMMA MembersKept ==
  /\ \A u : MembershipsOf(u) = HeldBy(members, u)
  /\ UNCHANGED members => \A u : HeldBy(members', u) = HeldBy(members, u)
BY DEF MembershipsOf, HeldBy

\* The count of events stays within its bound.
LEMMA Events ==
  ASSUME Typed
  PROVE  /\ Fault \/ NoFault => events' \in 0..MaxEvents
         /\ \A c : FaultIf(c) => events' \in 0..MaxEvents
BY DEF Typed, Given, GroupsTypeOK, Fault, NoFault, FaultIf

\* A step that gives one task a status, and does not add namespaces or memberships.
Effect(k, w, s) ==
  /\ task'[k][w] = s
  /\ \A j \in Kinds, v \in Workspaces : j # k \/ v # w => task'[j][v] = task[j][v]

LEMMA TaskStep ==
  ASSUME Typed, NEW k \in Kinds, NEW w \in Workspaces, NEW s \in Status(k), Becomes(k, w, s),
         UNCHANGED <<creator, groups, base, request, wanted, mixed, torn>>, namespaces' \subseteq namespaces,
         row' \in [Workspaces -> {"unused", "present", "gone"}],
         nodes' \subseteq Workspaces, payload' \subseteq Workspaces, members' \subseteq members,
         events' \in 0..MaxEvents, shared' \subseteq Workspaces, hasty' \subseteq Workspaces
  PROVE  Typed' /\ Effect(k, w, s)
<1>1. /\ task' \in [Kinds -> [Workspaces -> {"none", "PENDING", "DONE", "ERROR"}
                                         \cup UNION {Steps[j] : j \in Kinds}]]
      /\ \A j \in Kinds : task'[j] \in [Workspaces -> Status(j)]
      /\ Effect(k, w, s)
  BY Becoming DEF Effect
<1>2. GroupsTypeOK'
  BY <1>1, Events DEF Typed, GroupsTypeOK, Status
<1>3. QED  BY <1>1, <1>2 DEF Typed

\* A step that only changes rows and tasks.
Quiet(v) ==
  /\ Sole(v)' => Sole(v)
  /\ Is("delete", v, "none")' => Is("delete", v, "none")
  /\ \A s \in {"base", "made", "DONE"} : Is("groups", v, s)' => Is("groups", v, s)
  /\ Is("cleanup", v, "DONE")' => Is("cleanup", v, "DONE")
  /\ Coming(v)' => Coming(v)

LEMMA QuietGroups ==
  ASSUME NEW v \in Workspaces, Followed(v), Quiet(v),
         UNCHANGED <<keycloak, request, wanted, mixed, torn>>, namespaces' \subseteq namespaces,
         hasty \subseteq hasty'
  PROVE  /\ GroupsMade(v)' /\ NamesAll(v)' /\ CleanedUp(v)'
         /\ Unasked(v)' /\ Unheld(v)' /\ OneEach(v)' /\ Granting(v)'
<1>1. /\ UNCHANGED <<OpenRbac(v), OpenNamespaces(v), RbacUsers(v)>>
      /\ NamespacesOf(v)' \subseteq NamespacesOf(v)
      /\ \A u \in Users : HeldBy(members', u) = HeldBy(members, u)
  BY RequestsKept, MembersKept DEF keycloak, NamespacesOf
<1>2. Kept(v)' => Kept(v)
  BY DEF Quiet, Kept
<1>3. GroupsMade(v)'
  BY <1>2 DEF Followed, Quiet, GroupsMade, Is, keycloak
<1>4. NamesAll(v)'
  BY <1>1, <1>2 DEF Followed, Quiet, NamesAll
<1>5. CleanedUp(v)'
  BY DEF Followed, Quiet, CleanedUp, keycloak
<1>6. Unasked(v)'
  BY <1>1, Events DEF Followed, Quiet, Unasked
<1>7. Unheld(v)'
  BY <1>1, <1>2 DEF Followed, Quiet, Unheld, Is
<1>8. OneEach(v)'
  BY <1>1, Events DEF Followed, Quiet, OneEach
<1>9. Granting(v)'
  <2>1. \A r \in OpenRbac(v) : Answered(r)' = Answered(r)
    BY DEF Answered
  <2>2. SUFFICES ASSUME Kept(v)', Is("groups", v, "DONE")'
                 PROVE  /\ \A u \in Users \ (mixed \cup RbacUsers(v)) :
                             HeldBy(members', u) = {u} \X wanted[u]
                        /\ \A r \in OpenRbac(v) :
                             request[r].pc = "removed" /\ request[r].user \notin mixed =>
                             HeldBy(members', request[r].user) = Answered(r)
    BY <1>1, <2>1 DEF Granting
  <2>3. Kept(v) /\ Is("groups", v, "DONE")
    BY <1>2, <2>2 DEF Quiet
  <2>4. UNCHANGED members
    BY DEF keycloak
  <2>5. QED  BY <2>3, <2>4, MembersKept DEF Followed, Granting
<1>10. QED  BY <1>3, <1>4, <1>5, <1>6, <1>7, <1>8, <1>9

\* The steps of the task that creates the cluster, and those of the deletion.
LEMMA ScheduleCreateFollows ==
  ASSUME GroupsInv, NEW w \in Workspaces, ScheduleCreate(w)
  PROVE  GroupsInv'
<1>1. Typed /\ OnePresent /\ \A v \in Workspaces : Followed(v)
  BY DEF GroupsInv
<1>2. /\ Is("create", w, "none")
      /\ Becomes("create", w, "PENDING")
      /\ row[w] = "present"
      /\ UNCHANGED <<row, nodes, payload, namespaces, hasty>>
      /\ UNCHANGED <<creator, base, groups, members, request, wanted, mixed, shared, torn>>
      /\ events' \in 0..MaxEvents
  BY <1>1, Events DEF ScheduleCreate, keycloak, api, history, Typed, GroupsTypeOK
<1>3. Typed' /\ Effect("create", w, "PENDING")
  BY <1>1, <1>2, TaskStep, KindSteps DEF Status, Typed, GroupsTypeOK
<1>4. OnePresent'
  BY <1>1, <1>2 DEF OnePresent, Typed, GroupsTypeOK
<1>5. ASSUME NEW v \in Workspaces PROVE Followed(v)'
  <2>1. UNCHANGED <<OpenRbac(v), OpenNamespaces(v)>>
    BY <1>2, RequestsKept
  <2>2. Quiet(v)
    BY <1>1, <1>2, <1>3, KindSteps DEF Quiet, Effect, Sole, Coming, Is, Typed, GroupsTypeOK
  <2>3. Life(v)'
    BY <1>1, <1>2, <1>3, <2>1, KindSteps DEF Followed, Life, Effect, Is, Provisioned,
       NamespacesOf, Typed, GroupsTypeOK
  <2>4. Alone(v)'
    BY <1>1, <1>2, <1>3, <2>2, OpenTasks, RequestsKept, KindSteps
    DEF Followed, Alone, Quiet, Sole, Effect, Is, OnePresent
  <2>5. QED  BY <1>1, <1>2, <2>2, <2>3, <2>4, QuietGroups DEF Followed, keycloak
<1>6. QED  BY <1>3, <1>4, <1>5 DEF GroupsInv

LEMMA DeployClusterFollows ==
  ASSUME GroupsInv, NEW w \in Workspaces, DeployCluster(w)
  PROVE  GroupsInv'
<1>1. Typed /\ OnePresent /\ \A v \in Workspaces : Followed(v)
  BY DEF GroupsInv
<1>2. /\ Is("create", w, "PENDING")
      /\ Becomes("create", w, "deployed")
      /\ nodes' = nodes \cup {w}
      /\ UNCHANGED <<row, payload, namespaces, hasty>>
      /\ UNCHANGED <<creator, base, groups, members, request, wanted, mixed, shared, torn>>
      /\ events' \in 0..MaxEvents
  BY <1>1, Events DEF DeployCluster, keycloak, api, history, Typed, GroupsTypeOK
<1>2a. /\ row' \in [Workspaces -> {"unused", "present", "gone"}]
       /\ nodes' \subseteq Workspaces /\ payload' \subseteq Workspaces
       /\ shared' \subseteq Workspaces /\ hasty' \subseteq Workspaces
  BY <1>1, <1>2 DEF Typed, GroupsTypeOK
<1>2b. "create" \in Kinds /\ "deployed" \in Status("create")
  BY KindSteps DEF Status
<1>3. Typed' /\ Effect("create", w, "deployed")
  BY <1>1, <1>2, <1>2a, <1>2b, TaskStep
<1>4. OnePresent'
  BY <1>1, <1>2 DEF OnePresent, Typed, GroupsTypeOK
<1>5. ASSUME NEW v \in Workspaces PROVE Followed(v)'
  <2>1. UNCHANGED <<OpenRbac(v), OpenNamespaces(v)>>
    BY <1>2, RequestsKept
  <2>2. Quiet(v)
    BY <1>1, <1>2, <1>3, KindSteps DEF Quiet, Effect, Sole, Coming, Is, Typed, GroupsTypeOK
  <2>3. Life(v)'
    BY <1>1, <1>2, <1>3, <2>1, KindSteps DEF Followed, Life, Effect, Is, Provisioned,
       NamespacesOf, Typed, GroupsTypeOK
  <2>4. Alone(v)'
    BY <1>1, <1>2, <1>3, <2>2, OpenTasks, RequestsKept, KindSteps
    DEF Followed, Alone, Quiet, Sole, Effect, Is, OnePresent
  <2>5. QED  BY <1>1, <1>2, <2>2, <2>3, <2>4, QuietGroups DEF Followed, keycloak
<1>6. QED  BY <1>3, <1>4, <1>5 DEF GroupsInv

LEMMA DeployFailsFollows ==
  ASSUME GroupsInv, NEW w \in Workspaces, DeployFails(w)
  PROVE  GroupsInv'
<1>1. Typed /\ OnePresent /\ \A v \in Workspaces : Followed(v)
  BY DEF GroupsInv
<1>2. /\ Is("create", w, "PENDING")
      /\ Becomes("create", w, "ERROR")
      /\ row' = [row EXCEPT ![w] = "gone"]
      /\ UNCHANGED <<nodes, payload, namespaces, hasty>>
      /\ UNCHANGED <<creator, base, groups, members, request, wanted, mixed, shared, torn>>
      /\ events' \in 0..MaxEvents
  BY <1>1, Events DEF DeployFails, keycloak, api, history, Typed, GroupsTypeOK
<1>3. Typed' /\ Effect("create", w, "ERROR")
  BY <1>1, <1>2, TaskStep, KindSteps DEF Status, Typed, GroupsTypeOK
<1>4. OnePresent'
  BY <1>1, <1>2 DEF OnePresent, Typed, GroupsTypeOK
<1>5. ASSUME NEW v \in Workspaces PROVE Followed(v)'
  <2>1. UNCHANGED <<OpenRbac(v), OpenNamespaces(v)>>
    BY <1>2, RequestsKept
  <2>2. Quiet(v)
    BY <1>1, <1>2, <1>3, KindSteps DEF Quiet, Effect, Sole, Coming, Is, Typed, GroupsTypeOK
  <2>3. Life(v)'
    BY <1>1, <1>2, <1>3, <2>1, KindSteps DEF Followed, Life, Effect, Is, Provisioned,
       NamespacesOf, Typed, GroupsTypeOK
  <2>4. Alone(v)'
    BY <1>1, <1>2, <1>3, <2>2, OpenTasks, RequestsKept, KindSteps
    DEF Followed, Alone, Quiet, Sole, Effect, Is, OnePresent
  <2>5. QED  BY <1>1, <1>2, <2>2, <2>3, <2>4, QuietGroups DEF Followed, keycloak
<1>6. QED  BY <1>3, <1>4, <1>5 DEF GroupsInv

LEMMA CreateDoneFollows ==
  ASSUME GroupsInv, NEW w \in Workspaces, CreateDone(w)
  PROVE  GroupsInv'
<1>1. Typed /\ OnePresent /\ \A v \in Workspaces : Followed(v)
  BY DEF GroupsInv
<1>2. /\ Is("create", w, "announced")
      /\ Becomes("create", w, "DONE")
      /\ UNCHANGED <<row, nodes, payload, namespaces, hasty>>
      /\ UNCHANGED <<creator, base, groups, members, request, wanted, mixed, shared, torn>>
      /\ events' \in 0..MaxEvents
  BY <1>1, Events DEF CreateDone, keycloak, api, history, Typed, GroupsTypeOK
<1>3. Typed' /\ Effect("create", w, "DONE")
  BY <1>1, <1>2, TaskStep, KindSteps DEF Status, Typed, GroupsTypeOK
<1>4. OnePresent'
  BY <1>1, <1>2 DEF OnePresent, Typed, GroupsTypeOK
<1>5. ASSUME NEW v \in Workspaces PROVE Followed(v)'
  <2>1. UNCHANGED <<OpenRbac(v), OpenNamespaces(v)>>
    BY <1>2, RequestsKept
  <2>2. Quiet(v)
    BY <1>1, <1>2, <1>3, KindSteps DEF Quiet, Effect, Sole, Coming, Is, Typed, GroupsTypeOK
  <2>3. Life(v)'
    BY <1>1, <1>2, <1>3, <2>1, KindSteps DEF Followed, Life, Effect, Is, Provisioned,
       NamespacesOf, Typed, GroupsTypeOK
  <2>4. Alone(v)'
    BY <1>1, <1>2, <1>3, <2>2, OpenTasks, RequestsKept, KindSteps
    DEF Followed, Alone, Quiet, Sole, Effect, Is, OnePresent
  <2>5. QED  BY <1>1, <1>2, <2>2, <2>3, <2>4, QuietGroups DEF Followed, keycloak
<1>6. QED  BY <1>3, <1>4, <1>5 DEF GroupsInv

LEMMA CreateGroupsFailsFollows ==
  ASSUME GroupsInv, NEW w \in Workspaces, CreateGroupsFails(w)
  PROVE  GroupsInv'
<1>1. Typed /\ OnePresent /\ \A v \in Workspaces : Followed(v)
  BY DEF GroupsInv
<1>2. /\ task["groups"][w] \in {"PENDING", "base", "made"}
      /\ Becomes("groups", w, "ERROR")
      /\ UNCHANGED <<row, nodes, payload, namespaces, hasty>>
      /\ UNCHANGED <<creator, base, groups, members, request, wanted, mixed, shared, torn>>
      /\ events' \in 0..MaxEvents
  BY <1>1, Events DEF CreateGroupsFails, keycloak, api, history, Typed, GroupsTypeOK, Steps
<1>3. Typed' /\ Effect("groups", w, "ERROR")
  BY <1>1, <1>2, TaskStep, KindSteps DEF Status, Typed, GroupsTypeOK
<1>4. OnePresent'
  BY <1>1, <1>2 DEF OnePresent, Typed, GroupsTypeOK
<1>5. ASSUME NEW v \in Workspaces PROVE Followed(v)'
  <2>1. UNCHANGED <<OpenRbac(v), OpenNamespaces(v)>>
    BY <1>2, RequestsKept
  <2>2. Quiet(v)
    BY <1>1, <1>2, <1>3, KindSteps DEF Quiet, Effect, Sole, Coming, Is, Typed, GroupsTypeOK
  <2>3. Life(v)'
    BY <1>1, <1>2, <1>3, <2>1, KindSteps DEF Followed, Life, Effect, Is, Provisioned,
       NamespacesOf, Typed, GroupsTypeOK
  <2>4. Alone(v)'
    BY <1>1, <1>2, <1>3, <2>2, OpenTasks, RequestsKept, KindSteps
    DEF Followed, Alone, Quiet, Sole, Effect, Is, OnePresent
  <2>5. QED  BY <1>1, <1>2, <2>2, <2>3, <2>4, QuietGroups DEF Followed, keycloak
<1>6. QED  BY <1>3, <1>4, <1>5 DEF GroupsInv

LEMMA ScheduleDeleteFollows ==
  ASSUME GroupsInv, NEW w \in Workspaces, ScheduleDelete(w)
  PROVE  GroupsInv'
<1>1. Typed /\ OnePresent /\ \A v \in Workspaces : Followed(v)
  BY DEF GroupsInv
<1>2. /\ Is("delete", w, "none")
      /\ Becomes("delete", w, "PENDING")
      /\ row[w] = "present"
      /\ payload' = payload \cup ({w} \cap nodes)
      /\ hasty' = hasty \cup (IF OpenTask(w) THEN {w} ELSE {})
      /\ UNCHANGED <<row, nodes, namespaces>>
      /\ UNCHANGED <<creator, base, groups, members, request, wanted, mixed, shared, torn>>
      /\ events' \in 0..MaxEvents /\ payload' \subseteq Workspaces /\ hasty' \subseteq Workspaces
  BY <1>1, Events DEF ScheduleDelete, keycloak, api, history, Typed, GroupsTypeOK
<1>3. Typed' /\ Effect("delete", w, "PENDING")
  BY <1>1, <1>2, TaskStep, KindSteps DEF Status, Typed, GroupsTypeOK
<1>4. OnePresent'
  BY <1>1, <1>2 DEF OnePresent, Typed, GroupsTypeOK
<1>5. ASSUME NEW v \in Workspaces PROVE Followed(v)'
  <2>1. UNCHANGED <<OpenRbac(v), OpenNamespaces(v)>>
    BY <1>2, RequestsKept
  <2>2. Quiet(v)
    BY <1>1, <1>2, <1>3, KindSteps DEF Quiet, Effect, Sole, Coming, Is, Typed, GroupsTypeOK
  <2>3. Life(v)'
    BY <1>1, <1>2, <1>3, <2>1, KindSteps, OpenTasks, TaskTypes
    DEF Followed, Life, Effect, Is, Provisioned, NamespacesOf, Typed, GroupsTypeOK
  <2>4. Alone(v)'
    BY <1>1, <1>2, <1>3, <2>2, OpenTasks, RequestsKept, KindSteps
    DEF Followed, Alone, Quiet, Sole, Effect, Is, OnePresent
  <2>5. QED  BY <1>1, <1>2, <2>2, <2>3, <2>4, QuietGroups DEF Followed, keycloak
<1>6. QED  BY <1>3, <1>4, <1>5 DEF GroupsInv

LEMMA DestroyFailsFollows ==
  ASSUME GroupsInv, NEW w \in Workspaces, DestroyFails(w)
  PROVE  GroupsInv'
<1>1. Typed /\ OnePresent /\ \A v \in Workspaces : Followed(v)
  BY DEF GroupsInv
<1>2. /\ Is("delete", w, "PENDING")
      /\ Becomes("delete", w, "ERROR")
      /\ UNCHANGED <<row, nodes, payload, namespaces, hasty>>
      /\ UNCHANGED <<creator, base, groups, members, request, wanted, mixed, shared, torn>>
      /\ events' \in 0..MaxEvents
  BY <1>1, Events DEF DestroyFails, keycloak, api, history, Typed, GroupsTypeOK
<1>3. Typed' /\ Effect("delete", w, "ERROR")
  BY <1>1, <1>2, TaskStep, KindSteps DEF Status, Typed, GroupsTypeOK
<1>4. OnePresent'
  BY <1>1, <1>2 DEF OnePresent, Typed, GroupsTypeOK
<1>5. ASSUME NEW v \in Workspaces PROVE Followed(v)'
  <2>1. UNCHANGED <<OpenRbac(v), OpenNamespaces(v)>>
    BY <1>2, RequestsKept
  <2>2. Quiet(v)
    BY <1>1, <1>2, <1>3, KindSteps DEF Quiet, Effect, Sole, Coming, Is, Typed, GroupsTypeOK
  <2>3. Life(v)'
    BY <1>1, <1>2, <1>3, <2>1, KindSteps DEF Followed, Life, Effect, Is, Provisioned,
       NamespacesOf, Typed, GroupsTypeOK
  <2>4. Alone(v)'
    BY <1>1, <1>2, <1>3, <2>2, OpenTasks, RequestsKept, KindSteps
    DEF Followed, Alone, Quiet, Sole, Effect, Is, OnePresent
  <2>5. QED  BY <1>1, <1>2, <2>2, <2>3, <2>4, QuietGroups DEF Followed, keycloak
<1>6. QED  BY <1>3, <1>4, <1>5 DEF GroupsInv

LEMMA DeleteWorkspaceFollows ==
  ASSUME GroupsInv, NEW w \in Workspaces, DeleteWorkspace(w)
  PROVE  GroupsInv'
<1>1. Typed /\ OnePresent /\ \A v \in Workspaces : Followed(v)
  BY DEF GroupsInv
<1>2. /\ Is("delete", w, "destroyed")
      /\ Becomes("delete", w, "DONE")
      /\ row' = [row EXCEPT ![w] = "gone"]
      /\ nodes' = nodes \ {w}
      /\ UNCHANGED <<payload, namespaces, hasty>>
      /\ UNCHANGED <<creator, base, groups, members, request, wanted, mixed, shared, torn>>
      /\ events' \in 0..MaxEvents
  BY <1>1, Events DEF DeleteWorkspace, keycloak, api, history, Typed, GroupsTypeOK
<1>3. Typed' /\ Effect("delete", w, "DONE")
  BY <1>1, <1>2, TaskStep, KindSteps DEF Status, Typed, GroupsTypeOK
<1>4. OnePresent'
  BY <1>1, <1>2 DEF OnePresent, Typed, GroupsTypeOK
<1>5. ASSUME NEW v \in Workspaces PROVE Followed(v)'
  <2>1. UNCHANGED <<OpenRbac(v), OpenNamespaces(v)>>
    BY <1>2, RequestsKept
  <2>2. Quiet(v)
    BY <1>1, <1>2, <1>3, KindSteps DEF Quiet, Effect, Sole, Coming, Is, Typed, GroupsTypeOK
  <2>3. Life(v)'
    BY <1>1, <1>2, <1>3, <2>1, KindSteps DEF Followed, Life, Effect, Is, Provisioned,
       NamespacesOf, Typed, GroupsTypeOK
  <2>4. Alone(v)'
    BY <1>1, <1>2, <1>3, <2>2, OpenTasks, RequestsKept, KindSteps
    DEF Followed, Alone, Quiet, Sole, Effect, Is, OnePresent
  <2>5. QED  BY <1>1, <1>2, <2>2, <2>3, <2>4, QuietGroups DEF Followed, keycloak
<1>6. QED  BY <1>3, <1>4, <1>5 DEF GroupsInv

LEMMA DeleteWorkspaceFailsFollows ==
  ASSUME GroupsInv, NEW w \in Workspaces, DeleteWorkspaceFails(w)
  PROVE  GroupsInv'
<1>1. Typed /\ OnePresent /\ \A v \in Workspaces : Followed(v)
  BY DEF GroupsInv
<1>2. /\ Is("delete", w, "destroyed")
      /\ Becomes("delete", w, "ERROR")
      /\ UNCHANGED <<row, nodes, payload, namespaces, hasty>>
      /\ UNCHANGED <<creator, base, groups, members, request, wanted, mixed, shared, torn>>
      /\ events' \in 0..MaxEvents
  BY <1>1, Events DEF DeleteWorkspaceFails, keycloak, api, history, Typed, GroupsTypeOK
<1>3. Typed' /\ Effect("delete", w, "ERROR")
  BY <1>1, <1>2, TaskStep, KindSteps DEF Status, Typed, GroupsTypeOK
<1>4. OnePresent'
  BY <1>1, <1>2 DEF OnePresent, Typed, GroupsTypeOK
<1>5. ASSUME NEW v \in Workspaces PROVE Followed(v)'
  <2>1. UNCHANGED <<OpenRbac(v), OpenNamespaces(v)>>
    BY <1>2, RequestsKept
  <2>2. Quiet(v)
    BY <1>1, <1>2, <1>3, KindSteps DEF Quiet, Effect, Sole, Coming, Is, Typed, GroupsTypeOK
  <2>3. Life(v)'
    BY <1>1, <1>2, <1>3, <2>1, KindSteps DEF Followed, Life, Effect, Is, Provisioned,
       NamespacesOf, Typed, GroupsTypeOK
  <2>4. Alone(v)'
    BY <1>1, <1>2, <1>3, <2>2, OpenTasks, RequestsKept, KindSteps
    DEF Followed, Alone, Quiet, Sole, Effect, Is, OnePresent
  <2>5. QED  BY <1>1, <1>2, <2>2, <2>3, <2>4, QuietGroups DEF Followed, keycloak
<1>6. QED  BY <1>3, <1>4, <1>5 DEF GroupsInv

\* Two tasks get a status.
Both(w, k, s, j, t) == task' = [task EXCEPT ![k][w] = s, ![j][w] = t]

LEMMA TwoSteps ==
  ASSUME Typed, NEW k \in Kinds, NEW w \in Workspaces, NEW s \in Status(k),
         NEW j \in Kinds \ {k}, NEW t \in Status(j),
         Both(w, k, s, j, t),
         UNCHANGED <<row, creator, keycloak, request, wanted, mixed, torn>>,
         nodes' \subseteq Workspaces, UNCHANGED payload, namespaces' \subseteq namespaces,
         events' \in 0..MaxEvents, UNCHANGED <<shared, hasty, torn>>
  PROVE  /\ Typed'
         /\ task'[k][w] = s /\ task'[j][w] = t
         /\ \A i \in Kinds, v \in Workspaces : (i # k /\ i # j) \/ v # w =>
              task'[i][v] = task[i][v]
<1> DEFINE All == {"none", "PENDING", "DONE", "ERROR"} \cup UNION {Steps[i] : i \in Kinds}
           f == [task[k] EXCEPT ![w] = s]
           g == [task[j] EXCEPT ![w] = t]
<1>1. /\ task \in [Kinds -> [Workspaces -> All]]
      /\ \A i \in Kinds : task[i] \in [Workspaces -> Status(i)]
  BY DEF Typed, GroupsTypeOK, Status
<1>2. s \in All /\ t \in All
  BY DEF Status
<1> HIDE DEF All
<1> DEFINE h == [task EXCEPT ![k] = f]
<1>3. task' = [h EXCEPT ![j] = g]
  BY <1>1 DEF Both
<1>4. /\ f \in [Workspaces -> All] /\ f \in [Workspaces -> Status(k)]
      /\ g \in [Workspaces -> All] /\ g \in [Workspaces -> Status(j)]
      /\ f[w] = s /\ g[w] = t
      /\ \A v \in Workspaces \ {w} : f[v] = task[k][v] /\ g[v] = task[j][v]
  BY <1>1, <1>2
<1> HIDE DEF f, g
<1>4a. /\ h \in [Kinds -> [Workspaces -> All]] /\ h[k] = f
       /\ \A i \in Kinds \ {k} : h[i] = task[i]
  BY <1>1, <1>4
<1> HIDE DEF h
<1>5. /\ task' \in [Kinds -> [Workspaces -> All]]
      /\ task'[k] = f /\ task'[j] = g /\ \A i \in Kinds \ {k, j} : task'[i] = task[i]
  <2>1. j \in Kinds /\ j # k
    OBVIOUS
  <2>2. h[j] \in [Workspaces -> All] /\ DOMAIN h = Kinds
    BY <1>4a, <2>1
  <2>3. task' \in [Kinds -> [Workspaces -> All]] /\ task'[j] = g
    BY <1>3, <1>4, <1>4a, <2>1, <2>2
  <2>4. \A i \in Kinds \ {j} : task'[i] = h[i]
    BY <1>3, <2>2
  <2>5. QED  BY <1>4a, <2>1, <2>3, <2>4
<1>6. \A i \in Kinds : task'[i] \in [Workspaces -> Status(i)]
  BY <1>1, <1>4, <1>5
<1> USE DEF All
<1>7. GroupsTypeOK'
  BY <1>6 DEF Typed, GroupsTypeOK, Status, keycloak
<1>8. Typed'
  BY <1>5, <1>7 DEF Typed
<1>9. QED  BY <1>4, <1>5, <1>8

\* The two steps that schedule a task when another one goes on.
LEMMA ScheduleGroupsFollows ==
  ASSUME GroupsInv, NEW w \in Workspaces, ScheduleGroups(w)
  PROVE  GroupsInv'
<1>1. Typed /\ OnePresent /\ \A v \in Workspaces : Followed(v)
  BY DEF GroupsInv
<1>2. /\ Is("create", w, "deployed") /\ events' \in 0..MaxEvents
      /\ UNCHANGED <<row, creator, nodes, payload, keycloak, base, groups, members, request,
                     namespaces, wanted, mixed, shared, hasty, torn>>
  BY <1>1, Events DEF ScheduleGroups, keycloak, api, history
<1>3. /\ Typed'
      /\ task'["create"][w] = "announced"
      /\ task'["groups"][w] = task["groups"][w] \/ task'["groups"][w] = "PENDING"
      /\ \A i \in Kinds, v \in Workspaces : i \in {"delete", "cleanup"} \/ v # w =>
           task'[i][v] = task[i][v]
  <2>1. CASE task' = [task EXCEPT !["create"][w] = "announced", !["groups"][w] = "PENDING"]
    <3>1. "announced" \in Status("create") /\ "PENDING" \in Status("groups")
      BY KindSteps DEF Status
    <3>2. "create" \in Kinds /\ "groups" \in Kinds \ {"create"} /\ nodes' \subseteq Workspaces
      BY <1>1, <1>2, KindSteps DEF Typed, GroupsTypeOK
    <3>3. Both(w, "create", "announced", "groups", "PENDING")
      BY <2>1 DEF Both
    <3>4. QED  BY <1>1, <1>2, <3>1, <3>2, <3>3, TwoSteps
  <2>2. CASE Becomes("create", w, "announced")
    <3>1. "create" \in Kinds /\ "announced" \in Status("create")
      BY KindSteps DEF Status
    <3>2. /\ row' \in [Workspaces -> {"unused", "present", "gone"}]
          /\ nodes' \subseteq Workspaces /\ payload' \subseteq Workspaces
          /\ shared' \subseteq Workspaces /\ hasty' \subseteq Workspaces
      BY <1>1, <1>2 DEF Typed, GroupsTypeOK
    <3>3. Typed' /\ Effect("create", w, "announced")
      BY <1>1, <1>2, <2>2, <3>1, <3>2, TaskStep
    <3>4. QED  BY <3>3, KindSteps DEF Effect
  <2>3. QED  BY <2>1, <2>2 DEF ScheduleGroups
<1>4. OnePresent'
  BY <1>1, <1>2 DEF OnePresent
<1>5. ASSUME NEW v \in Workspaces PROVE Followed(v)'
  <2>1. UNCHANGED <<OpenRbac(v), OpenNamespaces(v)>>
    BY <1>2, RequestsKept
  <2>2. Quiet(v)
    BY <1>1, <1>2, <1>3, KindSteps DEF Quiet, Sole, Coming, Is
  <2>3. Life(v)'
    BY <1>1, <1>2, <1>3, <2>1, KindSteps DEF Followed, Life, Is, Provisioned, NamespacesOf
  <2>4. Alone(v)'
    BY <1>1, <1>2, <1>3, <2>2, OpenTasks, RequestsKept, KindSteps
    DEF Followed, Alone, Quiet, Sole, Is
  <2>5. QED  BY <1>1, <1>2, <2>2, <2>3, <2>4, QuietGroups DEF Followed
<1>6. QED  BY <1>3, <1>4, <1>5 DEF GroupsInv

LEMMA DestroyNodesFollows ==
  ASSUME GroupsInv, NEW w \in Workspaces, DestroyNodes(w)
  PROVE  GroupsInv'
<1>1. Typed /\ OnePresent /\ \A v \in Workspaces : Followed(v)
  BY DEF GroupsInv
<1>2. /\ Is("delete", w, "PENDING") /\ w \in payload /\ events' \in 0..MaxEvents
      /\ nodes' = nodes \ {w} /\ namespaces' \subseteq namespaces
      /\ UNCHANGED <<row, creator, payload, keycloak, base, groups, members, request,
                     wanted, mixed, shared, hasty, torn>>
  BY <1>1, Events DEF DestroyNodes, keycloak, history
<1>3. /\ Typed'
      /\ task'["delete"][w] = "destroyed"
      /\ task'["cleanup"][w] = task["cleanup"][w] \/ task'["cleanup"][w] = "PENDING"
      /\ \A i \in Kinds, v \in Workspaces : i \in {"create", "groups"} \/ v # w =>
           task'[i][v] = task[i][v]
  <2>1. CASE task' = [task EXCEPT !["delete"][w] = "destroyed", !["cleanup"][w] = "PENDING"]
    <3>1. "destroyed" \in Status("delete") /\ "PENDING" \in Status("cleanup")
      BY KindSteps DEF Status
    <3>2. "delete" \in Kinds /\ "cleanup" \in Kinds \ {"delete"} /\ nodes' \subseteq Workspaces
      BY <1>1, <1>2, KindSteps DEF Typed, GroupsTypeOK
    <3>3. Both(w, "delete", "destroyed", "cleanup", "PENDING")
      BY <2>1 DEF Both
    <3>4. QED  BY <1>1, <1>2, <3>1, <3>2, <3>3, TwoSteps
  <2>2. CASE Becomes("delete", w, "destroyed")
    <3>1. "delete" \in Kinds /\ "destroyed" \in Status("delete")
      BY KindSteps DEF Status
    <3>2. /\ row' \in [Workspaces -> {"unused", "present", "gone"}]
          /\ nodes' \subseteq Workspaces /\ payload' \subseteq Workspaces
          /\ shared' \subseteq Workspaces /\ hasty' \subseteq Workspaces
      BY <1>1, <1>2 DEF Typed, GroupsTypeOK
    <3>3. Typed' /\ Effect("delete", w, "destroyed")
      BY <1>1, <1>2, <2>2, <3>1, <3>2, TaskStep
    <3>4. QED  BY <3>3, KindSteps DEF Effect
  <2>3. QED  BY <2>1, <2>2 DEF DestroyNodes
<1>4. OnePresent'
  BY <1>1, <1>2 DEF OnePresent
<1>5. ASSUME NEW v \in Workspaces PROVE Followed(v)'
  <2>1. UNCHANGED <<OpenRbac(v), OpenNamespaces(v)>>
    BY <1>2, RequestsKept
  <2>2. Quiet(v)
    BY <1>1, <1>2, <1>3, KindSteps DEF Quiet, Sole, Coming, Is
  <2>3. Life(v)'
    BY <1>1, <1>2, <1>3, <2>1, KindSteps DEF Followed, Life, Is, Provisioned, NamespacesOf
  <2>4. Alone(v)'
    BY <1>1, <1>2, <1>3, <2>2, OpenTasks, RequestsKept, KindSteps
    DEF Followed, Alone, Quiet, Sole, Is
  <2>5. QED  BY <1>1, <1>2, <2>2, <2>3, <2>4, QuietGroups DEF Followed
<1>6. QED  BY <1>3, <1>4, <1>5 DEF GroupsInv

\* A new row: every other workspace of the name that has an open task or request
\* is recorded as shared, and so is the new one.
LEMMA CreateWorkspaceFollows ==
  ASSUME GroupsInv, NEW w \in Workspaces, CreateWorkspace(w)
  PROVE  GroupsInv'
<1> DEFINE others == {v \in Workspaces : OpenTask(v) \/ OpenRbac(v) # {}}
<1>1. Typed /\ OnePresent /\ \A v \in Workspaces : Followed(v)
  BY DEF GroupsInv
<1>2. /\ row[w] = "unused" /\ \A v \in Workspaces : row[v] # "present"
      /\ row' = [row EXCEPT ![w] = "present"]
      /\ wanted' = [u \in Users |-> {}] /\ mixed' = {}
      /\ shared' = shared \cup others \cup (IF others = {} THEN {} ELSE {w})
      /\ events' \in 0..MaxEvents
      /\ UNCHANGED <<creator, nodes, payload, task, base, groups, members, request, namespaces, hasty, torn>>
  BY <1>1, Events DEF CreateWorkspace, keycloak, api
<1> HIDE DEF others
<1>3. others \subseteq Workspaces
  BY DEF others
<1>4. GroupsTypeOK'
  BY <1>1, <1>2, <1>3 DEF Typed, GroupsTypeOK
<1>5. Typed'
  BY <1>1, <1>2, <1>4 DEF Typed
<1>6. \A v \in Workspaces : row'[v] = IF v = w THEN "present" ELSE row[v]
  BY <1>1, <1>2 DEF Typed, GroupsTypeOK
<1>7. OnePresent'
  BY <1>2, <1>6 DEF OnePresent
<1>8. ASSUME NEW v \in Workspaces PROVE Followed(v)'
  <2>1. UNCHANGED <<OpenRbac(v), OpenNamespaces(v), RbacUsers(v), NamespacesOf(v)>>
    BY <1>2, RequestsKept DEF NamespacesOf
  <2>2. Life(v)'
    BY <1>1, <1>2, <1>6, <2>1 DEF Followed, Life, Is, Provisioned
  <2>3. Sole(v)' => v = w /\ others = {}
    BY <1>2, <1>6 DEF Sole
  <2>4. Alone(v)'
    BY <1>2, <2>3, RequestsKept DEF Alone, others, OpenTask
  <2>5. Sole(v)' => \A k \in Kinds : Is(k, v, "none")'
    BY <1>1, <1>2, <2>3 DEF Followed, Life, Is
  <2>6. Sole(v)' => OpenRbac(v) = {}
    BY <1>1, <1>2, <2>3 DEF Followed, Life
  <2>7. GroupsMade(v)' /\ NamesAll(v)' /\ Unheld(v)' /\ Granting(v)'
    BY <2>5, KindSteps DEF GroupsMade, NamesAll, Unheld, Granting, Kept, Is
  <2>8. CleanedUp(v)'
    BY <1>1, <1>2 DEF Followed, CleanedUp, Is
  <2>9. Unasked(v)' /\ OneEach(v)'
    BY <1>2, <2>1, <2>6 DEF Unasked, OneEach, RbacUsers
  <2>10. QED  BY <2>2, <2>4, <2>7, <2>8, <2>9 DEF Followed
<1>9. QED  BY <1>5, <1>7, <1>8 DEF GroupsInv

\* While a task of a workspace is open no other one is alone.
LEMMA OthersNotSole ==
  ASSUME GroupsInv, NEW w \in Workspaces, OpenTask(w) \/ OpenRbac(w) # {}
  PROVE  \A v \in Workspaces \ {w} : ~Sole(v)
BY DEF GroupsInv, Followed, Alone

\* Most parts are about workspaces that are not shared.
LEMMA NotSole ==
  ASSUME NEW v, ~Sole(v)'
  PROVE  /\ Alone(v)' /\ GroupsMade(v)' /\ NamesAll(v)' /\ Unasked(v)'
         /\ Unheld(v)' /\ OneEach(v)' /\ Granting(v)'
BY DEF Alone, GroupsMade, NamesAll, Unasked, Unheld, OneEach, Granting, Kept

\* A step of a task of w that leaves rows and requests alone.
LEMMA KeycloakStep ==
  ASSUME GroupsInv, NEW w \in Workspaces, NEW k \in {"groups", "cleanup"}, NEW s \in Status(k),
         Effect(k, w, s), OpenTask(w), s # "none", ~Is(k, w, "none"),
         k = "groups" /\ Provisioned(w) => s \in {"DONE", "ERROR"},
         UNCHANGED <<row, nodes, payload, request, namespaces, shared, hasty, torn>>
  PROVE  /\ \A v \in Workspaces : Life(v)' /\ Alone(v)'
         /\ \A v \in Workspaces \ {w} : ~Sole(v)'
         /\ \A v \in Workspaces : Sole(v)' => v = w /\ Sole(w)
<1>1. \A v \in Workspaces : Sole(v)' <=> Sole(v)
  BY DEF Sole
<1>2. \A v \in Workspaces \ {w} : ~Sole(v)
  BY OthersNotSole
<1>3. ASSUME NEW v \in Workspaces PROVE Life(v)'
  <2>1. UNCHANGED <<OpenRbac(v), OpenNamespaces(v), NamespacesOf(v)>>
    BY RequestsKept DEF NamespacesOf
  <2>2. QED  BY <2>1, KindSteps DEF GroupsInv, Followed, Life, Effect, Is, Provisioned
<1>4. ASSUME NEW v \in Workspaces PROVE Alone(v)'
  BY <1>1, <1>2, OpenTasks, RequestsKept, KindSteps DEF GroupsInv, Followed, Alone, Effect
<1>5. QED  BY <1>1, <1>2, <1>3, <1>4

\* The groups are made: nobody else can, since a task is open.
LEMMA CreateClusterGroupBaseFollows ==
  ASSUME GroupsInv, NEW w \in Workspaces, CreateClusterGroupBase(w)
  PROVE  GroupsInv'
<1>1. Typed /\ OnePresent /\ \A v \in Workspaces : Followed(v)
  BY DEF GroupsInv
<1>2. /\ Is("groups", w, "PENDING") /\ base = NoWorkspace /\ base' = w
      /\ Becomes("groups", w, "base")
      /\ UNCHANGED <<row, creator, nodes, payload, groups, members, request, namespaces, events,
                     wanted, mixed, shared, hasty, torn>>
  BY DEF CreateClusterGroupBase, api, history
<1>3. /\ task' \in [Kinds -> [Workspaces -> {"none", "PENDING", "DONE", "ERROR"}
                                         \cup UNION {Steps[j] : j \in Kinds}]]
      /\ \A j \in Kinds : task'[j] \in [Workspaces -> Status(j)]
      /\ Effect("groups", w, "base")
  BY <1>1, <1>2, Becoming, KindSteps DEF Effect, Status
<1>4. groups = {} /\ members = {}
  BY <1>1, <1>2 DEF Typed, GroupsTypeOK
<1>5. GroupsTypeOK'
  BY <1>1, <1>2, <1>3, <1>4, NoWorkspaceAssumption DEF Typed, GroupsTypeOK, Status
<1>6. Typed' /\ OnePresent'
  BY <1>1, <1>2, <1>3, <1>5 DEF Typed, OnePresent
<1>7. OpenTask(w) /\ ~Is("groups", w, "none") /\ ~Provisioned(w) /\ "base" \in Status("groups")
  BY <1>2, OpenTasks, KindSteps DEF Is, Provisioned, Status
<1>8. /\ \A v \in Workspaces : Life(v)' /\ Alone(v)'
      /\ \A v \in Workspaces \ {w} : ~Sole(v)'
      /\ Sole(w)' => Sole(w)
  BY <1>2, <1>3, <1>7, KeycloakStep
<1>9. ASSUME NEW v \in Workspaces PROVE CleanedUp(v)'
  BY <1>1, <1>2, <1>3, KindSteps, <1>8 DEF Followed, CleanedUp, Effect, Is, Life, Provisioned
<1>10. GroupsMade(w)' /\ NamesAll(w)' /\ Granting(w)'
  BY <1>3 DEF GroupsMade, NamesAll, Granting, Effect, Is
<1>11. Unasked(w)'
  BY <1>1, <1>2, <1>8, RequestsKept DEF Followed, Unasked, Coming, Is
<1>12. Unheld(w)'
  BY <1>2, <1>4 DEF Unheld, HeldBy
<1>13. OneEach(w)'
  BY <1>1, <1>2, <1>8, RequestsKept DEF Followed, OneEach
<1>14. ASSUME NEW v \in Workspaces PROVE Followed(v)'
  BY <1>8, <1>9, <1>10, <1>11, <1>12, <1>13, NotSole DEF Followed
<1>15. QED  BY <1>6, <1>14 DEF GroupsInv

LEMMA CreateClusterGroupFollows ==
  ASSUME GroupsInv, NEW w \in Workspaces, CreateClusterGroup(w)
  PROVE  GroupsInv'
<1>1. Typed /\ OnePresent /\ \A v \in Workspaces : Followed(v)
  BY DEF GroupsInv
<1>2. /\ Is("groups", w, "base") /\ base = w
      /\ \E g \in Groups \ groups : groups' = groups \cup {g}
      /\ Becomes("groups", w, IF groups' = Groups THEN "made" ELSE "base")
      /\ UNCHANGED <<row, creator, nodes, payload, base, members, request, namespaces, events,
                     wanted, mixed, shared, hasty, torn>>
  BY DEF CreateClusterGroup, api, history
<1> DEFINE s == IF groups' = Groups THEN "made" ELSE "base"
<1>3. /\ task' \in [Kinds -> [Workspaces -> {"none", "PENDING", "DONE", "ERROR"}
                                         \cup UNION {Steps[j] : j \in Kinds}]]
      /\ \A j \in Kinds : task'[j] \in [Workspaces -> Status(j)]
      /\ Effect("groups", w, s) /\ s \in Status("groups")
  BY <1>1, <1>2, Becoming, KindSteps DEF Effect, Status
<1>4. s \in {"base", "made"} /\ (s = "made" => groups' = Groups)
  OBVIOUS
<1> HIDE DEF s
<1>5. GroupsTypeOK'
  BY <1>1, <1>2, <1>3, NoWorkspaceAssumption DEF Typed, GroupsTypeOK, Status
<1>6. Typed' /\ OnePresent'
  BY <1>1, <1>2, <1>3, <1>5 DEF Typed, OnePresent
<1>7. OpenTask(w) /\ ~Is("groups", w, "none") /\ ~Provisioned(w)
  BY <1>2, OpenTasks DEF Is, Provisioned
<1>8. /\ \A v \in Workspaces : Life(v)' /\ Alone(v)'
      /\ \A v \in Workspaces \ {w} : ~Sole(v)'
      /\ Sole(w)' => Sole(w)
  BY <1>2, <1>3, <1>4, <1>7, KeycloakStep
<1>9. ASSUME NEW v \in Workspaces PROVE CleanedUp(v)'
  BY <1>1, <1>2, <1>3, KindSteps DEF Followed, CleanedUp, Effect, Is
<1>10. GroupsMade(w)' /\ NamesAll(w)' /\ Granting(w)'
  BY <1>2, <1>3, <1>4 DEF GroupsMade, NamesAll, Granting, Effect, Is
<1>11. Unasked(w)'
  BY <1>1, <1>2, <1>8, RequestsKept DEF Followed, Unasked, Coming, Is
<1>12. Unheld(w)'
  BY <1>1, <1>2, <1>3, <1>8, KindSteps, MembersKept DEF Followed, Unheld, Kept, Effect, Is
<1>13. OneEach(w)'
  BY <1>1, <1>2, <1>8, RequestsKept DEF Followed, OneEach
<1>14. ASSUME NEW v \in Workspaces PROVE Followed(v)'
  BY <1>8, <1>9, <1>10, <1>11, <1>12, <1>13, NotSole DEF Followed
<1>15. QED  BY <1>6, <1>14 DEF GroupsInv

\* The creator is the only member when the groups are there.
LEMMA AddClusterAdminFollows ==
  ASSUME GroupsInv, NEW w \in Workspaces, AddClusterAdmin(w)
  PROVE  GroupsInv'
<1>1. Typed /\ OnePresent /\ \A v \in Workspaces : Followed(v)
  BY DEF GroupsInv
<1>2. /\ Is("groups", w, "made") /\ events' \in 0..MaxEvents
      /\ \/ members' = Granted(creator[w], ClusterAdmin) /\ UNCHANGED mixed
         \/ UNCHANGED members /\ mixed' = mixed \cup {creator[w]}
      /\ wanted' = [wanted EXCEPT ![creator[w]] = {ClusterAdmin}]
      /\ Becomes("groups", w, "DONE")
      /\ UNCHANGED <<row, creator, nodes, payload, base, groups, request, namespaces,
                     shared, hasty, torn>>
  BY <1>1, Events DEF AddClusterAdmin, Overlooked, api
<1>3. /\ task' \in [Kinds -> [Workspaces -> {"none", "PENDING", "DONE", "ERROR"}
                                         \cup UNION {Steps[j] : j \in Kinds}]]
      /\ \A j \in Kinds : task'[j] \in [Workspaces -> Status(j)]
      /\ Effect("groups", w, "DONE") /\ "DONE" \in Status("groups")
  BY <1>1, <1>2, Becoming, KindSteps DEF Effect, Status
<1>4. /\ members' \subseteq Users \X groups /\ creator[w] \in Users
      /\ mixed' \subseteq Users /\ mixed \subseteq mixed'
  BY <1>1, <1>2 DEF Granted, Typed, GroupsTypeOK
<1>5. GroupsTypeOK'
  BY <1>1, <1>2, <1>3, <1>4 DEF Typed, Given, GroupsTypeOK, Status
<1>6. Typed' /\ OnePresent'
  BY <1>1, <1>2, <1>3, <1>5 DEF Typed, OnePresent
<1>7. OpenTask(w) /\ ~Is("groups", w, "none")
  BY <1>2, OpenTasks DEF Is
<1>8. /\ \A v \in Workspaces : Life(v)' /\ Alone(v)'
      /\ \A v \in Workspaces \ {w} : ~Sole(v)'
      /\ Sole(w)' => Sole(w)
  BY <1>2, <1>3, <1>7, KeycloakStep
<1>9. ASSUME NEW v \in Workspaces PROVE CleanedUp(v)'
  BY <1>1, <1>2, <1>3, KindSteps DEF Followed, CleanedUp, Effect, Is
<1>10. Kept(w)' => Kept(w)
  BY <1>3, <1>8, KindSteps DEF Kept, Effect, Is
<1>11. GroupsMade(w)'
  BY <1>1, <1>2, <1>10 DEF Followed, GroupsMade, Is
<1>12. NamespacesOf(w) = {} /\ OpenNamespaces(w) = {}
  BY <1>1, <1>2 DEF Followed, Life, Provisioned, Is
<1>13. NamesAll(w)'
  BY <1>2, <1>12, RequestsKept DEF NamesAll, NamespacesOf
<1>14. Sole(w) => RbacUsers(w) \subseteq mixed /\ \A u \in Users \ mixed : wanted[u] = {}
  BY <1>1, <1>2 DEF Followed, Unasked, Coming, Is
<1>15. Unasked(w)'
  BY <1>1, <1>2, <1>3, KindSteps DEF Followed, Unasked, Coming, Effect, Is, Life
<1>16. Unheld(w)'
  BY <1>3 DEF Unheld, Effect
<1>17. OneEach(w)'
  BY <1>1, <1>2, <1>8, RequestsKept DEF Followed, OneEach
<1>18. Granting(w)'
  <2>1. SUFFICES ASSUME Kept(w)
                 PROVE  /\ \A u \in Users \ (mixed' \cup RbacUsers(w)) :
                             HeldBy(members', u) = {u} \X wanted'[u]
                        /\ \A r \in OpenRbac(w) : request[r].user \in mixed
    BY <1>2, <1>4, <1>10, RequestsKept DEF Granting
  <2>2. Sole(w)
    BY <2>1 DEF Kept
  <2>3. \A r \in OpenRbac(w) : request[r].user \in mixed
    BY <1>14, <2>2 DEF RbacUsers
  <2>4. \A u \in Users \ mixed : HeldBy(members, u) = {} /\ wanted[u] = {}
    BY <1>1, <1>2, <1>14, <2>1, <2>2 DEF Followed, Unheld, Is
  <2>5. ClusterAdmin \in groups
    BY <1>1, <1>2, <2>1 DEF Typed, Given, Followed, GroupsMade, Is
  <2>6. \/ members' = members \cup {<<creator[w], ClusterAdmin>>}
        \/ members' = members /\ creator[w] \in mixed'
    BY <1>2, <1>4, <2>5 DEF Granted
  <2>7. ASSUME NEW u \in Users \ mixed' PROVE HeldBy(members', u) = {u} \X wanted'[u]
    <3>0. u \notin mixed
      BY <1>4
    <3>1. wanted'[u] = IF u = creator[w] THEN {ClusterAdmin} ELSE {}
      BY <1>1, <1>2, <2>4, <3>0 DEF Typed, GroupsTypeOK
    <3>2. HeldBy(members', u) = IF u = creator[w] THEN {<<u, ClusterAdmin>>} ELSE {}
      BY <1>1, <2>4, <2>6, <3>0 DEF HeldBy, Typed, Given
    <3>3. QED  BY <3>1, <3>2
  <2>8. QED  BY <2>3, <2>7
<1>19. ASSUME NEW v \in Workspaces PROVE Followed(v)'
  BY <1>8, <1>9, <1>11, <1>13, <1>15, <1>16, <1>17, <1>18, NotSole DEF Followed
<1>20. QED  BY <1>6, <1>19 DEF GroupsInv

\* A step of a clean-up.
LEMMA CleanupStep ==
  ASSUME GroupsInv, NEW w \in Workspaces, NEW s \in {"stripped", "DONE", "ERROR"},
         task["cleanup"][w] \in {"PENDING", "stripped"}, Becomes("cleanup", w, s),
         UNCHANGED <<row, creator, nodes, payload, request, namespaces, wanted, mixed, shared, hasty, torn>>,
         events' \in 0..MaxEvents, members' \subseteq members,
         \/ UNCHANGED <<base, groups>> /\ s # "DONE"
         \/ base' = NoWorkspace /\ groups' = {} /\ members' = {}
  PROVE  GroupsInv'
<1>1. Typed /\ OnePresent /\ \A v \in Workspaces : Followed(v)
  BY DEF GroupsInv
<1>3. /\ task' \in [Kinds -> [Workspaces -> {"none", "PENDING", "DONE", "ERROR"}
                                         \cup UNION {Steps[j] : j \in Kinds}]]
      /\ \A j \in Kinds : task'[j] \in [Workspaces -> Status(j)]
      /\ Effect("cleanup", w, s) /\ s \in Status("cleanup")
  BY <1>1, Becoming, KindSteps DEF Effect, Status
<1>5. GroupsTypeOK'
  BY <1>1, <1>3, NoWorkspaceAssumption DEF Typed, GroupsTypeOK, Status
<1>6. Typed' /\ OnePresent'
  BY <1>1, <1>3, <1>5 DEF Typed, OnePresent
<1>7. OpenTask(w) /\ ~Is("cleanup", w, "none")
  BY OpenTasks DEF Is
<1>8. /\ \A v \in Workspaces : Life(v)' /\ Alone(v)'
      /\ \A v \in Workspaces \ {w} : ~Sole(v)'
      /\ Sole(w)' => Sole(w)
  BY <1>3, <1>7, KeycloakStep
<1>9. ASSUME NEW v \in Workspaces PROVE CleanedUp(v)'
  BY <1>1, <1>3, KindSteps, NoWorkspaceAssumption DEF Followed, CleanedUp, Effect, Is
<1>10. ~Kept(w)'
  BY <1>1, <1>3, <1>7, KindSteps DEF Followed, Life, Kept, Effect, Is
<1>11. GroupsMade(w)' /\ NamesAll(w)' /\ Unheld(w)' /\ Granting(w)'
  BY <1>10 DEF GroupsMade, NamesAll, Unheld, Granting
<1>12. Unasked(w)'
  BY <1>1, <1>3, <1>8, KindSteps, RequestsKept DEF Followed, Unasked, Coming, Effect
<1>13. OneEach(w)'
  BY <1>1, <1>8, RequestsKept DEF Followed, OneEach
<1>14. ASSUME NEW v \in Workspaces PROVE Followed(v)'
  BY <1>8, <1>9, <1>11, <1>12, <1>13, NotSole DEF Followed
<1>15. QED  BY <1>6, <1>14 DEF GroupsInv

LEMMA CleanupFollows ==
  ASSUME GroupsInv, NEW w \in Workspaces, RemoveMembers(w) \/ DeleteBase(w) \/ CleanupFails(w)
  PROVE  GroupsInv'
<1>1. Typed
  BY DEF GroupsInv
<1>2. CASE RemoveMembers(w)
  BY <1>1, <1>2, CleanupStep DEF RemoveMembers, Is, api, history, Typed, GroupsTypeOK
<1>3. CASE DeleteBase(w)
  BY <1>1, <1>3, CleanupStep DEF DeleteBase, Is, api, history, Typed, GroupsTypeOK
<1>4. CASE CleanupFails(w)
  BY <1>1, <1>4, CleanupStep, Events DEF CleanupFails, Is, api, history
<1>5. QED  BY <1>2, <1>3, <1>4

\* The two kinds of requests.
RbacRequest == [pc : RbacPcs, ws : Workspaces, user : Users,
                want : SUBSET Groups, left : SUBSET Groups]
NamespaceRequest == [pc : NamespacePcs, ws : Workspaces, bound : SUBSET Groups]

LEMMA OpenRequests ==
  ASSUME Typed, NEW r \in Requests
  PROVE  /\ request[r].pc \in RbacPcs <=> request[r] \in RbacRequest
         /\ request[r].pc \in NamespacePcs <=> request[r] \in NamespaceRequest
BY DEF Typed, GroupsTypeOK, NoRequest, Ended, RbacPcs, NamespacePcs, RbacRequest, NamespaceRequest

\* One request changes.
Changed(r, x) ==
  /\ request' = [request EXCEPT ![r] = x]
  /\ \/ x \in {NoRequest, Ended} \cup NamespaceRequest
     \/ x \in RbacRequest /\ Consistent(x)

LEMMA Changing ==
  ASSUME Typed, NEW r \in Requests, NEW x, Changed(r, x)
  PROVE  /\ request'[r] = x /\ \A q \in Requests \ {r} : request'[q] = request[q]
         /\ request' = [q \in Requests |-> request'[q]]
         /\ \A q \in Requests :
              \/ request'[q] \in {NoRequest, Ended}
              \/ request'[q] \in [pc : RbacPcs, ws : Workspaces, user : Users,
                                 want : SUBSET Groups, left : SUBSET Groups]
              \/ request'[q] \in [pc : NamespacePcs, ws : Workspaces, bound : SUBSET Groups]
         /\ \A q \in Requests : request'[q].pc \in RbacPcs => Consistent(request'[q])
<1>1. request = [q \in Requests |-> request[q]]
  BY DEF Typed
<1>2. /\ request'[r] = x /\ \A q \in Requests \ {r} : request'[q] = request[q]
      /\ request' = [q \in Requests |-> request'[q]]
  BY <1>1 DEF Changed
<1>3. x.pc \in RbacPcs => Consistent(x)
  BY DEF Changed, NoRequest, Ended, RbacPcs, NamespacePcs, NamespaceRequest
<1>4. QED  BY <1>2, <1>3 DEF Changed, Typed, GroupsTypeOK, RbacRequest, NamespaceRequest

LEMMA RequestTypes ==
  ASSUME Typed, NEW r \in Requests, NEW x, Changed(r, x),
         UNCHANGED <<rows, base, groups, shared, hasty>>,
         members' \subseteq Users \X groups, events' \in 0..MaxEvents,
         wanted' \in [Users -> SUBSET Groups], mixed' \subseteq Users,
         namespaces' \subseteq Workspaces \X SUBSET Groups,
         torn' \subseteq Workspaces \X SUBSET Groups
  PROVE  Typed'
<1>1. GroupsTypeOK'
  BY Changing DEF Typed, GroupsTypeOK, rows
<1>2. UNCHANGED task
  BY DEF rows
<1>3. QED  BY <1>1, <1>2, Changing DEF Typed

\* A request on memberships goes on or ends, or one is let through.
LEMMA RbacStep ==
  ASSUME GroupsInv, NEW r \in Requests, NEW w \in Workspaces, NEW x, Changed(r, x),
         x = Ended \/ (x \in RbacRequest /\ x.ws = w),
         \/ request[r].pc \in RbacPcs /\ request[r].ws = w
         \/ request[r] = NoRequest /\ Ready(w),
         UNCHANGED <<rows, base, groups, namespaces, shared, hasty, torn>>
  PROVE  /\ OnePresent'
         /\ \A v \in Workspaces :
              Life(v)' /\ Alone(v)' /\ GroupsMade(v)' /\ NamesAll(v)' /\ CleanedUp(v)'
         /\ \A v \in Workspaces : Sole(v)' <=> Sole(v)
         /\ \A v \in Workspaces \ {w} : ~Sole(v)'
         /\ OpenRbac(w)' \subseteq OpenRbac(w) \cup {r}
         /\ x # Ended => r \in OpenRbac(w)'
         /\ \A q \in Requests \ {r} :
              request'[q] = request[q] /\ (q \in OpenRbac(w)' <=> q \in OpenRbac(w))
<1>1. Typed /\ OnePresent /\ \A v \in Workspaces : Followed(v)
  BY DEF GroupsInv
<1>2. /\ request'[r] = x /\ \A q \in Requests \ {r} : request'[q] = request[q]
      /\ UNCHANGED <<row, nodes, payload, task>>
  BY <1>1, Changing DEF rows
<1>3. OnePresent'
  BY <1>1, <1>2 DEF OnePresent
<1>4. \A v \in Workspaces : Sole(v)' <=> Sole(v)
  BY <1>2 DEF Sole
<1>5. /\ x = Ended => x.pc \notin RbacPcs \cup NamespacePcs
      /\ x # Ended => x.pc \in RbacPcs /\ x.ws = w /\ x.pc \notin NamespacePcs
      /\ request[r].pc \notin NamespacePcs
  BY DEF Ended, NoRequest, RbacPcs, NamespacePcs, RbacRequest
<1>6. /\ \A q \in Requests \ {r} : q \in OpenRbac(w)' <=> q \in OpenRbac(w)
      /\ OpenRbac(w)' \subseteq OpenRbac(w) \cup {r} /\ (x # Ended => r \in OpenRbac(w)')
  BY <1>2, <1>5 DEF OpenRbac
<1>7. \A v \in Workspaces \ {w} : OpenRbac(v)' = OpenRbac(v)
  BY <1>2, <1>5 DEF OpenRbac, NoRequest, RbacPcs
<1>8. \A v \in Workspaces : OpenNamespaces(v)' = OpenNamespaces(v)
  BY <1>2, <1>5 DEF OpenNamespaces
<1>9. row[w] = "present" \/ OpenRbac(w) # {}
  BY DEF OpenRbac, Ready
<1>10. \A v \in Workspaces \ {w} : ~Sole(v)
  BY <1>1, <1>9, OthersNotSole DEF OnePresent, Sole
<1>11. row[w] # "unused"
  BY <1>1, <1>9 DEF Followed, Life
<1>12. ASSUME NEW v \in Workspaces PROVE Life(v)'
  BY <1>1, <1>2, <1>7, <1>8, <1>11 DEF Followed, Life, Is, Provisioned, NamespacesOf
<1>13. ASSUME NEW v \in Workspaces PROVE Alone(v)'
  BY <1>1, <1>2, <1>4, <1>7, <1>10 DEF Followed, Alone, OpenTask
<1>14. ASSUME NEW v \in Workspaces PROVE GroupsMade(v)' /\ CleanedUp(v)'
  BY <1>1, <1>2, <1>4 DEF Followed, GroupsMade, CleanedUp, Kept, Is
<1>15. ASSUME NEW v \in Workspaces PROVE NamesAll(v)'
  <2>1. \A q \in OpenNamespaces(v) : request'[q] = request[q]
    BY <1>2, <1>5 DEF OpenNamespaces
  <2>2. QED  BY <1>1, <1>2, <1>4, <1>8, <2>1 DEF Followed, NamesAll, Kept, Is, NamespacesOf
<1>16. QED  BY <1>2, <1>3, <1>4, <1>6, <1>10, <1>12, <1>13, <1>14, <1>15

\* What is left to show for a step of a request on memberships of w.
LEMMA RbacFollows ==
  ASSUME Typed', OnePresent', NEW w \in Workspaces,
         \A v \in Workspaces :
              Life(v)' /\ Alone(v)' /\ GroupsMade(v)' /\ NamesAll(v)' /\ CleanedUp(v)',
         \A v \in Workspaces \ {w} : ~Sole(v)',
         Unasked(w)' /\ Unheld(w)' /\ OneEach(w)' /\ Granting(w)'
  PROVE  GroupsInv'
<1>1. ASSUME NEW v \in Workspaces PROVE Followed(v)'
  <2>1. CASE v = w
    BY <2>1 DEF Followed
  <2>2. CASE v # w
    BY <2>2, NotSole DEF Followed
  <2>3. QED  BY <2>1, <2>2
<1>2. QED  BY <1>1 DEF GroupsInv

\* A request is let through: a second one of the same user makes the user mixed,
\* and so does one before the task that creates the cluster is scheduled.
LEMMA ApplyFollows ==
  ASSUME GroupsInv, NEW r \in Requests, NEW w \in Workspaces, ApplyRbacBindings(r, w)
  PROVE  GroupsInv'
<1>1. Typed /\ OnePresent /\ \A v \in Workspaces : Followed(v)
  BY DEF GroupsInv
<1>2. PICK u \in Users, want \in SUBSET Groups :
        /\ request' = [request EXCEPT ![r] = [pc |-> "checked", ws |-> w, user |-> u,
                                             want |-> want, left |-> want]]
        /\ mixed' = mixed \cup (IF u \in RbacUsers(w) \/ Is("create", w, "none") THEN {u} ELSE {})
        /\ events' \in 0..MaxEvents
  BY <1>1, Events DEF ApplyRbacBindings
<1>3. /\ request[r] = NoRequest /\ Ready(w)
      /\ UNCHANGED <<rows, keycloak, base, groups, members, namespaces, wanted, shared, hasty, torn>>
  BY DEF ApplyRbacBindings, keycloak
<1> DEFINE x == [pc |-> "checked", ws |-> w, user |-> u, want |-> want, left |-> want]
<1>4. x \in RbacRequest /\ x.ws = w /\ x.user = u /\ x.pc = "checked" /\ Consistent(x)
  BY DEF RbacRequest, RbacPcs, Consistent
<1>5. Changed(r, x)
  BY <1>2, <1>4 DEF Changed
<1> HIDE DEF x
<1>6. x # Ended
  BY <1>4 DEF Ended
<1>7. Typed'
  BY <1>1, <1>2, <1>3, <1>5, RequestTypes DEF Typed, GroupsTypeOK
<1>8. /\ OnePresent'
      /\ \A v \in Workspaces :
           Life(v)' /\ Alone(v)' /\ GroupsMade(v)' /\ NamesAll(v)' /\ CleanedUp(v)'
      /\ \A v \in Workspaces \ {w} : ~Sole(v)'
      /\ OpenRbac(w)' \subseteq OpenRbac(w) \cup {r} /\ r \in OpenRbac(w)'
      /\ \A q \in Requests \ {r} :
           request'[q] = request[q] /\ (q \in OpenRbac(w)' <=> q \in OpenRbac(w))
      /\ Sole(w)' <=> Sole(w)
  BY <1>3, <1>4, <1>5, <1>6, RbacStep
<1>9. request'[r] = x /\ r \notin OpenRbac(w)
  BY <1>1, <1>3, <1>5, Changing DEF OpenRbac, NoRequest, RbacPcs
<1>10. RbacUsers(w)' = RbacUsers(w) \cup {u}
  <2>1. OpenRbac(w)' = OpenRbac(w) \cup {r}
    BY <1>8, <1>9 DEF OpenRbac
  <2>2. \A q \in OpenRbac(w) : request'[q] = request[q]
    BY <1>8, <1>9 DEF OpenRbac
  <2>3. QED  BY <1>4, <1>9, <2>1, <2>2 DEF RbacUsers
<1>11. UNCHANGED <<row, task, shared, torn>>
  BY <1>3 DEF rows
<1>12. mixed \subseteq mixed' /\ (u \in RbacUsers(w) \/ Is("create", w, "none") => u \in mixed')
  BY <1>2
<1>13. Coming(w) => Is("create", w, "none")
  BY <1>3, OpenTasks DEF Ready, Coming, Is
<1>14. Unasked(w)'
  BY <1>1, <1>3, <1>8, <1>10, <1>11, <1>12, <1>13 DEF Followed, Unasked, Coming
<1>15. Unheld(w)'
  BY <1>3, <1>11, OpenTasks DEF Ready, Unheld
<1>16. OneEach(w)'
  <2>1. ASSUME Sole(w), NEW p \in OpenRbac(w)', NEW q \in OpenRbac(w)',
               request'[p].user = request'[q].user, request'[p].user \notin mixed'
        PROVE  p = q
    <3>1. CASE p # r /\ q # r
      BY <1>1, <1>8, <1>12, <2>1, <3>1 DEF Followed, OneEach, OpenRbac
    <3>2. CASE p # q /\ (p = r \/ q = r)
      BY <1>4, <1>8, <1>9, <1>12, <2>1, <3>2 DEF RbacUsers, OpenRbac
    <3>3. QED  BY <3>1, <3>2
  <2>2. QED  BY <1>8, <2>1 DEF OneEach
<1>17. Granting(w)'
  <2>1. SUFFICES ASSUME Kept(w), Is("groups", w, "DONE")
                 PROVE  /\ \A y \in Users \ (mixed' \cup RbacUsers(w)') :
                             HeldBy(members', y) = {y} \X wanted'[y]
                        /\ \A q \in OpenRbac(w)' :
                             request'[q].pc = "removed" /\ request'[q].user \notin mixed' =>
                             HeldBy(members', request'[q].user) = Answered(q)'
    BY <1>8, <1>11 DEF Granting, Kept, Is
  <2>2. \A y : HeldBy(members', y) = HeldBy(members, y)
    BY <1>3, MembersKept
  <2>3. \A y \in Users \ (mixed' \cup RbacUsers(w)') : HeldBy(members', y) = {y} \X wanted'[y]
    BY <1>1, <1>3, <1>10, <1>12, <2>1, <2>2 DEF Followed, Granting
  <2>4. ASSUME NEW q \in OpenRbac(w)', request'[q].pc = "removed", request'[q].user \notin mixed'
        PROVE  HeldBy(members', request'[q].user) = Answered(q)'
    <3>1. q # r
      BY <1>4, <1>9, <2>4
    <3>2. request'[q] = request[q] /\ q \in OpenRbac(w)
      BY <1>8, <2>4, <3>1 DEF OpenRbac
    <3>3. QED  BY <1>1, <1>12, <2>1, <2>2, <2>4, <3>2 DEF Followed, Granting, Answered
  <2>5. QED  BY <2>3, <2>4
<1>18. QED  BY <1>7, <1>8, <1>14, <1>15, <1>16, <1>17, RbacFollows

\* A request that is open goes on with the same user and groups wanted, or ends.
GoesOn(r, x) ==
  \/ x = Ended
  \/ /\ x \in RbacRequest /\ x.ws = request[r].ws /\ x.user = request[r].user
     /\ x.want = request[r].want /\ Consistent(x)

\* Those of other users keep what they have.
LEMMA RbacGoesOn ==
  ASSUME GroupsInv, NEW r \in Requests, request[r].pc \in RbacPcs,
         NEW w, NEW u, w = request[r].ws, u = request[r].user,
         NEW x, request' = [request EXCEPT ![r] = x], GoesOn(r, x),
         UNCHANGED <<rows, base, groups, namespaces, shared, hasty, torn>>, events' \in 0..MaxEvents,
         mixed \subseteq mixed', mixed' \subseteq Users,
         members' \subseteq Users \X groups, wanted' \in [Users -> SUBSET Groups],
         \A y \in Users \ {u} : wanted'[y] = wanted[y] /\ HeldBy(members', y) = HeldBy(members, y),
         Kept(w) /\ Is("groups", w, "DONE") /\ u \notin mixed' =>
           /\ x = Ended => HeldBy(members', u) = {u} \X wanted'[u]
           /\ x.pc = "removed" => HeldBy(members', u) = {u} \X (x.want \ x.left)
  PROVE  GroupsInv'
<1>1. Typed /\ OnePresent /\ \A v \in Workspaces : Followed(v)
  BY DEF GroupsInv
<1>2. w \in Workspaces /\ u \in Users
  BY <1>1, OpenRequests DEF RbacRequest
<1>3. Changed(r, x)
  BY DEF Changed, GoesOn
<1>4. Typed'
  BY <1>1, <1>3, RequestTypes DEF Typed, GroupsTypeOK
<1>5. x # Ended => x \in RbacRequest /\ x.user = u /\ x.want = request[r].want /\ x.ws = w
  BY DEF GoesOn
<1>6. x = Ended \/ (x \in RbacRequest /\ x.ws = w)
  BY <1>5
<1>7. /\ OnePresent'
      /\ \A v \in Workspaces :
           Life(v)' /\ Alone(v)' /\ GroupsMade(v)' /\ NamesAll(v)' /\ CleanedUp(v)'
      /\ \A v \in Workspaces \ {w} : ~Sole(v)'
      /\ Sole(w)' <=> Sole(w)
      /\ OpenRbac(w)' \subseteq OpenRbac(w) \cup {r} /\ (x # Ended => r \in OpenRbac(w)')
      /\ \A q \in Requests \ {r} :
           request'[q] = request[q] /\ (q \in OpenRbac(w)' <=> q \in OpenRbac(w))
  BY <1>2, <1>3, <1>6, RbacStep
<1>8. request'[r] = x
  BY <1>1, <1>3, Changing
<1>9. r \in OpenRbac(w) /\ (x = Ended => r \notin OpenRbac(w)')
  BY <1>8 DEF OpenRbac, Ended, RbacPcs
<1>10. /\ OpenRbac(w)' \subseteq OpenRbac(w)
       /\ \A q \in OpenRbac(w) \ {r} : q \in OpenRbac(w)'
       /\ \A q \in OpenRbac(w)' : request'[q].user = request[q].user
  BY <1>5, <1>7, <1>8, <1>9 DEF OpenRbac
<1>11. RbacUsers(w)' \subseteq RbacUsers(w) /\ RbacUsers(w) \ {u} \subseteq RbacUsers(w)'
  BY <1>10 DEF RbacUsers
<1>12. u \in RbacUsers(w)
  BY <1>9 DEF RbacUsers
<1>13. UNCHANGED <<row, task>>
  BY DEF rows
<1>15. Sole(w) /\ Coming(w) => u \in mixed
  BY <1>1, <1>2, <1>12 DEF Followed, Unasked
<1>16. Unasked(w)'
  BY <1>1, <1>2, <1>7, <1>11, <1>13, <1>15 DEF Followed, Unasked, Coming
<1>17. Unheld(w)'
  <2>1. SUFFICES ASSUME Kept(w), task["groups"][w] \in {"base", "made"}, NEW y \in Users \ mixed'
                 PROVE  HeldBy(members', y) = {}
    BY <1>7, <1>13 DEF Unheld, Kept, Is
  <2>2. y # u
    BY <1>15, <2>1 DEF Kept, Coming
  <2>3. QED  BY <1>1, <1>2, <2>1, <2>2 DEF Followed, Unheld
<1>18. OneEach(w)'
  BY <1>1, <1>2, <1>7, <1>10 DEF Followed, OneEach
<1>19. Granting(w)'
  <2>1. SUFFICES ASSUME Kept(w), Is("groups", w, "DONE")
                 PROVE  /\ \A y \in Users \ (mixed' \cup RbacUsers(w)') :
                             HeldBy(members', y) = {y} \X wanted'[y]
                        /\ \A q \in OpenRbac(w)' :
                             request'[q].pc = "removed" /\ request'[q].user \notin mixed' =>
                             HeldBy(members', request'[q].user) = Answered(q)'
    BY <1>7, <1>13 DEF Granting, Kept, Is
  <2>2. ASSUME NEW y \in Users \ (mixed' \cup RbacUsers(w)')
        PROVE  HeldBy(members', y) = {y} \X wanted'[y]
    <3>1. CASE y # u
      BY <1>1, <1>2, <1>11, <2>1, <2>2, <3>1 DEF Followed, Granting
    <3>2. CASE y = u
      <4>1. x = Ended
        BY <1>7, <1>10, <3>2 DEF RbacUsers
      <4>2. QED  BY <2>1, <3>2, <4>1
    <3>3. QED  BY <3>1, <3>2
  <2>3. ASSUME NEW q \in OpenRbac(w)', request'[q].pc = "removed", request'[q].user \notin mixed'
        PROVE  HeldBy(members', request'[q].user) = Answered(q)'
    <3>1. CASE q = r
      <4>1. x # Ended
        BY <1>9, <2>3, <3>1
      <4>2. QED  BY <1>5, <1>8, <2>1, <2>3, <3>1, <4>1 DEF Answered
    <3>2. CASE q # r
      <4>1. request'[q] = request[q] /\ q \in OpenRbac(w) /\ request[q].user \notin mixed
        BY <1>7, <1>10, <2>3, <3>2 DEF OpenRbac
      <4>2. request[q].user # u /\ request[q].user \in Users
        <5>1. request[q].user \in Users
          BY <1>1, <4>1, OpenRequests DEF OpenRbac, RbacRequest
        <5>2. request[q].user # u
          BY <1>1, <1>2, <1>9, <2>1, <3>2, <4>1 DEF Followed, OneEach, Kept
        <5>3. QED  BY <5>1, <5>2
      <4>3. QED  BY <1>1, <1>2, <2>1, <2>3, <4>1, <4>2 DEF Followed, Granting, Answered
    <3>3. QED  BY <3>1, <3>2
  <2>4. QED  BY <2>2, <2>3
<1>20. QED  BY <1>2, <1>4, <1>7, <1>16, <1>17, <1>18, <1>19, RbacFollows

\* The memberships of the user are removed,
LEMMA RemoveFollows ==
  ASSUME GroupsInv, NEW r \in Requests, RemoveClusterBaseGroupsForUser(r)
  PROVE  GroupsInv'
<1> DEFINE u == request[r].user
           w == request[r].ws
           x == [request[r] EXCEPT !.pc = "removed"]
<1>1. Typed /\ request[r].pc \in RbacPcs
  BY DEF GroupsInv, RemoveClusterBaseGroupsForUser, RbacPcs
<1>2. /\ request[r].pc = "checked" /\ members' = members \ MembershipsOf(u)
      /\ request' = [request EXCEPT ![r] = x]
      /\ UNCHANGED <<rows, base, groups, namespaces, events, wanted, mixed, shared, hasty, torn>>
  BY DEF RemoveClusterBaseGroupsForUser, history
<1>3. request[r] \in RbacRequest /\ Consistent(request[r])
  BY <1>1, OpenRequests DEF Typed
<1>4. /\ GoesOn(r, x) /\ x.want = x.left /\ x # Ended /\ x.pc = "removed"
  BY <1>2, <1>3 DEF GoesOn, RbacRequest, RbacPcs, Ended, Consistent
<1> HIDE DEF x, u, w
<1>5. /\ \A y \in Users \ {u} : HeldBy(members', y) = HeldBy(members, y)
      /\ HeldBy(members', u) = {} /\ members' \subseteq Users \X groups
  BY <1>1, <1>2 DEF HeldBy, MembershipsOf, Typed, GroupsTypeOK
<1>6. w = request[r].ws /\ u = request[r].user
  BY DEF u, w
<1>7. {u} \X (x.want \ x.left) = {}
  BY <1>4
<1>8. events' \in 0..MaxEvents /\ mixed' \subseteq Users /\ wanted' \in [Users -> SUBSET Groups]
  BY <1>1, <1>2 DEF Typed, GroupsTypeOK
<1>9. /\ x = Ended => HeldBy(members', u) = {u} \X wanted'[u]
      /\ x.pc = "removed" => HeldBy(members', u) = {u} \X (x.want \ x.left)
  BY <1>4, <1>5, <1>7
<1>10. mixed \subseteq mixed' /\ UNCHANGED <<rows, base, groups, namespaces, shared, hasty, torn>>
       /\ \A y \in Users \ {u} : wanted'[y] = wanted[y]
  BY <1>2
<1>11. request' = [request EXCEPT ![r] = x]
  BY <1>2
<1>12. QED  BY <1>1, <1>4, <1>5, <1>6, <1>8, <1>9, <1>10, <1>11, RbacGoesOn

\* one group is granted after the other, which exists because none is being made,
LEMMA AddFollows ==
  ASSUME GroupsInv, NEW r \in Requests, AddClusterGroupToUser(r)
  PROVE  GroupsInv'
<1> DEFINE u == request[r].user
           w == request[r].ws
<1>1. Typed /\ request[r].pc \in RbacPcs /\ \A v \in Workspaces : Followed(v)
  BY DEF GroupsInv, AddClusterGroupToUser, RbacPcs
<1>2. PICK g \in request[r].left :
        /\ \/ members' = Granted(u, g) /\ UNCHANGED mixed
           \/ UNCHANGED members /\ mixed' = mixed \cup {u}
        /\ request' = [request EXCEPT ![r] = [request[r] EXCEPT !.left = request[r].left \ {g}]]
  BY <1>1 DEF AddClusterGroupToUser, Overlooked
<1> DEFINE x == [request[r] EXCEPT !.left = request[r].left \ {g}]
<1>3. /\ request[r].pc = "removed" /\ events' \in 0..MaxEvents
      /\ UNCHANGED <<rows, base, groups, namespaces, wanted, shared, hasty, torn>>
  BY <1>1, Events DEF AddClusterGroupToUser, Overlooked
<1>4. request[r] \in RbacRequest /\ Consistent(request[r])
  BY <1>1, OpenRequests DEF Typed
<1>5. /\ GoesOn(r, x) /\ x.want = request[r].want /\ x.left = request[r].left \ {g}
      /\ x # Ended /\ x.pc = "removed" /\ g \in request[r].want /\ g \in Groups
  BY <1>3, <1>4 DEF GoesOn, RbacRequest, RbacPcs, Ended, Consistent
<1>6. request' = [request EXCEPT ![r] = x]
  BY <1>2
<1>7. w \in Workspaces /\ u \in Users /\ r \in OpenRbac(w)
  BY <1>1, <1>4 DEF RbacRequest, OpenRbac
<1> HIDE DEF x, u, w
<1>8. /\ \A y \in Users \ {u} : HeldBy(members', y) = HeldBy(members, y)
      /\ members' \subseteq Users \X groups
  BY <1>1, <1>2, <1>7 DEF HeldBy, Granted, Typed, GroupsTypeOK
<1>9. w = request[r].ws /\ u = request[r].user
  BY DEF u, w
<1>10. ASSUME Kept(w), Is("groups", w, "DONE"), u \notin mixed'
       PROVE  HeldBy(members', u) = {u} \X (x.want \ x.left)
  <2>0. u \notin mixed /\ members' = Granted(u, g)
    BY <1>2, <1>10
  <2>1. groups = Groups
    BY <1>1, <1>7, <1>10 DEF Followed, GroupsMade, Is
  <2>2. HeldBy(members, u) = {u} \X (request[r].want \ request[r].left)
    BY <1>1, <1>3, <1>7, <1>9, <1>10, <2>0 DEF Followed, Granting, Answered
  <2>3. members' = members \cup {<<u, g>>}
    BY <1>5, <1>7, <2>0, <2>1 DEF Granted
  <2>4. HeldBy(members', u) = HeldBy(members, u) \cup {<<u, g>>}
    BY <1>5, <2>3 DEF HeldBy
  <2>5. x.want \ x.left = (request[r].want \ request[r].left) \cup {g}
    BY <1>5
  <2>6. QED  BY <2>2, <2>4, <2>5
<1>11. /\ mixed' \subseteq Users /\ wanted' \in [Users -> SUBSET Groups]
       /\ mixed \subseteq mixed'
  BY <1>1, <1>2, <1>3, <1>7 DEF Typed, GroupsTypeOK
<1>12. QED  BY <1>1, <1>3, <1>5, <1>6, <1>8, <1>9, <1>10, <1>11, RbacGoesOn

\* the request is answered, or fails.
LEMMA AnsweredFollows ==
  ASSUME GroupsInv, NEW r \in Requests, RbacAnswered(r)
  PROVE  GroupsInv'
<1> DEFINE u == request[r].user
           w == request[r].ws
<1>1. Typed /\ request[r].pc \in RbacPcs /\ \A v \in Workspaces : Followed(v)
  BY DEF GroupsInv, RbacAnswered, RbacPcs
<1>2. /\ request[r].pc = "removed" /\ request[r].left = {}
      /\ request' = [request EXCEPT ![r] = Ended]
      /\ wanted' = [wanted EXCEPT ![u] = request[r].want]
      /\ UNCHANGED <<rows, base, groups, members, namespaces, events, mixed, shared, hasty, torn>>
  BY DEF RbacAnswered, Ends, keycloak
<1>3. request[r] \in RbacRequest
  BY <1>1, OpenRequests
<1>4. w \in Workspaces /\ u \in Users /\ request[r].want \subseteq Groups /\ r \in OpenRbac(w)
  BY <1>1, <1>3 DEF RbacRequest, OpenRbac
<1>5. GoesOn(r, Ended) /\ Ended.pc # "removed"
  BY DEF GoesOn, Ended
<1> HIDE DEF u, w
<1>6. /\ wanted' \in [Users -> SUBSET Groups] /\ wanted'[u] = request[r].want
      /\ \A y \in Users \ {u} : wanted'[y] = wanted[y]
  BY <1>1, <1>2, <1>4 DEF Typed, GroupsTypeOK
<1>7. w = request[r].ws /\ u = request[r].user
  BY DEF u, w
<1>8. ASSUME Kept(w), Is("groups", w, "DONE"), u \notin mixed
      PROVE  HeldBy(members', u) = {u} \X wanted'[u]
  BY <1>1, <1>2, <1>4, <1>6, <1>7, <1>8 DEF Followed, Granting, Answered
<1>9. /\ events' \in 0..MaxEvents /\ mixed' \subseteq Users /\ members' \subseteq Users \X groups
      /\ \A y : HeldBy(members', y) = HeldBy(members, y)
  BY <1>1, <1>2 DEF Typed, GroupsTypeOK
<1> DEFINE x == Ended
<1>10. GoesOn(r, x) /\ x.pc # "removed" /\ request' = [request EXCEPT ![r] = x]
  BY <1>2, <1>5
<1> HIDE DEF x
<1>11. Kept(w) /\ Is("groups", w, "DONE") /\ u \notin mixed' =>
         /\ x = Ended => HeldBy(members', u) = {u} \X wanted'[u]
         /\ x.pc = "removed" => HeldBy(members', u) = {u} \X (x.want \ x.left)
  BY <1>2, <1>8, <1>10
<1>12. UNCHANGED <<rows, base, groups, namespaces, shared, hasty, torn>> /\ mixed \subseteq mixed'
  BY <1>2
<1>13. /\ events' \in 0..MaxEvents /\ mixed' \subseteq Users
       /\ members' \subseteq Users \X groups /\ wanted' \in [Users -> SUBSET Groups]
       /\ \A y \in Users \ {u} : wanted'[y] = wanted[y] /\ HeldBy(members', y) = HeldBy(members, y)
  BY <1>6, <1>9
<1>14. QED  BY <1>1, <1>7, <1>10, <1>11, <1>12, <1>13, RbacGoesOn

LEMMA FailsFollows ==
  ASSUME GroupsInv, NEW r \in Requests, RbacFails(r)
  PROVE  GroupsInv'
<1> DEFINE u == request[r].user
           w == request[r].ws
<1>1. Typed /\ request[r].pc \in RbacPcs
  BY DEF GroupsInv, RbacFails
<1>2. /\ request' = [request EXCEPT ![r] = Ended]
      /\ UNCHANGED members \/ \E m \in MembershipsOf(u) : members' = members \ {m}
      /\ mixed' = mixed \cup {u} /\ events' \in 0..MaxEvents
      /\ UNCHANGED <<rows, base, groups, namespaces, wanted, shared, hasty, torn>>
  BY <1>1, Events DEF RbacFails, Ends
<1>3. u \in Users
  BY <1>1, OpenRequests DEF RbacRequest
<1>4. GoesOn(r, Ended)
  BY DEF GoesOn
<1> HIDE DEF u, w
<1>5. /\ \A y \in Users \ {u} : HeldBy(members', y) = HeldBy(members, y)
      /\ members' \subseteq Users \X groups /\ mixed' \subseteq Users
      /\ wanted' \in [Users -> SUBSET Groups] /\ u \in mixed'
  BY <1>1, <1>2, <1>3 DEF HeldBy, MembershipsOf, Typed, GroupsTypeOK
<1>6. w = request[r].ws /\ u = request[r].user
  BY DEF u, w
<1>7. QED  BY <1>1, <1>2, <1>4, <1>5, <1>6, RbacGoesOn

\* A request for a namespace.
LEMMA NamespaceStep ==
  ASSUME GroupsInv, NEW r \in Requests, NEW w \in Workspaces, NEW x, Changed(r, x),
         NEW some \in SUBSET Groups,
         x = Ended \/ (x \in NamespaceRequest /\ x.ws = w),
         \/ request[r].pc \in NamespacePcs /\ request[r].ws = w
         \/ request[r] = NoRequest /\ Ready(w) /\ w \in nodes,
         x # Ended /\ x.pc = "listed" => x.bound = groups,
         \/ UNCHANGED namespaces
         \/ /\ request[r].pc = "listed"
            /\ namespaces' = namespaces \cup {<<w, some>>}
            /\ some = Bindings(r) \/ <<w, some>> \in torn',
         torn \subseteq torn', torn' \subseteq Workspaces \X SUBSET Groups,
         UNCHANGED <<rows, keycloak, wanted, mixed, shared, hasty>>, events' \in 0..MaxEvents
  PROVE  GroupsInv'
<1>1. Typed /\ OnePresent /\ \A v \in Workspaces : Followed(v)
  BY DEF GroupsInv
<1>2. /\ request'[r] = x /\ \A q \in Requests \ {r} : request'[q] = request[q]
      /\ UNCHANGED <<row, nodes, payload, task, base, groups, members, wanted, mixed, shared, hasty>>
  BY <1>1, Changing DEF rows, keycloak
<1>3. request[r].pc \in NamespacePcs => request[r] \in NamespaceRequest
  BY <1>1, OpenRequests
<1>4. namespaces' \subseteq Workspaces \X SUBSET Groups
  BY <1>1 DEF Typed, GroupsTypeOK
<1>5. Typed'
  <2>1. /\ members' \subseteq Users \X groups /\ wanted' \in [Users -> SUBSET Groups]
        /\ mixed' \subseteq Users
    BY <1>1, <1>2 DEF Typed, GroupsTypeOK
  <2>2. UNCHANGED <<base, groups, shared, hasty>>
    BY <1>2
  <2>3. QED  BY <1>1, <1>4, <2>1, <2>2, RequestTypes
<1>6. OnePresent'
  BY <1>1, <1>2 DEF OnePresent
<1>7. /\ x.pc \notin RbacPcs /\ request[r].pc \notin RbacPcs
      /\ x = Ended => x.pc \notin NamespacePcs
      /\ x # Ended => x.pc \in NamespacePcs /\ x.ws = w
  BY DEF Ended, NoRequest, RbacPcs, NamespacePcs, NamespaceRequest
<1>8. \A v \in Workspaces : OpenRbac(v)' = OpenRbac(v)
  BY <1>2, <1>7 DEF OpenRbac
<1>9. /\ \A v \in Workspaces \ {w} :
           OpenNamespaces(v)' \subseteq OpenNamespaces(v) /\ NamespacesOf(v)' = NamespacesOf(v)
      /\ \A q \in OpenNamespaces(w)' : q = r \/ q \in OpenNamespaces(w)
  BY <1>2, <1>7 DEF OpenNamespaces, NamespacesOf
<1>10. Provisioned(w)
  <2>1. CASE request[r].pc \in NamespacePcs /\ request[r].ws = w
    BY <1>1, <2>1 DEF Followed, Life, OpenNamespaces
  <2>2. CASE Ready(w) /\ w \in nodes
    BY <1>1, <2>2, OpenTasks, TaskTypes DEF Followed, Life, Ready, Provisioned, Is
  <2>3. QED  BY <2>1, <2>2
<1>11. ASSUME NEW v \in Workspaces PROVE Life(v)'
  <2>1. CASE v = w
    BY <1>1, <1>2, <1>8, <1>10, <2>1 DEF Followed, Life, Is, Provisioned
  <2>2. CASE v # w
    BY <1>1, <1>2, <1>8, <1>9, <2>2 DEF Followed, Life, Is, Provisioned
  <2>3. QED  BY <2>1, <2>2
<1>12. \A v \in Workspaces : (Sole(v)' <=> Sole(v)) /\ (Kept(v)' <=> Kept(v))
  BY <1>2 DEF Sole, Kept, Is
<1>13. ASSUME NEW v \in Workspaces PROVE Alone(v)' /\ GroupsMade(v)' /\ CleanedUp(v)'
  BY <1>1, <1>2, <1>8, <1>12 DEF Followed, Alone, OpenTask, GroupsMade, CleanedUp, Is
<1>14. ASSUME NEW v \in Workspaces PROVE NamesAll(v)'
  <2>1. SUFFICES ASSUME Kept(v), Is("groups", v, "DONE")
                 PROVE  /\ \A n \in NamespacesOf(v)' \ torn' : n[2] = Groups \ {ClusterAdmin}
                        /\ \A q \in OpenNamespaces(v)' : request'[q].pc = "listed" =>
                             request'[q].bound = Groups
    BY <1>2, <1>12 DEF NamesAll, Is
  <2>2. groups = Groups
    BY <1>1, <2>1 DEF Followed, GroupsMade, Is
  <2>3. /\ \A n \in NamespacesOf(v) \ torn : n[2] = Groups \ {ClusterAdmin}
        /\ \A q \in OpenNamespaces(v) : request[q].pc = "listed" => request[q].bound = Groups
    BY <1>1, <2>1 DEF Followed, NamesAll
  <2>4. ASSUME NEW q \in OpenNamespaces(v)', request'[q].pc = "listed"
        PROVE  request'[q].bound = Groups
    <3>1. CASE q = r
      BY <1>2, <1>7, <2>2, <2>4, <3>1 DEF OpenNamespaces
    <3>2. CASE q # r
      BY <1>2, <2>3, <2>4, <3>2 DEF OpenNamespaces
    <3>3. QED  BY <3>1, <3>2
  <2>5. ASSUME NEW n \in NamespacesOf(v)' \ torn' PROVE n[2] = Groups \ {ClusterAdmin}
    <3>1. CASE n \in namespaces
      BY <2>3, <2>5, <3>1 DEF NamespacesOf
    <3>2. CASE n \notin namespaces
      <4>1. request[r].pc = "listed" /\ n = <<w, Bindings(r)>> /\ v = w
        BY <2>5, <3>2 DEF NamespacesOf
      <4>2. r \in OpenNamespaces(v)
        BY <4>1 DEF OpenNamespaces, NamespacePcs, NoRequest
      <4>3. QED  BY <2>3, <4>1, <4>2 DEF Bindings
    <3>3. QED  BY <3>1, <3>2
  <2>6. QED  BY <2>4, <2>5
<1>15. ASSUME NEW v \in Workspaces
       PROVE  Unasked(v)' /\ Unheld(v)' /\ OneEach(v)' /\ Granting(v)'
  <2>1. /\ \A q \in OpenRbac(v) : request'[q] = request[q]
        /\ RbacUsers(v)' = RbacUsers(v)
    BY <1>2, <1>7, <1>8 DEF OpenRbac, RbacUsers
  <2>2. Unasked(v)' /\ Unheld(v)'
    BY <1>1, <1>2, <1>12, <2>1 DEF Followed, Unasked, Unheld, Coming
  <2>3. OneEach(v)'
    BY <1>1, <1>2, <1>8, <1>12, <2>1 DEF Followed, OneEach
  <2>4. Granting(v)'
    BY <1>1, <1>2, <1>8, <1>12, <2>1 DEF Followed, Granting, Answered, Is
  <2>5. QED  BY <2>2, <2>3, <2>4
<1>16. ASSUME NEW v \in Workspaces PROVE Followed(v)'
  BY <1>11, <1>13, <1>14, <1>15 DEF Followed
<1>17. QED  BY <1>5, <1>6, <1>16 DEF GroupsInv

LEMMA NamespaceFollows ==
  ASSUME GroupsInv, NEW r \in Requests,
         \/ \E w \in Workspaces : AskNamespace(r, w)
         \/ GetAvailableClusterGroups(r) \/ CreateNamespace(r)
         \/ CreateNamespaceFails(r) \/ NamespaceLeftBehind(r)
  PROVE  GroupsInv'
<1>1. Typed
  BY DEF GroupsInv
<1>2. request[r].pc \in NamespacePcs =>
        /\ request[r] \in NamespaceRequest /\ request[r].ws \in Workspaces
             /\ request[r].bound \subseteq Groups
  BY <1>1, OpenRequests DEF NamespaceRequest
<1>3. "asked" \in NamespacePcs /\ "listed" \in NamespacePcs
  BY DEF NamespacePcs
<1>4. ASSUME NEW w \in Workspaces, AskNamespace(r, w) PROVE GroupsInv'
  <2> DEFINE x == [pc |-> "asked", ws |-> w, bound |-> {}]
  <2>1. x \in NamespaceRequest /\ x.ws = w /\ x.pc = "asked"
    BY <1>3 DEF NamespaceRequest
  <2>2. Changed(r, x)
    BY <1>4, <2>1 DEF AskNamespace, Changed
  <2> HIDE DEF x
  <2>3. /\ UNCHANGED <<rows, keycloak, namespaces, wanted, mixed, shared, hasty, torn>>
        /\ events' = events /\ request[r] = NoRequest /\ Ready(w) /\ w \in nodes
    BY <1>4 DEF AskNamespace, history
  <2>4. torn' \subseteq Workspaces \X SUBSET Groups /\ events' \in 0..MaxEvents
    BY <1>1, <2>3 DEF Typed, GroupsTypeOK
  <2>5. x # Ended /\ x.pc # "listed" /\ {} \in SUBSET Groups
    BY <2>1 DEF Ended
  <2>6. QED  BY <2>1, <2>2, <2>3, <2>4, <2>5, NamespaceStep
<1>5. CASE GetAvailableClusterGroups(r)
  <2> DEFINE x == [[request[r] EXCEPT !.pc = "listed"] EXCEPT !.bound = groups]
  <2>1. request[r].pc = "asked"
    BY <1>5 DEF GetAvailableClusterGroups
  <2>2. x \in NamespaceRequest /\ x.ws = request[r].ws /\ x.bound = groups
    BY <1>1, <1>2, <1>3, <2>1 DEF NamespaceRequest, Typed, GroupsTypeOK
  <2>3. request' = [request EXCEPT ![r] = x]
    BY <1>1, <1>5 DEF GetAvailableClusterGroups, Typed
  <2>4. Changed(r, x)
    BY <2>2, <2>3 DEF Changed
  <2> HIDE DEF x
  <2>5. UNCHANGED <<rows, keycloak, namespaces, events, wanted, mixed, shared, hasty, torn>>
    BY <1>5 DEF GetAvailableClusterGroups, history
  <2>6. torn' \subseteq Workspaces \X SUBSET Groups /\ events' \in 0..MaxEvents
    BY <1>1, <2>5 DEF Typed, GroupsTypeOK
  <2>7. QED  BY <1>2, <1>3, <2>1, <2>2, <2>4, <2>5, <2>6, NamespaceStep
<1>6. Ends(r) => Changed(r, Ended)
  BY DEF Ends, Changed
<1>7. CASE CreateNamespace(r)
  <2>1. /\ UNCHANGED <<rows, keycloak, wanted, mixed, shared, hasty, torn>>
        /\ namespaces' = namespaces \cup {<<request[r].ws, Bindings(r)>>}
        /\ events' = events /\ Ends(r) /\ request[r].pc = "listed"
    BY <1>7 DEF CreateNamespace, history
  <2>2. torn' \subseteq Workspaces \X SUBSET Groups /\ events' \in 0..MaxEvents
    BY <1>1, <2>1 DEF Typed, GroupsTypeOK
  <2>3. Changed(r, Ended) /\ Bindings(r) \in SUBSET Groups
    BY <1>2, <1>3, <1>6, <2>1 DEF Bindings
  <2>4. QED  BY <1>2, <1>3, <2>1, <2>2, <2>3, NamespaceStep
<1>8. CASE CreateNamespaceFails(r)
  <2>1. /\ UNCHANGED <<rows, keycloak, namespaces, wanted, mixed, shared, hasty, torn>>
        /\ events' \in 0..MaxEvents /\ Ends(r) /\ request[r].pc \in NamespacePcs
    BY <1>1, <1>8, Events DEF CreateNamespaceFails, history
  <2>2. torn' \subseteq Workspaces \X SUBSET Groups
    BY <1>1, <2>1 DEF Typed, GroupsTypeOK
  <2>3. Changed(r, Ended) /\ {} \in SUBSET Groups
    BY <1>6, <2>1
  <2>4. QED  BY <1>2, <2>1, <2>2, <2>3, NamespaceStep
<1>9. CASE NamespaceLeftBehind(r)
  <2>1. PICK some \in SUBSET Bindings(r) :
          /\ namespaces' = namespaces \cup {<<request[r].ws, some>>}
          /\ torn' = torn \cup {<<request[r].ws, some>>}
    BY <1>9 DEF NamespaceLeftBehind
  <2>2. request[r].pc = "listed" /\ some \subseteq Groups
    BY <1>2, <1>3, <1>9 DEF NamespaceLeftBehind, Bindings
  <2>3. torn' \subseteq Workspaces \X SUBSET Groups
    BY <1>1, <1>2, <1>3, <2>1, <2>2 DEF Typed, GroupsTypeOK
  <2>4. /\ UNCHANGED <<rows, keycloak, wanted, mixed, shared, hasty>>
        /\ events' \in 0..MaxEvents /\ Changed(r, Ended)
    BY <1>1, <1>6, <1>9, Events DEF NamespaceLeftBehind
  <2>5. torn \subseteq torn' /\ <<request[r].ws, some>> \in torn'
    BY <2>1
  <2>6. QED  BY <1>2, <1>3, <2>1, <2>2, <2>3, <2>4, <2>5, NamespaceStep
<1>10. QED  BY <1>4, <1>5, <1>7, <1>8, <1>9

\* The invariant holds at first, and in every state.
LEMMA GroupsInitially == GroupsInit => GroupsInv
<1> SUFFICES ASSUME GroupsInit PROVE GroupsInv
  OBVIOUS
<1>1. /\ row = [w \in Workspaces |-> "unused"] /\ creator \in [Workspaces -> Users]
      /\ nodes = {} /\ payload = {} /\ task = [k \in Kinds |-> [w \in Workspaces |-> "none"]]
      /\ base = NoWorkspace /\ groups = {} /\ members = {} /\ request = [r \in Requests |-> NoRequest]
      /\ namespaces = {} /\ events = 0 /\ wanted = [u \in Users |-> {}]
      /\ mixed = {} /\ shared = {} /\ hasty = {} /\ torn = {}
  BY DEF GroupsInit
<1>2. GroupsTypeOK
  BY <1>1, Assumed DEF Given, GroupsTypeOK
<1>3. \A r \in Requests : request[r].pc \notin RbacPcs \cup NamespacePcs
  BY <1>1 DEF NoRequest, RbacPcs, NamespacePcs
<1>4. Typed
  BY <1>1, <1>2, <1>3, Assumed DEF Typed
<1>5. OnePresent
  BY <1>1 DEF OnePresent
<1>6. ASSUME NEW w \in Workspaces PROVE Followed(w)
  <2>1. OpenRbac(w) = {} /\ OpenNamespaces(w) = {} /\ NamespacesOf(w) = {}
    BY <1>1, <1>3 DEF OpenRbac, OpenNamespaces, NamespacesOf
  <2>2. row[w] = "unused" /\ \A k \in Kinds : Is(k, w, "none")
    BY <1>1 DEF Is
  <2>3. Life(w)
    BY <1>1, <2>1, <2>2, KindSteps DEF Life, Is
  <2>4. Alone(w) /\ GroupsMade(w) /\ NamesAll(w) /\ Unasked(w) /\ Unheld(w) /\ OneEach(w)
             /\ Granting(w)
    BY <2>2 DEF Alone, GroupsMade, NamesAll, Unasked, Unheld, OneEach, Granting, Kept, Sole
  <2>5. CleanedUp(w)
    BY <2>2, KindSteps DEF CleanedUp, Is
  <2>6. QED  BY <2>3, <2>4, <2>5 DEF Followed
<1>7. QED  BY <1>4, <1>5, <1>6 DEF GroupsInv

LEMMA GroupsStutter == GroupsInv /\ UNCHANGED groupsVars => GroupsInv'
<1> SUFFICES ASSUME GroupsInv, UNCHANGED groupsVars PROVE GroupsInv'
  OBVIOUS
<1>1. UNCHANGED <<row, creator, nodes, payload, task, base, groups, members, request, namespaces,
                  events, wanted, mixed, shared, hasty, torn>>
  BY DEF groupsVars, rows, keycloak, api, history
<1>2. Typed' /\ OnePresent'
  BY <1>1 DEF GroupsInv, Typed, GroupsTypeOK, OnePresent
<1>3. ASSUME NEW v \in Workspaces PROVE Followed(v)'
  <2>1. Followed(v)
    BY DEF GroupsInv
  <2>2. UNCHANGED <<OpenRbac(v), OpenNamespaces(v), RbacUsers(v), NamespacesOf(v),
             OpenTask(v)>>
    BY <1>1, RequestsKept DEF NamespacesOf, OpenTask
  <2>3. Life(v)' /\ Alone(v)'
    BY <1>1, <2>1, <2>2, RequestsKept DEF Followed, Life, Alone, Sole, Is, Provisioned,
       OpenTask
  <2>4. Quiet(v)
    BY <1>1 DEF Quiet, Sole, Coming, Is
  <2>5. QED  BY <1>1, <2>1, <2>3, <2>4, QuietGroups DEF Followed, keycloak
<1>4. QED  BY <1>2, <1>3 DEF GroupsInv

LEMMA GroupsInvariant == GroupsSpec => []GroupsInv
<1>1. ASSUME GroupsInv, [GroupsNext]_groupsVars PROVE GroupsInv'
  <2>1. CASE UNCHANGED groupsVars
    BY <1>1, <2>1, GroupsStutter
  <2>2. ASSUME NEW w \in Workspaces,
               \/ CreateWorkspace(w) \/ ScheduleCreate(w)
               \/ DeployCluster(w) \/ DeployFails(w) \/ ScheduleGroups(w) \/ CreateDone(w)
        PROVE  GroupsInv'
    BY <1>1, <2>2, CreateWorkspaceFollows, ScheduleCreateFollows, DeployClusterFollows,
       DeployFailsFollows, ScheduleGroupsFollows, CreateDoneFollows
  <2>3. ASSUME NEW w \in Workspaces,
               \/ CreateClusterGroupBase(w) \/ CreateClusterGroup(w) \/ AddClusterAdmin(w)
               \/ CreateGroupsFails(w)
        PROVE  GroupsInv'
    BY <1>1, <2>3, CreateClusterGroupBaseFollows, CreateClusterGroupFollows,
       AddClusterAdminFollows,
       CreateGroupsFailsFollows
  <2>4. ASSUME NEW w \in Workspaces,
               \/ ScheduleDelete(w) \/ DestroyNodes(w) \/ DestroyFails(w)
               \/ DeleteWorkspace(w) \/ DeleteWorkspaceFails(w)
        PROVE  GroupsInv'
    BY <1>1, <2>4, ScheduleDeleteFollows, DestroyNodesFollows, DestroyFailsFollows,
       DeleteWorkspaceFollows, DeleteWorkspaceFailsFollows
  <2>5. ASSUME NEW w \in Workspaces, RemoveMembers(w) \/ DeleteBase(w) \/ CleanupFails(w)
        PROVE  GroupsInv'
    BY <1>1, <2>5, CleanupFollows
  <2>6. ASSUME NEW r \in Requests,
               \/ \E w \in Workspaces : ApplyRbacBindings(r, w)
               \/ RemoveClusterBaseGroupsForUser(r) \/ AddClusterGroupToUser(r)
               \/ RbacAnswered(r) \/ RbacFails(r)
        PROVE  GroupsInv'
    BY <1>1, <2>6, ApplyFollows, RemoveFollows, AddFollows, AnsweredFollows, FailsFollows
  <2>7. ASSUME NEW r \in Requests,
               \/ \E w \in Workspaces : AskNamespace(r, w)
               \/ GetAvailableClusterGroups(r) \/ CreateNamespace(r)
               \/ CreateNamespaceFails(r) \/ NamespaceLeftBehind(r)
        PROVE  GroupsInv'
    BY <1>1, <2>7, NamespaceFollows
  <2>8. CASE GroupsNext
    BY <2>2, <2>3, <2>4, <2>5, <2>6, <2>7, <2>8 DEF GroupsNext
  <2>9. QED  BY <1>1, <2>1, <2>8
<1>2. QED  BY <1>1, GroupsInitially, PTL DEF GroupsSpec

\* Type correctness of rows, tasks, groups, memberships and requests.
THEOREM GroupsTypeCorrect == GroupsSpec => []GroupsTypeOK
<1>1. GroupsInv => GroupsTypeOK
  BY DEF GroupsInv, Typed
<1>2. QED  BY <1>1, GroupsInvariant, PTL

\* A cluster the properties are about is kept.
LEMMA AvailableIsKept ==
  ASSUME NEW w, Available(w)
  PROVE  Kept(w) /\ Is("groups", w, "DONE")
BY DEF Available, Kept, Sole

\* The groups of a cluster that is available are all there, were made by the task
\* of that cluster (createClusterGroups) and not by one of a workspace that had the
\* name before, and every namespace that createNamespace completed in it binds all
\* of them but the administrators'; a clean-up that succeeded (cleanupClusterGroups) leaves no base group of
\* its workspace, unless the deletion was scheduled beside an open task.
THEOREM GroupsFollow == GroupsSpec => []GroupsFollowWorkspaces
<1>1. ASSUME GroupsInv PROVE GroupsFollowWorkspaces
  <2>1. ASSUME NEW w \in Workspaces, Available(w)
        PROVE  base = w /\ groups = Groups
               /\ \A n \in namespaces \ torn : n[1] = w => n[2] = Groups \ {ClusterAdmin}
    BY <1>1, <2>1, AvailableIsKept DEF GroupsInv, Followed, GroupsMade, NamesAll, NamespacesOf,
       Is
  <2>2. QED  BY <1>1, <2>1 DEF GroupsFollowWorkspaces, GroupsInv, Followed, CleanedUp
<1>2. QED  BY <1>1, GroupsInvariant, PTL

\* In an available cluster a user is a member of exactly the groups the last answered
\* request asked for (applyRbacBindings), the creator at first of cluster-admin, when
\* the user had no overlapping, failed or early request and was always found.
THEOREM MembershipsFollow == GroupsSpec => []MembershipsFollowRequests
<1>1. ASSUME GroupsInv PROVE MembershipsFollowRequests
  BY <1>1, AvailableIsKept, MembersKept DEF GroupsInv, Followed, Granting,
     MembershipsFollowRequests
<1>2. QED  BY <1>1, GroupsInvariant, PTL
=============================================================================
