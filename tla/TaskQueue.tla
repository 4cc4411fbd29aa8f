----------------------------- MODULE TaskQueue -----------------------------
(***************************************************************************)
(* The heart of the task controller: rows of the tasks table, written by   *)
(* the API and by task handlers, announced over MQTT and executed by       *)
(* concurrent calls of TaskController.processPendingTasks                  *)
(* (task-controller/controllers/tasks/index.js:67-140).                    *)
(*                                                                         *)
(* A call reads a snapshot of pending tasks once (one row when it was      *)
(* started by a message, every PENDING row when started by the timer),     *)
(* then walks the snapshot without reading the rows again.  bussyTaskIds   *)
(* keeps two calls from executing the same row at the same time.           *)
(* Node.js runs the code between two awaits atomically: one action stands  *)
(* for the code up to the next await.                                      *)
(***************************************************************************)
EXTENDS Naturals, FiniteSets

CONSTANTS Tasks,         \* ids of task rows; serial, so their order is createdAt's
          Deferrable,    \* tasks whose handler may return early and leave PENDING
          Updates,       \* tasks whose handler may find nothing to do
          Volumes,       \* tasks whose handler tests their target before all else
          Undoing,       \* tasks whose catch block asks a host before it writes
          Runs,          \* calls of processPendingTasks that may be in flight
          NoTask,
          MaxCrashes,    \* bound: crashes of the task controller process
          MaxDbErrors    \* bound: failed statements of the database

ASSUME TasksAssumption ==
  /\ Tasks \subseteq Nat
  /\ Deferrable \cup Updates \cup Volumes \cup Undoing \subseteq Tasks
ASSUME NoTaskAssumption == NoTask \notin Tasks
ASSUME BoundsAssumption == MaxCrashes \in Nat /\ MaxDbErrors \in Nat

VARIABLES status,        \* tasks.status per row, "NONE" while there is no row
          notified,      \* ids announced on /multipaas/task/new and not yet received
          bussyTaskIds,  \* TaskController.bussyTaskIds
          todo,          \* per call, the part of taskList still ahead of the loop
          cur,           \* per call, the task whose handler it awaits
          stage,         \* per call, how far that handler is
          crashes, dbErrors

vars == <<status, notified, bussyTaskIds, todo, cur, stage, crashes, dbErrors>>

Stages == {"loop", "entered", "working", "failed"}

TypeOK ==
  /\ status \in [Tasks -> {"NONE", "PENDING", "IN_PROGRESS", "DONE", "ERROR"}]
  /\ notified \subseteq Tasks
  /\ bussyTaskIds \subseteq Tasks
  /\ todo \in [Runs -> SUBSET Tasks]
  /\ cur \in [Runs -> Tasks \cup {NoTask}]
  /\ stage \in [Runs -> Stages]
  /\ crashes \in 0..MaxCrashes
  /\ dbErrors \in 0..MaxDbErrors

Init ==
  /\ status = [t \in Tasks |-> "NONE"]
  /\ notified = {}
  /\ bussyTaskIds = {}
  /\ todo = [r \in Runs |-> {}]
  /\ cur = [r \in Runs |-> NoTask]
  /\ stage = [r \in Runs |-> "loop"]
  /\ crashes = 0
  /\ dbErrors = 0

Pending == {t \in Tasks : status[t] = "PENDING"}

Idle(r) == stage[r] = "loop" /\ todo[r] = {}

----------------------------------------------------------------------------
(* The API, and handlers of the task controller, insert a row and announce *)
(* it.  The announcement has MQTT QoS 0 and is skipped while offline.      *)

NotifyNewTask(t) == notified' \in {notified, notified \cup {t}}

CreateTask(t) ==
  /\ status[t] = "NONE"
  /\ \A u \in Tasks : u < t => status[u] # "NONE"
  /\ status' = [status EXCEPT ![t] = "PENDING"]
  /\ NotifyNewTask(t)
  /\ UNCHANGED <<bussyTaskIds, todo, cur, stage, crashes, dbErrors>>

----------------------------------------------------------------------------
(* Start of a call: the snapshot is read, here is its await.               *)

OnTaskMessage(r, t) ==
  /\ Idle(r)
  /\ t \in notified
  /\ notified' = notified \ {t}
  /\ todo' = [todo EXCEPT ![r] = {t} \cap Pending]
  /\ UNCHANGED <<status, bussyTaskIds, cur, stage, crashes, dbErrors>>

OnTaskMessageDbError(t) ==
  /\ dbErrors < MaxDbErrors
  /\ t \in notified
  /\ notified' = notified \ {t}
  /\ dbErrors' = dbErrors + 1
  /\ UNCHANGED <<status, bussyTaskIds, todo, cur, stage, crashes>>

\* Mutant of OnTimer: getPendingTasks without its WHERE clause.
OnTimerAllRows(r) ==
  /\ Idle(r)
  /\ todo' = [todo EXCEPT ![r] = {t \in Tasks : status[t] # "NONE"}]
  /\ UNCHANGED <<status, notified, bussyTaskIds, cur, stage, crashes, dbErrors>>

OnTimer(r) ==
  /\ Idle(r)
  /\ todo' = [todo EXCEPT ![r] = Pending]
  /\ UNCHANGED <<status, notified, bussyTaskIds, cur, stage, crashes, dbErrors>>

----------------------------------------------------------------------------
(* The loop over the snapshot.                                             *)

IsNext(r, t) == t \in todo[r] /\ \A u \in todo[r] : t <= u

SkipBussy(r, t) ==
  /\ stage[r] = "loop"
  /\ IsNext(r, t)
  /\ t \in bussyTaskIds
  /\ todo' = [todo EXCEPT ![r] = @ \ {t}]
  /\ UNCHANGED <<status, notified, bussyTaskIds, cur, stage, crashes, dbErrors>>

\* Mutant of Claim: bussyTaskIds is not consulted.
ClaimUnchecked(r, t) ==
  /\ stage[r] = "loop"
  /\ IsNext(r, t)
  /\ bussyTaskIds' = bussyTaskIds \cup {t}
  /\ todo' = [todo EXCEPT ![r] = @ \ {t}]
  /\ cur' = [cur EXCEPT ![r] = t]
  /\ stage' = [stage EXCEPT ![r] = "entered"]
  /\ UNCHANGED <<status, notified, crashes, dbErrors>>

Claim(r, t) ==
  /\ stage[r] = "loop"
  /\ IsNext(r, t)
  /\ t \notin bussyTaskIds
  /\ bussyTaskIds' = bussyTaskIds \cup {t}
  /\ todo' = [todo EXCEPT ![r] = @ \ {t}]
  /\ cur' = [cur EXCEPT ![r] = t]
  /\ stage' = [stage EXCEPT ![r] = "entered"]
  /\ UNCHANGED <<status, notified, crashes, dbErrors>>

\* Mutant of Release: the finally block forgets the splice.
ReleaseKeepsId(r) ==
  /\ cur' = [cur EXCEPT ![r] = NoTask]
  /\ stage' = [stage EXCEPT ![r] = "loop"]
  /\ UNCHANGED <<notified, bussyTaskIds, todo, crashes>>

\* The handler's promise settled: the finally block, then back to the loop.
Release(r) ==
  /\ bussyTaskIds' = bussyTaskIds \ {cur[r]}
  /\ cur' = [cur EXCEPT ![r] = NoTask]
  /\ stage' = [stage EXCEPT ![r] = "loop"]
  /\ UNCHANGED <<notified, todo, crashes>>

----------------------------------------------------------------------------
(* The shapes the processScheduled handlers have.                          *)

SetStatus(t, s) == status' = [status EXCEPT ![t] = s]

\* Mutant of MarkInProgress: the update is missing.
MarkInProgressMissing(r) ==
  /\ stage[r] = "entered"
  /\ stage' = [stage EXCEPT ![r] = "working"]
  /\ UNCHANGED <<status, notified, bussyTaskIds, todo, cur, crashes, dbErrors>>

\* Early return: workspaces of the organisation remain, or no host has memory.
Defer(r) ==
  /\ stage[r] = "entered"
  /\ cur[r] \in Deferrable
  /\ Release(r)
  /\ UNCHANGED <<status, dbErrors>>

\* An update whose cluster has the asked size: DONE, over whatever the row says.
NothingToUpdate(r) ==
  /\ stage[r] = "entered"
  /\ cur[r] \in Updates
  /\ SetStatus(cur[r], "DONE")
  /\ Release(r)
  /\ UNCHANGED dbErrors

\* A target or a type the handler does not know: on to its ERROR update.
Unsupported(r) ==
  /\ stage[r] = "entered"
  /\ cur[r] \in Volumes
  /\ stage' = [stage EXCEPT ![r] = "failed"]
  /\ UNCHANGED <<status, notified, bussyTaskIds, todo, cur, crashes, dbErrors>>

\* A statement outside the handler's try block: only processPendingTasks logs it.
EnteredDbError(r) ==
  /\ stage[r] = "entered"
  /\ cur[r] \in Deferrable \cup Updates
  /\ dbErrors < MaxDbErrors
  /\ dbErrors' = dbErrors + 1
  /\ Release(r)
  /\ UNCHANGED status

MarkInProgress(r) ==
  /\ stage[r] = "entered"
  /\ SetStatus(cur[r], "IN_PROGRESS")
  /\ stage' = [stage EXCEPT ![r] = "working"]
  /\ UNCHANGED <<notified, bussyTaskIds, todo, cur, crashes, dbErrors>>

MarkInProgressDbError(r) ==
  /\ stage[r] = "entered"
  /\ dbErrors < MaxDbErrors
  /\ dbErrors' = dbErrors + 1
  /\ stage' = [stage EXCEPT ![r] = "failed"]
  /\ UNCHANGED <<status, notified, bussyTaskIds, todo, cur, crashes>>

\* Mutant of WorkFails: the handler has no catch block.
WorkFailsUncaught(r) ==
  /\ stage[r] = "working"
  /\ Release(r)
  /\ UNCHANGED <<status, dbErrors>>

\* Any of the handler's awaits rejects: control goes to its catch block.
WorkFails(r) ==
  /\ stage[r] = "working"
  /\ stage' = [stage EXCEPT ![r] = "failed"]
  /\ UNCHANGED <<status, notified, bussyTaskIds, todo, cur, crashes, dbErrors>>

\* The work failed, and then the request its catch block makes: no update.
UndoFails(r) ==
  /\ stage[r] = "working"
  /\ cur[r] \in Undoing
  /\ Release(r)
  /\ UNCHANGED <<status, dbErrors>>

MarkDone(r) ==
  /\ stage[r] = "working"
  /\ SetStatus(cur[r], "DONE")
  /\ Release(r)
  /\ UNCHANGED dbErrors

\* Mutant of MarkError: a status the other components do not know.
MarkErrorUnknownStatus(r) ==
  /\ stage[r] = "failed"
  /\ SetStatus(cur[r], "FAILED")
  /\ Release(r)
  /\ UNCHANGED dbErrors

MarkError(r) ==
  /\ stage[r] = "failed"
  /\ SetStatus(cur[r], "ERROR")
  /\ Release(r)
  /\ UNCHANGED dbErrors

\* The catch block's own update rejects: only processPendingTasks logs it.
MarkErrorDbError(r) ==
  /\ stage[r] = "failed"
  /\ dbErrors < MaxDbErrors
  /\ dbErrors' = dbErrors + 1
  /\ Release(r)
  /\ UNCHANGED status

----------------------------------------------------------------------------
(* The process dies and is started again: memory and queued messages are   *)
(* gone (QoS 0, no persistent session), the rows stay.                     *)

CrashRestart ==
  /\ crashes < MaxCrashes
  /\ crashes' = crashes + 1
  /\ notified' = {}
  /\ bussyTaskIds' = {}
  /\ todo' = [r \in Runs |-> {}]
  /\ cur' = [r \in Runs |-> NoTask]
  /\ stage' = [r \in Runs |-> "loop"]
  /\ UNCHANGED <<status, dbErrors>>

----------------------------------------------------------------------------
RunStep(r) ==
  \/ \E t \in Tasks : SkipBussy(r, t) \/ Claim(r, t)
  \/ Defer(r) \/ NothingToUpdate(r) \/ Unsupported(r) \/ EnteredDbError(r)
  \/ MarkInProgress(r)
  \/ MarkInProgressDbError(r)
  \/ WorkFails(r) \/ UndoFails(r)
  \/ MarkDone(r)
  \/ MarkError(r)
  \/ MarkErrorDbError(r)

Next ==
  \/ \E t \in Tasks : CreateTask(t) \/ OnTaskMessageDbError(t)
  \/ \E r \in Runs, t \in Tasks : OnTaskMessage(r, t)
  \/ \E r \in Runs : OnTimer(r) \/ RunStep(r)
  \/ CrashRestart

Spec == Init /\ [][Next]_vars

(* setInterval keeps firing, a received message is handled, and an await   *)
(* settles: requests to host nodes have timeouts and database statements   *)
(* return or fail.  Nothing forces clients to create tasks.                *)
Fairness ==
  /\ WF_vars(\E r \in Runs : OnTimer(r) /\ Pending # {})
  /\ \A r \in Runs : WF_vars(RunStep(r))

FairSpec == Spec /\ Fairness

----------------------------------------------------------------------------
(* Properties.                                                             *)

Executing(t) == \E r \in Runs : cur[r] = t
Held(t) == \E r \in Runs : t \in todo[r] \/ cur[r] = t
Settled(t) == status[t] \in {"IN_PROGRESS", "DONE", "ERROR"}

\* Two calls of processPendingTasks never run the handler of the same row at
\* the same time, although both may have it in their snapshots.
NoConcurrentExecution ==
  \A r, q \in Runs : cur[r] = cur[q] /\ cur[r] # NoTask => r = q

\* bussyTaskIds holds exactly the rows being executed: a leaked id would make
\* every later call skip its row for ever.
BussyIsExecuting == bussyTaskIds = {t \in Tasks : Executing(t)}

\* While its handler works, a row is IN_PROGRESS: no other call, and no stale
\* snapshot, writes another status under a working handler.
WorkingIsInProgress ==
  \A r \in Runs : stage[r] = "working" => status[cur[r]] = "IN_PROGRESS"

\* Without a crash or a failed statement no row is left IN_PROGRESS behind: the
\* maintenance job that would collect such rows is not written yet.  A task whose
\* catch block asks a host is the exception, the host may refuse (UndoFails).
NoOrphanWithoutFault ==
  crashes = 0 /\ dbErrors = 0 =>
    \A t \in Tasks \ Undoing : status[t] = "IN_PROGRESS" => Executing(t)

\* A row that left PENDING and is in no call's snapshot keeps its status and is
\* never taken again: only a snapshot older than its end re-executes a row.
SettledIsFinal ==
  [][\A t \in Tasks : Settled(t) /\ ~Held(t) =>
        status'[t] = status[t] /\ ~Held(t)']_vars

\* The controller implements serialised, at-least-once execution, in which only an
\* update may be DONE without having been IN_PROGRESS.
Lifecycle == INSTANCE TaskLifecycle WITH executing <- bussyTaskIds
ImplementsLifecycle == Lifecycle!Spec

\* A pending row is eventually executed, even when its announcement was lost,
\* the row was deferred before, or the controller crashed in between.
PendingIsExecuted ==
  \A t \in Tasks : status[t] = "PENDING" ~> Executing(t)

============================================================================
