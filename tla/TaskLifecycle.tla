--------------------------- MODULE TaskLifecycle ---------------------------
(***************************************************************************)
(* What the task controller promises about the rows of the tasks table,    *)
(* whatever the number of processPendingTasks calls in flight: a task is   *)
(* executed by at most one call at a time, only an execution writes a      *)
(* status, DONE is written only over IN_PROGRESS unless the task is an     *)
(* update, which may find nothing to do, and a process crash ends all      *)
(* executions without writing anything.  An execution may start on a task  *)
(* that has ended before: the promise is at-least-once, serialised         *)
(* execution, not exactly-once.                                            *)
(***************************************************************************)
CONSTANTS Tasks,
          Updates     \* tasks that may end with nothing to do

VARIABLES status,     \* the status column of every task row
          executing   \* the tasks being executed

Init == /\ status = [t \in Tasks |-> "NONE"]
        /\ executing = {}

Create(t) == /\ status[t] = "NONE"
             /\ status' = [status EXCEPT ![t] = "PENDING"]
             /\ UNCHANGED executing

Start(t) == /\ t \notin executing
            /\ status[t] # "NONE"
            /\ executing' = executing \cup {t}
            /\ UNCHANGED status

Progress(t) == /\ t \in executing
               /\ status' = [status EXCEPT ![t] = "IN_PROGRESS"]
               /\ UNCHANGED executing

Succeed(t) == /\ t \in executing
              /\ status[t] = "IN_PROGRESS" \/ t \in Updates
              /\ status' = [status EXCEPT ![t] = "DONE"]
              /\ executing' = executing \ {t}

Fail(t) == /\ t \in executing
           /\ status' = [status EXCEPT ![t] = "ERROR"]
           /\ executing' = executing \ {t}

GiveUp(t) == /\ t \in executing
             /\ executing' = executing \ {t}
             /\ UNCHANGED status

Crash == /\ executing' = {}
         /\ UNCHANGED status

Next == \/ Crash
        \/ \E t \in Tasks : \/ Create(t) \/ Start(t) \/ Progress(t)
                            \/ Succeed(t) \/ Fail(t) \/ GiveUp(t)

Spec == Init /\ [][Next]_<<status, executing>>
============================================================================
