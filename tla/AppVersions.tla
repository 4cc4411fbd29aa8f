---------------------------- MODULE AppVersions ----------------------------
(***************************************************************************)
(* The image versions of an application: their rows with the share of      *)
(* traffic of each (table application_version), the helm releases that run *)
(* them, and the VirtualServer of the cluster's ingress that splits the    *)
(* traffic.  The tasks of task-controller/controllers/tasks/tasks.apps.js  *)
(* change the three, one request to the host node after another, and roll  *)
(* back by hand when a request fails.                                      *)
(*                                                                         *)
(* The tasks of a workspace run one at a time (the API refuses a request   *)
(* while one is open), but requests are made from a listing of the         *)
(* application that may be out of date.  The application has one HTTP port *)
(* exposed as a service.                                                   *)
(***************************************************************************)
EXTENDS Integers, FiniteSets, Functions

CONSTANTS Tags,         \* image tags of the application's repository
          Total,        \* the weights of an application add up to this: 100
          Weights,      \* weights a user may ask for
          NoTag,
          MaxApps,      \* bound: times the application is created
          MaxTasks,     \* bound: tasks
          MaxFaults     \* bound: refused or unanswered requests

ASSUME TagAssumption == NoTag \notin Tags
ASSUME WeightAssumption == Total \in Nat /\ Weights \subseteq 0..Total
ASSUME BoundsAssumption == MaxApps \in Nat /\ MaxTasks \in Nat /\ MaxFaults \in Nat

VARIABLES app,       \* id of the applications row, 0 when there is none
          apps,      \* ids given out so far
          rows,      \* weight of each version's row
          routed,    \* the application has its routes row
          release,   \* versions with a helm release on the cluster
          rule,      \* weights of the VirtualServer, <<>> when there is none
          seen,      \* the application as the users listed it last
          task,      \* the task being executed, or NoTask
          outcome,   \* the last task and its status
          tasks, faults,
          skewed,    \* history: the shares are off since an event named below
          torn       \* history: rows and releases are apart since an event named below

db == <<app, apps, rows, routed>>
cluster == <<release, rule>>
history == <<skewed, torn>>
vars == <<db, cluster, seen, task, outcome, tasks, faults, history>>

Empty == [t \in {} |-> Total]
Versions == DOMAIN rows
Ops == {"create", "add", "canary", "replace", "removeVersion", "removeApp"}
NoTask == [op |-> "none", app |-> 0, tag |-> NoTag, old |-> NoTag,
           split |-> Empty, todo |-> {}, backups |-> FALSE, pc |-> "end"]
Idle == task = NoTask
IsShares(f) == DOMAIN f \subseteq Tags /\ f \in [DOMAIN f -> 0..Total]

TypeOK ==
  /\ apps \in 0..MaxApps /\ app \in {0, apps}
  /\ IsShares(rows) /\ IsShares(rule)
  /\ release \subseteq Tags
  /\ routed \in BOOLEAN
  /\ seen.app \in 0..apps /\ seen.tags \subseteq Tags
  /\ task.op \in Ops \cup {"none"} /\ task.app \in 0..apps
  /\ task.tag \in Tags \cup {NoTag} /\ task.old \in Tags \cup {NoTag}
  /\ IsShares(task.split) /\ task.todo \subseteq Tags
  /\ task.backups \in BOOLEAN
  /\ task.pc \in {"start", "deploy", "ingress", "balancer", "uninstall", "undo", "restore", "end"}
  /\ outcome.op \in Ops \cup {"none"} /\ outcome.status \in {"DONE", "ERROR"}
  /\ tasks \in 0..MaxTasks /\ faults \in 0..MaxFaults
  /\ skewed \in BOOLEAN /\ torn \in BOOLEAN

Init ==
  /\ app = 0 /\ apps = 0 /\ rows = Empty /\ routed = FALSE
  /\ release = {} /\ rule = Empty
  /\ seen = [app |-> 0, tags |-> {}]
  /\ task = NoTask /\ outcome = [op |-> "none", status |-> "DONE"]
  /\ tasks = 0 /\ faults = 0
  /\ skewed = FALSE /\ torn = FALSE

Fault == faults < MaxFaults /\ faults' = faults + 1
\* Mutant of Finish: a status no task has.
FinishOdd(status) ==
  /\ task' = NoTask
  /\ outcome' = [op |-> task.op, status |-> "OK"]

Goto(pc) == task' = [task EXCEPT !.pc = pc] /\ UNCHANGED outcome
Finish(status) ==
  /\ task' = NoTask
  /\ outcome' = [op |-> task.op, status |-> status]

----------------------------------------------------------------------------
(* The command line interface and the API.                                 *)

\* The split a user has to enter adds up to Total.
Splits(S) == {s \in [S -> Weights] : SumFunction(s) = Total}

\* listApplications reads the first version of every routed application: it
\* throws when there is one without versions.
List ==
  /\ routed => Versions # {}
  /\ seen' = [app |-> app, tags |-> Versions]
  /\ UNCHANGED <<db, cluster, task, outcome, tasks, faults, history>>

Request(op, tag, old, split) ==
  /\ Idle /\ tasks < MaxTasks
  /\ tasks' = tasks + 1
  /\ task' = [NoTask EXCEPT !.op = op, !.app = seen.app, !.tag = tag, !.old = old,
                            !.split = split, !.pc = "start"]
  /\ UNCHANGED <<db, cluster, seen, outcome, faults, history>>

\* Two users do not deploy the same new image.
IsNew(tag) == tag \notin seen.tags \cup Versions

AskCreate(tag) ==
  /\ app = 0 /\ seen.app = 0 /\ apps < MaxApps
  /\ Request("create", tag, NoTag, Empty)

AskAdd(tag) ==
  /\ seen.app # 0 /\ IsNew(tag)
  /\ \E s \in Splits(seen.tags \cup {tag}) : Request("add", tag, NoTag, s)

AskCanary ==
  /\ seen.app # 0
  /\ \E s \in Splits(seen.tags) : Request("canary", NoTag, NoTag, s)

AskReplace(old, tag) ==
  /\ old \in seen.tags /\ IsNew(tag)
  /\ Request("replace", tag, old, Empty)

AskRemoveVersion(tag) ==
  /\ tag \in seen.tags /\ Cardinality(seen.tags) > 1
  /\ Request("removeVersion", tag, NoTag, Empty)

AskRemoveApp ==
  /\ seen.app # 0
  /\ Request("removeApp", NoTag, NoTag, Empty)

Ask ==
  \/ \E t \in Tags : AskCreate(t) \/ AskAdd(t) \/ AskRemoveVersion(t)
  \/ \E t, u \in Tags : AskReplace(t, u)
  \/ AskCanary \/ AskRemoveApp

----------------------------------------------------------------------------
(* The first statements of each task.                                      *)

Without(f, t) == [u \in DOMAIN f \ {t} |-> f[u]]
With(f, t, w) == [u \in DOMAIN f \cup {t} |-> IF u = t THEN w ELSE f[u]]

Starts(op) == task.op = op /\ task.pc = "start"
IsCurrent == app # 0 /\ task.app = app

\* The application or version of an old listing is gone: a TypeError.
StartFails ==
  /\ \/ (Starts("add") \/ Starts("canary")) /\ ~IsCurrent
     \/ Starts("replace") /\ (~IsCurrent \/ task.old \notin Versions)
     \/ Starts("removeVersion") /\ (~IsCurrent \/ task.tag \notin Versions)
  /\ Finish("ERROR")
  /\ UNCHANGED <<db, cluster, seen, tasks, faults, history>>

\* Mutant of StartReplace: the old version is uninstalled first.
StartReplaceOldFirst ==
  /\ Starts("replace") /\ IsCurrent /\ task.old \in Versions
  /\ release' = release \ {task.old}
  /\ Goto("deploy")
  /\ UNCHANGED <<db, rule, seen, tasks, faults, history>>

\* deployNewApp: the first version gets all of the traffic.  rule is the
\* VirtualServer named after the application's virtual port, which is drawn new:
\* one that a failed creation left is another object, of a name in no row.
StartCreate ==
  /\ Starts("create")
  /\ app' = apps + 1 /\ apps' = apps + 1
  /\ rows' = With(Empty, task.tag, Total)
  /\ rule' = Empty
  /\ skewed' = FALSE
  /\ task' = [task EXCEPT !.app = apps + 1, !.pc = "deploy"]
  /\ UNCHANGED <<routed, release, seen, outcome, tasks, faults, torn>>

\* Versions the split does not name keep their weight; an update of a version
\* that is gone has no effect.
Reweighted(S) == [t \in S |-> IF t \in DOMAIN task.split THEN task.split[t] ELSE rows[t]]

\* deployNewAppVersion: row and weights are committed before the deployment.
StartAdd ==
  /\ Starts("add") /\ IsCurrent
  /\ rows' = Reweighted(Versions \cup {task.tag})
  /\ skewed' = (DOMAIN task.split # DOMAIN rows')
  /\ Goto("deploy")
  /\ UNCHANGED <<app, apps, routed, cluster, seen, tasks, faults, torn>>

\* Mutant of StartCanary: the new split does not reach the ingress.
StartCanaryOnly ==
  /\ Starts("canary") /\ IsCurrent
  /\ rows' = Reweighted(Versions)
  /\ skewed' = (DOMAIN task.split # Versions)
  /\ Finish("DONE")
  /\ UNCHANGED <<app, apps, routed, cluster, seen, tasks, faults, torn>>

\* applicationCanarySplit.
StartCanary ==
  /\ Starts("canary") /\ IsCurrent
  /\ rows' = Reweighted(Versions)
  /\ skewed' = (DOMAIN task.split # Versions)
  /\ Goto("ingress")
  /\ UNCHANGED <<app, apps, routed, cluster, seen, tasks, faults, torn>>

\* replaceAppVersion and deprovisionApplicationVersion: the transaction stays
\* open, nothing is visible yet.
StartReplace ==
  /\ Starts("replace") /\ IsCurrent /\ task.old \in Versions
  /\ Goto("deploy")
  /\ UNCHANGED <<db, cluster, seen, tasks, faults, history>>

StartRemoveVersion ==
  /\ Starts("removeVersion") /\ IsCurrent /\ task.tag \in Versions
  /\ Goto("uninstall")
  /\ UNCHANGED <<db, cluster, seen, tasks, faults, history>>

RemoveApp ==
  /\ app' = 0 /\ rows' = Empty /\ routed' = FALSE
  /\ UNCHANGED apps

\* deprovisionApplication.  It does not notice that the application is gone.
StartRemoveApp ==
  /\ Starts("removeApp")
  /\ IF IsCurrent /\ Versions # {}
       THEN /\ task' = [task EXCEPT !.pc = "uninstall", !.todo = Versions]
            /\ UNCHANGED db
       ELSE /\ Goto("ingress")
            /\ IF IsCurrent THEN RemoveApp ELSE UNCHANGED db
  /\ UNCHANGED <<cluster, seen, outcome, tasks, faults, history>>

Start == StartFails \/ StartCreate \/ StartAdd \/ StartCanary \/ StartReplace
         \/ StartRemoveVersion \/ StartRemoveApp

----------------------------------------------------------------------------
(* deploy_new_app: helm install --atomic on the cluster.                   *)

Deployed ==
  /\ task.pc = "deploy"
  /\ task.tag \notin release
  /\ release' = release \cup {task.tag}
  /\ IF task.op = "replace"
       THEN rows' = With(Without(rows, task.old), task.tag, rows[task.old])
       ELSE UNCHANGED rows
  /\ routed' = (routed \/ task.op = "create")
  /\ Goto("ingress")
  /\ UNCHANGED <<app, apps, rule, seen, tasks, faults, history>>

\* replaceAppVersion has the new version installed, but the old row is not
\* removed, or is, outside of the transaction, and the commit of the new row
\* fails.
ReplaceNotCommitted ==
  /\ task.pc = "deploy" /\ task.op = "replace"
  /\ task.tag \notin release /\ Fault
  /\ release' = release \cup {task.tag}
  /\ \/ UNCHANGED <<rows, history>>
     \/ rows' = Without(rows, task.old) /\ skewed' = TRUE /\ torn' = TRUE
  /\ Goto("undo")
  /\ UNCHANGED <<app, apps, routed, rule, seen, tasks>>

\* Mutant of TakeBackRows: the row of the version that failed stays.
TakeBackRowsNot ==
  /\ IF task.op = "create" THEN RemoveApp ELSE UNCHANGED db
  /\ skewed' = (skewed \/ task.op = "add")

\* What the handlers' catch blocks do to the database.  The weights of the
\* other versions, committed before, stay as they are.
TakeBackRows ==
  /\ CASE task.op = "create" -> RemoveApp
       [] task.op = "add" -> rows' = Without(rows, task.tag) /\ UNCHANGED <<app, apps, routed>>
       [] OTHER -> UNCHANGED db
  /\ skewed' = (skewed \/ task.op = "add")

\* helm does not install a release that exists.
DeployRefused ==
  /\ task.pc = "deploy"
  /\ IF task.tag \in release THEN UNCHANGED faults ELSE Fault
  /\ TakeBackRows
  /\ Finish("ERROR")
  /\ UNCHANGED <<cluster, seen, tasks, torn>>

\* The release is there, the answer is not: nobody uninstalls it.
DeployUnanswered ==
  /\ task.pc = "deploy"
  /\ task.tag \notin release /\ Fault
  /\ release' = release \cup {task.tag}
  /\ torn' = TRUE
  /\ TakeBackRows
  /\ Finish("ERROR")
  /\ UNCHANGED <<rule, seen, tasks>>

Deploy == Deployed \/ ReplaceNotCommitted \/ DeployRefused \/ DeployUnanswered

----------------------------------------------------------------------------
(* update_cluster_ingress and the load balancer.                           *)

\* One version gets all traffic, more of them are split.
RuleOf(r) == IF Cardinality(DOMAIN r) = 1 THEN [t \in DOMAIN r |-> Total] ELSE r

\* The host reads the rows again.  It writes nothing for an application
\* without routes or without versions.
WriteRule ==
  rule' = IF IsCurrent /\ routed /\ Versions # {} THEN RuleOf(rows) ELSE rule

AfterIngress ==
  CASE task.op \in {"add", "canary"} -> "done"
    [] task.op = "replace" -> "uninstall"
    [] OTHER -> "balancer"

IngressUpdated ==
  /\ task.pc = "ingress"
  /\ WriteRule
  /\ IF AfterIngress = "done" THEN Finish("DONE") ELSE Goto(AfterIngress)
  /\ UNCHANGED <<db, release, seen, tasks, faults, history>>

\* The tasks that deployed a version go on to uninstall it; deployNewApp
\* removes the routes before.  A replacement is committed already.
RollBack ==
  /\ IF task.op \in {"create", "add", "replace"} THEN Goto("undo") ELSE Finish("ERROR")
  /\ routed' = (routed /\ task.op # "create")
  /\ torn' = (torn \/ task.op = "replace")
  /\ UNCHANGED <<app, apps, rows, release, seen, tasks, skewed>>

\* A host that fails restores what it changed; an answer may get lost.
IngressFails ==
  /\ task.pc = "ingress" /\ Fault
  /\ RollBack
  /\ UNCHANGED rule

IngressUnanswered ==
  /\ task.pc = "ingress" /\ Fault
  /\ WriteRule
  /\ RollBack

BalancerUpdated ==
  /\ task.pc = "balancer"
  /\ Finish("DONE")
  /\ UNCHANGED <<db, cluster, seen, tasks, faults, history>>

\* Of the tasks that come here only deployNewApp knows how to go back: it
\* has kept the answer of the ingress update (ingressBackups).
BalancerFails ==
  /\ task.pc = "balancer" /\ Fault
  /\ IF task.op = "create"
       THEN task' = [task EXCEPT !.pc = "undo", !.backups = TRUE] /\ UNCHANGED outcome
       ELSE Finish("ERROR")
  /\ routed' = (routed /\ task.op # "create")
  /\ UNCHANGED <<app, apps, rows, cluster, seen, tasks, history>>

Ingress == IngressUpdated \/ IngressFails \/ IngressUnanswered
Balancer == BalancerUpdated \/ BalancerFails

----------------------------------------------------------------------------
(* delete_k8s_application_version: helm uninstall on the cluster.          *)

\* The host reads the rows, transactions of the task controller apart, and
\* removes the VirtualServer with the last version.
Uninstall(t) ==
  /\ release' = release \ {t}
  /\ rule' = IF Versions \ {t} = {} /\ routed THEN Empty ELSE rule

\* helm does not uninstall what is not there.
UninstallRefused(t) == IF t \in release THEN Fault ELSE UNCHANGED faults

OldUninstalled ==
  /\ task.pc = "uninstall" /\ task.op = "replace"
  /\ task.old \in release
  /\ Uninstall(task.old)
  /\ Finish("DONE")
  /\ UNCHANGED <<db, seen, tasks, faults, history>>

\* replaceAppVersion's catch block uninstalls the new version, whose row is
\* committed.
OldStays ==
  /\ task.pc = "uninstall" /\ task.op = "replace"
  /\ \/ UninstallRefused(task.old) /\ UNCHANGED cluster
     \/ task.old \in release /\ Fault /\ Uninstall(task.old)
  /\ torn' = TRUE
  /\ Goto("undo")
  /\ UNCHANGED <<db, seen, tasks, skewed>>

\* Equal weights, and what the division leaves to the last one of the list.
EqualShares(S) ==
  LET n == Cardinality(S)
      average == Total \div n
      Share(last) == [t \in S |-> IF t = last THEN Total - average * (n - 1) ELSE average]
  IN IF S = {} THEN {Empty} ELSE {Share(last) : last \in S}

\* Mutant of VersionUninstalled: the versions that remain keep their weights.
VersionUninstalledOnly ==
  /\ task.pc = "uninstall" /\ task.op = "removeVersion"
  /\ task.tag \in release
  /\ Uninstall(task.tag)
  /\ rows' = Without(rows, task.tag)
  /\ skewed' = FALSE
  /\ Goto("ingress")
  /\ UNCHANGED <<app, apps, routed, seen, tasks, faults, torn>>

VersionUninstalled ==
  /\ task.pc = "uninstall" /\ task.op = "removeVersion"
  /\ task.tag \in release
  /\ Uninstall(task.tag)
  /\ rows' \in EqualShares(Versions \ {task.tag})
  /\ skewed' = FALSE
  /\ Goto("ingress")
  /\ UNCHANGED <<app, apps, routed, seen, tasks, faults, torn>>

\* The transaction is rolled back; an uninstallation without an answer is not.
VersionStays ==
  /\ task.pc = "uninstall" /\ task.op = "removeVersion"
  /\ \/ UninstallRefused(task.tag) /\ UNCHANGED <<cluster, torn>>
     \/ task.tag \in release /\ Fault /\ Uninstall(task.tag) /\ torn' = TRUE
  /\ Finish("ERROR")
  /\ UNCHANGED <<db, seen, tasks, skewed>>

\* deprovisionApplication commits after the last version.
AppVersionUninstalled(t) ==
  /\ task.pc = "uninstall" /\ task.op = "removeApp"
  /\ t \in task.todo \cap release
  /\ Uninstall(t)
  /\ IF task.todo = {t}
       THEN RemoveApp /\ task' = [task EXCEPT !.todo = {}, !.pc = "ingress"]
       ELSE UNCHANGED db /\ task' = [task EXCEPT !.todo = @ \ {t}]
  /\ UNCHANGED <<seen, outcome, tasks, faults, history>>

\* The rows come back; the versions uninstalled before do not.
AppVersionStays(t) ==
  /\ task.pc = "uninstall" /\ task.op = "removeApp"
  /\ t \in task.todo
  /\ \/ /\ UninstallRefused(t) /\ UNCHANGED cluster
        /\ torn' = (torn \/ task.todo # Versions)
     \/ t \in release /\ Fault /\ Uninstall(t) /\ torn' = TRUE
  /\ Finish("ERROR")
  /\ UNCHANGED <<db, seen, tasks, skewed>>

\* The catch blocks uninstall the new version, then take back its rows and, in
\* deployNewApp, the ingress resources whose creation was confirmed.
Undone ==
  /\ task.pc = "undo"
  /\ task.tag \in release
  /\ Uninstall(task.tag)
  /\ TakeBackRows
  /\ IF task.backups THEN Goto("restore") ELSE Finish("ERROR")
  /\ UNCHANGED <<seen, tasks, faults, torn>>

\* A failure in the catch block ends it: rows stay, and the transaction of a
\* replacement is never committed.
UndoFails ==
  /\ task.pc = "undo"
  /\ \/ /\ UninstallRefused(task.tag) /\ UNCHANGED cluster
        /\ torn' = (torn \/ task.op = "replace")
     \/ task.tag \in release /\ Fault /\ Uninstall(task.tag) /\ torn' = TRUE
  /\ Finish("ERROR")
  /\ UNCHANGED <<db, seen, tasks, skewed>>

\* rollback_k8s_resources.
Restore ==
  /\ task.pc = "restore"
  /\ \/ rule' = Empty /\ UNCHANGED faults
     \/ Fault /\ UNCHANGED rule
  /\ Finish("ERROR")
  /\ UNCHANGED <<db, release, seen, tasks, history>>

Remove ==
  \/ OldUninstalled \/ OldStays \/ VersionUninstalled \/ VersionStays
  \/ \E t \in Tags : AppVersionUninstalled(t) \/ AppVersionStays(t)

Next == List \/ Ask \/ Start \/ Deploy \/ Ingress \/ Balancer \/ Remove
        \/ Undone \/ UndoFails \/ Restore

Spec == Init /\ [][Next]_vars

----------------------------------------------------------------------------
(* Properties.                                                             *)

\* The weights of an application add up to 100, whatever versions are added,
\* replaced and removed, except after a version that could not be deployed
\* (its share is lost), a replacement whose commit failed or a split made from
\* an old listing.
WeightsAddUp ==
  Idle /\ Versions # {} /\ ~skewed => SumFunction(rows) = Total

\* After a task that ended DONE the ingress splits the traffic as the rows
\* say: no handler forgets to tell the cluster.
RuleFollowsRows ==
  Idle /\ outcome.op \in Ops \ {"removeApp"} /\ outcome.status = "DONE" /\ Versions # {}
    => (routed => rule = RuleOf(rows))

\* Rows and helm releases name the same versions, after tasks that fail too,
\* unless an answer got lost, a replacement failed in its commit, after it or in
\* its undoing, or the deletion of an application failed half-way.
RowsMatchReleases == Idle /\ ~torn => Versions = release

\* A version that gets traffic is uninstalled only with its application or by
\* the task that names it: a replacement takes over before the old version
\* goes.  (An application keeps its routes unless its deployment could not be
\* rolled back.)
NoOutage ==
  [][\A t \in release \ release' :
       routed /\ t \in DOMAIN rule => t = task.tag \/ task.op = "removeApp"]_vars

=============================================================================
