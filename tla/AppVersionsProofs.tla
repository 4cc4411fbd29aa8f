------------------------- MODULE AppVersionsProofs -------------------------
(***************************************************************************)
(* Proofs about AppVersions, for any tags, weights, tasks and faults.      *)
(*                                                                         *)
(* Rows, releases and VirtualServer are brought apart and together again   *)
(* by every task, step by step: the invariant says how far apart they are  *)
(* at each step of each operation.  The sum of the weights is a fold over  *)
(* the versions: what SumFunction finds is proved by induction over the    *)
(* size of sets, from the least number principle of WFMin.                 *)
(***************************************************************************)
EXTENDS AppVersions, FiniteSetTheorems, WellFoundedInduction, TLAPS

(* The inductive invariant.                                                *)

Phases == {"start", "deploy", "ingress", "balancer", "uninstall", "undo", "restore", "end"}
Shares == UNION {[S -> 0..Total] : S \in SUBSET Tags}
TaskSet == [op : Ops \cup {"none"}, app : 0..MaxApps, tag : Tags \cup {NoTag},
            old : Tags \cup {NoTag}, split : Shares, todo : SUBSET Tags,
            backups : BOOLEAN, pc : Phases]

\* The types.  The division of the traffic needs finitely many versions.
Shape ==
  /\ apps \in 0..MaxApps /\ app \in {0, apps}
  /\ rows \in Shares /\ IsFiniteSet(Versions)
  /\ rule \in Shares
  /\ release \subseteq Tags
  /\ routed \in BOOLEAN
  /\ seen \in [app : 0..apps, tags : SUBSET Tags]
  /\ task \in TaskSet /\ task.app \in 0..apps
  /\ outcome \in [op : Ops \cup {"none"}, status : {"DONE", "ERROR"}]
  /\ tasks \in 0..MaxTasks /\ faults \in 0..MaxFaults
  /\ skewed \in BOOLEAN /\ torn \in BOOLEAN

\* The operations that come to a step.
OpsIn(pc) ==
  CASE pc = "end" -> {"none"}
    [] pc \in {"deploy", "undo"} -> {"create", "add", "replace"}
    [] pc = "balancer" -> {"create", "removeVersion", "removeApp"}
    [] pc = "uninstall" -> {"replace", "removeVersion", "removeApp"}
    [] pc = "restore" -> {"create"}
    [] OTHER -> Ops

\* A task knows its versions, at a step of its operation.
Plan ==
  /\ task.op \in OpsIn(task.pc)
  /\ task.pc = "end" => task = NoTask
  /\ task.op \in {"create", "add", "replace", "removeVersion"} => task.tag \in Tags
  /\ task.op = "replace" => task.old \in Tags /\ task.old # task.tag
  /\ task.op = "add" => task.tag \in DOMAIN task.split
  /\ task.backups => task.op = "create"

Running == task.pc \notin {"start", "restore", "end"}

\* What is in the rows while a task runs: the application is there, a creation
\* has the only version, a replacement exchanges two of them.
AppRows ==
  /\ app = 0 => Versions = {}
  /\ Starts("create") => app = 0 /\ apps < MaxApps
  /\ Starts("add") \/ Starts("replace") => task.tag \notin Versions
  /\ Running /\ task.op \in Ops \ {"removeApp"} => IsCurrent
  /\ Running /\ task.op = "create" => Versions = {task.tag}
  /\ task.op = "replace" /\ task.pc = "deploy"
       => task.old \in Versions /\ task.tag \notin Versions
  /\ task.op = "replace" /\ task.pc \in {"ingress", "uninstall"}
       => task.tag \in Versions /\ task.old \notin Versions

\* The steps that rely on an ingress update made before.
RuleIsCurrent == routed /\ Versions # {} => rule = RuleOf(rows)
Told ==
  /\ task.pc = "balancer" /\ task.op # "removeApp" => RuleIsCurrent
  /\ task.pc = "uninstall" /\ task.op = "replace" => RuleIsCurrent

Installing == task.pc = "deploy" /\ task.op \in {"create", "add"}
Replacing == task.pc \in {"ingress", "uninstall"} /\ task.op = "replace"
Undoing == task.pc = "undo" /\ task.op = "replace"
Emptying == task.pc = "uninstall" /\ task.op = "removeApp"

\* Rows and releases name the same versions but for the one being installed, the
\* one being replaced, the one whose replacement is undone before its commit and
\* those of an application being deleted.
Released ==
  /\ Installing => Versions = release \cup {task.tag} /\ task.tag \notin release
  /\ Replacing => release = Versions \cup {task.old}
  /\ Emptying => release = task.todo /\ task.todo \subseteq Versions
  /\ Undoing => release = Versions \cup {task.tag} /\ task.tag \notin Versions
  /\ ~(Installing \/ Replacing \/ Undoing \/ Emptying) => release = Versions
Matched == ~torn => Released

IInv == Shape /\ Plan /\ AppRows /\ Told /\ RuleFollowsRows /\ Matched

\* What NoOutage says of a step.
Spared == \A t \in release \ release' :
            routed /\ t \in DOMAIN rule => t = task.tag \/ task.op = "removeApp"

----------------------------------------------------------------------------
(* Shares and the steps of a task.                                         *)

\* What the shares of some versions are.
LEMMA SharesDef == \A f : f \in Shares <=> IsShares(f)
BY DEF Shares, IsShares

\* Their versions are tags, their weights at most Total.
LEMMA SharesDomain ==
  ASSUME NEW f \in Shares
  PROVE  DOMAIN f \subseteq Tags /\ \A t \in DOMAIN f : f[t] \in 0..Total
BY SharesDef DEF IsShares

\* No shares.
LEMMA EmptyShares == Empty \in Shares /\ DOMAIN Empty = {} /\ IsFiniteSet(DOMAIN Empty)
<1> USE WeightAssumption, SharesDef DEF IsShares
<1>1. DOMAIN Empty = {}
  BY DEF Empty
<1>2. QED  BY <1>1, FS_EmptySet DEF Empty

\* Goto changes the step of the task and nothing else.
LEMMA GoTask ==
  ASSUME Shape, NEW pc \in Phases, Goto(pc)
  PROVE  /\ task' \in TaskSet /\ task'.pc = pc /\ outcome' = outcome
         /\ task'.op = task.op /\ task'.app = task.app /\ task'.tag = task.tag
         /\ task'.old = task.old /\ task'.split = task.split /\ task'.todo = task.todo
         /\ task'.backups = task.backups
BY DEF Goto, TaskSet, Shape

\* NoTask is a task.
LEMMA NoTaskType == NoTask \in TaskSet
BY EmptyShares, BoundsAssumption DEF NoTask, TaskSet, Phases

\* A request that is accepted starts its task.
LEMMA Asked ==
  ASSUME Shape, NEW op \in Ops, NEW tag \in Tags \cup {NoTag}, NEW old \in Tags \cup {NoTag},
         NEW split \in Shares, Request(op, tag, old, split)
  PROVE  /\ task' \in TaskSet /\ task'.op = op /\ task'.pc = "start" /\ task'.app = seen.app
         /\ task'.tag = tag /\ task'.old = old /\ task'.split = split
         /\ task'.backups = FALSE
         /\ tasks' \in 0..MaxTasks /\ Idle
         /\ UNCHANGED <<db, cluster, seen, outcome, faults, history>>
<1>1. task' = [op |-> op, app |-> seen.app, tag |-> tag, old |-> old, split |-> split,
                todo |-> {}, backups |-> FALSE, pc |-> "start"]
  BY DEF Request, NoTask
<1>2. task' \in TaskSet
  BY <1>1, BoundsAssumption DEF TaskSet, Phases, Shape
<1>3. Idle /\ tasks' \in 0..MaxTasks
        /\ UNCHANGED <<db, cluster, seen, outcome, faults, history>>
  BY BoundsAssumption DEF Request, Shape
<1>4. QED  BY <1>1, <1>2, <1>3

\* The weights after a split are weights of the versions asked for.
LEMMA ReweightedShares ==
  ASSUME rows \in Shares, task.split \in Shares, NEW S,
         S \subseteq Versions \cup DOMAIN task.split
  PROVE  Reweighted(S) \in Shares /\ DOMAIN Reweighted(S) = S
BY SharesDef DEF IsShares, Reweighted, Versions

\* A split a user enters is shares of the versions listed.
LEMMA SplitShares ==
  ASSUME NEW S \in SUBSET Tags, NEW s \in Splits(S)
  PROVE  s \in Shares /\ DOMAIN s = S
BY SharesDef, WeightAssumption DEF Splits, IsShares

\* Finish leaves no task, and its outcome.
LEMMA EndTask ==
  ASSUME Shape, NEW status \in {"DONE", "ERROR"}, Finish(status)
  PROVE  /\ task' \in TaskSet /\ task' = NoTask /\ task'.app = 0
         /\ outcome' = [op |-> task.op, status |-> status]
         /\ outcome' \in [op : Ops \cup {"none"}, status : {"DONE", "ERROR"}]
BY NoTaskType DEF Finish, TaskSet, Shape, NoTask

\* deployNewApp gets the id of its application.
LEMMA CreateTask ==
  ASSUME Shape, StartCreate, apps < MaxApps
  PROVE  /\ task' \in TaskSet /\ task'.app = apps + 1 /\ task'.pc = "deploy"
         /\ task'.op = "create" /\ task'.tag = task.tag /\ task'.old = task.old
         /\ task'.split = task.split /\ task'.backups = task.backups
<1>1. task' = [task EXCEPT !.app = apps + 1, !.pc = "deploy"] /\ task.op = "create"
  BY DEF StartCreate, Starts
<1>2. apps + 1 \in 0..MaxApps
  BY BoundsAssumption DEF Shape
<1>3. QED  BY <1>1, <1>2 DEF TaskSet, Phases, Shape

\* deprovisionApplication goes through the versions there are.
LEMMA RemoveTask ==
  ASSUME Shape, StartRemoveApp
  PROVE  /\ task' \in TaskSet /\ task'.app = task.app /\ outcome' = outcome
         /\ task'.op = "removeApp" /\ task'.backups = task.backups
         /\ \/ IsCurrent /\ Versions # {} /\ task'.pc = "uninstall" /\ task'.todo = Versions
            \/ ~(IsCurrent /\ Versions # {}) /\ task'.pc = "ingress"
<1>1. Versions \subseteq Tags
  BY SharesDomain DEF Shape, Versions
<1>2. task.op = "removeApp" /\ outcome' = outcome
  BY DEF StartRemoveApp, Starts
<1>3. CASE IsCurrent /\ Versions # {}
  <2>1. task' = [task EXCEPT !.pc = "uninstall", !.todo = Versions]
    BY <1>3 DEF StartRemoveApp
  <2>2. QED  BY <1>1, <1>2, <1>3, <2>1 DEF TaskSet, Phases, Shape
<1>4. CASE ~(IsCurrent /\ Versions # {})
  <2>1. Goto("ingress")
    BY <1>4 DEF StartRemoveApp
  <2>2. QED  BY <1>2, <1>4, <2>1, GoTask DEF Phases
<1>5. QED  BY <1>3, <1>4

\* After a version the others are left.
LEMMA LeftTask ==
  ASSUME Shape, NEW t, AppVersionUninstalled(t)
  PROVE  /\ task' \in TaskSet /\ task'.app = task.app
         /\ task'.op = "removeApp" /\ task'.backups = task.backups
         /\ \/ task.todo = {t} /\ task'.pc = "ingress"
            \/ task.todo # {t} /\ task'.pc = "uninstall" /\ task'.todo = task.todo \ {t}
<1>1. task.op = "removeApp" /\ task.pc = "uninstall"
  BY DEF AppVersionUninstalled
<1>2. CASE task.todo = {t}
  <2>1. task' = [task EXCEPT !.todo = {}, !.pc = "ingress"]
    BY <1>2 DEF AppVersionUninstalled
  <2>2. QED  BY <1>1, <1>2, <2>1 DEF TaskSet, Phases, Shape
<1>3. CASE task.todo # {t}
  <2>1. task' = [task EXCEPT !.todo = @ \ {t}]
    BY <1>3 DEF AppVersionUninstalled
  <2>2. QED  BY <1>1, <1>3, <2>1 DEF TaskSet, Shape
<1>4. QED  BY <1>2, <1>3

\* deployNewApp goes back with the answer of the ingress update, the others end.
LEMMA BalancerTask ==
  ASSUME Shape, BalancerFails
  PROVE  \/ /\ task' \in TaskSet /\ task'.app = task.app /\ outcome' = outcome
            /\ task.op = "create" /\ task'.op = "create" /\ task'.pc = "undo"
            /\ task'.tag = task.tag /\ task'.old = task.old /\ task'.split = task.split
         \/ task.op # "create" /\ Finish("ERROR")
<1>1. CASE task.op = "create"
  <2>1. task' = [task EXCEPT !.pc = "undo", !.backups = TRUE] /\ outcome' = outcome
    BY <1>1 DEF BalancerFails
  <2>2. QED  BY <1>1, <2>1 DEF TaskSet, Phases, Shape
<1>2. CASE task.op # "create"
  BY <1>2 DEF BalancerFails
<1>3. QED  BY <1>1, <1>2

\* A row written.
LEMMA WithShares ==
  ASSUME NEW f, f \in Shares, IsFiniteSet(DOMAIN f), NEW t \in Tags, NEW w \in 0..Total
  PROVE  /\ With(f, t, w) \in Shares /\ DOMAIN With(f, t, w) = DOMAIN f \cup {t}
         /\ IsFiniteSet(DOMAIN With(f, t, w))
<1>1. DOMAIN With(f, t, w) = DOMAIN f \cup {t}
  BY DEF With
<1>2. QED  BY <1>1, FS_AddElement, SharesDef DEF With, IsShares

\* A row deleted.
LEMMA WithoutShares ==
  ASSUME NEW f, f \in Shares, IsFiniteSet(DOMAIN f), NEW t
  PROVE  /\ Without(f, t) \in Shares /\ DOMAIN Without(f, t) = DOMAIN f \ {t}
         /\ IsFiniteSet(DOMAIN Without(f, t))
<1>1. DOMAIN Without(f, t) = DOMAIN f \ {t}
  BY DEF Without
<1>2. QED  BY <1>1, FS_RemoveElement, SharesDef DEF Without, IsShares

\* The VirtualServer has the versions of the rows.
LEMMA RuleShares ==
  ASSUME NEW r, r \in Shares
  PROVE  RuleOf(r) \in Shares /\ DOMAIN RuleOf(r) = DOMAIN r
<1> USE WeightAssumption, SharesDef DEF IsShares
<1>1. DOMAIN RuleOf(r) = DOMAIN r
  BY DEF RuleOf
<1>2. QED  BY <1>1 DEF RuleOf

\* n - 1 equal parts of T leave a part between 0 and T to the last.
LEMMA Average ==
  ASSUME NEW T \in Nat, NEW n \in Nat \ {0}
  PROVE  T \div n \in 0..T /\ T - (T \div n) * (n - 1) \in 0..T
<1> DEFINE a == T \div n
<1>1. a \in Nat /\ a * n <= T
  OBVIOUS
<1>2. a * (n - 1) = a * n - a
  BY <1>1
<1>3. a <= a * n
  BY <1>1
<1>4. a * (n - 1) \in Nat
  BY <1>1
<1>5. QED  BY <1>1, <1>2, <1>3, <1>4

\* The weights written when a version is removed are those of the rest.
LEMMA EqualShare ==
  ASSUME NEW S, S \subseteq Tags, IsFiniteSet(S), NEW f \in EqualShares(S)
  PROVE  f \in Shares /\ DOMAIN f = S
<1>1. CASE S = {}
  BY <1>1, EmptyShares DEF EqualShares
<1>2. CASE S # {}
  <2> DEFINE n == Cardinality(S)
             a == Total \div n
             Share(last) == [t \in S |-> IF t = last THEN Total - a * (n - 1) ELSE a]
  <2>1. PICK last \in S : f = Share(last)
    BY <1>2 DEF EqualShares
  <2>2. n \in Nat \ {0}
    BY <1>2, FS_EmptySet, FS_CardinalityType
  <2>3. a \in 0..Total /\ Total - a * (n - 1) \in 0..Total
    BY <2>2, Average, WeightAssumption
  <2> HIDE DEF a, n
  <2>4. QED  BY <2>1, <2>3, SharesDef DEF IsShares
<1>3. QED  BY <1>1, <1>2

----------------------------------------------------------------------------
(* Types.                                                                  *)

\* The ingress update writes shares.
LEMMA RuleWritten ==
  ASSUME rows \in Shares, rule \in Shares, WriteRule
  PROVE  rule' \in Shares
BY RuleShares DEF WriteRule

\* So does an uninstallation.
LEMMA Uninstalled ==
  ASSUME rule \in Shares, release \subseteq Tags, NEW t, Uninstall(t)
  PROVE  rule' \in Shares /\ release' \subseteq Tags
BY EmptyShares DEF Uninstall

\* What the catch blocks leave of the rows: nothing of a creation, all but the new
\* version of an addition, all of a replacement.
LEMMA TakenBack ==
  ASSUME Shape, TakeBackRows
  PROVE  /\ rows' \in Shares /\ IsFiniteSet(DOMAIN rows')
         /\ apps' = apps /\ app' \in {0, apps} /\ routed' \in BOOLEAN /\ skewed' \in BOOLEAN
         /\ task.op = "create" => app' = 0 /\ DOMAIN rows' = {}
         /\ task.op = "add" => DOMAIN rows' = Versions \ {task.tag}
         /\ task.op = "add" => app' = app /\ routed' = routed
         /\ task.op \notin {"create", "add"} => UNCHANGED db
<1>1. CASE task.op = "create"
  BY <1>1, EmptyShares DEF TakeBackRows, RemoveApp, Shape
<1>2. CASE task.op = "add"
  BY <1>2, WithoutShares DEF TakeBackRows, Shape, Versions
<1>3. CASE task.op \notin {"create", "add"}
  BY <1>3 DEF TakeBackRows, Shape, Versions, db
<1>4. QED  BY <1>1, <1>2, <1>3

\* Every step keeps the types.
LEMMA ShapeStep == IInv /\ [Next]_vars => Shape'
<1> SUFFICES ASSUME IInv, [Next]_vars  PROVE Shape'
  OBVIOUS
<1> USE BoundsAssumption
        DEF IInv, Shape, Phases, db, cluster, history, Idle, Starts, Fault, Versions, IsCurrent, Ops
<1>1. CASE List
  BY <1>1, SharesDomain DEF List
<1>2. ASSUME NEW t \in Tags, AskCreate(t)
      PROVE  Shape'
  BY <1>2, EmptyShares, Asked DEF AskCreate
<1>3. ASSUME NEW t \in Tags, AskAdd(t)
      PROVE  Shape'
  <2>1. PICK s \in Splits(seen.tags \cup {t}) : Request("add", t, NoTag, s)
    BY <1>3 DEF AskAdd
  <2>2. s \in Shares
    BY SplitShares
  <2>3. QED  BY <2>1, <2>2, Asked
<1>4. CASE AskCanary
  BY <1>4, SplitShares, Asked DEF AskCanary
<1>5. ASSUME NEW t \in Tags, NEW u \in Tags, AskReplace(t, u)
      PROVE  Shape'
  <2>1. Request("replace", u, t, Empty)
    BY <1>5 DEF AskReplace
  <2>2. QED  BY <2>1, EmptyShares, Asked
<1>6. ASSUME NEW t \in Tags, AskRemoveVersion(t)
      PROVE  Shape'
  BY <1>6, EmptyShares, Asked DEF AskRemoveVersion
<1>7. CASE AskRemoveApp
  BY <1>7, EmptyShares, Asked DEF AskRemoveApp
<1>8. CASE StartFails
  BY <1>8, EndTask DEF StartFails
<1>9. CASE StartCreate
  <2>1. task.op = "create" /\ task.tag \in Tags /\ apps < MaxApps
    BY <1>9 DEF StartCreate, Plan, AppRows
  <2>2. rows' \in Shares /\ IsFiniteSet(DOMAIN rows')
    <3>1. Total \in 0..Total
      BY WeightAssumption
    <3>2. With(Empty, task.tag, Total) \in Shares
          /\ IsFiniteSet(DOMAIN With(Empty, task.tag, Total))
      BY <2>1, <3>1, EmptyShares, WithShares
    <3>3. QED  BY <1>9, <3>2 DEF StartCreate
  <2>3. apps' = apps + 1 /\ app' = apps + 1 /\ rule' = Empty /\ skewed' = FALSE
        /\ UNCHANGED <<routed, release, seen, outcome, tasks, faults, torn>>
    BY <1>9 DEF StartCreate
  <2>4. task' \in TaskSet /\ task'.app = apps + 1
    BY <1>9, <2>1, CreateTask
  <2>5. rule' \in Shares
    BY <2>3, EmptyShares
  <2>6. app' \in {0, apps'} /\ apps' \in 0..MaxApps /\ task'.app \in 0..apps'
        /\ seen' \in [app : 0..apps', tags : SUBSET Tags]
    BY <2>1, <2>3, <2>4
  <2>7. QED  BY <2>2, <2>3, <2>4, <2>5, <2>6
<1>10. CASE StartAdd
  <2>1. task.op = "add" /\ task.tag \in DOMAIN task.split /\ task.split \in Shares
    BY <1>10 DEF StartAdd, Plan, TaskSet
  <2>2. Reweighted(Versions \cup {task.tag}) \in Shares
        /\ DOMAIN Reweighted(Versions \cup {task.tag}) = Versions \cup {task.tag}
    BY <2>1, ReweightedShares
  <2>3. IsFiniteSet(Versions \cup {task.tag})
    BY FS_AddElement
  <2>4. rows' \in Shares /\ IsFiniteSet(DOMAIN rows')
    BY <1>10, <2>2, <2>3 DEF StartAdd
  <2>5. skewed' \in BOOLEAN
    BY <1>10 DEF StartAdd
  <2>6. QED  BY <1>10, <2>4, <2>5, GoTask DEF StartAdd
<1>11. CASE StartCanary
  <2>1. rows' \in Shares /\ IsFiniteSet(DOMAIN rows')
    BY <1>11, ReweightedShares DEF StartCanary, TaskSet
  <2>2. skewed' \in BOOLEAN
    BY <1>11 DEF StartCanary
  <2>3. QED  BY <1>11, <2>1, <2>2, GoTask DEF StartCanary
<1>12. CASE StartReplace
  BY <1>12, GoTask DEF StartReplace
<1>13. CASE StartRemoveVersion
  BY <1>13, GoTask DEF StartRemoveVersion
<1>14. CASE StartRemoveApp
  <2>1. task' \in TaskSet /\ task'.app = task.app
    BY <1>14, RemoveTask
  <2>2. RemoveApp \/ UNCHANGED db
    BY <1>14 DEF StartRemoveApp
  <2>3. QED  BY <1>14, <2>1, <2>2, EmptyShares DEF StartRemoveApp, RemoveApp
<1>15. CASE Deployed
  <2>1. task' \in TaskSet /\ task'.app = task.app /\ outcome' = outcome
    BY <1>15, GoTask DEF Deployed
  <2>2. task.tag \in Tags
    BY <1>15 DEF Deployed, Plan, OpsIn
  <2>3. rows' \in Shares /\ IsFiniteSet(DOMAIN rows')
    <3>1. CASE task.op = "replace"
      <4> DEFINE others == Without(rows, task.old)
      <4>1. task.old \in Versions
        BY <1>15, <3>1 DEF Deployed, AppRows
      <4>2. rows[task.old] \in 0..Total
        BY <4>1, SharesDomain
      <4>3. others \in Shares /\ IsFiniteSet(DOMAIN others)
        BY WithoutShares
      <4> HIDE DEF others
      <4>4. With(others, task.tag, rows[task.old]) \in Shares
            /\ IsFiniteSet(DOMAIN With(others, task.tag, rows[task.old]))
        BY <2>2, <4>2, <4>3, WithShares
      <4>5. QED  BY <1>15, <3>1, <4>4 DEF Deployed, others
    <3>2. CASE task.op # "replace"
      BY <1>15, <3>2 DEF Deployed
    <3>3. QED  BY <3>1, <3>2
  <2>4. routed' \in BOOLEAN
    BY <1>15 DEF Deployed
  <2>5. QED  BY <1>15, <2>1, <2>2, <2>3, <2>4 DEF Deployed
<1>16. CASE DeployRefused
  BY <1>16, TakenBack, EndTask DEF DeployRefused
<1>17. CASE DeployUnanswered
  <2>1. task.tag \in Tags
    BY <1>17 DEF DeployUnanswered, Plan, OpsIn
  <2>2. QED  BY <1>17, <2>1, TakenBack, EndTask DEF DeployUnanswered
<1>18. CASE IngressUpdated
  BY <1>18, RuleWritten, GoTask, EndTask DEF IngressUpdated, AfterIngress
<1>19. CASE IngressFails
  BY <1>19, GoTask, EndTask DEF IngressFails, RollBack
<1>20. CASE IngressUnanswered
  BY <1>20, RuleWritten, GoTask, EndTask DEF IngressUnanswered, RollBack
<1>21. CASE BalancerUpdated
  BY <1>21, EndTask DEF BalancerUpdated
<1>22. CASE BalancerFails
  <2>1. task' \in TaskSet /\ task'.app \in 0..apps
        /\ outcome' \in [op : Ops \cup {"none"}, status : {"DONE", "ERROR"}]
    BY <1>22, BalancerTask, EndTask
  <2>2. routed' \in BOOLEAN
    BY <1>22 DEF BalancerFails
  <2>3. QED  BY <1>22, <2>1, <2>2 DEF BalancerFails
<1>23. CASE OldUninstalled
  BY <1>23, Uninstalled, EndTask DEF OldUninstalled
<1>24. CASE OldStays
  BY <1>24, Uninstalled, GoTask DEF OldStays, UninstallRefused
<1>25. CASE VersionUninstalled
  <2>1. Versions \ {task.tag} \subseteq Tags /\ IsFiniteSet(Versions \ {task.tag})
    BY SharesDomain, FS_RemoveElement
  <2>2. rows' \in EqualShares(Versions \ {task.tag})
    BY <1>25 DEF VersionUninstalled
  <2>3. rows' \in Shares /\ IsFiniteSet(DOMAIN rows')
    BY <2>1, <2>2, EqualShare
  <2>4. rule' \in Shares /\ release' \subseteq Tags
    BY <1>25, Uninstalled DEF VersionUninstalled
  <2>5. QED  BY <1>25, <2>3, <2>4, GoTask DEF VersionUninstalled
<1>26. CASE VersionStays
  <2>1. rule' \in Shares /\ release' \subseteq Tags
    BY <1>26, Uninstalled DEF VersionStays
  <2>2. faults' \in 0..MaxFaults
    BY <1>26 DEF VersionStays, UninstallRefused
  <2>3. torn' \in BOOLEAN
    <3> HIDE DEF Versions
    <3>1. QED  BY <1>26 DEF VersionStays
  <2>4. QED  BY <1>26, <2>1, <2>2, <2>3, EndTask DEF VersionStays
<1>27. ASSUME NEW t \in Tags, AppVersionUninstalled(t)
       PROVE  Shape'
  <2>1. rule' \in Shares /\ release' \subseteq Tags
    BY <1>27, Uninstalled DEF AppVersionUninstalled
  <2>2. task' \in TaskSet /\ task'.app = task.app
    BY <1>27, LeftTask
  <2>3. RemoveApp \/ UNCHANGED db
    BY <1>27 DEF AppVersionUninstalled
  <2>4. apps' = apps /\ app' \in {0, apps} /\ routed' \in BOOLEAN
        /\ rows' \in Shares /\ IsFiniteSet(DOMAIN rows')
    BY <2>3, EmptyShares DEF RemoveApp
  <2>5. QED  BY <1>27, <2>1, <2>2, <2>4 DEF AppVersionUninstalled
<1>28. ASSUME NEW t \in Tags, AppVersionStays(t)
       PROVE  Shape'
  <2>1. rule' \in Shares /\ release' \subseteq Tags
    BY <1>28, Uninstalled DEF AppVersionStays
  <2>2. faults' \in 0..MaxFaults
    BY <1>28 DEF AppVersionStays, UninstallRefused
  <2>3. torn' \in BOOLEAN
    <3> HIDE DEF Versions
    <3>1. QED  BY <1>28 DEF AppVersionStays
  <2>4. QED  BY <1>28, <2>1, <2>2, <2>3, EndTask DEF AppVersionStays
<1>29. CASE Undone
  BY <1>29, Uninstalled, TakenBack, GoTask, EndTask DEF Undone
<1>30. CASE UndoFails
  <2>1. rule' \in Shares /\ release' \subseteq Tags
    BY <1>30, Uninstalled DEF UndoFails
  <2>2. faults' \in 0..MaxFaults
    BY <1>30 DEF UndoFails, UninstallRefused
  <2>3. torn' \in BOOLEAN
    <3> HIDE DEF Versions
    <3>1. QED  BY <1>30 DEF UndoFails
  <2>4. QED  BY <1>30, <2>1, <2>2, <2>3, EndTask DEF UndoFails
<1>31. CASE Restore
  BY <1>31, EmptyShares, EndTask DEF Restore
<1>32. CASE UNCHANGED vars
  BY <1>32 DEF vars
<1>33. CASE ReplaceNotCommitted
  <2>1. task.tag \in Tags
    BY <1>33 DEF ReplaceNotCommitted, Plan
  <2>2. rows' \in Shares /\ IsFiniteSet(DOMAIN rows')
    <3> DEFINE others == Without(rows, task.old)
    <3>1. rows' = rows \/ rows' = others
      BY <1>33 DEF ReplaceNotCommitted
    <3>2. others \in Shares /\ IsFiniteSet(DOMAIN others)
      BY WithoutShares
    <3> HIDE DEF others
    <3>3. QED  BY <3>1, <3>2
  <2>3. task' \in TaskSet /\ task'.app = task.app /\ outcome' = outcome
    BY <1>33, GoTask DEF ReplaceNotCommitted
  <2>4. release' \subseteq Tags /\ faults' \in 0..MaxFaults
    BY <1>33, <2>1 DEF ReplaceNotCommitted
  <2>5. skewed' \in BOOLEAN /\ torn' \in BOOLEAN
    BY <1>33 DEF ReplaceNotCommitted
  <2>6. UNCHANGED <<app, apps, routed, rule, seen, tasks>>
    BY <1>33 DEF ReplaceNotCommitted
  <2>7. QED  BY <2>2, <2>3, <2>4, <2>5, <2>6
<1>34. QED
  BY <1>1, <1>2, <1>3, <1>4, <1>5, <1>6, <1>7, <1>8, <1>9, <1>10, <1>11, <1>12, <1>13,
     <1>14, <1>15, <1>16, <1>17, <1>18, <1>19, <1>20, <1>21, <1>22, <1>23, <1>24,
     <1>25, <1>26, <1>27, <1>28, <1>29, <1>30, <1>31, <1>32, <1>33
     DEF Next, Ask, Start, Deploy, Ingress, Balancer, Remove

----------------------------------------------------------------------------
(* The steps of each operation.                                            *)

\* No task is a plan.
LEMMA EndPlan ==
  ASSUME task' = NoTask
  PROVE  Plan'
BY DEF Plan, OpsIn, NoTask

\* A request names tags, a replacement two different ones.
LEMMA AskPlan ==
  ASSUME Shape, NEW op \in Ops, NEW tag \in Tags \cup {NoTag}, NEW old \in Tags \cup {NoTag},
         NEW split \in Shares, Request(op, tag, old, split),
         op \in {"create", "add", "replace", "removeVersion"} => tag \in Tags,
         op = "replace" => old \in Tags /\ old # tag,
         op = "add" => tag \in DOMAIN split
  PROVE  Plan'
<1>1. /\ task'.op = op /\ task'.pc = "start" /\ task'.tag = tag /\ task'.old = old
      /\ task'.split = split /\ task'.backups = FALSE
  BY Asked
<1>2. QED  BY <1>1 DEF Plan, OpsIn, Ops

\* Every step keeps to the steps of its operation.
LEMMA PlanStep == IInv /\ [Next]_vars => Plan'
<1> SUFFICES ASSUME IInv, [Next]_vars  PROVE Plan'
  OBVIOUS
<1> USE DEF IInv, Shape, Plan, OpsIn, Ops, Starts, Phases
<1>1. CASE List
  BY <1>1 DEF List
<1>2. ASSUME NEW t \in Tags, AskCreate(t)
      PROVE  Plan'
  BY <1>2, EmptyShares, AskPlan DEF AskCreate
<1>3. ASSUME NEW t \in Tags, AskAdd(t)
      PROVE  Plan'
  <2>1. PICK s \in Splits(seen.tags \cup {t}) : Request("add", t, NoTag, s)
    BY <1>3 DEF AskAdd
  <2>2. s \in Shares /\ t \in DOMAIN s
    BY SplitShares
  <2>3. QED  BY <2>1, <2>2, AskPlan
<1>4. CASE AskCanary
  BY <1>4, SplitShares, AskPlan DEF AskCanary
<1>5. ASSUME NEW t \in Tags, NEW u \in Tags, AskReplace(t, u)
      PROVE  Plan'
  BY <1>5, EmptyShares, AskPlan DEF AskReplace, IsNew
<1>6. ASSUME NEW t \in Tags, AskRemoveVersion(t)
      PROVE  Plan'
  BY <1>6, EmptyShares, AskPlan DEF AskRemoveVersion
<1>7. CASE AskRemoveApp
  BY <1>7, EmptyShares, AskPlan DEF AskRemoveApp
<1>8. CASE StartFails
  BY <1>8, EndTask, EndPlan DEF StartFails
<1>9. CASE StartCreate
  <2>1. apps < MaxApps /\ task.op = "create"
    BY <1>9 DEF StartCreate, Starts, AppRows
  <2>2. QED  BY <1>9, <2>1, CreateTask
<1>10. CASE StartAdd
  BY <1>10, GoTask DEF StartAdd
<1>11. CASE StartCanary
  BY <1>11, GoTask DEF StartCanary
<1>12. CASE StartReplace
  BY <1>12, GoTask DEF StartReplace
<1>13. CASE StartRemoveVersion
  BY <1>13, GoTask DEF StartRemoveVersion
<1>14. CASE StartRemoveApp
  <2>1. ~task.backups
    BY <1>14 DEF StartRemoveApp, Starts
  <2>2. QED  BY <1>14, <2>1, RemoveTask
<1>15. CASE Deployed
  BY <1>15, GoTask DEF Deployed
<1>16. CASE DeployRefused
  BY <1>16, EndTask, EndPlan DEF DeployRefused
<1>17. CASE DeployUnanswered
  BY <1>17, EndTask, EndPlan DEF DeployUnanswered
<1>18. CASE IngressUpdated
  BY <1>18, GoTask, EndTask, EndPlan DEF IngressUpdated, AfterIngress
<1>19. CASE IngressFails
  BY <1>19, GoTask, EndTask, EndPlan DEF IngressFails, RollBack
<1>20. CASE IngressUnanswered
  BY <1>20, GoTask, EndTask, EndPlan DEF IngressUnanswered, RollBack
<1>21. CASE BalancerUpdated
  BY <1>21, EndTask, EndPlan DEF BalancerUpdated
<1>22. CASE BalancerFails
  BY <1>22, BalancerTask, EndTask, EndPlan
<1>23. CASE OldUninstalled
  BY <1>23, EndTask, EndPlan DEF OldUninstalled
<1>24. CASE OldStays
  BY <1>24, GoTask DEF OldStays
<1>25. CASE VersionUninstalled
  BY <1>25, GoTask DEF VersionUninstalled
<1>26. CASE VersionStays
  BY <1>26, EndTask, EndPlan DEF VersionStays
<1>27. ASSUME NEW t \in Tags, AppVersionUninstalled(t)
       PROVE  Plan'
  <2>1. task.op = "removeApp" /\ ~task.backups
    BY <1>27 DEF AppVersionUninstalled
  <2>2. QED  BY <1>27, <2>1, LeftTask
<1>28. ASSUME NEW t \in Tags, AppVersionStays(t)
      PROVE  Plan'
  BY <1>28, EndTask, EndPlan DEF AppVersionStays
<1>29. CASE Undone
  BY <1>29, GoTask, EndTask, EndPlan DEF Undone
<1>30. CASE UndoFails
  BY <1>30, EndTask, EndPlan DEF UndoFails
<1>31. CASE Restore
  BY <1>31, EndTask, EndPlan DEF Restore
<1>32. CASE UNCHANGED vars
  BY <1>32 DEF vars
<1>33. CASE ReplaceNotCommitted
  BY <1>33, GoTask DEF ReplaceNotCommitted
<1>34. QED
  BY <1>1, <1>2, <1>3, <1>4, <1>5, <1>6, <1>7, <1>8, <1>9, <1>10, <1>11, <1>12, <1>13,
     <1>14, <1>15, <1>16, <1>17, <1>18, <1>19, <1>20, <1>21, <1>22, <1>23, <1>24,
     <1>25, <1>26, <1>27, <1>28, <1>29, <1>30, <1>31, <1>32, <1>33
     DEF Next, Ask, Start, Deploy, Ingress, Balancer, Remove

----------------------------------------------------------------------------
(* The rows.                                                               *)

\* A task that ends leaves no rows without an application.
LEMMA EndRows ==
  ASSUME task' = NoTask, app' = 0 => DOMAIN rows' = {}
  PROVE  AppRows'
BY DEF AppRows, NoTask, Starts, Running, Versions, Ops

\* A step of a running task that leaves the versions alone.
LEMMA KeptRows ==
  ASSUME IInv, Running, app' = app, DOMAIN rows' = DOMAIN rows,
         task'.op = task.op, task'.app = task.app, task'.tag = task.tag, task'.old = task.old,
         task'.pc \notin {"start", "deploy", "end"},
         task.op = "replace" => task.pc \in {"ingress", "uninstall"}
  PROVE  AppRows'
BY DEF IInv, AppRows, Starts, Running, Versions, IsCurrent, Ops

\* The first step of a task on the current application.
LEMMA BegunRows ==
  ASSUME IInv, task.pc = "start", app' # 0,
         task'.op = task.op, task'.app = app', task'.tag = task.tag, task'.old = task.old,
         task'.pc \notin {"start", "end"},
         task.op = "create" => DOMAIN rows' = {task.tag},
         task.op = "replace" => task'.pc = "deploy" /\ DOMAIN rows' = Versions
                                /\ task.old \in Versions
  PROVE  AppRows'
BY DEF IInv, AppRows, Starts, Running, Versions, IsCurrent, Ops

\* A request: the image is new, an application is created when there is none.
LEMMA AskRows ==
  ASSUME IInv, NEW op \in Ops, NEW tag \in Tags \cup {NoTag}, NEW old \in Tags \cup {NoTag},
         NEW split \in Shares, Request(op, tag, old, split),
         op = "create" => app = 0 /\ apps < MaxApps,
         op \in {"add", "replace"} => tag \notin Versions
  PROVE  AppRows'
<1>1. /\ task'.op = op /\ task'.pc = "start" /\ task'.tag = tag
      /\ UNCHANGED db
  BY Asked DEF IInv
<1>2. app' = app /\ apps' = apps /\ DOMAIN rows' = DOMAIN rows
  BY <1>1 DEF db
<1>3. QED  BY <1>1, <1>2 DEF IInv, AppRows, Starts, Running, Versions

\* Every step keeps the rows where the task expects them.
LEMMA RowsStep == IInv /\ [Next]_vars => AppRows'
<1> SUFFICES ASSUME IInv, [Next]_vars  PROVE AppRows'
  OBVIOUS
<1> USE DEF IInv, Shape, Plan, OpsIn, AppRows, Ops, Starts, Running, Versions, IsCurrent, db, Phases
<1>1. CASE List
  BY <1>1 DEF List
<1>2. ASSUME NEW t \in Tags, AskCreate(t)
      PROVE  AppRows'
  BY <1>2, EmptyShares, AskRows DEF AskCreate
<1>3. ASSUME NEW t \in Tags, AskAdd(t)
      PROVE  AppRows'
  <2>1. PICK s \in Splits(seen.tags \cup {t}) : Request("add", t, NoTag, s)
    BY <1>3 DEF AskAdd
  <2>2. s \in Shares /\ t \notin Versions
    BY <1>3, SplitShares DEF AskAdd, IsNew
  <2>3. QED  BY <2>1, <2>2, AskRows
<1>4. CASE AskCanary
  BY <1>4, SplitShares, AskRows DEF AskCanary
<1>5. ASSUME NEW t \in Tags, NEW u \in Tags, AskReplace(t, u)
      PROVE  AppRows'
  <2>1. Request("replace", u, t, Empty) /\ u \notin Versions
    BY <1>5 DEF AskReplace, IsNew
  <2>2. QED  BY <2>1, EmptyShares, AskRows
<1>6. ASSUME NEW t \in Tags, AskRemoveVersion(t)
      PROVE  AppRows'
  BY <1>6, EmptyShares, AskRows DEF AskRemoveVersion
<1>7. CASE AskRemoveApp
  BY <1>7, EmptyShares, AskRows DEF AskRemoveApp
<1>8. CASE StartFails
  BY <1>8, EndTask, EndRows DEF StartFails
<1>9. CASE StartCreate
  <2>1. /\ task'.app = apps + 1 /\ task'.pc = "deploy" /\ task'.op = "create"
        /\ task'.tag = task.tag /\ task'.old = task.old
    BY <1>9, CreateTask DEF StartCreate
  <2>2. rows' = With(Empty, task.tag, Total) /\ app' = apps + 1 /\ app' # 0
    BY <1>9 DEF StartCreate
  <2>3. DOMAIN rows' = {task.tag}
    BY <2>2, EmptyShares DEF With
  <2>4. task.op = "create"
    BY <1>9 DEF StartCreate
  <2>5. QED  BY <1>9, <2>1, <2>2, <2>3, <2>4, BegunRows DEF StartCreate
<1>10. CASE StartAdd
  <2>1. app' = app /\ app # 0 /\ task.op = "add" /\ task.app = app
    BY <1>10 DEF StartAdd
  <2>2. rows' = Reweighted(Versions \cup {task.tag})
    BY <1>10 DEF StartAdd
  <2>3. QED  BY <1>10, <2>1, <2>2, GoTask, BegunRows DEF StartAdd
<1>11. CASE StartCanary
  <2>1. app' = app /\ app # 0 /\ task.op = "canary" /\ task.app = app
    BY <1>11 DEF StartCanary
  <2>2. QED  BY <1>11, <2>1, GoTask, BegunRows DEF StartCanary
<1>12. CASE StartReplace
  <2>1. app' = app /\ app # 0 /\ task.op = "replace" /\ task.app = app /\ rows' = rows
    BY <1>12 DEF StartReplace
  <2>2. task.old \in Versions
    BY <1>12 DEF StartReplace
  <2>3. QED  BY <1>12, <2>1, <2>2, GoTask, BegunRows DEF StartReplace
<1>13. CASE StartRemoveVersion
  <2>1. app' = app /\ app # 0 /\ task.op = "removeVersion" /\ task.app = app /\ rows' = rows
    BY <1>13 DEF StartRemoveVersion
  <2>2. QED  BY <1>13, <2>1, GoTask, BegunRows DEF StartRemoveVersion
<1>14. CASE StartRemoveApp
  <2>1. /\ task.op = "removeApp" /\ task'.op = "removeApp"
        /\ task'.pc \in {"uninstall", "ingress"}
    BY <1>14, RemoveTask DEF StartRemoveApp
  <2>2. app' = 0 => DOMAIN rows' = {}
    BY <1>14, EmptyShares DEF StartRemoveApp, RemoveApp
  <2>3. QED  BY <2>1, <2>2
<1>15. CASE Deployed
  <2>1. /\ task.pc = "deploy" /\ task'.pc = "ingress" /\ app' = app /\ apps' = apps
        /\ task'.op = task.op /\ task'.app = task.app /\ task'.tag = task.tag
        /\ task'.old = task.old
    BY <1>15, GoTask DEF Deployed
  <2>2. CASE task.op = "replace"
    <3>1. DOMAIN rows' = (Versions \ {task.old}) \cup {task.tag}
      BY <1>15, <2>2 DEF Deployed, With, Without
    <3>2. QED  BY <2>1, <2>2, <3>1
  <2>3. CASE task.op # "replace"
    <3>1. rows' = rows
      BY <1>15, <2>3 DEF Deployed
    <3>2. QED  BY <2>1, <2>3, <3>1
  <2>4. QED  BY <2>2, <2>3
<1>16. CASE DeployRefused
  BY <1>16, TakenBack, EndTask, EndRows DEF DeployRefused
<1>17. CASE DeployUnanswered
  BY <1>17, TakenBack, EndTask, EndRows DEF DeployUnanswered
<1>18. CASE IngressUpdated
  BY <1>18, GoTask, EndTask, EndRows, KeptRows DEF IngressUpdated, AfterIngress
<1>19. CASE IngressFails
  BY <1>19, GoTask, EndTask, EndRows, KeptRows DEF IngressFails, RollBack
<1>20. CASE IngressUnanswered
  BY <1>20, GoTask, EndTask, EndRows, KeptRows DEF IngressUnanswered, RollBack
<1>21. CASE BalancerUpdated
  BY <1>21, EndTask, EndRows DEF BalancerUpdated
<1>22. CASE BalancerFails
  <2>1. CASE task.op = "create"
    BY <1>22, <2>1, BalancerTask, KeptRows DEF BalancerFails
  <2>2. CASE task.op # "create"
    BY <1>22, <2>2, BalancerTask, EndTask, EndRows DEF BalancerFails
  <2>3. QED  BY <2>1, <2>2
<1>23. CASE OldUninstalled
  BY <1>23, EndTask, EndRows DEF OldUninstalled
<1>24. CASE OldStays
  <2>1. task.op = "replace" /\ task.pc = "uninstall" /\ UNCHANGED db /\ Goto("undo")
    BY <1>24 DEF OldStays
  <2>2. QED  BY <2>1, GoTask, KeptRows
<1>25. CASE VersionUninstalled
  <2>1. /\ task.op = "removeVersion" /\ task.pc = "uninstall" /\ Goto("ingress")
        /\ app' = app /\ apps' = apps
    BY <1>25 DEF VersionUninstalled
  <2>2. app # 0
    BY <2>1
  <2>3. QED  BY <2>1, <2>2, GoTask
<1>26. CASE VersionStays
  BY <1>26, EndTask, EndRows DEF VersionStays
<1>27. ASSUME NEW t \in Tags, AppVersionUninstalled(t)
      PROVE  AppRows'
  <2>1. /\ task.op = "removeApp" /\ task'.op = "removeApp"
        /\ task'.pc \in {"uninstall", "ingress"}
    BY <1>27, LeftTask DEF AppVersionUninstalled
  <2>2. app' = 0 => DOMAIN rows' = {}
    BY <1>27, EmptyShares DEF AppVersionUninstalled, RemoveApp
  <2>3. QED  BY <2>1, <2>2
<1>28. ASSUME NEW t \in Tags, AppVersionStays(t)
      PROVE  AppRows'
  BY <1>28, EndTask, EndRows DEF AppVersionStays
<1>29. CASE Undone
  <2>1. app' = 0 => DOMAIN rows' = {}
    BY <1>29, TakenBack DEF Undone
  <2>2. CASE task.backups
    <3>1. /\ task'.pc = "restore" /\ task'.op = "create"
      BY <1>29, <2>2, GoTask DEF Undone
    <3>2. QED  BY <2>1, <3>1
  <2>3. CASE ~task.backups
    BY <1>29, <2>1, <2>3, EndTask, EndRows DEF Undone
  <2>4. QED  BY <2>2, <2>3
<1>30. CASE UndoFails
  BY <1>30, EndTask, EndRows DEF UndoFails
<1>31. CASE Restore
  BY <1>31, EndTask, EndRows DEF Restore
<1>32. CASE UNCHANGED vars
  BY <1>32 DEF vars
<1>33. CASE ReplaceNotCommitted
  <2>1. /\ task.op = "replace" /\ task.pc = "deploy" /\ Goto("undo")
        /\ app' = app /\ apps' = apps
    BY <1>33 DEF ReplaceNotCommitted
  <2>2. app # 0
    BY <2>1
  <2>3. QED  BY <2>1, <2>2, GoTask
<1>34. QED
  BY <1>1, <1>2, <1>3, <1>4, <1>5, <1>6, <1>7, <1>8, <1>9, <1>10, <1>11, <1>12, <1>13,
     <1>14, <1>15, <1>16, <1>17, <1>18, <1>19, <1>20, <1>21, <1>22, <1>23, <1>24,
     <1>25, <1>26, <1>27, <1>28, <1>29, <1>30, <1>31, <1>32, <1>33
     DEF Next, Ask, Start, Deploy, Ingress, Balancer, Remove

----------------------------------------------------------------------------
(* The VirtualServer.                                                      *)

\* A task that ends DONE has brought the VirtualServer up to date.
LEMMA EndServed ==
  ASSUME IInv, NEW status \in {"DONE", "ERROR"}, Finish(status),
         status = "DONE" /\ task.op # "removeApp" => RuleIsCurrent'
  PROVE  Told' /\ RuleFollowsRows'
<1>1. task' = NoTask /\ outcome'.op = task.op /\ outcome'.status = status
  BY EndTask DEF IInv
<1>2. Told'
  BY <1>1 DEF Told, NoTask
<1>3. RuleFollowsRows'
  BY <1>1 DEF RuleFollowsRows, RuleIsCurrent, Versions
<1>4. QED  BY <1>2, <1>3

\* A task that goes on, to a step that relies on the VirtualServer or not.
LEMMA MidServed ==
  ASSUME task'.pc # "end",
         \/ task'.pc \notin {"balancer", "uninstall"}
         \/ task'.pc = "balancer" /\ task'.op = "removeApp"
         \/ task'.pc = "uninstall" /\ task'.op # "replace"
         \/ RuleIsCurrent'
  PROVE  Told' /\ RuleFollowsRows'
BY DEF Told, RuleFollowsRows, Idle, NoTask

\* Every step keeps the VirtualServer as the rows say where a task relies on it.
LEMMA ServedStep == IInv /\ [Next]_vars => (Told' /\ RuleFollowsRows')
<1> SUFFICES ASSUME IInv, [Next]_vars  PROVE (Told' /\ RuleFollowsRows')
  OBVIOUS
<1> USE DEF IInv, Plan, OpsIn, Phases
<1>1. CASE List
  <2>1. UNCHANGED <<db, cluster, task, outcome>>
    BY <1>1 DEF List
  <2>2. QED  BY <2>1 DEF Told, RuleFollowsRows, RuleIsCurrent, Versions, Idle, db, cluster
<1>2. ASSUME NEW t \in Tags, AskCreate(t)
      PROVE  (Told' /\ RuleFollowsRows')
  BY <1>2, EmptyShares, MidServed, Asked DEF AskCreate, Ops
<1>3. ASSUME NEW t \in Tags, AskAdd(t)
      PROVE  Told' /\ RuleFollowsRows'
  <2>1. PICK s \in Splits(seen.tags \cup {t}) : Request("add", t, NoTag, s)
    BY <1>3 DEF AskAdd
  <2>2. s \in Shares
    BY SplitShares DEF Shape
  <2>3. QED  BY <2>1, <2>2, Asked, MidServed DEF Ops
<1>4. CASE AskCanary
  BY <1>4, SplitShares, MidServed, Asked DEF AskCanary, Ops, Shape
<1>5. ASSUME NEW t \in Tags, NEW u \in Tags, AskReplace(t, u)
      PROVE  Told' /\ RuleFollowsRows'
  <2>1. Request("replace", u, t, Empty)
    BY <1>5 DEF AskReplace
  <2>2. QED  BY <2>1, EmptyShares, Asked, MidServed DEF Ops
<1>6. ASSUME NEW t \in Tags, AskRemoveVersion(t)
      PROVE  (Told' /\ RuleFollowsRows')
  BY <1>6, EmptyShares, MidServed, Asked DEF AskRemoveVersion, Ops
<1>7. CASE AskRemoveApp
  BY <1>7, EmptyShares, MidServed, Asked DEF AskRemoveApp, Ops
<1>8. CASE StartFails
  BY <1>8, EndServed DEF StartFails
<1>9. CASE StartCreate
  <2>1. task'.pc = "deploy"
    BY <1>9, CreateTask DEF StartCreate, AppRows
  <2>2. QED  BY <2>1, MidServed
<1>10. CASE StartAdd
  BY <1>10, GoTask, MidServed DEF StartAdd
<1>11. CASE StartCanary
  BY <1>11, GoTask, MidServed DEF StartCanary
<1>12. CASE StartReplace
  BY <1>12, GoTask, MidServed DEF StartReplace
<1>13. CASE StartRemoveVersion
  BY <1>13, GoTask, MidServed DEF StartRemoveVersion, Starts
<1>14. CASE StartRemoveApp
  <2>1. /\ task'.op = "removeApp" /\ task'.pc \in {"uninstall", "ingress"}
    BY <1>14, RemoveTask
  <2>2. QED  BY <2>1, MidServed
<1>15. CASE Deployed
  BY <1>15, GoTask, MidServed DEF Deployed
<1>16. CASE DeployRefused
  BY <1>16, EndServed DEF DeployRefused
<1>17. CASE DeployUnanswered
  BY <1>17, EndServed DEF DeployUnanswered
<1>18. CASE IngressUpdated
  <2>1. task.op # "removeApp" => RuleIsCurrent'
    <3>1. task.op # "removeApp" => IsCurrent
      BY <1>18 DEF IngressUpdated, AppRows, Running, Ops
    <3>2. rows' = rows /\ routed' = routed /\ WriteRule
      BY <1>18 DEF IngressUpdated, db
    <3>3. QED  BY <3>1, <3>2 DEF RuleIsCurrent, WriteRule, Versions
  <2>2. CASE AfterIngress = "done"
    BY <1>18, <2>1, <2>2, EndServed DEF IngressUpdated
  <2>3. CASE AfterIngress # "done"
    <3>1. Goto(AfterIngress) /\ AfterIngress \in {"uninstall", "balancer"}
      BY <1>18, <2>3 DEF IngressUpdated, AfterIngress
    <3>2. task'.pc = AfterIngress /\ task'.op = task.op
      BY <3>1, GoTask
    <3>3. task.op = "removeApp" => AfterIngress = "balancer"
      BY DEF AfterIngress
    <3>4. QED  BY <2>1, <3>1, <3>2, <3>3, MidServed
  <2>4. QED  BY <2>2, <2>3
<1>19. CASE IngressFails
  BY <1>19, GoTask, EndServed, MidServed DEF IngressFails, RollBack
<1>20. CASE IngressUnanswered
  BY <1>20, GoTask, EndServed, MidServed DEF IngressUnanswered, RollBack
<1>21. CASE BalancerUpdated
  <2>1. task.op # "removeApp" => RuleIsCurrent
    BY <1>21 DEF BalancerUpdated, Told
  <2>2. rows' = rows /\ routed' = routed /\ rule' = rule
    BY <1>21 DEF BalancerUpdated, db, cluster
  <2>3. task.op # "removeApp" => RuleIsCurrent'
    BY <2>1, <2>2 DEF RuleIsCurrent, Versions
  <2>4. QED  BY <1>21, <2>3, EndServed DEF BalancerUpdated
<1>22. CASE BalancerFails
  <2>1. CASE task.op = "create"
    BY <1>22, <2>1, BalancerTask, MidServed
  <2>2. CASE task.op # "create"
    BY <1>22, <2>2, BalancerTask, EndServed
  <2>3. QED  BY <2>1, <2>2
<1>23. CASE OldUninstalled
  <2>1. RuleIsCurrent /\ Versions \ {task.old} # {}
    BY <1>23 DEF OldUninstalled, Told, AppRows
  <2>2. rows' = rows /\ routed' = routed /\ rule' = rule
    BY <1>23, <2>1 DEF OldUninstalled, Uninstall, db
  <2>3. RuleIsCurrent'
    BY <2>1, <2>2 DEF RuleIsCurrent, Versions
  <2>4. QED  BY <1>23, <2>3, EndServed DEF OldUninstalled
<1>24. CASE OldStays
  BY <1>24, GoTask, MidServed DEF OldStays
<1>25. CASE VersionUninstalled
  BY <1>25, GoTask, MidServed DEF VersionUninstalled
<1>26. CASE VersionStays
  BY <1>26, EndServed DEF VersionStays
<1>27. ASSUME NEW t \in Tags, AppVersionUninstalled(t)
      PROVE  Told' /\ RuleFollowsRows'
  <2>1. /\ task'.op = "removeApp" /\ task'.pc \in {"uninstall", "ingress"}
    BY <1>27, LeftTask
  <2>2. QED  BY <2>1, MidServed
<1>28. ASSUME NEW t \in Tags, AppVersionStays(t)
      PROVE  (Told' /\ RuleFollowsRows')
  BY <1>28, EndServed DEF AppVersionStays
<1>29. CASE Undone
  BY <1>29, GoTask, EndServed, MidServed DEF Undone
<1>30. CASE UndoFails
  BY <1>30, EndServed DEF UndoFails
<1>31. CASE Restore
  BY <1>31, EndServed DEF Restore
<1>32. CASE UNCHANGED vars
  BY <1>32
     DEF vars, db, cluster, history, Told, RuleFollowsRows, RuleIsCurrent, Versions,
         Idle
<1>33. CASE ReplaceNotCommitted
  BY <1>33, GoTask, MidServed DEF ReplaceNotCommitted
<1>34. QED
  BY <1>1, <1>2, <1>3, <1>4, <1>5, <1>6, <1>7, <1>8, <1>9, <1>10, <1>11, <1>12, <1>13,
     <1>14, <1>15, <1>16, <1>17, <1>18, <1>19, <1>20, <1>21, <1>22, <1>23, <1>24,
     <1>25, <1>26, <1>27, <1>28, <1>29, <1>30, <1>31, <1>32, <1>33
     DEF Next, Ask, Start, Deploy, Ingress, Balancer, Remove

----------------------------------------------------------------------------
(* Rows and releases.                                                      *)

\* A task that ends with a release for each row.
LEMMA EndMatched ==
  ASSUME task' = NoTask, ~torn' => release' = DOMAIN rows'
  PROVE  Matched'
BY DEF Matched, Released, Installing, Replacing, Undoing, Emptying, NoTask, Versions

\* A request changes neither.
LEMMA AskMatched ==
  ASSUME IInv, NEW op \in Ops, NEW tag \in Tags \cup {NoTag}, NEW old \in Tags \cup {NoTag},
         NEW split \in Shares, Request(op, tag, old, split)
  PROVE  Matched'
<1>1. /\ task'.op = op /\ task'.pc = "start" /\ Idle /\ UNCHANGED <<db, cluster, history>>
  BY Asked DEF IInv
<1>2. ~torn => release = Versions
  BY <1>1 DEF IInv, Matched, Released, Installing, Replacing, Undoing, Emptying, Idle, NoTask
<1>3. release' = release /\ Versions' = Versions /\ torn' = torn
  BY <1>1 DEF db, cluster, history, Versions
<1>4. QED  BY <1>1, <1>2, <1>3 DEF Matched, Released, Installing, Replacing, Undoing, Emptying

\* A step to one where rows and releases are the same.
LEMMA KeptMatched ==
  ASSUME ~torn' => release' = DOMAIN rows',
         task'.op \in {"create", "add"} => task'.pc # "deploy",
         task'.op = "replace" => task'.pc \in {"start", "deploy"},
         task'.op = "removeApp" => task'.pc # "uninstall"
  PROVE  Matched'
BY DEF Matched, Released, Installing, Replacing, Undoing, Emptying, Versions

\* Every step that tears nothing keeps rows and releases as far apart as the task has
\* brought them.
LEMMA MatchedStep == IInv /\ [Next]_vars => Matched'
<1> SUFFICES ASSUME IInv, [Next]_vars  PROVE Matched'
  OBVIOUS
<1> USE DEF IInv, Plan, OpsIn, Phases, Matched, Released, Installing, Replacing, Undoing, Emptying,
            Versions, Starts, db, cluster, history
<1>1. CASE List
  BY <1>1 DEF List
<1>2. ASSUME NEW t \in Tags, AskCreate(t)
      PROVE  Matched'
  BY <1>2, EmptyShares, AskMatched DEF AskCreate, Ops
<1>3. ASSUME NEW t \in Tags, AskAdd(t)
      PROVE  Matched'
  <2>1. PICK s \in Splits(seen.tags \cup {t}) : Request("add", t, NoTag, s)
    BY <1>3 DEF AskAdd
  <2>2. s \in Shares
    BY SplitShares DEF Shape
  <2>3. QED  BY <2>1, <2>2, AskMatched DEF Ops
<1>4. CASE AskCanary
  BY <1>4, SplitShares, AskMatched DEF AskCanary, Ops, Shape
<1>5. ASSUME NEW t \in Tags, NEW u \in Tags, AskReplace(t, u)
      PROVE  Matched'
  <2>1. Request("replace", u, t, Empty)
    BY <1>5 DEF AskReplace
  <2>2. QED  BY <2>1, EmptyShares, AskMatched DEF Ops
<1>6. ASSUME NEW t \in Tags, AskRemoveVersion(t)
      PROVE  Matched'
  BY <1>6, EmptyShares, AskMatched DEF AskRemoveVersion, Ops
<1>7. CASE AskRemoveApp
  BY <1>7, EmptyShares, AskMatched DEF AskRemoveApp, Ops
<1>8. CASE StartFails
  BY <1>8, EndTask, EndMatched DEF StartFails
<1>9. CASE StartCreate
  <2>1. rows' = With(Empty, task.tag, Total) /\ release' = release /\ torn' = torn
        /\ task.op = "create" /\ task.pc = "start"
    BY <1>9 DEF StartCreate
  <2>2. task'.op = "create" /\ task'.pc = "deploy" /\ task'.tag = task.tag
    BY <1>9, <2>1, CreateTask DEF AppRows
  <2>3. DOMAIN rows' = {task.tag}
    BY <2>1, EmptyShares DEF With
  <2>4. Versions = {}
    BY <2>1 DEF AppRows
  <2>5. QED  BY <2>1, <2>2, <2>3, <2>4
<1>10. CASE StartAdd
  <2>1. rows' = Reweighted(Versions \cup {task.tag}) /\ release' = release /\ torn' = torn
        /\ task.op = "add" /\ task.pc = "start" /\ Goto("deploy")
    BY <1>10 DEF StartAdd
  <2>2. task'.op = "add" /\ task'.pc = "deploy" /\ task'.tag = task.tag
    BY <2>1, GoTask
  <2>3. DOMAIN rows' = Versions \cup {task.tag}
    BY <2>1 DEF Reweighted
  <2>4. task.tag \notin Versions
    BY <2>1 DEF AppRows
  <2>5. QED  BY <2>1, <2>2, <2>3, <2>4
<1>11. CASE StartCanary
  <2>1. rows' = Reweighted(Versions) /\ release' = release /\ torn' = torn
        /\ task.op = "canary" /\ task.pc = "start" /\ Goto("ingress")
    BY <1>11 DEF StartCanary
  <2>2. task'.op = "canary" /\ task'.pc = "ingress"
    BY <2>1, GoTask
  <2>3. DOMAIN rows' = Versions
    BY <2>1 DEF Reweighted
  <2>4. QED  BY <2>1, <2>2, <2>3
<1>12. CASE StartReplace
  BY <1>12, GoTask, KeptMatched DEF StartReplace
<1>13. CASE StartRemoveVersion
  BY <1>13, GoTask, KeptMatched DEF StartRemoveVersion, Starts
<1>14. CASE StartRemoveApp
  <2>1. task.op = "removeApp" /\ task.pc = "start" /\ release' = release /\ torn' = torn
    BY <1>14 DEF StartRemoveApp
  <2>2. CASE IsCurrent /\ Versions # {}
    <3>1. rows' = rows
      BY <1>14, <2>2 DEF StartRemoveApp
    <3>2. task'.op = "removeApp" /\ task'.pc = "uninstall" /\ task'.todo = Versions
      BY <1>14, <2>2, RemoveTask
    <3>3. QED  BY <2>1, <3>1, <3>2
  <2>3. CASE ~(IsCurrent /\ Versions # {})
    <3>1. DOMAIN rows' = Versions
      BY <1>14, <2>3, EmptyShares DEF StartRemoveApp, RemoveApp
    <3>2. task'.op = "removeApp" /\ task'.pc = "ingress"
      BY <1>14, <2>3, RemoveTask
    <3>3. QED  BY <2>1, <3>1, <3>2
  <2>4. QED  BY <2>2, <2>3
<1>15. CASE Deployed
  <2>1. task.pc = "deploy" /\ release' = release \cup {task.tag} /\ torn' = torn /\ Goto("ingress")
    BY <1>15 DEF Deployed
  <2>2. task'.op = task.op /\ task'.pc = "ingress" /\ task'.old = task.old
    BY <2>1, GoTask
  <2>3. CASE task.op = "replace"
    <3>1. DOMAIN rows' = (Versions \ {task.old}) \cup {task.tag}
      BY <1>15, <2>3 DEF Deployed, With, Without
    <3>2. task.old \in Versions
      BY <2>1, <2>3 DEF AppRows
    <3>3. QED  BY <2>1, <2>2, <2>3, <3>1, <3>2
  <2>4. CASE task.op # "replace"
    <3>1. rows' = rows
      BY <1>15, <2>4 DEF Deployed
    <3>2. QED  BY <2>1, <2>2, <2>4, <3>1
  <2>5. QED  BY <2>3, <2>4
<1>16. CASE DeployRefused
  <2>1. task.pc = "deploy" /\ release' = release /\ torn' = torn /\ TakeBackRows /\ Finish("ERROR")
    BY <1>16 DEF DeployRefused
  <2>2. /\ task.op = "create" => DOMAIN rows' = {} /\ Versions = {task.tag}
        /\ task.op = "add" => DOMAIN rows' = Versions \ {task.tag}
        /\ task.op = "replace" => rows' = rows
    BY <2>1, TakenBack DEF AppRows, Running, Ops
  <2>3. ~torn' => release' = DOMAIN rows'
    BY <2>1, <2>2
  <2>4. QED  BY <2>1, <2>3, EndTask, EndMatched
<1>17. CASE DeployUnanswered
  BY <1>17, EndTask, EndMatched DEF DeployUnanswered
<1>18. CASE IngressUpdated
  <2>1. task.pc = "ingress" /\ release' = release /\ rows' = rows /\ torn' = torn
    BY <1>18 DEF IngressUpdated
  <2>2. CASE task.op = "replace"
    <3>1. Goto("uninstall")
      BY <1>18, <2>2 DEF IngressUpdated, AfterIngress
    <3>2. task'.op = "replace" /\ task'.pc = "uninstall" /\ task'.old = task.old
      BY <2>2, <3>1, GoTask
    <3>3. QED  BY <2>1, <2>2, <3>2
  <2>3. CASE task.op # "replace"
    <3>1. ~torn' => release' = DOMAIN rows'
      BY <2>1, <2>3
    <3>2. Finish("DONE") \/ Goto("balancer")
      BY <1>18, <2>3 DEF IngressUpdated, AfterIngress
    <3>3. CASE Finish("DONE")
      BY <3>1, <3>3, EndTask, EndMatched
    <3>4. CASE Goto("balancer")
      BY <2>3, <3>1, <3>4, GoTask, KeptMatched
    <3>5. QED  BY <3>2, <3>3, <3>4
  <2>4. QED  BY <2>2, <2>3
<1>19. CASE IngressFails
  BY <1>19, GoTask, EndTask, EndMatched, KeptMatched DEF IngressFails, RollBack
<1>20. CASE IngressUnanswered
  BY <1>20, GoTask, EndTask, EndMatched, KeptMatched DEF IngressUnanswered, RollBack
<1>21. CASE BalancerUpdated
  BY <1>21, EndTask, EndMatched DEF BalancerUpdated
<1>22. CASE BalancerFails
  <2>1. ~torn' => release' = DOMAIN rows'
    BY <1>22 DEF BalancerFails
  <2>2. CASE task.op = "create"
    <3>1. task'.op = "create" /\ task'.pc = "undo"
      BY <1>22, <2>2, BalancerTask
    <3>2. QED  BY <2>1, <3>1, KeptMatched
  <2>3. CASE task.op # "create"
    BY <1>22, <2>1, <2>3, BalancerTask, EndTask, EndMatched
  <2>4. QED  BY <2>2, <2>3
<1>23. CASE OldUninstalled
  <2>1. /\ task.pc = "uninstall" /\ task.op = "replace" /\ release' = release \ {task.old}
        /\ rows' = rows /\ torn' = torn /\ Finish("DONE")
    BY <1>23 DEF OldUninstalled, Uninstall
  <2>2. task.old \notin Versions
    BY <2>1 DEF AppRows
  <2>3. ~torn' => release' = DOMAIN rows'
    BY <2>1, <2>2
  <2>4. QED  BY <2>1, <2>3, EndTask, EndMatched
<1>24. CASE OldStays
  BY <1>24, GoTask, KeptMatched DEF OldStays
<1>25. CASE VersionUninstalled
  <2>1. /\ task.pc = "uninstall" /\ task.op = "removeVersion" /\ release' = release \ {task.tag}
        /\ torn' = torn /\ Goto("ingress")
    BY <1>25 DEF VersionUninstalled, Uninstall
  <2>2. rows' \in EqualShares(Versions \ {task.tag})
    BY <1>25 DEF VersionUninstalled
  <2>3. DOMAIN rows' = Versions \ {task.tag}
    BY <2>2, EqualShare, SharesDomain, FS_RemoveElement DEF Shape
  <2>4. QED  BY <2>1, <2>3, GoTask, KeptMatched
<1>26. CASE VersionStays
  BY <1>26, EndTask, EndMatched DEF VersionStays
<1>27. ASSUME NEW t \in Tags, AppVersionUninstalled(t)
      PROVE  Matched'
  <2>1. /\ task.pc = "uninstall" /\ task.op = "removeApp" /\ release' = release \ {t}
        /\ torn' = torn
    BY <1>27 DEF AppVersionUninstalled, Uninstall
  <2>2. CASE task.todo = {t}
    <3>1. DOMAIN rows' = {}
      BY <1>27, <2>2, EmptyShares DEF AppVersionUninstalled, RemoveApp
    <3>2. task'.op = "removeApp" /\ task'.pc = "ingress"
      BY <1>27, <2>2, LeftTask
    <3>3. ~torn' => release' = DOMAIN rows'
      BY <2>1, <2>2, <3>1
    <3>4. QED  BY <3>2, <3>3, KeptMatched
  <2>3. CASE task.todo # {t}
    <3>1. rows' = rows
      BY <1>27, <2>3 DEF AppVersionUninstalled
    <3>2. task'.op = "removeApp" /\ task'.pc = "uninstall" /\ task'.todo = task.todo \ {t}
      BY <1>27, <2>3, LeftTask
    <3>3. QED  BY <2>1, <3>1, <3>2
  <2>4. QED  BY <2>2, <2>3
<1>28. ASSUME NEW t \in Tags, AppVersionStays(t)
      PROVE  Matched'
  BY <1>28, EndTask, EndMatched DEF AppVersionStays
<1>29. CASE Undone
  <2>1. /\ task.pc = "undo" /\ release' = release \ {task.tag} /\ torn' = torn /\ TakeBackRows
    BY <1>29 DEF Undone, Uninstall
  <2>2. /\ task.op = "create" => DOMAIN rows' = {} /\ Versions = {task.tag}
        /\ task.op = "add" => DOMAIN rows' = Versions \ {task.tag}
        /\ task.op = "replace" => rows' = rows
    BY <2>1, TakenBack DEF AppRows, Running, Ops
  <2>3. ~torn' => release' = DOMAIN rows'
    BY <2>1, <2>2
  <2>4. CASE task.backups
    BY <1>29, <2>3, <2>4, GoTask, KeptMatched DEF Undone
  <2>5. CASE ~task.backups
    BY <1>29, <2>3, <2>5, EndTask, EndMatched DEF Undone
  <2>6. QED  BY <2>4, <2>5
<1>30. CASE UndoFails
  BY <1>30, EndTask, EndMatched DEF UndoFails
<1>31. CASE Restore
  BY <1>31, EndTask, EndMatched DEF Restore
<1>32. CASE UNCHANGED vars
  BY <1>32
     DEF vars, db, cluster, history, Released, Installing, Replacing, Undoing, Emptying,
         Versions
<1>33. CASE ReplaceNotCommitted
  <2>1. /\ task.op = "replace" /\ task.pc = "deploy" /\ Goto("undo")
        /\ release' = release \cup {task.tag}
        /\ ~torn' => ~torn /\ rows' = rows
    BY <1>33 DEF ReplaceNotCommitted
  <2>2. task'.op = "replace" /\ task'.pc = "undo" /\ task'.tag = task.tag
    BY <2>1, GoTask
  <2>3. task.tag \notin Versions
    BY <2>1 DEF AppRows
  <2>4. QED  BY <2>1, <2>2, <2>3
<1>34. QED
  BY <1>1, <1>2, <1>3, <1>4, <1>5, <1>6, <1>7, <1>8, <1>9, <1>10, <1>11, <1>12, <1>13,
     <1>14, <1>15, <1>16, <1>17, <1>18, <1>19, <1>20, <1>21, <1>22, <1>23, <1>24,
     <1>25, <1>26, <1>27, <1>28, <1>29, <1>30, <1>31, <1>32, <1>33
     DEF Next, Ask, Start, Deploy, Ingress, Balancer, Remove

----------------------------------------------------------------------------
(* Induction over numbers, for sets of them.                               *)

\* A set of natural numbers has a least one.
LEMMA Least ==
  ASSUME NEW N \in SUBSET Nat, N # {}
  PROVE  \E m \in N : \A k \in N : m <= k
<1>1. PICK m \in N : \A k \in N : ~(<<k, m>> \in OpToRel(<, Nat))
  BY NatLessThanWellFounded, WFMin
<1>2. ASSUME NEW k \in N PROVE m <= k
  <2>1. <<k, m>> \in Nat \X Nat /\ ~(<<k, m>> \in OpToRel(<, Nat))
    BY <1>1
  <2>2. ~(k < m)
    BY <2>1 DEF OpToRel
  <2>3. QED  BY <2>2
<1>3. QED  BY <1>2

\* A set of them with 0 and all successors of its members has all of them.
LEMMA AllNumbers ==
  ASSUME NEW P \in SUBSET Nat, 0 \in P, \A n \in P : n + 1 \in P
  PROVE  P = Nat
<1>1. SUFFICES ASSUME Nat \ P # {} PROVE FALSE
  OBVIOUS
<1>2. PICK m \in Nat \ P : \A k \in Nat \ P : m <= k
  <2>1. Nat \ P \in SUBSET Nat
    OBVIOUS
  <2>2. QED  BY <1>1, <2>1, Least
<1>3. m # 0 /\ m - 1 \in Nat /\ ~(m <= m - 1) /\ (m - 1) + 1 = m
  BY <1>2
<1>4. QED  BY <1>2, <1>3

----------------------------------------------------------------------------
(* Sums.                                                                   *)

\* What SumFunction does to the subsets A of a domain, and what it finds there.
Any(s) == CHOOSE x \in s : TRUE
Added(f, A, g) == [s \in A |-> IF s = {} THEN 0 ELSE f[Any(s)] + g[s \ {Any(s)}]]
UpTo(D, n) == {s \in SUBSET D : Cardinality(s) <= n}

\* g has the sum of f over every subset of its domain.
Sums(f, g) ==
  /\ g \in [SUBSET DOMAIN f -> Nat]
  /\ g[{}] = 0
  /\ \A s \in SUBSET DOMAIN f : \A x \in s : g[s] = f[x] + g[s \ {x}]

\* g adds up f over the subsets of D, taking any member first.
Adds(D, f, g) ==
  /\ g[{}] = 0
  /\ \A s \in SUBSET D : s # {} => g[s] = f[Any(s)] + g[s \ {Any(s)}]

\* Sets without one member.
LEMMA OneLess ==
  ASSUME NEW D, IsFiniteSet(D), NEW s \in SUBSET D
  PROVE  /\ IsFiniteSet(s) /\ Cardinality(s) \in Nat /\ (Cardinality(s) = 0 <=> s = {})
         /\ \A x \in s : /\ s \ {x} \in SUBSET D
                         /\ Cardinality(s \ {x}) \in Nat
                         /\ Cardinality(s \ {x}) + 1 = Cardinality(s)
<1>1. IsFiniteSet(s)
  BY FS_Subset
<1>2. Cardinality(s) \in Nat /\ (Cardinality(s) = 0 <=> s = {})
  BY <1>1, FS_CardinalityType, FS_EmptySet
<1>3. ASSUME NEW x \in s
      PROVE  /\ s \ {x} \in SUBSET D
             /\ Cardinality(s \ {x}) \in Nat
             /\ Cardinality(s \ {x}) + 1 = Cardinality(s)
  <2>1. IsFiniteSet(s \ {x}) /\ Cardinality(s \ {x}) = Cardinality(s) - 1
    BY <1>1, FS_RemoveElement
  <2>2. Cardinality(s \ {x}) \in Nat
    BY <2>1, FS_CardinalityType
  <2>3. QED  BY <1>2, <2>1, <2>2
<1>4. QED  BY <1>1, <1>2, <1>3

\* A nonempty set has the member that is chosen.
LEMMA AnyIn == \A s : s # {} => Any(s) \in s
BY DEF Any

\* The sums of the smaller subsets give those of the ones with one more member.
LEMMA AddedOnce ==
  ASSUME NEW D, IsFiniteSet(D), NEW f \in [D -> Nat], NEW n \in Nat,
         NEW g \in [UpTo(D, n) -> Nat], g = Added(f, UpTo(D, n), g)
  PROVE  LET h == Added(f, UpTo(D, n + 1), g)
         IN  h \in [UpTo(D, n + 1) -> Nat] /\ h = Added(f, UpTo(D, n + 1), h)
<1> DEFINE h == Added(f, UpTo(D, n + 1), g)
<1>1. ASSUME NEW s \in UpTo(D, n + 1), s # {}
      PROVE  s \ {Any(s)} \in UpTo(D, n) /\ s \ {Any(s)} \in UpTo(D, n + 1) /\ Any(s) \in D
  <2>1. s \in SUBSET D /\ Cardinality(s) <= n + 1 /\ Any(s) \in s
    BY <1>1, AnyIn DEF UpTo
  <2>2. /\ s \ {Any(s)} \in SUBSET D
        /\ Cardinality(s \ {Any(s)}) \in Nat /\ Cardinality(s) \in Nat
        /\ Cardinality(s \ {Any(s)}) + 1 = Cardinality(s)
    BY <2>1, OneLess
  <2>3. QED  BY <2>1, <2>2 DEF UpTo
<1>2. \A s \in UpTo(D, n) : s \in UpTo(D, n + 1) /\ h[s] = g[s]
  <2>1. ASSUME NEW s \in UpTo(D, n) PROVE s \in UpTo(D, n + 1)
    <3>1. Cardinality(s) \in Nat /\ s \in SUBSET D /\ Cardinality(s) <= n
      BY OneLess DEF UpTo
    <3>2. QED  BY <3>1 DEF UpTo
  <2>2. QED  BY <2>1 DEF Added
<1>3. h \in [UpTo(D, n + 1) -> Nat]
  <2>1. ASSUME NEW s \in UpTo(D, n + 1), s # {} PROVE f[Any(s)] + g[s \ {Any(s)}] \in Nat
    <3>1. f[Any(s)] \in Nat /\ g[s \ {Any(s)}] \in Nat
      BY <1>1, <2>1
    <3>2. QED  BY <3>1
  <2>2. QED  BY <2>1 DEF Added
<1>4. h = Added(f, UpTo(D, n + 1), h)
  BY <1>1, <1>2 DEF Added
<1>5. QED  BY <1>3, <1>4

\* So all subsets of a finite domain have their sums.
LEMMA AddedUpTo ==
  ASSUME NEW D, IsFiniteSet(D), NEW f \in [D -> Nat]
  PROVE  \A n \in Nat : \E g \in [UpTo(D, n) -> Nat] : g = Added(f, UpTo(D, n), g)
<1> DEFINE P == {n \in Nat : \E g \in [UpTo(D, n) -> Nat] : g = Added(f, UpTo(D, n), g)}
<1>1. 0 \in P
  <2> DEFINE g == [s \in UpTo(D, 0) |-> 0]
  <2>1. \A s \in UpTo(D, 0) : s = {}
    <3>1. ASSUME NEW s \in UpTo(D, 0) PROVE s = {}
      <4>1. s \in SUBSET D /\ Cardinality(s) <= 0
        BY DEF UpTo
      <4>2. QED  BY <4>1, OneLess
    <3>2. QED  BY <3>1
  <2>2. g \in [UpTo(D, 0) -> Nat] /\ g = Added(f, UpTo(D, 0), g)
    BY <2>1 DEF Added
  <2>3. QED  BY <2>2
<1>2. ASSUME NEW n \in P PROVE n + 1 \in P
  <2>1. PICK g \in [UpTo(D, n) -> Nat] : g = Added(f, UpTo(D, n), g)
    OBVIOUS
  <2>2. n \in Nat /\ n + 1 \in Nat
    OBVIOUS
  <2> HIDE DEF P
  <2> DEFINE h == Added(f, UpTo(D, n + 1), g)
  <2>3. h \in [UpTo(D, n + 1) -> Nat] /\ h = Added(f, UpTo(D, n + 1), h)
    BY <2>1, <2>2, AddedOnce
  <2> HIDE DEF h
  <2>4. QED  BY <2>2, <2>3 DEF P
<1>3. P \in SUBSET Nat
  OBVIOUS
<1> HIDE DEF P
<1>4. P = Nat
  BY <1>1, <1>2, <1>3, AllNumbers
<1>5. QED  BY <1>4 DEF P

\* They do not depend on the order in which members are chosen.
LEMMA AnyOrder ==
  ASSUME NEW D, IsFiniteSet(D), NEW f \in [D -> Nat],
         NEW g \in [SUBSET D -> Nat], g = Added(f, SUBSET D, g)
  PROVE  Sums(f, g)
<1> DEFINE Free(s) == \A x \in s : g[s] = f[x] + g[s \ {x}]
           P == {n \in Nat : \A s \in SUBSET D : Cardinality(s) = n => Free(s)}
<1>1. g[{}] = 0 /\ \A s \in SUBSET D : s # {} => g[s] = f[Any(s)] + g[s \ {Any(s)}]
  BY DEF Added
<1>2. 0 \in P
  BY OneLess
<1>3. ASSUME NEW n \in P PROVE n + 1 \in P
  <2>1. SUFFICES ASSUME NEW s \in SUBSET D, Cardinality(s) = n + 1, NEW x \in s
                 PROVE  g[s] = f[x] + g[s \ {x}]
    OBVIOUS
  <2> DEFINE c == Any(s)
             both == s \ {c, x}
  <2>2. c \in s /\ g[s] = f[c] + g[s \ {c}] /\ n \in Nat
    BY <1>1, AnyIn
  <2>3. \A y \in s : s \ {y} \in SUBSET D /\ Cardinality(s \ {y}) = n
    BY <2>1, <2>2, OneLess
  <2>4. CASE x = c
    BY <2>2, <2>4
  <2>5. CASE x # c
    <3>1. Free(s \ {c}) /\ Free(s \ {x})
      BY <1>3, <2>2, <2>3
    <3>2. (s \ {c}) \ {x} = both /\ (s \ {x}) \ {c} = both /\ both \in SUBSET D
      OBVIOUS
    <3>3. g[s \ {c}] = f[x] + g[both] /\ g[s \ {x}] = f[c] + g[both]
      BY <2>2, <2>5, <3>1, <3>2
    <3>4. f[x] \in Nat /\ f[c] \in Nat /\ g[both] \in Nat
      BY <2>2, <3>2
    <3>5. QED  BY <2>2, <3>3, <3>4
  <2>6. QED  BY <2>4, <2>5
<1>4. P \in SUBSET Nat
  OBVIOUS
<1>5. P = Nat
  <2> HIDE DEF P
  <2>1. QED  BY <1>2, <1>3, <1>4, AllNumbers
<1>6. ASSUME NEW s \in SUBSET D PROVE Free(s)
  <2>1. Cardinality(s) \in Nat
    BY OneLess
  <2>2. QED  BY <1>5, <2>1
<1>7. QED  BY <1>1, <1>6 DEF Sums

\* Nor on anything else.
LEMMA OneSum ==
  ASSUME NEW D, IsFiniteSet(D), NEW f \in [D -> Nat], NEW g, NEW h,
         Adds(D, f, g), Adds(D, f, h)
  PROVE  \A s \in SUBSET D : g[s] = h[s]
<1> DEFINE P == {n \in Nat : \A s \in SUBSET D : Cardinality(s) = n => g[s] = h[s]}
<1>1. 0 \in P
  BY OneLess DEF Adds
<1>2. ASSUME NEW n \in P PROVE n + 1 \in P
  <2>1. SUFFICES ASSUME NEW s \in SUBSET D, Cardinality(s) = n + 1 PROVE g[s] = h[s]
    OBVIOUS
  <2>2. s # {} /\ Any(s) \in s /\ n \in Nat
    BY <2>1, OneLess, AnyIn
  <2>3. s \ {Any(s)} \in SUBSET D /\ Cardinality(s \ {Any(s)}) = n
    BY <2>1, <2>2, OneLess
  <2>4. QED  BY <1>2, <2>2, <2>3 DEF Adds
<1>3. P \in SUBSET Nat
  OBVIOUS
<1>4. P = Nat
  <2> HIDE DEF P
  <2>1. QED  BY <1>1, <1>2, <1>3, AllNumbers
<1>5. QED  BY <1>4, OneLess

\* SumFunction is one of these sums.
LEMMA SumFound ==
  ASSUME NEW D, IsFiniteSet(D), NEW f \in [D -> Nat]
  PROVE  \E g : Sums(f, g) /\ SumFunction(f) = g[D]
<1> DEFINE iter == CHOOSE g : g = Added(f, SUBSET D, g)
<1>1. SumFunction(f) = iter[D]
  BY DEF SumFunction, SumFunctionOnSet, FoldFunctionOnSet, MapThenFoldSet, Added, Any
<1>2. PICK g \in [SUBSET D -> Nat] : g = Added(f, SUBSET D, g)
  <2>1. UpTo(D, Cardinality(D)) = SUBSET D
    BY FS_Subset DEF UpTo
  <2>2. Cardinality(D) \in Nat
    BY FS_CardinalityType
  <2>3. \E g \in [UpTo(D, Cardinality(D)) -> Nat] : g = Added(f, UpTo(D, Cardinality(D)), g)
    BY <2>2, AddedUpTo
  <2>4. QED  BY <2>1, <2>3
<1>3. iter = Added(f, SUBSET D, iter)
  BY <1>2
<1> HIDE DEF iter
<1>4. \A s \in SUBSET D : g[s] = iter[s]
  <2>1. Adds(D, f, g)
    BY <1>2 DEF Added, Adds
  <2>2. Adds(D, f, iter)
    BY <1>3 DEF Added, Adds
  <2>3. QED  BY <2>1, <2>2, OneSum
<1>5. QED  BY <1>1, <1>2, <1>4, AnyOrder

\* So it is every such sum.
LEMMA SumIs ==
  ASSUME NEW D, IsFiniteSet(D), NEW f \in [D -> Nat], NEW g, Sums(f, g)
  PROVE  SumFunction(f) = g[D]
<1>1. PICK h : Sums(f, h) /\ SumFunction(f) = h[D]
  BY SumFound
<1>2. g[D] = h[D]
  <2>1. Adds(D, f, g)
    BY AnyIn DEF Sums, Adds
  <2>2. Adds(D, f, h)
    BY <1>1, AnyIn DEF Sums, Adds
  <2>3. \A s \in SUBSET D : g[s] = h[s]
    BY <2>1, <2>2, OneSum
  <2>4. QED  BY <2>3
<1>3. QED  BY <1>1, <1>2

\* The sum without one item.
LEMMA SumWithout ==
  ASSUME NEW D, IsFiniteSet(D), NEW f \in [D -> Nat], NEW x \in D,
         NEW r, r = [y \in D \ {x} |-> f[y]]
  PROVE  SumFunction(f) = f[x] + SumFunction(r)
<1>1. PICK g : Sums(f, g) /\ SumFunction(f) = g[D]
  BY SumFound
<1> DEFINE h == [s \in SUBSET (D \ {x}) |-> g[s]]
<1>2. r \in [D \ {x} -> Nat] /\ IsFiniteSet(D \ {x})
  BY FS_RemoveElement
<1>3. Sums(r, h)
  <2>1. DOMAIN r = D \ {x} /\ DOMAIN f = D
    OBVIOUS
  <2>2. h \in [SUBSET (D \ {x}) -> Nat] /\ h[{}] = 0
    BY <1>1, <2>1 DEF Sums
  <2>3. ASSUME NEW s \in SUBSET (D \ {x}), NEW y \in s PROVE h[s] = r[y] + h[s \ {y}]
    <3>1. g[s] = f[y] + g[s \ {y}]
      BY <1>1, <2>1 DEF Sums
    <3>2. s \ {y} \in SUBSET (D \ {x}) /\ r[y] = f[y]
      OBVIOUS
    <3>3. QED  BY <3>1, <3>2
  <2>4. QED  BY <2>1, <2>2, <2>3 DEF Sums
<1>4. SumFunction(r) = g[D \ {x}]
  <2>1. SumFunction(r) = h[D \ {x}]
    <3> HIDE DEF h
    <3>1. QED  BY <1>2, <1>3, SumIs
  <2>2. QED  BY <2>1
<1>5. g[D] = f[x] + g[D \ {x}]
  BY <1>1 DEF Sums
<1>6. QED  BY <1>1, <1>4, <1>5

\* The sum of equal items.
LEMMA SumEqual ==
  ASSUME NEW D, IsFiniteSet(D), NEW a \in Nat, NEW f, f = [x \in D |-> a]
  PROVE  SumFunction(f) = a * Cardinality(D)
<1> DEFINE g == [s \in SUBSET D |-> a * Cardinality(s)]
<1>1. g \in [SUBSET D -> Nat]
  <2>1. \A s \in SUBSET D : Cardinality(s) \in Nat
    BY OneLess
  <2>2. \A n \in Nat : a * n \in Nat
    OBVIOUS
  <2>3. QED  BY <2>1, <2>2
<1>2. g[{}] = 0
  <2>1. Cardinality({}) = 0
    BY FS_EmptySet
  <2>2. QED  BY <2>1
<1>3. ASSUME NEW s \in SUBSET D, NEW x \in s PROVE g[s] = f[x] + g[s \ {x}]
  <2>1. /\ Cardinality(s \ {x}) \in Nat /\ s \ {x} \in SUBSET D
        /\ Cardinality(s) = Cardinality(s \ {x}) + 1
    BY OneLess
  <2>2. \A n \in Nat : a * (n + 1) = a + a * n
    OBVIOUS
  <2>3. QED  BY <2>1, <2>2
<1>4. Sums(f, g)
  BY <1>1, <1>2, <1>3 DEF Sums
<1>5. SumFunction(f) = g[D]
  <2> HIDE DEF g
  <2>1. QED  BY <1>4, SumIs
<1>6. QED  BY <1>5

----------------------------------------------------------------------------
(* The weights.                                                            *)

\* The rows have all of the traffic, and the split a user entered.
Whole == ~skewed /\ Versions # {} => SumFunction(rows) = Total
SplitWhole == task.op \in {"add", "canary"} => SumFunction(task.split) = Total
TotalInv == Whole /\ SplitWhole

\* Shares of finitely many versions have a sum.
LEMMA SharesNat ==
  ASSUME NEW f \in Shares
  PROVE  f \in [DOMAIN f -> Nat]
BY SharesDef, WeightAssumption DEF IsShares

\* One version with all of the traffic (deployNewApp).
LEMMA FirstWhole ==
  ASSUME NEW t \in Tags
  PROVE  SumFunction(With(Empty, t, Total)) = Total
<1> DEFINE f == With(Empty, t, Total)
<1>1. f = [x \in {t} |-> Total]
  BY EmptyShares DEF With
<1>2. IsFiniteSet({t}) /\ Cardinality({t}) = 1
  BY FS_Singleton
<1>3. SumFunction(f) = Total * Cardinality({t})
  BY <1>1, <1>2, WeightAssumption, SumEqual
<1>4. QED  BY <1>2, <1>3, WeightAssumption

\* A split that names every version replaces all weights.
LEMMA AllReweighted ==
  ASSUME task.split \in Shares
  PROVE  Reweighted(DOMAIN task.split) = task.split
BY DEF Reweighted, Shares

\* A version that takes the place of another one takes its share (replaceAppVersion).
LEMMA ShareTaken ==
  ASSUME NEW r \in Shares, IsFiniteSet(DOMAIN r), NEW old \in DOMAIN r,
         NEW tag \in Tags \ DOMAIN r
  PROVE  SumFunction(With(Without(r, old), tag, r[old])) = SumFunction(r)
<1> DEFINE D == DOMAIN r
           E == (D \ {old}) \cup {tag}
           f == With(Without(r, old), tag, r[old])
           rest == [t \in D \ {old} |-> r[t]]
<1>1. r \in [D -> Nat]
  BY SharesNat
<1>2. f \in [E -> Nat] /\ f[tag] = r[old] /\ rest = [t \in E \ {tag} |-> f[t]]
  BY <1>1 DEF With, Without
<1>3. IsFiniteSet(E)
  BY FS_RemoveElement, FS_AddElement
<1>4. tag \in E /\ old \in D
  OBVIOUS
<1> HIDE DEF f, rest, E, D
<1>5. SumFunction(r) = r[old] + SumFunction(rest)
  <2>1. IsFiniteSet(D) /\ rest = [t \in D \ {old} |-> r[t]]
    BY DEF D, rest
  <2>2. QED  BY <1>1, <1>4, <2>1, SumWithout
<1>6. SumFunction(f) = f[tag] + SumFunction(rest)
  BY <1>2, <1>3, <1>4, SumWithout
<1>7. QED  BY <1>2, <1>5, <1>6 DEF f

\* Equal shares with what the division leaves are the whole
\* (deprovisionApplicationVersion).
LEMMA EqualWhole ==
  ASSUME NEW S, S \subseteq Tags, S # {}, IsFiniteSet(S), NEW f \in EqualShares(S)
  PROVE  SumFunction(f) = Total
<1> DEFINE n == Cardinality(S)
           a == Total \div n
           Share(last) == [t \in S |-> IF t = last THEN Total - a * (n - 1) ELSE a]
<1>1. PICK last \in S : f = Share(last)
  BY DEF EqualShares
<1>2. n \in Nat \ {0}
  BY FS_EmptySet, FS_CardinalityType
<1>3. a \in 0..Total /\ Total - a * (n - 1) \in 0..Total
  BY <1>2, Average, WeightAssumption
<1>4. IsFiniteSet(S \ {last}) /\ Cardinality(S \ {last}) = n - 1
  BY FS_RemoveElement
<1> HIDE DEF n, a
<1> DEFINE rest == [t \in S \ {last} |-> f[t]]
<1>5. f \in [S -> Nat] /\ f[last] = Total - a * (n - 1) /\ rest = [t \in S \ {last} |-> a]
  BY <1>1, <1>3
<1> HIDE DEF rest
<1>6. SumFunction(f) = f[last] + SumFunction(rest)
  <2>1. rest = [t \in S \ {last} |-> f[t]]
    BY DEF rest
  <2>2. QED  BY <1>5, <2>1, SumWithout
<1>7. SumFunction(rest) = a * (n - 1)
  <2>1. a \in Nat
    BY <1>3, WeightAssumption
  <2>2. SumFunction(rest) = a * Cardinality(S \ {last})
    BY <1>4, <1>5, <2>1, SumEqual
  <2>3. QED  BY <1>4, <2>2
<1>8. a * (n - 1) \in Int
  BY <1>2, <1>3, WeightAssumption
<1>9. QED  BY <1>5, <1>6, <1>7, <1>8, WeightAssumption

\* A step that writes no weights; the task goes on or ends, or a new one has no split.
LEMMA KeptWhole ==
  ASSUME TotalInv, rows' = rows, skewed' = skewed
  PROVE  Whole'
BY DEF TotalInv, Whole, Versions

LEMMA KeptSplit ==
  ASSUME TotalInv,
         \/ task'.op = task.op /\ task'.split = task.split
         \/ task'.op \notin {"add", "canary"}
  PROVE  SplitWhole'
BY DEF TotalInv, SplitWhole

\* What the catch blocks leave.
LEMMA BackWhole ==
  ASSUME Shape, TotalInv, TakeBackRows
  PROVE  Whole'
<1>1. CASE task.op = "create"
  BY <1>1, EmptyShares DEF TakeBackRows, RemoveApp, Whole, Versions
<1>2. CASE task.op = "add"
  BY <1>2 DEF TakeBackRows, Whole
<1>3. CASE task.op \notin {"create", "add"}
  BY <1>3, KeptWhole DEF TakeBackRows, db, Shape
<1>4. QED  BY <1>1, <1>2, <1>3

\* A task that ends has no split.
LEMMA EndSplit ==
  ASSUME NEW status, Finish(status)
  PROVE  SplitWhole'
BY DEF Finish, NoTask, SplitWhole

\* A step of a task keeps its split.
LEMMA GoSplit ==
  ASSUME Shape, TotalInv, NEW pc \in Phases, Goto(pc)
  PROVE  SplitWhole'
BY GoTask, KeptSplit

\* A request has a whole split, or none.
LEMMA AskTotal ==
  ASSUME Shape, TotalInv, NEW op \in Ops, NEW tag \in Tags \cup {NoTag},
         NEW old \in Tags \cup {NoTag}, NEW split \in Shares, Request(op, tag, old, split),
         op \in {"add", "canary"} => SumFunction(split) = Total
  PROVE  TotalInv'
<1>1. task'.op = op /\ task'.split = split /\ UNCHANGED <<rows, skewed>>
  BY Asked DEF db, history
<1>2. QED  BY <1>1, KeptWhole DEF TotalInv, SplitWhole

\* Every step keeps it.
LEMMA TotalStep == IInv /\ TotalInv /\ [Next]_vars => TotalInv'
<1> SUFFICES ASSUME IInv, TotalInv, [Next]_vars  PROVE TotalInv'
  OBVIOUS
<1>s. Shape
  BY DEF IInv
<1>o. /\ {"create", "add", "canary", "replace", "removeVersion", "removeApp"} \subseteq Ops
      /\ {"start", "deploy", "ingress", "balancer", "uninstall", "undo", "restore", "end"}
           \subseteq Phases
      /\ Empty \in Shares
  BY EmptyShares DEF Ops, Phases
<1>1. CASE List
  BY <1>1, KeptWhole, KeptSplit DEF List, db, history, TotalInv
<1>2. ASSUME NEW t \in Tags, AskCreate(t)
      PROVE  TotalInv'
  BY <1>2, <1>s, <1>o, AskTotal DEF AskCreate
<1>3. ASSUME NEW t \in Tags, AskAdd(t)
      PROVE  TotalInv'
  <2>1. PICK s \in Splits(seen.tags \cup {t}) : Request("add", t, NoTag, s)
    BY <1>3 DEF AskAdd
  <2>2. s \in Shares /\ SumFunction(s) = Total
    <3>1. seen.tags \cup {t} \in SUBSET Tags
      BY <1>s DEF Shape
    <3>2. QED  BY <3>1, SplitShares DEF Splits
  <2>3. QED  BY <1>s, <1>o, <2>1, <2>2, AskTotal
<1>4. CASE AskCanary
  <2>1. PICK s \in Splits(seen.tags) : Request("canary", NoTag, NoTag, s)
    BY <1>4 DEF AskCanary
  <2>2. s \in Shares /\ SumFunction(s) = Total
    <3>1. seen.tags \in SUBSET Tags
      BY <1>s DEF Shape
    <3>2. QED  BY <3>1, SplitShares DEF Splits
  <2>3. QED  BY <1>s, <1>o, <2>1, <2>2, AskTotal
<1>5. ASSUME NEW t \in Tags, NEW u \in Tags, AskReplace(t, u)
      PROVE  TotalInv'
  BY <1>5, <1>s, <1>o, AskTotal DEF AskReplace
<1>6. ASSUME NEW t \in Tags, AskRemoveVersion(t)
      PROVE  TotalInv'
  BY <1>6, <1>s, <1>o, AskTotal DEF AskRemoveVersion
<1>7. CASE AskRemoveApp
  BY <1>7, <1>s, <1>o, AskTotal DEF AskRemoveApp
<1>8. CASE StartFails
  BY <1>8, EndSplit, KeptWhole DEF StartFails, db, history, TotalInv
<1>9. CASE StartCreate
  <2>1. rows' = With(Empty, task.tag, Total) /\ task.op = "create"
    BY <1>9 DEF StartCreate, Starts
  <2>2. task.tag \in Tags
    BY <2>1 DEF IInv, Plan
  <2>3. Whole'
    BY <2>1, <2>2, FirstWhole DEF Whole
  <2>4. task'.op = task.op
    BY <1>9, <1>s DEF StartCreate, Shape, TaskSet
  <2>5. QED  BY <2>1, <2>3, <2>4, KeptSplit DEF TotalInv
<1>10. CASE StartAdd
  <2>1. /\ rows' = Reweighted(Versions \cup {task.tag}) /\ Goto("deploy")
        /\ skewed' = (DOMAIN task.split # DOMAIN rows') /\ task.op = "add"
    BY <1>10 DEF StartAdd, Starts
  <2>2. DOMAIN rows' = Versions \cup {task.tag}
    BY <2>1 DEF Reweighted
  <2>3. task.split \in Shares
    BY <1>s DEF Shape, TaskSet
  <2>4. ~skewed' => rows' = task.split
    BY <2>1, <2>2, <2>3, AllReweighted
  <2>5. Whole'
    BY <2>1, <2>4 DEF TotalInv, Whole, SplitWhole
  <2>6. QED  BY <1>s, <1>o, <2>1, <2>5, GoSplit DEF TotalInv
<1>11. CASE StartCanary
  <2>1. /\ rows' = Reweighted(Versions) /\ Goto("ingress")
        /\ skewed' = (DOMAIN task.split # Versions) /\ task.op = "canary"
    BY <1>11 DEF StartCanary, Starts
  <2>2. task.split \in Shares
    BY <1>s DEF Shape, TaskSet
  <2>3. ~skewed' => rows' = task.split
    BY <2>1, <2>2, AllReweighted
  <2>4. Whole'
    BY <2>1, <2>3 DEF TotalInv, Whole, SplitWhole
  <2>5. QED  BY <1>s, <1>o, <2>1, <2>4, GoSplit DEF TotalInv
<1>12. CASE StartReplace
  BY <1>12, <1>s, <1>o, GoSplit, KeptWhole DEF StartReplace, db, history, TotalInv
<1>13. CASE StartRemoveVersion
  BY <1>13, <1>s, <1>o, GoSplit, KeptWhole DEF StartRemoveVersion, db, history, TotalInv
<1>14. CASE StartRemoveApp
  <2>1. skewed' = skewed /\ (UNCHANGED db \/ RemoveApp)
    BY <1>14 DEF StartRemoveApp, history
  <2>2. Whole'
    BY <2>1, KeptWhole, EmptyShares DEF RemoveApp, Whole, Versions, db
  <2>3. task'.op = "removeApp"
    BY <1>14, <1>s, RemoveTask
  <2>4. QED  BY <2>2, <2>3, KeptSplit DEF TotalInv
<1>15. CASE Deployed
  <2>1. Goto("ingress") /\ skewed' = skewed /\ task.pc = "deploy"
    BY <1>15 DEF Deployed, history
  <2>2. CASE task.op = "replace"
    <3>1. rows' = With(Without(rows, task.old), task.tag, rows[task.old])
      BY <1>15, <2>2 DEF Deployed
    <3>2. task.old \in DOMAIN rows /\ task.tag \in Tags \ DOMAIN rows
      BY <2>1, <2>2 DEF IInv, Plan, AppRows, Versions
    <3>3. rows \in Shares /\ IsFiniteSet(DOMAIN rows)
      BY <1>s DEF Shape, Versions
    <3>4. SumFunction(rows') = SumFunction(rows)
      BY <3>1, <3>2, <3>3, ShareTaken
    <3>5. Whole'
      BY <2>1, <3>2, <3>4 DEF TotalInv, Whole, Versions
    <3>6. QED  BY <1>s, <1>o, <2>1, <3>5, GoSplit DEF TotalInv
  <2>3. CASE task.op # "replace"
    <3>1. rows' = rows
      BY <1>15, <2>3 DEF Deployed
    <3>2. QED  BY <1>s, <1>o, <2>1, <3>1, GoSplit, KeptWhole DEF TotalInv
  <2>4. QED  BY <2>2, <2>3
<1>16. CASE DeployRefused
  BY <1>16, <1>s, BackWhole, EndSplit DEF DeployRefused, TotalInv
<1>17. CASE DeployUnanswered
  BY <1>17, <1>s, BackWhole, EndSplit DEF DeployUnanswered, TotalInv
<1>18. CASE IngressUpdated
  <2>1. AfterIngress \in {"done", "uninstall", "balancer"}
    BY DEF AfterIngress
  <2>2. QED  BY <1>18, <1>s, <1>o, <2>1, GoSplit, EndSplit, KeptWhole
             DEF IngressUpdated, db, history, TotalInv
<1>19. CASE IngressFails
  BY <1>19, <1>s, <1>o, GoSplit, EndSplit, KeptWhole DEF IngressFails, RollBack, TotalInv
<1>20. CASE IngressUnanswered
  BY <1>20, <1>s, <1>o, GoSplit, EndSplit, KeptWhole DEF IngressUnanswered, RollBack, TotalInv
<1>21. CASE BalancerUpdated
  BY <1>21, EndSplit, KeptWhole DEF BalancerUpdated, db, history, TotalInv
<1>22. CASE BalancerFails
  <2>1. SplitWhole'
    BY <1>22, <1>s, BalancerTask, KeptSplit, EndSplit
  <2>2. QED  BY <1>22, <2>1, KeptWhole DEF BalancerFails, history, TotalInv
<1>23. CASE OldUninstalled
  BY <1>23, EndSplit, KeptWhole DEF OldUninstalled, db, history, TotalInv
<1>24. CASE OldStays
  BY <1>24, <1>s, <1>o, GoSplit, KeptWhole DEF OldStays, db, TotalInv
<1>25. CASE VersionUninstalled
  <2>1. rows' \in EqualShares(Versions \ {task.tag}) /\ Goto("ingress")
    BY <1>25 DEF VersionUninstalled
  <2>2. Versions \ {task.tag} \subseteq Tags /\ IsFiniteSet(Versions \ {task.tag})
    BY <1>s, SharesDomain, FS_RemoveElement DEF Shape, Versions
  <2>3. DOMAIN rows' = Versions \ {task.tag}
    BY <2>1, <2>2, EqualShare
  <2>4. Whole'
    BY <2>1, <2>2, <2>3, EqualWhole DEF Whole, Versions
  <2>5. QED  BY <1>s, <1>o, <2>1, <2>4, GoSplit DEF TotalInv
<1>26. CASE VersionStays
  BY <1>26, EndSplit, KeptWhole DEF VersionStays, db, TotalInv
<1>27. ASSUME NEW t \in Tags, AppVersionUninstalled(t)
      PROVE  TotalInv'
  <2>1. skewed' = skewed /\ (UNCHANGED db \/ RemoveApp)
    BY <1>27 DEF AppVersionUninstalled, history
  <2>2. Whole'
    BY <2>1, KeptWhole, EmptyShares DEF RemoveApp, Whole, Versions, db
  <2>3. task'.op = "removeApp"
    BY <1>27, <1>s, LeftTask
  <2>4. QED  BY <2>2, <2>3, KeptSplit DEF TotalInv
<1>28. ASSUME NEW t \in Tags, AppVersionStays(t)
      PROVE  TotalInv'
  BY <1>28, EndSplit, KeptWhole DEF AppVersionStays, db, TotalInv
<1>29. CASE Undone
  BY <1>29, <1>s, <1>o, BackWhole, GoSplit, EndSplit DEF Undone, TotalInv
<1>30. CASE UndoFails
  BY <1>30, EndSplit, KeptWhole DEF UndoFails, db, TotalInv
<1>31. CASE Restore
  BY <1>31, EndSplit, KeptWhole DEF Restore, db, history, TotalInv
<1>32. CASE UNCHANGED vars
  BY <1>32, KeptWhole, KeptSplit DEF vars, db, history, TotalInv
<1>33. CASE ReplaceNotCommitted
  <2>1. Goto("undo") /\ (skewed' \/ (skewed' = skewed /\ rows' = rows))
    BY <1>33 DEF ReplaceNotCommitted, history
  <2>2. Whole'
    BY <2>1, KeptWhole DEF Whole
  <2>3. QED  BY <1>s, <1>o, <2>1, <2>2, GoSplit DEF TotalInv
<1>34. QED
  BY <1>1, <1>2, <1>3, <1>4, <1>5, <1>6, <1>7, <1>8, <1>9, <1>10, <1>11, <1>12, <1>13,
     <1>14, <1>15, <1>16, <1>17, <1>18, <1>19, <1>20, <1>21, <1>22, <1>23, <1>24,
     <1>25, <1>26, <1>27, <1>28, <1>29, <1>30, <1>31, <1>32, <1>33
     DEF Next, Ask, Start, Deploy, Ingress, Balancer, Remove

----------------------------------------------------------------------------
(* The theorems.                                                           *)

\* The invariant holds in the first state.
LEMMA InitInv == Init => IInv
<1> SUFFICES ASSUME Init  PROVE IInv
  OBVIOUS
<1> USE DEF Init
<1>1. Versions = {}
  BY EmptyShares DEF Versions
<1>2. Shape
  <2>1. task \in TaskSet /\ task.app = 0
    BY NoTaskType DEF NoTask
  <2>2. rows \in Shares /\ rule \in Shares /\ IsFiniteSet(Versions)
    BY EmptyShares DEF Versions
  <2>3. outcome \in [op : Ops \cup {"none"}, status : {"DONE", "ERROR"}]
    OBVIOUS
  <2>4. seen \in [app : 0..apps, tags : SUBSET Tags]
    OBVIOUS
  <2>5. /\ apps \in 0..MaxApps /\ app \in {0, apps} /\ task.app \in 0..apps
        /\ tasks \in 0..MaxTasks /\ faults \in 0..MaxFaults
    BY <2>1, BoundsAssumption
  <2>6. routed \in BOOLEAN /\ skewed \in BOOLEAN /\ torn \in BOOLEAN /\ release \subseteq Tags
    OBVIOUS
  <2> HIDE DEF Init
  <2>7. QED  BY <2>1, <2>2, <2>3, <2>4, <2>5, <2>6 DEF Shape
<1>3. Plan
  BY DEF Plan, OpsIn, NoTask
<1>4. AppRows
  BY <1>1 DEF AppRows, NoTask, Starts, Running
<1>5. Told /\ RuleFollowsRows
  BY <1>1 DEF Told, RuleFollowsRows, NoTask
<1>6. Matched
  BY <1>1 DEF Matched, Released, Installing, Replacing, Undoing, Emptying, NoTask
<1>7. QED  BY <1>2, <1>3, <1>4, <1>5, <1>6 DEF IInv

\* The invariant is inductive.
LEMMA StepInv == IInv /\ [Next]_vars => IInv'
BY ShapeStep, PlanStep, RowsStep, ServedStep, MatchedStep DEF IInv

\* It implies the types.
LEMMA TypeFromInv == IInv => TypeOK
<1> SUFFICES ASSUME IInv  PROVE TypeOK
  OBVIOUS
<1> USE DEF IInv, Shape
<1>1. IsShares(rows) /\ IsShares(rule)
  BY SharesDef
<1>2. IsShares(task.split)
  BY SharesDef DEF TaskSet
<1>3. task.op \in Ops \cup {"none"} /\ task.tag \in Tags \cup {NoTag}
      /\ task.old \in Tags \cup {NoTag} /\ task.todo \subseteq Tags
      /\ task.pc \in Phases
  BY DEF TaskSet
<1>4. task.backups \in BOOLEAN
  BY DEF TaskSet
<1>5. QED  BY <1>1, <1>2, <1>3, <1>4 DEF TypeOK, Phases

\* Type correctness of rows, releases, VirtualServer and tasks; the weights written by
\* every task are between 0 and Total.
THEOREM TypeCorrect == Spec => []TypeOK
<1>1. QED  BY InitInv, StepInv, TypeFromInv, PTL DEF Spec

\* After a task that ended DONE the VirtualServer of a routed application splits the
\* traffic as its rows say (applicationCanarySplit, deployNewAppVersion,
\* replaceAppVersion, deprovisionApplicationVersion).
THEOREM RuleFollows == Spec => []RuleFollowsRows
<1>1. IInv => RuleFollowsRows
  BY DEF IInv
<1>2. QED  BY <1>1, InitInv, StepInv, PTL DEF Spec

\* Between tasks the rows and the helm releases name the same versions, whatever
\* requests were refused, unless one of the events that set torn came before.
THEOREM RowsMatch == Spec => []RowsMatchReleases
<1>1. IInv => RowsMatchReleases
  <2> SUFFICES ASSUME IInv, Idle, ~torn  PROVE Versions = release
    BY DEF RowsMatchReleases
  <2>1. task.op = "none"
    BY DEF Idle, NoTask
  <2>2. QED  BY <2>1 DEF IInv, Matched, Released, Installing, Replacing, Undoing, Emptying
<1>2. QED  BY <1>1, InitInv, StepInv, PTL DEF Spec

\* Between tasks the weights of the versions add up to Total, however many there are
\* and whatever was added, split, replaced and removed, but after the events that set
\* skewed (deployNewAppVersion, applicationCanarySplit, replaceAppVersion,
\* deprovisionApplicationVersion).
THEOREM SharesAddUp == Spec => []WeightsAddUp
<1>1. Init => TotalInv
  BY EmptyShares DEF Init, TotalInv, Whole, SplitWhole, Versions, NoTask
<1>2. TotalInv => WeightsAddUp
  BY DEF TotalInv, Whole, WeightsAddUp
<1>3. QED  BY <1>1, <1>2, InitInv, StepInv, TotalStep, PTL DEF Spec

\* When a replacement uninstalls the old version, the VirtualServer names it no more.
LEMMA OldIsOut ==
  ASSUME IInv, task.pc = "uninstall", task.op = "replace", routed
  PROVE  task.old \notin DOMAIN rule
<1>1. task.tag \in Versions /\ task.old \notin Versions
  BY DEF IInv, AppRows
<1>2. rule = RuleOf(rows)
  BY <1>1 DEF IInv, Told, RuleIsCurrent
<1>3. QED  BY <1>1, <1>2, RuleShares DEF IInv, Shape, Versions

\* No other step uninstalls a version that gets traffic and that its task does not
\* name.
LEMMA SparedStep == IInv /\ [Next]_vars => Spared
<1> SUFFICES ASSUME IInv, [Next]_vars  PROVE Spared
  OBVIOUS
<1> USE DEF Spared, cluster
<1>1. CASE List
  BY <1>1 DEF List
<1>2. ASSUME NEW t \in Tags, AskCreate(t)
      PROVE  Spared
  BY <1>2 DEF AskCreate, Request
<1>3. ASSUME NEW t \in Tags, AskAdd(t)
      PROVE  Spared
  BY <1>3 DEF AskAdd, Request
<1>4. CASE AskCanary
  BY <1>4 DEF AskCanary, Request
<1>5. ASSUME NEW t \in Tags, NEW u \in Tags, AskReplace(t, u)
      PROVE  Spared
  BY <1>5 DEF AskReplace, Request
<1>6. ASSUME NEW t \in Tags, AskRemoveVersion(t)
      PROVE  Spared
  BY <1>6 DEF AskRemoveVersion, Request
<1>7. CASE AskRemoveApp
  BY <1>7 DEF AskRemoveApp, Request
<1>8. CASE StartFails
  BY <1>8 DEF StartFails
<1>9. CASE StartCreate
  BY <1>9 DEF StartCreate
<1>10. CASE StartAdd
  BY <1>10 DEF StartAdd
<1>11. CASE StartCanary
  BY <1>11 DEF StartCanary
<1>12. CASE StartReplace
  BY <1>12 DEF StartReplace
<1>13. CASE StartRemoveVersion
  BY <1>13 DEF StartRemoveVersion
<1>14. CASE StartRemoveApp
  BY <1>14 DEF StartRemoveApp
<1>15. CASE Deployed
  BY <1>15 DEF Deployed
<1>16. CASE DeployRefused
  BY <1>16 DEF DeployRefused
<1>17. CASE DeployUnanswered
  BY <1>17 DEF DeployUnanswered
<1>18. CASE IngressUpdated
  BY <1>18 DEF IngressUpdated
<1>19. CASE IngressFails
  BY <1>19 DEF IngressFails, RollBack
<1>20. CASE IngressUnanswered
  BY <1>20 DEF IngressUnanswered, RollBack
<1>21. CASE BalancerUpdated
  BY <1>21 DEF BalancerUpdated
<1>22. CASE BalancerFails
  BY <1>22 DEF BalancerFails
<1>23. CASE OldUninstalled
  BY <1>23, OldIsOut DEF OldUninstalled, Uninstall
<1>24. CASE OldStays
  BY <1>24, OldIsOut DEF OldStays, Uninstall
<1>25. CASE VersionUninstalled
  BY <1>25 DEF VersionUninstalled, Uninstall
<1>26. CASE VersionStays
  BY <1>26 DEF VersionStays, Uninstall
<1>27. ASSUME NEW t \in Tags, AppVersionUninstalled(t)
      PROVE  Spared
  BY <1>27 DEF AppVersionUninstalled, Uninstall
<1>28. ASSUME NEW t \in Tags, AppVersionStays(t)
      PROVE  Spared
  BY <1>28 DEF AppVersionStays, Uninstall
<1>29. CASE Undone
  BY <1>29 DEF Undone, Uninstall
<1>30. CASE UndoFails
  BY <1>30 DEF UndoFails, Uninstall
<1>31. CASE Restore
  BY <1>31 DEF Restore
<1>32. CASE UNCHANGED vars
  BY <1>32 DEF vars
<1>33. CASE ReplaceNotCommitted
  BY <1>33 DEF ReplaceNotCommitted
<1>34. QED
  BY <1>1, <1>2, <1>3, <1>4, <1>5, <1>6, <1>7, <1>8, <1>9, <1>10, <1>11, <1>12, <1>13,
     <1>14, <1>15, <1>16, <1>17, <1>18, <1>19, <1>20, <1>21, <1>22, <1>23, <1>24,
     <1>25, <1>26, <1>27, <1>28, <1>29, <1>30, <1>31, <1>32, <1>33
     DEF Next, Ask, Start, Deploy, Ingress, Balancer, Remove

\* A version that gets traffic is uninstalled only with its application or by the
\* task that names it, in every step (replaceAppVersion updates the ingress first).
THEOREM ReplacedAfterTakeover == Spec => NoOutage
<1>1. IInv /\ [Next]_vars => [Spared]_vars
  BY SparedStep
<1>2. QED  BY <1>1, InitInv, StepInv, PTL DEF Spec, NoOutage, Spared
=============================================================================
