------------------------ MODULE ServiceRoutingProofs ------------------------
(***************************************************************************)
(* Proofs about ServiceRouting, for any services, namespaces, workspaces,  *)
(* ports, domains, tasks and faults.                                       *)
(*                                                                         *)
(* Rows, storage, ingress, pod presets and proxy are brought apart by a    *)
(* task and together again, each at a step of its own.  The invariant says *)
(* for every service how far apart they are, from the task that is under   *)
(* way for it (TaskOf); a task of another service, which may rewrite the   *)
(* blocks of all, keeps that.                                              *)
(***************************************************************************)
EXTENDS ServiceRouting, TLAPS

USE DEF nginx

(* The inductive invariant.                                                *)

Phases == {"pv", "pvc", "resources", "unclaim", "deploy", "rows", "presets", "ingress",
           "balancer", "undo", "restore", "uninstall", "unblock", "again", "stuck", "end"}
TaskSet == [op : Ops \cup {"none"}, svc : Services \cup {NoService}, domain : Hosts, old : Hosts,
            exposed : BOOLEAN, backup : Backup, pc : Phases]
Row == [port : Ports, domain : Hosts]
Routes == UNION {[S -> Row] : S \in SUBSET Services}

\* The types.
Shape ==
  /\ domains \subseteq Domains
  /\ service \subseteq Services /\ route \in Routes /\ Routed \subseteq service
  /\ release \subseteq Services /\ claims \subseteq {"pv", "pvc"} \X Services
  /\ rules \subseteq Entry /\ proxy \subseteq Entry /\ empty \in BOOLEAN
  /\ listeners \in [Workspaces -> SUBSET Ports]
  /\ presets \in [Namespaces -> SUBSET Services]
  /\ task \in [Workspaces -> TaskSet]
  /\ tasks \in 0..MaxTasks /\ faults \in 0..MaxFaults
  /\ torn \subseteq Services /\ leaked \subseteq Services
  /\ wiped \subseteq Services /\ blank \subseteq Namespaces

\* The operations that come to a step.
OpsIn(pc) ==
  CASE pc = "end" -> {"none"}
    [] pc = "presets" -> {"provision", "deprovision"}
    [] pc \in {"uninstall", "unblock", "again"} -> {"deprovision"}
    [] pc \in {"rows", "ingress"} -> {"provision", "bind", "unbind"}
    [] pc = "balancer" -> Ops
    [] pc = "stuck" -> {"deprovision", "bind", "unbind"}
    [] OTHER -> {"provision"}

\* A task is at a step of its operation, on a service of its workspace.
Plan(w) ==
  /\ task[w].op \in OpsIn(task[w].pc)
  /\ task[w].pc = "end" => task[w] = NoTask
  /\ task[w].pc # "end" => Svc(w) \in Services /\ Home(Svc(w)) = w

\* The task under way for a service.
TaskOf(s) == IF Svc(Home(s)) = s THEN task[Home(s)] ELSE NoTask

Provisions(t, P) == t.op = "provision" /\ t.pc \in P
Binds(t, P) == t.op \in {"bind", "unbind"} /\ t.pc \in P

\* Which rows a task t of the service finds, and what it remembers of them.
Rows(s, t) ==
  /\ t.pc \in {"pv", "pvc", "resources"} => s \in Stateful
  /\ Provisions(t, {"pv", "pvc", "resources", "unclaim", "deploy", "rows", "restore"})
       => s \notin service
  /\ Provisions(t, {"presets", "ingress", "balancer"}) => s \in Routed
  /\ t.pc = "undo" => s \notin Routed
  /\ t.op \in {"bind", "unbind"} => s \in Routed
  /\ t.op = "bind" => t.domain \in Domains
  /\ t.op = "unbind" /\ t.pc = "rows" => route[s].domain = t.domain
  /\ t.op = "unbind" /\ t.pc = "ingress" => t.old = t.domain
  /\ Provisions(t, {"balancer", "restore"}) => t.backup.there
  /\ t.op = "deprovision" => IF t.pc = "uninstall" THEN t.exposed = (s \in Routed) ELSE s \notin service

\* Release, volume and claim: those of the row, but while a provisioning makes
\* them before its row.
Installed(t) == Provisions(t, {"rows"})
Storage(s, t) ==
  /\ \A k \in {"pv", "pvc"} : <<k, s>> \in claims => s \in Stateful
  /\ t.pc = "pvc" => <<"pv", s>> \in claims
  /\ t.pc \in {"resources", "deploy"} \/ Installed(t)
       => \A k \in {"pv", "pvc"} : s \in Stateful => <<k, s>> \in claims
  /\ Installed(t) => s \in release
  /\ s \notin leaked =>
       /\ ~Installed(t) => (s \in service <=> s \in release)
       /\ t.pc \notin {"pvc", "resources", "unclaim", "deploy"} /\ ~Installed(t)
            => \A k \in {"pv", "pvc"} : <<k, s>> \in claims <=> s \in service /\ s \in Stateful

\* The rules a backup holds are the service's own.
OwnBackup(s, t) == \A r \in t.backup.rules : r.svc = s
OldEntry(s, t) == [svc |-> s, port |-> route[s].port, domain |-> t.old]
\* A rollback is going to put the backup back.
Restoring(t) == t.pc \in {"undo", "restore"} /\ t.backup.there

\* A stream has one rule, from the ingress update of its provisioning on.
StreamRules(s, t) ==
  /\ t.op = "provision" => t.backup.rules = {}
  /\ s \notin Routed /\ ~Restoring(t) => RulesOf(s) = {}
  /\ Provisions(t, {"presets", "ingress"}) => RulesOf(s) = {}
  /\ s \in Routed /\ ~Provisions(t, {"presets", "ingress"}) => RulesOf(s) = {TcpRule(s)}
\* A web site has the rule of its domain; before the ingress update of a
\* binding, that of the domain it had.
HttpRules(s, t) ==
  s \in Routed =>
    /\ Binds(t, {"ingress"}) => OldEntry(s, t) \in rules
    /\ t.pc \notin {"presets", "ingress", "stuck"} => HttpRule(s) \in rules
Rules(s, t) ==
  /\ OwnBackup(s, t)
  /\ Binds(t, {"balancer"}) /\ s \notin Streams => HttpRule(s) \in rules
  /\ s \notin torn /\ s \in Streams => StreamRules(s, t)
  /\ s \notin torn /\ s \notin Streams => HttpRules(s, t)

\* The server blocks: those of the row, none before the proxy is configured,
\* those of the former domain until a binding has configured it.
BlocksOf(s) == {b \in proxy : b.svc = s}
Block(s) == IF s \in Streams THEN TcpBlock(s) ELSE HttpBlock(s)
OldBlock(s, t) == IF s \in Streams THEN TcpBlock(s) ELSE OldEntry(s, t)
ServedBy(s, b) == BlocksOf(s) \subseteq {b} /\ (s \notin wiped => BlocksOf(s) = {b})
Awaited(t) == Provisions(t, {"presets", "ingress", "balancer"})
Serving(s, t) ==
  /\ s \notin Routed /\ (t.op = "deprovision" /\ t.pc \in {"presets", "unblock"} => ~t.exposed)
       => BlocksOf(s) = {}
  /\ Awaited(t) => BlocksOf(s) = {}
  /\ Binds(t, {"ingress", "balancer"}) => ServedBy(s, OldBlock(s, t))
  /\ s \in Routed /\ ~Awaited(t) /\ t.pc \notin {"ingress", "balancer", "stuck"}
       => ServedBy(s, Block(s))
Blocks(s, t) == s \notin torn => Serving(s, t)

\* Before the first configuration is written nginx serves nothing; two services
\* whose blocks are those of their rows have no port in common.
Fresh == empty => proxy = {}
Served ==
  \A b, c \in proxy :
    b # c /\ SameKind(b.svc, c.svc) /\ b.svc \notin torn /\ c.svc \notin torn => b.port # c.port

\* The listeners of a workspace: its streams, without the one whose ingress
\* update is still to come; a backup of them, too.
Unheard(t) == Provisions(t, {"presets", "ingress"})
Hearing(w) ==
  /\ Svc(w) \in Streams /\ Unheard(task[w]) => listeners[w] = StreamPorts(w, Routed \ {Svc(w)})
  /\ Svc(w) \in Streams /\ task[w].op = "provision" /\ task[w].backup.there
       => task[w].backup.listeners = StreamPorts(w, Routed \ {Svc(w)})
  /\ ~(Svc(w) \in Streams /\ (Unheard(task[w]) \/ Restoring(task[w])))
       => listeners[w] = StreamPorts(w, Routed)
Heard(w) == (\A s \in torn \cap Streams : Home(s) # w) => Hearing(w)

\* The pods of a namespace are told of its routes, unless that step comes next.
Told(n) ==
  n \notin blank /\ ~(task[WorkspaceOf[n]].pc = "presets" /\ Ns(WorkspaceOf[n]) = n)
    => presets[n] = PresetOf(n)

Plans == \A w \in Workspaces : Plan(w)
Followed(s) == Rows(s, TaskOf(s)) /\ Storage(s, TaskOf(s)) /\ Rules(s, TaskOf(s)) /\ Blocks(s, TaskOf(s))
IInv ==
  /\ Shape
  /\ Plans
  /\ \A s \in Services : Followed(s)
  /\ \A w \in Workspaces : Heard(w)
  /\ \A n \in Namespaces : Told(n)
  /\ Fresh /\ Served

(* Names the proofs use.                                                   *)

\* A step of the task of a workspace.
Acting(w) == Provision(w) \/ Deprovision(w) \/ Publish(w)

Kinds == {"pv", "pvc"}
Rehosted(x, d) == route' = [route EXCEPT ![x].domain = d]

\* A step adds no block of a service; if it takes one, wiped says so.
Thinned(s) ==
  /\ BlocksOf(s)' \subseteq BlocksOf(s)
  /\ s \in Routed /\ s \notin wiped' => s \notin wiped /\ BlocksOf(s)' = BlocksOf(s)

\* What the commands let their user ask for.
Asking(op, s, d, e, pc) ==
  \/ op = "provision" /\ s \notin service /\ pc = IF s \in Stateful THEN "pv" ELSE "deploy"
  \/ op = "deprovision" /\ s \in service /\ (e <=> s \in Routed) /\ pc = "uninstall"
  \/ op = "bind" /\ s \in Routed /\ d \in Domains /\ pc = "rows"
  \/ op = "unbind" /\ s \in Routed /\ route[s].domain = d /\ pc = "rows"

----------------------------------------------------------------------------
(* Rows of routes.                                                         *)

\* What a set of rows is.
LEMMA RoutesDef ==
  ASSUME NEW r
  PROVE  r \in Routes <=> /\ DOMAIN r \subseteq Services /\ r = [s \in DOMAIN r |-> r[s]]
                          /\ \A s \in DOMAIN r : r[s] \in Row
BY DEF Routes

\* A row written.
LEMMA RowWritten ==
  ASSUME NEW r \in Routes, NEW x \in Services, NEW p \in Ports, NEW d \in Hosts, NEW q,
         q = [s \in DOMAIN r \cup {x} |-> IF s = x THEN [port |-> p, domain |-> d] ELSE r[s]]
  PROVE  /\ q \in Routes /\ DOMAIN q = DOMAIN r \cup {x}
         /\ q[x].port = p /\ q[x].domain = d
         /\ \A s \in DOMAIN r \ {x} : q[s] = r[s]
<1>1. DOMAIN r \subseteq Services /\ \A s \in DOMAIN r : r[s] \in Row
  BY RoutesDef
<1>2. [port |-> p, domain |-> d] \in Row
  BY DEF Row
<1>3. DOMAIN q = DOMAIN r \cup {x} /\ q[x] = [port |-> p, domain |-> d]
      /\ \A s \in DOMAIN r \ {x} : q[s] = r[s]
  OBVIOUS
<1>4. q \in [DOMAIN r \cup {x} -> Row]
  BY <1>1, <1>2
<1>5. DOMAIN r \cup {x} \in SUBSET Services
  BY <1>1
<1>6. q \in Routes
  BY <1>4, <1>5 DEF Routes
<1>7. QED  BY <1>3, <1>6

\* A row deleted.
LEMMA RowRemoved ==
  ASSUME route \in Routes, NEW x, RemoveRoutes(x)
  PROVE  /\ route' \in Routes /\ DOMAIN route' = Routed \ {x}
         /\ \A s \in Routed \ {x} : route'[s] = route[s]
<1> USE DEF Routed
<1>1. Routed \subseteq Services /\ \A s \in Routed : route[s] \in Row
  BY RoutesDef
<1>2. route' = [s \in Routed \ {x} |-> route[s]]
  BY DEF RemoveRoutes, Restrict
<1>3. route' \in [Routed \ {x} -> Row]
  BY <1>1, <1>2
<1>4. Routed \ {x} \in SUBSET Services
  BY <1>1
<1>5. route' \in Routes
  BY <1>3, <1>4 DEF Routes
<1>6. QED  BY <1>2, <1>5

\* A domain written.
LEMMA DomainWritten ==
  ASSUME route \in Routes, NEW x \in Routed, NEW d \in Hosts, Rehosted(x, d)
  PROVE  /\ route' \in Routes /\ DOMAIN route' = Routed
         /\ route'[x].port = route[x].port /\ route'[x].domain = d
         /\ \A s \in Routed \ {x} : route'[s] = route[s]
<1> USE DEF Routed
<1>1. Routed \in SUBSET Services /\ \A s \in Routed : route[s] \in Row
  BY RoutesDef
<1>2. route' = [s \in Routed |-> IF s = x THEN [route[x] EXCEPT !.domain = d] ELSE route[s]]
  BY RoutesDef DEF Rehosted
<1>3. [route[x] EXCEPT !.domain = d] \in Row
  BY <1>1 DEF Row
<1>4. route' \in [Routed -> Row]
  BY <1>1, <1>2, <1>3
<1>5. route' \in Routes
  BY <1>1, <1>4 DEF Routes
<1>6. route[x] \in Row
  BY <1>1
<1>7. route'[x].port = route[x].port /\ route'[x].domain = d
  BY <1>2, <1>6 DEF Row
<1>8. QED  BY <1>2, <1>5, <1>7

\* A row has a port and a domain or none.
LEMMA RouteRow ==
  ASSUME route \in Routes, NEW s \in Routed
  PROVE  s \in Services /\ route[s].port \in Ports /\ route[s].domain \in Hosts
BY RoutesDef DEF Row, Routed

----------------------------------------------------------------------------
(* The steps of a task.                                                    *)

\* NoTask is a task.
LEMMA NoTaskType ==
  /\ NoTask \in TaskSet /\ NoTask.pc = "end" /\ NoTask.op = "none" /\ NoTask.svc = NoService
  /\ NoTask.backup = NoBackup
BY DEF NoTask, TaskSet, Phases, Hosts, Backup, NoBackup

\* Goto changes the step of a task and nothing else.
LEMMA GoTask ==
  ASSUME Shape, NEW w \in Workspaces, NEW pc \in Phases, Goto(w, pc)
  PROVE  /\ task' \in [Workspaces -> TaskSet] /\ task'[w].pc = pc
         /\ task'[w].op = task[w].op /\ task'[w].svc = task[w].svc
         /\ task'[w].domain = task[w].domain /\ task'[w].old = task[w].old
         /\ task'[w].exposed = task[w].exposed /\ task'[w].backup = task[w].backup
         /\ \A v \in Workspaces \ {w} : task'[v] = task[v]
<1> DEFINE u == [task[w] EXCEPT !.pc = pc]
<1>1. task[w] \in TaskSet /\ task \in [Workspaces -> TaskSet]
  BY DEF Shape
<1>2. /\ u \in TaskSet /\ u.pc = pc /\ u.op = task[w].op /\ u.svc = task[w].svc
      /\ u.domain = task[w].domain /\ u.old = task[w].old
      /\ u.exposed = task[w].exposed /\ u.backup = task[w].backup
  BY <1>1 DEF TaskSet
<1>3. task' = [task EXCEPT ![w] = u]
  BY DEF Goto
<1> HIDE DEF u
<1>4. QED  BY <1>1, <1>2, <1>3

\* Finish leaves the workspace without a task.
LEMMA EndTask ==
  ASSUME Shape, NEW w \in Workspaces, Finish(w)
  PROVE  /\ task' \in [Workspaces -> TaskSet] /\ task'[w] = NoTask
         /\ task'[w].pc = "end" /\ task'[w].op = "none" /\ task'[w].svc = NoService
         /\ task'[w].backup = NoBackup
         /\ \A v \in Workspaces \ {w} : task'[v] = task[v]
BY NoTaskType DEF Finish, Shape

\* The rows of a binding are written: the task keeps the domain the route had.
LEMMA BoundTask ==
  ASSUME Shape, NEW w \in Workspaces, NEW d \in Hosts,
         task' = [task EXCEPT ![w].old = d, ![w].pc = "ingress"]
  PROVE  /\ task' \in [Workspaces -> TaskSet] /\ task'[w].pc = "ingress"
         /\ task'[w].op = task[w].op /\ task'[w].svc = task[w].svc
         /\ task'[w].domain = task[w].domain /\ task'[w].old = d
         /\ task'[w].exposed = task[w].exposed /\ task'[w].backup = task[w].backup
         /\ \A v \in Workspaces \ {w} : task'[v] = task[v]
<1> DEFINE u == [[task[w] EXCEPT !.old = d] EXCEPT !.pc = "ingress"]
<1>1. task[w] \in TaskSet /\ task \in [Workspaces -> TaskSet]
  BY DEF Shape
<1>2. /\ u \in TaskSet /\ u.pc = "ingress" /\ u.op = task[w].op /\ u.svc = task[w].svc
      /\ u.domain = task[w].domain /\ u.old = d
      /\ u.exposed = task[w].exposed /\ u.backup = task[w].backup
  BY <1>1 DEF TaskSet, Phases
<1>3. task' = [task EXCEPT ![w] = u]
  BY <1>1
<1> HIDE DEF u
<1>4. QED  BY <1>1, <1>2, <1>3

\* The ingress is updated: the task keeps the backup.
LEMMA UpdatedTask ==
  ASSUME Shape, NEW w \in Workspaces, NEW b \in Backup,
         task' = [task EXCEPT ![w].pc = "balancer", ![w].backup = b]
  PROVE  /\ task' \in [Workspaces -> TaskSet] /\ task'[w].pc = "balancer"
         /\ task'[w].op = task[w].op /\ task'[w].svc = task[w].svc
         /\ task'[w].domain = task[w].domain /\ task'[w].old = task[w].old
         /\ task'[w].exposed = task[w].exposed /\ task'[w].backup = b
         /\ \A v \in Workspaces \ {w} : task'[v] = task[v]
<1> DEFINE u == [[task[w] EXCEPT !.pc = "balancer"] EXCEPT !.backup = b]
<1>1. task[w] \in TaskSet /\ task \in [Workspaces -> TaskSet]
  BY DEF Shape
<1>2. /\ u \in TaskSet /\ u.pc = "balancer" /\ u.op = task[w].op /\ u.svc = task[w].svc
      /\ u.domain = task[w].domain /\ u.old = task[w].old
      /\ u.exposed = task[w].exposed /\ u.backup = b
  BY <1>1 DEF TaskSet, Phases
<1>3. task' = [task EXCEPT ![w] = u]
  BY <1>1
<1> HIDE DEF u
<1>4. QED  BY <1>1, <1>2, <1>3

\* A service has a namespace and a workspace.
LEMMA Homes ==
  ASSUME NEW s \in Services
  PROVE  NamespaceOf[s] \in Namespaces /\ Home(s) \in Workspaces /\ s # NoService
BY ServiceAssumption DEF Home

\* A request that is accepted starts a task for its service, which had none.
LEMMA Asked ==
  ASSUME Shape, NEW op \in Ops, NEW s \in Services, NEW d \in Hosts, NEW e \in BOOLEAN,
         NEW pc \in Phases, Request(op, s, d, e, pc)
  PROVE  /\ task' \in [Workspaces -> TaskSet] /\ TaskOf(s)' = task'[Home(s)]
         /\ task'[Home(s)].op = op /\ task'[Home(s)].svc = s /\ task'[Home(s)].pc = pc
         /\ task'[Home(s)].domain = d /\ task'[Home(s)].exposed = e
         /\ task'[Home(s)].backup = NoBackup
         /\ TaskOf(s) = NoTask /\ task[Home(s)] = NoTask
         /\ \A v \in Workspaces \ {Home(s)} : task'[v] = task[v]
         /\ \A v \in Services \ {s} : TaskOf(v)' = TaskOf(v)
         /\ tasks' \in 0..MaxTasks
         /\ UNCHANGED <<db, storage, ingress, presets, nginx, faults, history>>
<1> DEFINE u == [NoTask EXCEPT !.op = op, !.svc = s, !.domain = d, !.exposed = e, !.pc = pc]
<1>1. task[Home(s)] = NoTask
  BY DEF Request, Settled, Idle
<1>2. task' = [task EXCEPT ![Home(s)] = u]
  BY DEF Request
<1>3. u \in TaskSet /\ u.svc = s
  BY NoTaskType DEF TaskSet
<1>4. u.op = op /\ u.pc = pc /\ u.domain = d /\ u.exposed = e /\ u.backup = NoBackup
  BY NoTaskType DEF TaskSet
<1>5. tasks' \in 0..MaxTasks /\ UNCHANGED <<db, storage, ingress, presets, nginx, faults, history>>
  BY BoundsAssumption DEF Request, Shape
<1> HIDE DEF u
<1>6. /\ task' \in [Workspaces -> TaskSet] /\ task'[Home(s)] = u
      /\ \A v \in Workspaces \ {Home(s)} : task'[v] = task[v]
  BY <1>2, <1>3, Homes DEF Shape
<1>7. TaskOf(s)' = task'[Home(s)] /\ TaskOf(s) = NoTask
  BY <1>1, <1>3, <1>6, NoTaskType DEF TaskOf, Svc
<1>8. ASSUME NEW v \in Services \ {s}
      PROVE  TaskOf(v)' = TaskOf(v)
  <2>1. CASE Home(v) = Home(s)
    BY <1>1, <1>3, <1>6, <2>1, NoTaskType, Homes DEF TaskOf, Svc
  <2>2. CASE Home(v) # Home(s)
    BY <1>6, <2>2, Homes DEF TaskOf, Svc
  <2>3. QED  BY <2>1, <2>2
<1>9. QED  BY <1>1, <1>3, <1>4, <1>5, <1>6, <1>7, <1>8

\* A step of a task is one of the task of its service, and of no other service.
LEMMA OfTask ==
  ASSUME Plans, NEW w \in Workspaces, task[w].pc # "end",
         \A v \in Workspaces \ {w} : task'[v] = task[v],
         task'[w] = NoTask \/ task'[w].svc = task[w].svc
  PROVE  /\ Svc(w) \in Services /\ Home(Svc(w)) = w
         /\ \A s \in Services \ {Svc(w)} : TaskOf(s)' = TaskOf(s)
         /\ \A x \in Services : x = Svc(w) => TaskOf(x) = task[w] /\ TaskOf(x)' = task'[w]
<1>1. Svc(w) \in Services /\ Home(Svc(w)) = w
  BY DEF Plans, Plan
<1>2. ASSUME NEW s \in Services \ {Svc(w)}
      PROVE  TaskOf(s)' = TaskOf(s)
  BY <1>1, <1>2, Homes, NoTaskType DEF TaskOf, Svc
<1>3. ASSUME NEW x \in Services, x = Svc(w)
      PROVE  TaskOf(x) = task[w] /\ TaskOf(x)' = task'[w]
  BY <1>1, <1>3, Homes, NoTaskType DEF TaskOf, Svc
<1>4. QED  BY <1>1, <1>2, <1>3

\* What the invariant says of the service of a task.
LEMMA Actor ==
  ASSUME IInv, NEW w \in Workspaces, task[w].pc # "end"
  PROVE  /\ Svc(w) \in Services /\ Home(Svc(w)) = w /\ Ns(w) \in Namespaces
         /\ WorkspaceOf[Ns(w)] = w
         /\ task[w] \in TaskSet /\ task[w].op \in OpsIn(task[w].pc)
         /\ task[w].domain \in Hosts /\ task[w].old \in Hosts /\ task[w].backup \in Backup
         /\ task[w].exposed \in BOOLEAN
         /\ Rows(Svc(w), task[w]) /\ Storage(Svc(w), task[w])
         /\ Rules(Svc(w), task[w]) /\ Blocks(Svc(w), task[w])
<1>1. Svc(w) \in Services /\ Home(Svc(w)) = w /\ task[w].op \in OpsIn(task[w].pc)
  BY DEF IInv, Plans, Plan
<1>2. TaskOf(Svc(w)) = task[w]
  BY <1>1 DEF TaskOf
<1>3. task[w] \in TaskSet
  BY DEF IInv, Shape
<1>4. /\ task[w].domain \in Hosts /\ task[w].old \in Hosts /\ task[w].backup \in Backup
      /\ task[w].exposed \in BOOLEAN
  BY <1>3 DEF TaskSet
<1>5. Followed(Svc(w))
  BY <1>1 DEF IInv
<1>6. QED  BY <1>1, <1>2, <1>3, <1>4, <1>5, Homes DEF Followed, Ns, Home

----------------------------------------------------------------------------
(* What the steps do to rows.                                              *)

\* RestoreDomain writes a domain, or leaves the task stuck.
LEMMA RestoredRow ==
  ASSUME Shape, NEW w \in Workspaces, NEW x \in Routed, x = Svc(w), task[w].domain \in Hosts,
         RestoreDomain(w)
  PROVE  /\ route' \in Routes /\ DOMAIN route' = Routed
         /\ route'[x].port = route[x].port
         /\ \A s \in Routed \ {x} : route'[s] = route[s]
         /\ \/ Goto(w, "stuck") /\ route' = route /\ task[w].op # "bind"
            \/ Finish(w) /\ route'[x].domain = IF task[w].op = "bind" THEN NoDomain ELSE task[w].domain
<1> DEFINE d == IF task[w].op = "bind" THEN NoDomain ELSE task[w].domain
<1>1. d \in Hosts
  BY DEF Hosts
<1>2. CASE NoSuchDomain(d)
  <2>1. Goto(w, "stuck") /\ route' = route
    BY <1>2 DEF RestoreDomain
  <2>2. task[w].op # "bind"
    BY <1>2, ServiceAssumption DEF NoSuchDomain
  <2>3. QED  BY <2>1, <2>2 DEF Shape, Routed
<1>3. CASE ~NoSuchDomain(d)
  <2>1. Finish(w) /\ Rehosted(x, d)
    BY <1>3 DEF RestoreDomain, Rehosted
  <2>2. route \in Routes
    BY DEF Shape
  <2>3. /\ route' \in Routes /\ DOMAIN route' = Routed
        /\ route'[x].port = route[x].port /\ route'[x].domain = d
        /\ \A s \in Routed \ {x} : route'[s] = route[s]
    BY <1>1, <2>1, <2>2, DomainWritten
  <2>4. QED  BY <2>1, <2>3
<1>4. QED  BY <1>2, <1>3

\* The catch blocks: a provisioning loses its route, a binding keeps it.
LEMMA RolledBack ==
  ASSUME IInv, NEW w \in Workspaces, NEW x \in Services, x = Svc(w), NEW apart,
         At(w, "ingress") \/ At(w, "balancer"), task[w].op # "deprovision", RollBack(w, apart)
  PROVE  /\ route' \in Routes
         /\ \A s \in Routed \ {x} : route'[s] = route[s]
         /\ task[w].op = "provision" =>
              /\ Goto(w, "undo") /\ DOMAIN route' = Routed \ {x} /\ blank' = blank \cup {Ns(w)}
         /\ task[w].op # "provision" =>
              /\ x \in Routed /\ DOMAIN route' = Routed /\ blank' = blank
              /\ route'[x].port = route[x].port
              /\ \/ Goto(w, "stuck") /\ route' = route /\ task[w].op = "unbind"
                 \/ /\ Finish(w)
                    /\ route'[x].domain = IF task[w].op = "bind" THEN NoDomain ELSE task[w].domain
<1>1. task[w].op \in {"provision", "bind", "unbind"} /\ task[w].domain \in Hosts /\ Rows(x, task[w])
  BY Actor DEF At, OpsIn, Ops
<1>2. CASE task[w].op = "provision"
  <2>1. Goto(w, "undo") /\ RemoveRoutes(x) /\ blank' = blank \cup {Ns(w)}
    BY <1>2 DEF RollBack
  <2>2. route \in Routes
    BY DEF IInv, Shape
  <2>3. route' \in Routes /\ DOMAIN route' = Routed \ {x} /\ \A s \in Routed \ {x} : route'[s] = route[s]
    BY <2>1, <2>2, RowRemoved
  <2>4. QED  BY <1>2, <2>1, <2>3
<1>3. CASE task[w].op # "provision"
  <2>1. RestoreDomain(w) /\ blank' = blank
    BY <1>3 DEF RollBack
  <2>2. x \in Routed
    BY <1>1, <1>3 DEF Rows
  <2>3. QED  BY <1>1, <1>3, <2>1, <2>2, RestoredRow DEF IInv
<1>4. QED  BY <1>2, <1>3

\* CreateDbRoutes adds a route.
LEMMA CreatedRow ==
  ASSUME Shape, NEW w \in Workspaces, NEW x \in Services, x = Svc(w), task[w].domain \in Hosts,
         CreateDbRoutes(w)
  PROVE  /\ route' \in Routes /\ DOMAIN route' = Routed \cup {x}
         /\ \A s \in Routed \ {x} : route'[s] = route[s]
<1>1. PICK p \in Ports :
        route' = [s \in Routed \cup {x} |->
                    IF s = x THEN [port |-> p, domain |-> task[w].domain] ELSE route[s]]
  BY DEF CreateDbRoutes, DrawnPorts
<1>2. route \in Routes
  BY DEF Shape
<1>3. route' = [s \in DOMAIN route \cup {x} |->
                    IF s = x THEN [port |-> p, domain |-> task[w].domain] ELSE route[s]]
  BY <1>1 DEF Routed
<1>4. QED  BY <1>2, <1>3, RowWritten DEF Routed

\* RowsBound writes a domain and remembers the former one.
LEMMA BoundRow ==
  ASSUME IInv, NEW w \in Workspaces, NEW x \in Services, x = Svc(w), RowsBound(w)
  PROVE  /\ x \in Routed /\ route[x].domain \in Hosts
         /\ route' \in Routes /\ DOMAIN route' = Routed
         /\ \A s \in Routed \ {x} : route'[s] = route[s]
         /\ route'[x].port = route[x].port
         /\ task' \in [Workspaces -> TaskSet] /\ task'[w].pc = "ingress"
         /\ task'[w].op = task[w].op /\ task'[w].svc = task[w].svc
         /\ task'[w].domain = task[w].domain /\ task'[w].old = route[x].domain
         /\ task'[w].exposed = task[w].exposed /\ task'[w].backup = task[w].backup
         /\ \A v \in Workspaces \ {w} : task'[v] = task[v]
<1>1. At(w, "rows") /\ task[w].op \in {"bind", "unbind"}
  BY DEF RowsBound
<1>2. task[w].domain \in Hosts /\ x \in Routed
  BY <1>1, Actor DEF At, Rows
<1>3. route[x].domain \in Hosts
  BY <1>2, RouteRow DEF IInv, Shape
<1>4. DEFINE d == IF task[w].op = "bind" THEN task[w].domain ELSE NoDomain
<1>5. d \in Hosts /\ Rehosted(x, d)
      /\ task' = [task EXCEPT ![w].old = route[x].domain, ![w].pc = "ingress"]
  BY <1>2 DEF Hosts, RowsBound, Rehosted
<1>6. route \in Routes /\ Shape
  BY DEF IInv, Shape
<1>7. /\ route' \in Routes /\ DOMAIN route' = Routed
      /\ route'[x].port = route[x].port
      /\ \A s \in Routed \ {x} : route'[s] = route[s]
  BY <1>2, <1>5, <1>6, DomainWritten
<1>8. /\ task' \in [Workspaces -> TaskSet] /\ task'[w].pc = "ingress"
      /\ task'[w].op = task[w].op /\ task'[w].svc = task[w].svc
      /\ task'[w].domain = task[w].domain /\ task'[w].old = route[x].domain
      /\ task'[w].exposed = task[w].exposed /\ task'[w].backup = task[w].backup
      /\ \A v \in Workspaces \ {w} : task'[v] = task[v]
  BY <1>3, <1>5, <1>6, BoundTask
<1>9. QED  BY <1>2, <1>3, <1>7, <1>8

----------------------------------------------------------------------------
(* What a step of a task leaves alone.                                     *)

\* After a refused configuration a removal goes on, the other tasks roll back.
LEMMA BackFromBalancer ==
  ASSUME NEW w, BalancerFails(w)
  PROVE  /\ At(w, "balancer") /\ torn \subseteq torn'
         /\ task[w].op = "deprovision" => Goto(w, "again") /\ UNCHANGED <<route, blank>>
         /\ task[w].op # "deprovision" => \E apart : RollBack(w, apart)
         /\ task[w].op \notin {"deprovision", "provision"} => Svc(w) \in torn'
         /\ UNCHANGED <<domains, service, storage, ingress, presets, tasks, leaked, wiped>>
<1> DEFINE stayed == {b.svc : b \in proxy' \ proxy}
           apart == stayed \cup (IF task[w].op = "provision" THEN {} ELSE {Svc(w)})
<1>1. /\ At(w, "balancer")
      /\ UNCHANGED <<domains, service, storage, ingress, presets, tasks, leaked, wiped>>
      /\ IF task[w].op = "deprovision"
           THEN Goto(w, "again") /\ torn' = torn \cup stayed /\ UNCHANGED <<route, blank>>
           ELSE RollBack(w, apart)
  BY DEF BalancerFails
<1>2. task[w].op # "provision" => Svc(w) \in apart
  OBVIOUS
<1> HIDE DEF stayed, apart
<1>3. task[w].op # "deprovision" => torn' = torn \cup apart
  BY <1>1 DEF RollBack
<1>4. QED  BY <1>1, <1>2, <1>3

\* A step changes the task of its workspace.
LEMMA ActTask ==
  ASSUME IInv, NEW w \in Workspaces, Acting(w)
  PROVE  /\ task[w].pc # "end" /\ task' \in [Workspaces -> TaskSet]
         /\ task'[w] = NoTask \/ task'[w].svc = task[w].svc
         /\ \A v \in Workspaces \ {w} : task'[v] = task[v]
<1> USE DEF IInv, At
<1>1. CASE Claimed(w)
  <2>1. /\ task[w].pc \in {"pv", "pvc", "resources"} /\ AfterClaim[task[w].pc] \in Phases
        /\ Goto(w, AfterClaim[task[w].pc])
    BY <1>1 DEF Claimed, AfterClaim, Phases
  <2>2. QED  BY <2>1, GoTask
<1>2. CASE ClaimFails(w)
  <2>1. task[w].pc \in {"pv", "pvc", "resources"} /\ (Finish(w) \/ Goto(w, "unclaim"))
    BY <1>2 DEF ClaimFails, AfterClaim
  <2>2. QED  BY <2>1, GoTask, EndTask DEF Phases
<1>3. CASE ClaimsTakenBack(w)
  BY <1>3, GoTask, EndTask DEF ClaimsTakenBack, Phases
<1>4. CASE Deployed(w)
  BY <1>4, GoTask, EndTask DEF Deployed, Phases
<1>5. CASE DeployRefused(w)
  BY <1>5, GoTask, EndTask DEF DeployRefused, Phases
<1>6. CASE DeployUnanswered(w)
  BY <1>6, GoTask, EndTask DEF DeployUnanswered, Phases
<1>7. CASE CreateRows(w)
  BY <1>7, GoTask, EndTask DEF CreateRows, Phases
<1>8. CASE Undone(w)
  BY <1>8, GoTask, EndTask DEF Undone, Phases
<1>9. CASE UndoFails(w)
  BY <1>9, GoTask, EndTask DEF UndoFails, Phases
<1>10. CASE Restored(w)
  BY <1>10, GoTask, EndTask DEF Restored, Phases
<1>11. CASE RestoreFails(w)
  BY <1>11, GoTask, EndTask DEF RestoreFails, Phases
<1>12. CASE Uninstalled(w)
  BY <1>12, GoTask, EndTask DEF Uninstalled, Phases
<1>13. CASE UninstallFails(w)
  BY <1>13, GoTask, EndTask DEF UninstallFails, Phases
<1>14. CASE Unblock(w)
  BY <1>14, GoTask, EndTask DEF Unblock, Phases
<1>15. CASE UnblockFails(w)
  BY <1>15, GoTask, EndTask DEF UnblockFails, Phases
<1>16. CASE PresetsUpdated(w)
  BY <1>16, GoTask, EndTask DEF PresetsUpdated, Phases
<1>17. CASE PresetsFail(w)
  BY <1>17, GoTask, EndTask DEF PresetsFail, Phases
<1>18. CASE RowsBound(w)
  <2>1. task[w].pc = "rows"
    BY <1>18 DEF RowsBound
  <2>2. Svc(w) \in Services
    BY <2>1, Actor
  <2>3. QED  BY <1>18, <2>1, <2>2, BoundRow
<1>19. CASE RowsFail(w)
  BY <1>19, GoTask, EndTask DEF RowsFail, Phases
<1>20. CASE CommitFails(w)
  BY <1>20, GoTask, EndTask DEF CommitFails, Phases
<1>21. CASE IngressUpdated(w)
  <2> DEFINE b == [there |-> TRUE, rules |-> RulesOf(Svc(w)), listeners |-> listeners[w]]
  <2>1. b \in Backup
    BY DEF Backup, Shape, RulesOf
  <2>2. task' = [task EXCEPT ![w].pc = "balancer", ![w].backup = b] /\ task[w].pc = "ingress"
    BY <1>21 DEF IngressUpdated
  <2>3. QED  BY <2>1, <2>2, UpdatedTask
<1>22. CASE IngressRefused(w)
  <2>1. At(w, "ingress") /\ \E apart : RollBack(w, apart)
    BY <1>22 DEF IngressRefused
  <2>2. Goto(w, "undo") \/ Goto(w, "stuck") \/ Finish(w)
    BY <2>1 DEF RollBack, RestoreDomain
  <2>3. QED  BY <2>1, <2>2, GoTask, EndTask DEF Phases
<1>23. CASE IngressUnanswered(w)
  <2>1. At(w, "ingress") /\ \E apart : RollBack(w, apart)
    BY <1>23 DEF IngressUnanswered
  <2>2. Goto(w, "undo") \/ Goto(w, "stuck") \/ Finish(w)
    BY <2>1 DEF RollBack, RestoreDomain
  <2>3. QED  BY <2>1, <2>2, GoTask, EndTask DEF Phases
<1>24. CASE BalancerUpdated(w)
  BY <1>24, GoTask, EndTask DEF BalancerUpdated, Phases
<1>25. CASE BalancerFails(w)
  <2>1. At(w, "balancer") /\ (Goto(w, "again") \/ \E apart : RollBack(w, apart))
    BY <1>25, BackFromBalancer
  <2>2. Goto(w, "again") \/ Goto(w, "undo") \/ Goto(w, "stuck") \/ Finish(w)
    BY <2>1 DEF RollBack, RestoreDomain
  <2>3. QED  BY <2>1, <2>2, GoTask, EndTask DEF Phases
<1>26. QED
  BY <1>1, <1>2, <1>3, <1>4, <1>5, <1>6, <1>7, <1>8, <1>9, <1>10, <1>11, <1>12, <1>13,
     <1>14, <1>15, <1>16, <1>17, <1>18, <1>19, <1>20, <1>21, <1>22, <1>23, <1>24, <1>25
     DEF Acting, Provision, Deprovision, Publish

\* The task of its service, that is.
LEMMA ActsOn ==
  ASSUME IInv, NEW w \in Workspaces, Acting(w)
  PROVE  /\ Svc(w) \in Services /\ Home(Svc(w)) = w
         /\ \A s \in Services \ {Svc(w)} : TaskOf(s)' = TaskOf(s)
         /\ \A x \in Services : x = Svc(w) => TaskOf(x) = task[w] /\ TaskOf(x)' = task'[w]
BY ActTask, OfTask DEF IInv

\* It changes no other route.
LEMMA ActRoute ==
  ASSUME IInv, NEW w \in Workspaces, NEW x \in Services, x = Svc(w), Acting(w)
  PROVE  /\ route' \in Routes /\ DOMAIN route' \ {x} = Routed \ {x}
         /\ \A s \in Routed \ {x} : route'[s] = route[s]
<1> USE DEF At
<1>1. route \in Routes /\ Shape
  BY DEF IInv, Shape
<1>2. CASE Claimed(w)
  BY <1>2, <1>1 DEF Claimed, db, Routed
<1>3. CASE ClaimFails(w)
  BY <1>3, <1>1 DEF ClaimFails, db, Routed
<1>4. CASE ClaimsTakenBack(w)
  BY <1>4, <1>1 DEF ClaimsTakenBack, db, Routed
<1>5. CASE Deployed(w)
  BY <1>5, <1>1 DEF Deployed, db, Routed
<1>6. CASE DeployRefused(w)
  BY <1>6, <1>1 DEF DeployRefused, db, Routed
<1>7. CASE DeployUnanswered(w)
  BY <1>7, <1>1 DEF DeployUnanswered, db, Routed
<1>8. CASE CreateRows(w)
  <2>1. task[w].pc = "rows" /\ (CreateDbRoutes(w) \/ UNCHANGED route)
    BY <1>8 DEF CreateRows
  <2>2. task[w].domain \in Hosts
    BY <2>1, Actor
  <2>3. CASE CreateDbRoutes(w)
    BY <1>1, <2>2, <2>3, CreatedRow
  <2>4. CASE UNCHANGED route
    BY <1>1, <2>4 DEF Routed
  <2>5. QED  BY <2>1, <2>3, <2>4
<1>9. CASE Undone(w)
  BY <1>9, <1>1 DEF Undone, db, Routed
<1>10. CASE UndoFails(w)
  BY <1>10, <1>1 DEF UndoFails, db, Routed
<1>11. CASE Restored(w)
  BY <1>11, <1>1 DEF Restored, db, Routed
<1>12. CASE RestoreFails(w)
  BY <1>12, <1>1 DEF RestoreFails, db, Routed
<1>13. CASE Uninstalled(w)
  <2>1. RemoveRoutes(x)
    BY <1>13 DEF Uninstalled
  <2>2. QED  BY <1>1, <2>1, RowRemoved
<1>14. CASE UninstallFails(w)
  BY <1>14, <1>1 DEF UninstallFails, db, Routed
<1>15. CASE Unblock(w)
  BY <1>15, <1>1 DEF Unblock, db, Routed
<1>16. CASE UnblockFails(w)
  BY <1>16, <1>1 DEF UnblockFails, db, Routed
<1>17. CASE PresetsUpdated(w)
  BY <1>17, <1>1 DEF PresetsUpdated, db, Routed
<1>18. CASE PresetsFail(w)
  <2>1. RemoveRoutes(x) \/ UNCHANGED route
    BY <1>18 DEF PresetsFail
  <2>2. QED  BY <1>1, <2>1, RowRemoved DEF Routed
<1>19. CASE RowsBound(w)
  BY <1>19, BoundRow
<1>20. CASE RowsFail(w)
  BY <1>20, <1>1 DEF RowsFail, db, Routed
<1>21. CASE CommitFails(w)
  BY <1>21, <1>1 DEF CommitFails, db, Routed
<1>22. CASE IngressUpdated(w)
  BY <1>22, <1>1 DEF IngressUpdated, db, Routed
<1>23. CASE IngressRefused(w)
  <2>1. At(w, "ingress") /\ \E apart : RollBack(w, apart)
    BY <1>23 DEF IngressRefused
  <2>2. task[w].op # "deprovision"
    BY <2>1, Actor DEF OpsIn
  <2>3. QED  BY <2>1, <2>2, RolledBack
<1>24. CASE IngressUnanswered(w)
  <2>1. At(w, "ingress") /\ \E apart : RollBack(w, apart)
    BY <1>24 DEF IngressUnanswered
  <2>2. task[w].op # "deprovision"
    BY <2>1, Actor DEF OpsIn
  <2>3. QED  BY <2>1, <2>2, RolledBack
<1>25. CASE BalancerUpdated(w)
  BY <1>25, <1>1 DEF BalancerUpdated, db, Routed
<1>26. CASE BalancerFails(w)
  <2>1. CASE task[w].op = "deprovision"
    BY <1>26, <1>1, <2>1, BackFromBalancer DEF Routed
  <2>2. CASE task[w].op # "deprovision"
    <3>1. At(w, "balancer") /\ \E apart : RollBack(w, apart)
      BY <1>26, <2>2, BackFromBalancer
    <3>2. QED  BY <2>2, <3>1, RolledBack
  <2>3. QED  BY <2>1, <2>2
<1>27. QED
  BY <1>2, <1>3, <1>4, <1>5, <1>6, <1>7, <1>8, <1>9, <1>10, <1>11, <1>12, <1>13, <1>14,
     <1>15, <1>16, <1>17, <1>18, <1>19, <1>20, <1>21, <1>22, <1>23, <1>24, <1>25, <1>26
     DEF Acting, Provision, Deprovision, Publish

\* Unclaimed takes volume and claim of one service.
LEMMA UnclaimedDef ==
  ASSUME NEW x
  PROVE  /\ Unclaimed(x) \subseteq claims
         /\ \A k \in Kinds : \A s : <<k, s>> \in Unclaimed(x) <=> <<k, s>> \in claims /\ s # x
BY DEF Unclaimed, RemovePersistantVolume, RemovePersistantVolumeClaim, Kinds

\* The steps that make volume and claim.
LEMMA ClaimMade ==
  ASSUME NEW w, task[w].pc \in DOMAIN AfterClaim, NEW x, x = Svc(w), Claim(w)
  PROVE  /\ task[w].pc = "pv" =>
              \A k \in Kinds : \A s : <<k, s>> \in claims' <=> <<k, s>> \in claims \/ (k = "pv" /\ s = x)
         /\ task[w].pc = "pvc" =>
              \A k \in Kinds : \A s : <<k, s>> \in claims' <=> <<k, s>> \in claims \/ (k = "pvc" /\ s = x)
         /\ task[w].pc = "resources" => claims' = claims
         /\ task[w].pc \in {"pv", "pvc", "resources"}
         /\ claims' \subseteq claims \cup ({"pv", "pvc"} \X {x})
<1> USE DEF Claim, At, DeployPersistantVolume, DeployPersistantVolumeClaim, Kinds
<1>1. task[w].pc \in {"pv", "pvc", "resources"}
  BY DEF AfterClaim
<1>2. CASE task[w].pc = "pv"
  <2>1. claims' = claims \cup {<<"pv", x>>}
    BY <1>2
  <2>2. QED  BY <1>2, <2>1
<1>3. CASE task[w].pc = "pvc"
  <2>1. claims' = claims \cup {<<"pvc", x>>}
    BY <1>3
  <2>2. QED  BY <1>3, <2>1
<1>4. CASE task[w].pc = "resources"
  BY <1>4
<1>5. QED  BY <1>1, <1>2, <1>3, <1>4

\* What DeleteK8SService does to release and claims.
LEMMA Uninstallation ==
  ASSUME NEW w, NEW x, x = Svc(w), DeleteK8SService(w)
  PROVE  /\ x \in release /\ release' = release \ {x} /\ claims' \subseteq claims
         /\ \A k \in Kinds : \A s : <<k, s>> \in claims' <=> <<k, s>> \in claims /\ s # x
         /\ CleanupIngressRules(w, x)
BY UnclaimedDef DEF DeleteK8SService, HelmUninstall

\* What it does when it stops half-way.
LEMMA HalfUninstallation ==
  ASSUME NEW w, NEW x, x = Svc(w), HalfDeleted(w)
  PROVE  /\ x \in release /\ release' = release \ {x} /\ claims' \subseteq claims
         /\ \A k \in Kinds : \A s : s # x => (<<k, s>> \in claims' <=> <<k, s>> \in claims)
         /\ CleanupIngressRules(w, x) \/ UNCHANGED ingress
BY Uninstallation DEF HalfDeleted, HelmUninstall

\* A step changes rows, releases, claims and history of its service only.
LEMMA OthersKept ==
  ASSUME IInv, NEW w \in Workspaces, NEW x \in Services, x = Svc(w), Acting(w),
         NEW s \in Services \ {x}
  PROVE  /\ s \in service' <=> s \in service
         /\ s \in release' <=> s \in release
         /\ \A k \in Kinds : <<k, s>> \in claims' <=> <<k, s>> \in claims
         /\ s \in leaked' <=> s \in leaked
         /\ s \in torn => s \in torn'
<1> USE DEF db, storage, history, At
<1>1. CASE Claimed(w)
  BY <1>1, ClaimMade DEF Claimed
<1>2. CASE ClaimFails(w)
  BY <1>2, ClaimMade DEF ClaimFails
<1>3. CASE ClaimsTakenBack(w)
  BY <1>3, UnclaimedDef DEF ClaimsTakenBack
<1>4. CASE Deployed(w)
  BY <1>4 DEF Deployed, HelmInstall
<1>5. CASE DeployRefused(w)
  BY <1>5 DEF DeployRefused
<1>6. CASE DeployUnanswered(w)
  BY <1>6 DEF DeployUnanswered, HelmInstall
<1>7. CASE CreateRows(w)
  BY <1>7 DEF CreateRows
<1>8. CASE Undone(w)
  BY <1>8, Uninstallation DEF Undone
<1>9. CASE UndoFails(w)
  BY <1>9, HalfUninstallation DEF UndoFails
<1>10. CASE Restored(w)
  BY <1>10 DEF Restored
<1>11. CASE RestoreFails(w)
  BY <1>11 DEF RestoreFails
<1>12. CASE Uninstalled(w)
  BY <1>12, Uninstallation DEF Uninstalled
<1>13. CASE UninstallFails(w)
  BY <1>13, HalfUninstallation DEF UninstallFails
<1>14. CASE Unblock(w)
  BY <1>14 DEF Unblock
<1>15. CASE UnblockFails(w)
  BY <1>15 DEF UnblockFails
<1>16. CASE PresetsUpdated(w)
  BY <1>16 DEF PresetsUpdated
<1>17. CASE PresetsFail(w)
  BY <1>17 DEF PresetsFail
<1>18. CASE RowsBound(w)
  BY <1>18 DEF RowsBound
<1>19. CASE RowsFail(w)
  BY <1>19 DEF RowsFail
<1>20. CASE CommitFails(w)
  BY <1>20 DEF CommitFails
<1>21. CASE IngressUpdated(w)
  BY <1>21 DEF IngressUpdated
<1>22. CASE IngressRefused(w)
  BY <1>22 DEF IngressRefused, RollBack
<1>23. CASE IngressUnanswered(w)
  BY <1>23 DEF IngressUnanswered, RollBack
<1>24. CASE BalancerUpdated(w)
  BY <1>24 DEF BalancerUpdated
<1>25. CASE BalancerFails(w)
  BY <1>25, BackFromBalancer
<1>26. QED
  BY <1>1, <1>2, <1>3, <1>4, <1>5, <1>6, <1>7, <1>8, <1>9, <1>10, <1>11, <1>12, <1>13,
     <1>14, <1>15, <1>16, <1>17, <1>18, <1>19, <1>20, <1>21, <1>22, <1>23, <1>24, <1>25
     DEF Acting, Provision, Deprovision, Publish

\* The ingress update keeps the rules of other services.
LEMMA RuleApplied ==
  ASSUME NEW w, NEW x, x = Svc(w), WriteRules(w)
  PROVE  \A s \in Services \ {x} : RulesOf(s)' = RulesOf(s)
<1>1. Rule(x).svc = x
  BY DEF Rule, HttpRule, TcpRule
<1>2. rules' = {r \in rules : ~(r.svc = x /\ r.port = route[x].port)} \cup {Rule(x)}
  BY DEF WriteRules, ApplyRule
<1>3. QED  BY <1>1, <1>2 DEF RulesOf

\* So does the clean-up.
LEMMA RuleRemoved ==
  ASSUME NEW w, NEW x, CleanupIngressRules(w, x)
  PROVE  \A s \in Services \ {x} : RulesOf(s)' = RulesOf(s)
<1>1. TcpRule(x).svc = x
  BY DEF TcpRule
<1>2. rules' = rules \ {TcpRule(x)} \/ rules' = rules
  BY DEF CleanupIngressRules, ingress
<1>3. QED  BY <1>1, <1>2 DEF RulesOf

\* A step changes the rules of its service only: a backup holds its own.
LEMMA RulesKept ==
  ASSUME IInv, NEW w \in Workspaces, NEW x \in Services, x = Svc(w), Acting(w),
         NEW s \in Services \ {x}
  PROVE  RulesOf(s)' = RulesOf(s)
<1>1. rules' = rules => RulesOf(s)' = RulesOf(s)
  BY DEF RulesOf
<1> USE DEF ingress, At
<1>2. CASE Claimed(w)
  BY <1>2, <1>1 DEF Claimed
<1>3. CASE ClaimFails(w)
  BY <1>3, <1>1 DEF ClaimFails
<1>4. CASE ClaimsTakenBack(w)
  BY <1>4, <1>1 DEF ClaimsTakenBack
<1>5. CASE Deployed(w)
  BY <1>5, <1>1 DEF Deployed
<1>6. CASE DeployRefused(w)
  BY <1>6, <1>1 DEF DeployRefused
<1>7. CASE DeployUnanswered(w)
  BY <1>7, <1>1 DEF DeployUnanswered
<1>8. CASE CreateRows(w)
  BY <1>8, <1>1 DEF CreateRows
<1>9. CASE Undone(w)
  BY <1>9, RuleRemoved, Uninstallation DEF Undone
<1>10. CASE UndoFails(w)
  BY <1>10, <1>1, RuleRemoved, HalfUninstallation DEF UndoFails
<1>11. CASE Restored(w)
  <2>1. \A r \in task[w].backup.rules : r.svc = x
    BY <1>11, Actor DEF Restored, Rules, OwnBackup
  <2>2. rules' = (rules \ RulesOf(x)) \cup task[w].backup.rules
    BY <1>11 DEF Restored, RollbackK8SResources
  <2>3. QED  BY <2>1, <2>2 DEF RulesOf
<1>12. CASE RestoreFails(w)
  BY <1>12, <1>1 DEF RestoreFails
<1>13. CASE Uninstalled(w)
  BY <1>13, Uninstallation, RuleRemoved DEF Uninstalled
<1>14. CASE UninstallFails(w)
  BY <1>14, <1>1, RuleRemoved, HalfUninstallation DEF UninstallFails
<1>15. CASE Unblock(w)
  BY <1>15, <1>1 DEF Unblock
<1>16. CASE UnblockFails(w)
  BY <1>16, <1>1 DEF UnblockFails
<1>17. CASE PresetsUpdated(w)
  BY <1>17, <1>1 DEF PresetsUpdated
<1>18. CASE PresetsFail(w)
  BY <1>18, <1>1 DEF PresetsFail
<1>19. CASE RowsBound(w)
  BY <1>19, <1>1 DEF RowsBound
<1>20. CASE RowsFail(w)
  BY <1>20, <1>1 DEF RowsFail
<1>21. CASE CommitFails(w)
  BY <1>21, <1>1 DEF CommitFails
<1>22. CASE IngressUpdated(w)
  BY <1>22, RuleApplied DEF IngressUpdated
<1>23. CASE IngressRefused(w)
  BY <1>23, <1>1 DEF IngressRefused
<1>24. CASE IngressUnanswered(w)
  BY <1>24, RuleApplied DEF IngressUnanswered
<1>25. CASE BalancerUpdated(w)
  BY <1>25, <1>1 DEF BalancerUpdated
<1>26. CASE BalancerFails(w)
  BY <1>26, <1>1 DEF BalancerFails
<1>27. QED
  BY <1>2, <1>3, <1>4, <1>5, <1>6, <1>7, <1>8, <1>9, <1>10, <1>11, <1>12, <1>13, <1>14,
     <1>15, <1>16, <1>17, <1>18, <1>19, <1>20, <1>21, <1>22, <1>23, <1>24, <1>25, <1>26
     DEF Acting, Provision, Deprovision, Publish

----------------------------------------------------------------------------
(* Types.                                                                  *)

\* Rules and blocks of a row.
LEMMA RowEntries ==
  ASSUME Shape, NEW s \in Routed
  PROVE  /\ s \in Services /\ Rule(s) \in Entry /\ HttpBlock(s) \in Entry /\ TcpBlock(s) \in Entry
         /\ route[s].port \in Ports
<1>1. s \in Services /\ route[s].port \in Ports /\ route[s].domain \in Hosts /\ NoDomain \in Hosts
  BY RouteRow DEF Shape, Hosts
<1>2. QED  BY <1>1 DEF Rule, HttpRule, TcpRule, HttpBlock, TcpBlock, Entry

\* Stream ports are ports.
LEMMA StreamPortsType ==
  ASSUME Shape, NEW w, NEW R, R \subseteq Routed
  PROVE  StreamPorts(w, R) \subseteq Ports
BY RowEntries DEF StreamPorts

\* UpdateGlobalTCP sets the listeners of one workspace.
LEMMA ListenersTold ==
  ASSUME Shape, NEW w \in Workspaces, NEW R, R \subseteq Routed, UpdateGlobalTCP(w, R)
  PROVE  /\ listeners' \in [Workspaces -> SUBSET Ports] /\ listeners'[w] = StreamPorts(w, R)
         /\ \A v \in Workspaces \ {w} : listeners'[v] = listeners[v]
<1> DEFINE P == StreamPorts(w, R)
<1>1. P \in SUBSET Ports
  BY StreamPortsType
<1>2. listeners' = [listeners EXCEPT ![w] = P] /\ listeners \in [Workspaces -> SUBSET Ports]
  BY DEF UpdateGlobalTCP, Shape
<1> HIDE DEF P
<1>3. QED  BY <1>1, <1>2 DEF P

\* A service whose ingress is updated has a route.
LEMMA AtIngress ==
  ASSUME IInv, NEW w \in Workspaces, NEW x \in Services, x = Svc(w), At(w, "ingress")
  PROVE  x \in Routed /\ task[w].op \in {"provision", "bind", "unbind"}
<1>1. task[w].op \in {"provision", "bind", "unbind"} /\ Rows(x, task[w])
  BY Actor DEF At, OpsIn
<1>2. QED  BY <1>1 DEF Rows, Provisions, At

\* WriteRules writes the rule of the row, and the listeners for a stream.
LEMMA RulesWritten ==
  ASSUME Shape, NEW w \in Workspaces, NEW x \in Routed, x = Svc(w), WriteRules(w)
  PROVE  /\ rules' = {r \in rules : ~(r.svc = x /\ r.port = route[x].port)} \cup {Rule(x)}
         /\ rules' \subseteq Entry /\ listeners' \in [Workspaces -> SUBSET Ports]
         /\ x \in Streams => listeners'[w] = StreamPorts(w, Routed)
         /\ x \notin Streams => listeners' = listeners
         /\ \A v \in Workspaces \ {w} : listeners'[v] = listeners[v]
<1>1. rules' = {r \in rules : ~(r.svc = x /\ r.port = route[x].port)} \cup {Rule(x)}
  BY DEF WriteRules, ApplyRule
<1>2. Rule(x) \in Entry /\ rules \subseteq Entry
  BY RowEntries DEF Shape
<1>3. CASE x \in Streams
  <2>1. UpdateGlobalTCP(w, Routed)
    BY <1>3 DEF WriteRules
  <2>2. QED  BY <1>1, <1>2, <1>3, <2>1, ListenersTold
<1>4. CASE x \notin Streams
  BY <1>1, <1>2, <1>4 DEF WriteRules, Shape
<1>5. QED  BY <1>3, <1>4

\* CleanupIngressRules takes rule and listener of a stream that has a route.
LEMMA CleanedUp ==
  ASSUME Shape, NEW w \in Workspaces, NEW x, CleanupIngressRules(w, x)
  PROVE  /\ rules' \subseteq rules /\ listeners' \in [Workspaces -> SUBSET Ports]
         /\ x \in Routed \cap Streams =>
              rules' = rules \ {TcpRule(x)} /\ listeners'[w] = StreamPorts(w, Routed \ {x})
         /\ x \notin Routed \cap Streams => rules' = rules /\ listeners' = listeners
         /\ \A v \in Workspaces \ {w} : listeners'[v] = listeners[v]
<1>1. CASE x \in Routed \cap Streams
  <2>1. UpdateGlobalTCP(w, Routed \ {x}) /\ rules' = rules \ {TcpRule(x)}
    BY <1>1 DEF CleanupIngressRules
  <2>2. QED  BY <1>1, <2>1, ListenersTold
<1>2. CASE x \notin Routed \cap Streams
  BY <1>2 DEF CleanupIngressRules, Shape, ingress
<1>3. QED  BY <1>1, <1>2

\* RollbackK8SResources puts the backup back.
LEMMA RestoredRules ==
  ASSUME IInv, NEW w \in Workspaces, task[w].pc # "end", NEW x \in Services, x = Svc(w), RollbackK8SResources(w)
  PROVE  /\ rules' = (rules \ RulesOf(x)) \cup task[w].backup.rules
         /\ rules' \subseteq Entry /\ listeners' \in [Workspaces -> SUBSET Ports]
         /\ x \in Streams => listeners'[w] = task[w].backup.listeners
         /\ x \notin Streams => listeners' = listeners
         /\ \A v \in Workspaces \ {w} : listeners'[v] = listeners[v]
<1>1. rules' = (rules \ RulesOf(x)) \cup task[w].backup.rules
      /\ listeners' = IF x \in Streams THEN [listeners EXCEPT ![w] = task[w].backup.listeners]
                      ELSE listeners
  BY DEF RollbackK8SResources
<1>2. task[w].backup.rules \subseteq Entry /\ task[w].backup.listeners \in SUBSET Ports
  BY Actor DEF Backup
<1>3. rules \subseteq Entry /\ listeners \in [Workspaces -> SUBSET Ports]
  BY DEF IInv, Shape
<1>4. rules' \subseteq Entry
  BY <1>1, <1>2, <1>3
<1>5. CASE x \in Streams
  BY <1>1, <1>2, <1>3, <1>4, <1>5
<1>6. CASE x \notin Streams
  BY <1>1, <1>3, <1>4, <1>6
<1>7. QED  BY <1>5, <1>6

\* Rules and listeners keep their types; other workspaces keep their listeners.
LEMMA ActIngress ==
  ASSUME IInv, NEW w \in Workspaces, NEW x \in Services, x = Svc(w), Acting(w)
  PROVE  /\ rules' \subseteq Entry /\ listeners' \in [Workspaces -> SUBSET Ports]
         /\ \A v \in Workspaces \ {w} : listeners'[v] = listeners[v]
<1>1. /\ UNCHANGED ingress => /\ rules' \subseteq Entry /\ listeners' \in [Workspaces -> SUBSET Ports]
                              /\ \A v \in Workspaces \ {w} : listeners'[v] = listeners[v]
      /\ rules \subseteq Entry /\ Shape
  BY DEF IInv, Shape, ingress
<1> USE DEF At
<1>2. CASE Claimed(w)
  BY <1>2, <1>1 DEF Claimed, ingress
<1>3. CASE ClaimFails(w)
  BY <1>3, <1>1 DEF ClaimFails, ingress
<1>4. CASE ClaimsTakenBack(w)
  BY <1>4, <1>1 DEF ClaimsTakenBack, ingress
<1>5. CASE Deployed(w)
  BY <1>5, <1>1 DEF Deployed, ingress
<1>6. CASE DeployRefused(w)
  BY <1>6, <1>1 DEF DeployRefused, ingress
<1>7. CASE DeployUnanswered(w)
  BY <1>7, <1>1 DEF DeployUnanswered, ingress
<1>8. CASE CreateRows(w)
  BY <1>8, <1>1 DEF CreateRows, ingress
<1>9. CASE Undone(w)
  BY <1>9, <1>1, Uninstallation, CleanedUp DEF Undone
<1>10. CASE UndoFails(w)
  BY <1>10, <1>1, HalfUninstallation, CleanedUp DEF UndoFails, ingress
<1>11. CASE Restored(w)
  BY <1>11, RestoredRules DEF Restored
<1>12. CASE RestoreFails(w)
  BY <1>12, <1>1 DEF RestoreFails, ingress
<1>13. CASE Uninstalled(w)
  BY <1>13, <1>1, Uninstallation, CleanedUp DEF Uninstalled
<1>14. CASE UninstallFails(w)
  BY <1>14, <1>1, HalfUninstallation, CleanedUp DEF UninstallFails, ingress
<1>15. CASE Unblock(w)
  BY <1>15, <1>1 DEF Unblock, ingress
<1>16. CASE UnblockFails(w)
  BY <1>16, <1>1 DEF UnblockFails, ingress
<1>17. CASE PresetsUpdated(w)
  BY <1>17, <1>1 DEF PresetsUpdated, ingress
<1>18. CASE PresetsFail(w)
  BY <1>18, <1>1 DEF PresetsFail, ingress
<1>19. CASE RowsBound(w)
  BY <1>19, <1>1 DEF RowsBound, ingress
<1>20. CASE RowsFail(w)
  BY <1>20, <1>1 DEF RowsFail, ingress
<1>21. CASE CommitFails(w)
  BY <1>21, <1>1 DEF CommitFails, ingress
<1>22. CASE IngressUpdated(w)
  BY <1>22, <1>1, AtIngress, RulesWritten DEF IngressUpdated
<1>23. CASE IngressRefused(w)
  BY <1>23, <1>1 DEF IngressRefused, ingress
<1>24. CASE IngressUnanswered(w)
  BY <1>24, <1>1, AtIngress, RulesWritten DEF IngressUnanswered
<1>25. CASE BalancerUpdated(w)
  BY <1>25, <1>1 DEF BalancerUpdated, ingress
<1>26. CASE BalancerFails(w)
  BY <1>26, <1>1 DEF BalancerFails, ingress
<1>27. QED
  BY <1>2, <1>3, <1>4, <1>5, <1>6, <1>7, <1>8, <1>9, <1>10, <1>11, <1>12, <1>13, <1>14,
     <1>15, <1>16, <1>17, <1>18, <1>19, <1>20, <1>21, <1>22, <1>23, <1>24, <1>25, <1>26
     DEF Acting, Provision, Deprovision, Publish

\* The blocks that are generated are entries.
LEMMA GeneratedBlocks ==
  ASSUME Shape, NEW n
  PROVE  HttpGenerated(proxy, n) \subseteq Entry /\ Generated(n) \subseteq Entry
<1> DEFINE C == HttpGenerated(proxy, n)
<1>1. \A s \in ServicesForWsRoutes(n) : HttpBlock(s) \in Entry /\ TcpBlock(s) \in Entry
  BY RowEntries DEF ServicesForWsRoutes
<1>2. C \subseteq Entry
  BY <1>1 DEF HttpGenerated, HttpCleared, Shape
<1> HIDE DEF C
<1>3. TcpGenerated(C, n) \subseteq Entry
  BY <1>1, <1>2 DEF TcpGenerated, TcpCleared
<1>4. QED  BY <1>2, <1>3 DEF Generated, C

\* A refused configuration takes nobody's block; the services whose block stays although
\* they are rolled back are torn.
LEMMA FailedBalancer ==
  ASSUME IInv, NEW w \in Workspaces, NEW x \in Services, x = Svc(w), BalancerFails(w)
  PROVE  /\ proxy \subseteq proxy' /\ proxy' \subseteq Entry /\ empty' \in BOOLEAN
         /\ torn' \subseteq Services
         /\ \A b \in proxy' \ proxy : b.svc \in torn'
         /\ \A s \in Services : s \notin torn' => BlocksOf(s)' = BlocksOf(s)
         /\ Fresh'
<1> DEFINE stayed == {b.svc : b \in proxy' \ proxy}
<1>1. Fresh /\ Shape
  BY DEF IInv
<1>2. \/ UNCHANGED nginx
      \/ proxy' = (IF empty THEN HttpGenerated(proxy, Ns(w)) ELSE proxy) /\ empty' = FALSE
  BY DEF BalancerFails
<1>3. proxy \subseteq proxy' /\ proxy' \subseteq Entry /\ empty' \in BOOLEAN /\ Fresh'
  <2>1. CASE UNCHANGED nginx
    BY <1>1, <2>1 DEF Fresh, Shape
  <2>2. CASE empty /\ proxy' = HttpGenerated(proxy, Ns(w)) /\ empty' = FALSE
    <3>1. proxy = {}
      BY <1>1, <2>2 DEF Fresh
    <3>2. proxy' \subseteq Entry
      BY <1>1, <2>2, GeneratedBlocks
    <3>3. QED  BY <2>2, <3>1, <3>2 DEF Fresh
  <2>3. CASE ~empty /\ proxy' = proxy /\ empty' = FALSE
    BY <1>1, <2>3 DEF Fresh, Shape
  <2>4. QED  BY <1>2, <2>1, <2>2, <2>3
<1>4. stayed \subseteq Services
  BY <1>3 DEF Entry
<1>5. \/ torn' = torn \cup stayed
      \/ torn' = torn \cup (stayed \cup (IF task[w].op = "provision" THEN {} ELSE {x}))
  BY DEF BalancerFails, RollBack
<1>6. \A b \in proxy' \ proxy : b.svc \in stayed
  OBVIOUS
<1> HIDE DEF stayed
<1>7. torn' \subseteq Services
  BY <1>1, <1>4, <1>5 DEF Shape
<1>8. \A b \in proxy' \ proxy : b.svc \in torn'
  BY <1>5, <1>6
<1>9. ASSUME NEW s \in Services, s \notin torn'
      PROVE  BlocksOf(s)' = BlocksOf(s)
  BY <1>3, <1>8, <1>9 DEF BlocksOf
<1>10. QED  BY <1>3, <1>7, <1>8, <1>9

\* A preset names services.
LEMMA PresetsType ==
  ASSUME Shape, NEW n
  PROVE  PresetOf(n) \subseteq Services
BY RouteRow DEF PresetOf, ServicesForWsRoutes, Shape

\* The sets and counters keep their types.
LEMMA SetsTyped ==
  ASSUME IInv, NEW w \in Workspaces, NEW x \in Services, x = Svc(w), Acting(w)
  PROVE  /\ domains' \subseteq Domains /\ service' \subseteq Services
         /\ release' \subseteq Services /\ claims' \subseteq {"pv", "pvc"} \X Services
         /\ proxy' \subseteq Entry /\ empty' \in BOOLEAN
         /\ torn' \subseteq Services /\ leaked' \subseteq Services
         /\ wiped' \subseteq Services /\ blank' \subseteq Namespaces
         /\ tasks' \in 0..MaxTasks /\ faults' \in 0..MaxFaults
<1>1. Ns(w) \in Namespaces
  BY Homes DEF Ns
<1>2. \A C : LostBlocks(C) \subseteq Services
  BY RouteRow DEF LostBlocks, IInv, Shape
<1> USE BoundsAssumption DEF IInv, Shape, db, storage, history, Fault
<1>3. CASE Claimed(w)
  BY <1>3, ClaimMade DEF Claimed
<1>4. CASE ClaimFails(w)
  BY <1>4, ClaimMade DEF ClaimFails
<1>5. CASE ClaimsTakenBack(w)
  BY <1>5, UnclaimedDef DEF ClaimsTakenBack
<1>6. CASE Deployed(w)
  BY <1>6 DEF Deployed, HelmInstall
<1>7. CASE DeployRefused(w)
  BY <1>7 DEF DeployRefused
<1>8. CASE DeployUnanswered(w)
  BY <1>8 DEF DeployUnanswered, HelmInstall
<1>9. CASE CreateRows(w)
  BY <1>9 DEF CreateRows
<1>10. CASE Undone(w)
  BY <1>10, Uninstallation DEF Undone
<1>11. CASE UndoFails(w)
  BY <1>11, HalfUninstallation DEF UndoFails
<1>12. CASE Restored(w)
  BY <1>12 DEF Restored
<1>13. CASE RestoreFails(w)
  BY <1>13 DEF RestoreFails
<1>14. CASE Uninstalled(w)
  BY <1>14, Uninstallation DEF Uninstalled
<1>15. CASE UninstallFails(w)
  BY <1>15, HalfUninstallation DEF UninstallFails
<1>16. CASE Unblock(w)
  BY <1>16, <1>2 DEF Unblock
<1>17. CASE UnblockFails(w)
  BY <1>17 DEF UnblockFails
<1>18. CASE PresetsUpdated(w)
  BY <1>18 DEF PresetsUpdated
<1>19. CASE PresetsFail(w)
  BY <1>19, <1>1 DEF PresetsFail
<1>20. CASE RowsBound(w)
  BY <1>20 DEF RowsBound
<1>21. CASE RowsFail(w)
  BY <1>21 DEF RowsFail
<1>22. CASE CommitFails(w)
  BY <1>22 DEF CommitFails
<1>23. CASE IngressUpdated(w)
  BY <1>23 DEF IngressUpdated
<1>24. CASE IngressRefused(w)
  BY <1>24, <1>1 DEF IngressRefused, RollBack
<1>25. CASE IngressUnanswered(w)
  BY <1>25, <1>1 DEF IngressUnanswered, RollBack
<1>26. CASE BalancerUpdated(w)
  BY <1>26, <1>2, GeneratedBlocks DEF BalancerUpdated
<1>27. CASE BalancerFails(w)
  <2>1. blank' \in {blank, blank \cup {Ns(w)}}
    BY <1>27, BackFromBalancer DEF RollBack
  <2>2. faults' \in 0..MaxFaults
    BY <1>27 DEF BalancerFails
  <2>3. QED  BY <1>27, <1>1, <2>1, <2>2, BackFromBalancer, FailedBalancer
<1>28. QED
  BY <1>3, <1>4, <1>5, <1>6, <1>7, <1>8, <1>9, <1>10, <1>11, <1>12, <1>13, <1>14,
     <1>15, <1>16, <1>17, <1>18, <1>19, <1>20, <1>21, <1>22, <1>23, <1>24, <1>25,
     <1>26, <1>27
     DEF Acting, Provision, Deprovision, Publish

\* A step changes the preset of its namespace only.
LEMMA ActPresets ==
  ASSUME IInv, NEW w \in Workspaces, NEW x \in Services, x = Svc(w), Acting(w)
  PROVE  /\ presets' \in [Namespaces -> SUBSET Services]
         /\ \A n \in Namespaces \ {Ns(w)} : presets'[n] = presets[n]
<1>1. Ns(w) \in Namespaces /\ PresetOf(Ns(w)) \in SUBSET Services
  BY Homes, PresetsType DEF Ns, IInv
<1>2. presets \in [Namespaces -> SUBSET Services]
  BY DEF IInv, Shape
<1>3. ASSUME NEW P \in SUBSET Services, presets' = [presets EXCEPT ![Ns(w)] = P]
     PROVE  /\ presets' \in [Namespaces -> SUBSET Services]
            /\ \A n \in Namespaces \ {Ns(w)} : presets'[n] = presets[n]
  BY <1>1, <1>2, <1>3
<1>4. CASE Claimed(w)
  BY <1>4, <1>2 DEF Claimed
<1>5. CASE ClaimFails(w)
  BY <1>5, <1>2 DEF ClaimFails
<1>6. CASE ClaimsTakenBack(w)
  BY <1>6, <1>2 DEF ClaimsTakenBack
<1>7. CASE Deployed(w)
  BY <1>7, <1>2 DEF Deployed
<1>8. CASE DeployRefused(w)
  BY <1>8, <1>2 DEF DeployRefused
<1>9. CASE DeployUnanswered(w)
  BY <1>9, <1>2 DEF DeployUnanswered
<1>10. CASE CreateRows(w)
  BY <1>10, <1>2 DEF CreateRows
<1>11. CASE Undone(w)
  BY <1>11, <1>2 DEF Undone
<1>12. CASE UndoFails(w)
  BY <1>12, <1>2 DEF UndoFails
<1>13. CASE Restored(w)
  BY <1>13, <1>2 DEF Restored
<1>14. CASE RestoreFails(w)
  BY <1>14, <1>2 DEF RestoreFails
<1>15. CASE Uninstalled(w)
  BY <1>15, <1>2 DEF Uninstalled
<1>16. CASE UninstallFails(w)
  BY <1>16, <1>2 DEF UninstallFails
<1>17. CASE Unblock(w)
  BY <1>17, <1>2 DEF Unblock
<1>18. CASE UnblockFails(w)
  BY <1>18, <1>2 DEF UnblockFails
<1>19. CASE PresetsUpdated(w)
  BY <1>19, <1>1, <1>3 DEF PresetsUpdated
<1>20. CASE PresetsFail(w)
  <2>1. PICK P \in {presets[Ns(w)], {}, PresetOf(Ns(w))} : presets' = [presets EXCEPT ![Ns(w)] = P]
    BY <1>20 DEF PresetsFail
  <2>2. P \in SUBSET Services
    BY <1>1, <1>2
  <2>3. QED  BY <1>3, <2>1, <2>2
<1>21. CASE RowsBound(w)
  BY <1>21, <1>2 DEF RowsBound
<1>22. CASE RowsFail(w)
  BY <1>22, <1>2 DEF RowsFail
<1>23. CASE CommitFails(w)
  BY <1>23, <1>2 DEF CommitFails
<1>24. CASE IngressUpdated(w)
  BY <1>24, <1>2 DEF IngressUpdated
<1>25. CASE IngressRefused(w)
  BY <1>25, <1>2 DEF IngressRefused
<1>26. CASE IngressUnanswered(w)
  BY <1>26, <1>2 DEF IngressUnanswered
<1>27. CASE BalancerUpdated(w)
  BY <1>27, <1>2 DEF BalancerUpdated
<1>28. CASE BalancerFails(w)
  BY <1>28, <1>2 DEF BalancerFails
<1>29. QED
  BY <1>4, <1>5, <1>6, <1>7, <1>8, <1>9, <1>10, <1>11, <1>12, <1>13, <1>14, <1>15,
     <1>16, <1>17, <1>18, <1>19, <1>20, <1>21, <1>22, <1>23, <1>24, <1>25, <1>26,
     <1>27, <1>28
     DEF Acting, Provision, Deprovision, Publish

----------------------------------------------------------------------------
(* The rows a task relies on.                                              *)

\* The update of the ingress, for the tasks that follow.
LEMMA Updated ==
  ASSUME IInv, NEW w \in Workspaces, IngressUpdated(w)
  PROVE  /\ At(w, "ingress") /\ WriteRules(w)
         /\ task'[w].pc = "balancer" /\ task'[w].op = task[w].op /\ task'[w].svc = task[w].svc
         /\ task'[w].domain = task[w].domain /\ task'[w].old = task[w].old
         /\ task'[w].backup.there /\ task'[w].backup.rules = RulesOf(Svc(w))
         /\ task'[w].backup.listeners = listeners[w]
         /\ UNCHANGED <<db, storage, presets, nginx, tasks, faults, history>>
<1> DEFINE b == [there |-> TRUE, rules |-> RulesOf(Svc(w)), listeners |-> listeners[w]]
<1>1. b \in Backup /\ Shape
  BY DEF Backup, IInv, Shape, RulesOf
<1>2. task' = [task EXCEPT ![w].pc = "balancer", ![w].backup = b]
  BY DEF IngressUpdated
<1>3. b.there /\ b.rules = RulesOf(Svc(w)) /\ b.listeners = listeners[w]
  OBVIOUS
<1> HIDE DEF b
<1>4. /\ task'[w].pc = "balancer" /\ task'[w].op = task[w].op /\ task'[w].svc = task[w].svc
      /\ task'[w].domain = task[w].domain /\ task'[w].old = task[w].old
      /\ task'[w].backup = b
  BY <1>1, <1>2, UpdatedTask
<1>5. QED  BY <1>3, <1>4 DEF IngressUpdated

\* The catch blocks leave the rows the next step relies on.
LEMMA BackRows ==
  ASSUME IInv, NEW w \in Workspaces, NEW x \in Services, x = Svc(w), NEW apart,
         At(w, "ingress") \/ At(w, "balancer"), task[w].op # "deprovision", RollBack(w, apart),
         service' = service
  PROVE  Rows(x, task[w])' /\ (x \in Routed' => x \in service')
<1> USE DEF Rows, Provisions, At
<1>1. /\ task[w].op \in {"provision", "bind", "unbind"} /\ Rows(x, task[w])
      /\ Shape /\ (x \in Routed => x \in service)
  BY Actor DEF OpsIn, Ops, IInv, Shape
<1>2. CASE task[w].op = "provision"
  <2>1. Goto(w, "undo") /\ Routed' = Routed \ {x}
    BY <1>2, RolledBack DEF Routed
  <2>2. task'[w].op = "provision" /\ task'[w].pc = "undo"
    BY <1>1, <1>2, <2>1, GoTask DEF Phases
  <2>3. QED  BY <2>1, <2>2
<1>3. CASE task[w].op # "provision"
  <2>1. /\ x \in Routed /\ Routed' = Routed
        /\ (Goto(w, "stuck") /\ task[w].op = "unbind") \/ Finish(w)
    BY <1>3, RolledBack DEF Routed
  <2>2. CASE Finish(w)
    <3>1. task'[w].op = "none" /\ task'[w].pc = "end"
      BY <1>1, <2>2, EndTask
    <3>2. QED  BY <1>1, <2>1, <3>1
  <2>3. CASE Goto(w, "stuck") /\ task[w].op = "unbind"
    <3>1. task'[w].op = "unbind" /\ task'[w].pc = "stuck"
      BY <1>1, <2>3, GoTask DEF Phases
    <3>2. QED  BY <1>1, <2>1, <3>1
  <2>4. QED  BY <2>1, <2>2, <2>3
<1>4. QED  BY <1>2, <1>3

\* So does every step.
LEMMA ActRows ==
  ASSUME IInv, NEW w \in Workspaces, NEW x \in Services, x = Svc(w), Acting(w)
  PROVE  Rows(x, task[w])' /\ (x \in Routed' => x \in service')
<1>1. /\ task[w].pc # "end" /\ task[w].op \in OpsIn(task[w].pc) /\ Rows(x, task[w])
      /\ Shape /\ (x \in Routed => x \in service)
      /\ route' = route => Routed' = Routed
  BY ActTask, Actor DEF IInv, Shape, Routed
<1>2. task'[w] = NoTask => Rows(x, task[w])'
  BY DEF NoTask, Rows, Provisions
<1> USE DEF At, Rows, Provisions, OpsIn, Ops, db
<1>3. CASE Claimed(w)
  <2>1. /\ task[w].pc \in {"pv", "pvc", "resources"} /\ task[w].op = "provision"
        /\ task[w].pc = "pv" => Goto(w, "pvc")
        /\ task[w].pc = "pvc" => Goto(w, "resources")
        /\ task[w].pc = "resources" => Goto(w, "deploy")
        /\ UNCHANGED db
    BY <1>3, <1>1 DEF Claimed, AfterClaim
  <2>2. QED  BY <1>1, <2>1, GoTask DEF Phases
<1>4. CASE ClaimFails(w)
  <2>1. /\ task[w].pc \in {"pv", "pvc", "resources"} /\ task[w].op = "provision"
        /\ (Finish(w) \/ Goto(w, "unclaim"))
        /\ UNCHANGED db
    BY <1>4, <1>1 DEF ClaimFails, AfterClaim
  <2>2. QED  BY <1>1, <1>2, <2>1, GoTask, EndTask DEF Phases
<1>5. CASE ClaimsTakenBack(w)
  BY <1>5, <1>1, <1>2, GoTask, EndTask DEF ClaimsTakenBack, Phases
<1>6. CASE Deployed(w)
  BY <1>6, <1>1, <1>2, GoTask, EndTask DEF Deployed, Phases
<1>7. CASE DeployRefused(w)
  BY <1>7, <1>1, <1>2, GoTask, EndTask DEF DeployRefused, Phases
<1>8. CASE DeployUnanswered(w)
  BY <1>8, <1>1, <1>2, GoTask, EndTask DEF DeployUnanswered, Phases
<1>9. CASE CreateRows(w)
  <2>1. /\ task[w].pc = "rows" /\ task[w].op = "provision" /\ x \in service'
        /\ \/ CreateDbRoutes(w) /\ Goto(w, "presets")
           \/ Finish(w) /\ route' = route
    BY <1>9 DEF CreateRows
  <2>2. task[w].domain \in Hosts
    BY <2>1, Actor
  <2>3. CASE CreateDbRoutes(w) /\ Goto(w, "presets")
    <3>1. x \in Routed'
      BY <1>1, <2>2, <2>3, CreatedRow DEF Routed
    <3>2. task'[w].op = "provision" /\ task'[w].pc = "presets"
      BY <1>1, <2>1, <2>3, GoTask DEF Phases
    <3>3. QED  BY <2>1, <3>1, <3>2
  <2>4. CASE Finish(w) /\ route' = route
    BY <1>1, <1>2, <2>1, <2>4, EndTask
  <2>5. QED  BY <2>1, <2>3, <2>4
<1>10. CASE Undone(w)
  BY <1>10, <1>1, <1>2, GoTask, EndTask DEF Undone, Phases
<1>11. CASE UndoFails(w)
  BY <1>11, <1>1, <1>2, GoTask, EndTask DEF UndoFails, Phases
<1>12. CASE Restored(w)
  BY <1>12, <1>1, <1>2, GoTask, EndTask DEF Restored, Phases
<1>13. CASE RestoreFails(w)
  BY <1>13, <1>1, <1>2, GoTask, EndTask DEF RestoreFails, Phases
<1>14. CASE Uninstalled(w)
  <2>1. /\ task[w].op = "deprovision" /\ RemoveRoutes(x) /\ Goto(w, "presets")
        /\ x \notin service'
    BY <1>1, <1>14 DEF Uninstalled
  <2>2. x \notin Routed'
    BY <1>1, <2>1, RowRemoved DEF Routed, Shape
  <2>3. task'[w].op = "deprovision" /\ task'[w].pc = "presets"
    BY <1>1, <2>1, GoTask DEF Phases
  <2>4. QED  BY <2>1, <2>2, <2>3
<1>15. CASE UninstallFails(w)
  BY <1>15, <1>1, <1>2, GoTask, EndTask DEF UninstallFails, Phases
<1>16. CASE Unblock(w)
  BY <1>16, <1>1, <1>2, GoTask, EndTask DEF Unblock, Phases
<1>17. CASE UnblockFails(w)
  BY <1>17, <1>1, <1>2, GoTask, EndTask DEF UnblockFails, Phases
<1>18. CASE PresetsUpdated(w)
  BY <1>18, <1>1, <1>2, GoTask, EndTask DEF PresetsUpdated, Phases
<1>19. CASE PresetsFail(w)
  <2>1. /\ task[w].pc \in {"presets", "again"} /\ UNCHANGED <<domains, service>>
        /\ \/ task[w].pc = "again" /\ Goto(w, "stuck") /\ route' = route
           \/ task[w].op = "provision" /\ Goto(w, "undo") /\ RemoveRoutes(x)
           \/ Finish(w) /\ route' = route
    BY <1>19 DEF PresetsFail
  <2>2. CASE task[w].pc = "again" /\ Goto(w, "stuck") /\ route' = route
    BY <1>1, <2>1, <2>2, GoTask DEF Phases
  <2>3. CASE task[w].op = "provision" /\ Goto(w, "undo") /\ RemoveRoutes(x)
    <3>1. x \notin Routed'
      BY <1>1, <2>3, RowRemoved DEF Routed, Shape
    <3>2. QED  BY <1>1, <2>1, <2>3, <3>1, GoTask DEF Phases
  <2>4. CASE Finish(w) /\ route' = route
    BY <1>1, <1>2, <2>1, <2>4, EndTask
  <2>5. QED  BY <2>1, <2>2, <2>3, <2>4
<1>20. CASE RowsBound(w)
  <2>1. task[w].pc = "rows" /\ task[w].op \in {"bind", "unbind"} /\ service' = service
    BY <1>20 DEF RowsBound
  <2>2. /\ x \in Routed /\ Routed' = Routed
        /\ task'[w].pc = "ingress" /\ task'[w].op = task[w].op
        /\ task'[w].domain = task[w].domain /\ task'[w].old = route[x].domain
    BY <1>20, BoundRow DEF Routed
  <2>3. QED  BY <1>1, <2>1, <2>2
<1>21. CASE RowsFail(w)
  BY <1>21, <1>1, <1>2, GoTask, EndTask DEF RowsFail, Phases
<1>22. CASE CommitFails(w)
  BY <1>22, <1>1, <1>2, GoTask, EndTask DEF CommitFails, Phases
<1>23. CASE IngressUpdated(w)
  BY <1>23, <1>1, Updated DEF IngressUpdated, Routed
<1>24. CASE IngressRefused(w)
  <2>1. At(w, "ingress") /\ service' = service /\ \E apart : RollBack(w, apart)
    BY <1>24 DEF IngressRefused
  <2>2. QED  BY <1>1, <1>2, <2>1, BackRows
<1>25. CASE IngressUnanswered(w)
  <2>1. At(w, "ingress") /\ service' = service /\ \E apart : RollBack(w, apart)
    BY <1>25 DEF IngressUnanswered
  <2>2. QED  BY <1>1, <1>2, <2>1, BackRows
<1>26. CASE BalancerUpdated(w)
  BY <1>26, <1>1, <1>2, GoTask, EndTask DEF BalancerUpdated, Phases
<1>27. CASE BalancerFails(w)
  <2>1. At(w, "balancer") /\ service' = service
    BY <1>27, BackFromBalancer
  <2>2. CASE task[w].op = "deprovision"
    <3>1. Goto(w, "again") /\ route' = route
      BY <1>27, <2>2, BackFromBalancer
    <3>2. QED  BY <1>1, <2>1, <2>2, <3>1, GoTask DEF Phases
  <2>3. CASE task[w].op # "deprovision"
    <3>1. \E apart : RollBack(w, apart)
      BY <1>27, <2>3, BackFromBalancer
    <3>2. QED  BY <1>1, <2>1, <2>3, <3>1, BackRows
  <2>4. QED  BY <2>2, <2>3
<1>28. QED
  BY <1>3, <1>4, <1>5, <1>6, <1>7, <1>8, <1>9, <1>10, <1>11, <1>12, <1>13, <1>14,
     <1>15, <1>16, <1>17, <1>18, <1>19, <1>20, <1>21, <1>22, <1>23, <1>24, <1>25,
     <1>26, <1>27
     DEF Acting, Provision, Deprovision, Publish

\* Every step leads to a step of the operation.
LEMMA ActPlan ==
  ASSUME IInv, NEW w \in Workspaces, Acting(w)
  PROVE  Plan(w)'
<1>1. /\ task[w].pc # "end" /\ task[w].op \in OpsIn(task[w].pc) /\ Shape
      /\ Svc(w) \in Services /\ Home(Svc(w)) = w
  BY ActTask, Actor DEF IInv
<1>2. task'[w] = NoTask => Plan(w)'
  BY DEF Plan, OpsIn, NoTask
<1>3. /\ task'[w].op \in OpsIn(task'[w].pc) /\ task'[w].pc # "end" /\ task'[w].svc = task[w].svc
      => Plan(w)'
  BY <1>1 DEF Plan, Svc
<1>4. ASSUME NEW pc \in Phases \ {"end"}, Goto(w, pc), task[w].op \in OpsIn(pc)
      PROVE  Plan(w)'
  <2>1. task'[w].pc = pc /\ task'[w].op = task[w].op /\ task'[w].svc = task[w].svc
    BY <1>1, <1>4, GoTask
  <2>2. QED  BY <1>3, <1>4, <2>1
<1>5. Finish(w) => Plan(w)'
  BY <1>1, <1>2, EndTask
<1> USE DEF At, OpsIn, Ops
<1>6. CASE Claimed(w)
  <2>1. /\ task[w].op = "provision"
        /\ Goto(w, "pvc") \/ Goto(w, "resources") \/ Goto(w, "deploy")
    BY <1>6, <1>1 DEF Claimed, AfterClaim
  <2>2. QED  BY <1>1, <1>4, <2>1 DEF Phases
<1>7. CASE ClaimFails(w)
  <2>1. task[w].op = "provision" /\ (Finish(w) \/ Goto(w, "unclaim"))
    BY <1>7, <1>1 DEF ClaimFails, AfterClaim
  <2>2. QED  BY <1>1, <1>4, <1>5, <2>1 DEF Phases
<1>8. CASE ClaimsTakenBack(w)
  BY <1>8, <1>1, <1>4, <1>5 DEF ClaimsTakenBack, Phases
<1>9. CASE Deployed(w)
  BY <1>9, <1>1, <1>4, <1>5 DEF Deployed, Phases
<1>10. CASE DeployRefused(w)
  BY <1>10, <1>1, <1>4, <1>5 DEF DeployRefused, Phases
<1>11. CASE DeployUnanswered(w)
  BY <1>11, <1>1, <1>4, <1>5 DEF DeployUnanswered, Phases
<1>12. CASE CreateRows(w)
  BY <1>12, <1>1, <1>4, <1>5 DEF CreateRows, Phases
<1>13. CASE Undone(w)
  BY <1>13, <1>1, <1>4, <1>5 DEF Undone, Phases
<1>14. CASE UndoFails(w)
  BY <1>14, <1>1, <1>4, <1>5 DEF UndoFails, Phases
<1>15. CASE Restored(w)
  BY <1>15, <1>1, <1>4, <1>5 DEF Restored, Phases
<1>16. CASE RestoreFails(w)
  BY <1>16, <1>1, <1>4, <1>5 DEF RestoreFails, Phases
<1>17. CASE Uninstalled(w)
  BY <1>17, <1>1, <1>4, <1>5 DEF Uninstalled, Phases
<1>18. CASE UninstallFails(w)
  BY <1>18, <1>1, <1>4, <1>5 DEF UninstallFails, Phases
<1>19. CASE Unblock(w)
  BY <1>19, <1>1, <1>4, <1>5 DEF Unblock, Phases
<1>20. CASE UnblockFails(w)
  BY <1>20, <1>1, <1>4, <1>5 DEF UnblockFails, Phases
<1>21. CASE PresetsUpdated(w)
  <2>1. \/ Finish(w)
        \/ task[w].op = "provision" /\ Goto(w, "ingress")
        \/ task[w].op = "deprovision" /\ Goto(w, "unblock")
    BY <1>21, <1>1 DEF PresetsUpdated
  <2>2. QED  BY <1>1, <1>4, <1>5, <2>1 DEF Phases
<1>22. CASE PresetsFail(w)
  <2>1. \/ Finish(w)
        \/ task[w].op = "deprovision" /\ Goto(w, "stuck")
        \/ task[w].op = "provision" /\ Goto(w, "undo")
    BY <1>22, <1>1 DEF PresetsFail
  <2>2. QED  BY <1>1, <1>4, <1>5, <2>1 DEF Phases
<1>23. CASE RowsBound(w)
  BY <1>23, <1>1, <1>3, BoundRow DEF RowsBound
<1>24. CASE RowsFail(w)
  BY <1>24, <1>1, <1>4, <1>5 DEF RowsFail, Phases
<1>25. CASE CommitFails(w)
  BY <1>25, <1>1, <1>4, <1>5 DEF CommitFails, Phases
<1>26. CASE IngressUpdated(w)
  <2>1. task[w].pc = "ingress" /\ task'[w].pc = "balancer" /\ task'[w].op = task[w].op
        /\ task'[w].svc = task[w].svc
    BY <1>26, Updated
  <2>2. QED  BY <1>1, <1>3, <2>1
<1>27. CASE IngressRefused(w)
  <2>1. At(w, "ingress") /\ \E apart : RollBack(w, apart)
    BY <1>27 DEF IngressRefused
  <2>2. \/ task[w].op = "provision" /\ Goto(w, "undo")
        \/ task[w].op = "unbind" /\ Goto(w, "stuck")
        \/ Finish(w)
    BY <1>1, <2>1, RolledBack
  <2>3. QED  BY <1>1, <1>4, <1>5, <2>2 DEF Phases
<1>28. CASE IngressUnanswered(w)
  <2>1. At(w, "ingress") /\ \E apart : RollBack(w, apart)
    BY <1>28 DEF IngressUnanswered
  <2>2. \/ task[w].op = "provision" /\ Goto(w, "undo")
        \/ task[w].op = "unbind" /\ Goto(w, "stuck")
        \/ Finish(w)
    BY <1>1, <2>1, RolledBack
  <2>3. QED  BY <1>1, <1>4, <1>5, <2>2 DEF Phases
<1>29. CASE BalancerUpdated(w)
  BY <1>29, <1>1, <1>4, <1>5 DEF BalancerUpdated, Phases
<1>30. CASE BalancerFails(w)
  <2>1. \/ task[w].op = "deprovision" /\ Goto(w, "again")
        \/ /\ At(w, "balancer") /\ task[w].op # "deprovision"
           /\ \E apart : RollBack(w, apart)
    BY <1>30, BackFromBalancer
  <2>2. \/ task[w].op = "deprovision" /\ Goto(w, "again")
        \/ task[w].op = "provision" /\ Goto(w, "undo")
        \/ task[w].op = "unbind" /\ Goto(w, "stuck")
        \/ Finish(w)
    BY <1>1, <2>1, RolledBack
  <2>3. QED  BY <1>1, <1>4, <1>5, <2>2 DEF Phases
<1>31. QED
  BY <1>6, <1>7, <1>8, <1>9, <1>10, <1>11, <1>12, <1>13, <1>14, <1>15, <1>16, <1>17,
     <1>18, <1>19, <1>20, <1>21, <1>22, <1>23, <1>24, <1>25, <1>26, <1>27, <1>28,
     <1>29, <1>30
     DEF Acting, Provision, Deprovision, Publish

----------------------------------------------------------------------------
(* Release, volume and claim.                                              *)

\* Every step leaves release, volume and claim as far from the row as the task has brought
\* them.
LEMMA ActStorage ==
  ASSUME IInv, NEW w \in Workspaces, NEW x \in Services, x = Svc(w), Acting(w)
  PROVE  Storage(x, task[w])'
<1>1. /\ task[w].pc # "end" /\ task[w].op \in OpsIn(task[w].pc) /\ Shape
      /\ Rows(x, task[w]) /\ Storage(x, task[w])
  BY ActTask, Actor DEF IInv
<1>2. ASSUME UNCHANGED <<service, storage, leaked>> \/ (UNCHANGED <<service, storage>> /\ leaked' = leaked \cup {x}),
             task[w].pc \notin {"pvc", "resources", "unclaim", "deploy"}, ~Installed(task[w]),
             task'[w].pc \notin {"pvc", "resources", "unclaim", "deploy", "rows"} \/ task'[w].op # "provision",
             task'[w].pc \notin {"pvc", "resources", "deploy"}
     PROVE  Storage(x, task[w])'
  BY <1>1, <1>2 DEF Storage, Installed, Provisions, storage
<1> USE DEF At, OpsIn, Ops, Storage, Installed, Provisions, Rows, Kinds, db, storage, history, NoTask
<1>3. CASE Claimed(w)
  <2>1. /\ task[w].op = "provision" /\ UNCHANGED <<service, release, leaked>>
        /\ task[w].pc = "pv" => Goto(w, "pvc")
        /\ task[w].pc = "pvc" => Goto(w, "resources")
        /\ task[w].pc = "resources" => Goto(w, "deploy")
    BY <1>3, <1>1 DEF Claimed, AfterClaim
  <2>2. /\ task[w].pc \in {"pv", "pvc", "resources"}
        /\ task[w].pc = "pv" =>
             \A k \in Kinds : \A s : <<k, s>> \in claims' <=> <<k, s>> \in claims \/ (k = "pv" /\ s = x)
        /\ task[w].pc = "pvc" =>
             \A k \in Kinds : \A s : <<k, s>> \in claims' <=> <<k, s>> \in claims \/ (k = "pvc" /\ s = x)
        /\ task[w].pc = "resources" => claims' = claims
    BY <1>3, ClaimMade DEF Claimed
  <2>3. CASE task[w].pc = "pv"
    <3>1. task'[w].pc = "pvc" /\ task'[w].op = "provision"
      BY <1>1, <2>1, <2>3, GoTask DEF Phases
    <3>2. QED  BY <1>1, <2>1, <2>2, <2>3, <3>1
  <2>4. CASE task[w].pc = "pvc"
    <3>1. task'[w].pc = "resources" /\ task'[w].op = "provision"
      BY <1>1, <2>1, <2>4, GoTask DEF Phases
    <3>2. QED  BY <1>1, <2>1, <2>2, <2>4, <3>1
  <2>5. CASE task[w].pc = "resources"
    <3>1. task'[w].pc = "deploy" /\ task'[w].op = "provision"
      BY <1>1, <2>1, <2>5, GoTask DEF Phases
    <3>2. QED  BY <1>1, <2>1, <2>2, <2>5, <3>1
  <2>6. QED  BY <2>2, <2>3, <2>4, <2>5
<1>4. CASE ClaimFails(w)
  <2>1. /\ task[w].pc \in {"pv", "pvc", "resources"} /\ task[w].op = "provision"
        /\ UNCHANGED <<service, release>>
        /\ \/ UNCHANGED <<claims, leaked>> /\ task[w].pc = "pv" /\ Finish(w)
           \/ UNCHANGED <<claims, leaked>> /\ task[w].pc # "pv" /\ Goto(w, "unclaim")
           \/ Claim(w) /\ Finish(w) /\ leaked' = leaked \cup {x}
    BY <1>4, <1>1 DEF ClaimFails, AfterClaim
  <2>2. CASE UNCHANGED <<claims, leaked>> /\ task[w].pc = "pv" /\ Finish(w)
    <3>1. task'[w] = NoTask
      BY <1>1, <2>2, EndTask
    <3>2. QED  BY <1>1, <2>1, <2>2, <3>1
  <2>3. CASE UNCHANGED <<claims, leaked>> /\ task[w].pc # "pv" /\ Goto(w, "unclaim")
    <3>1. task'[w].pc = "unclaim" /\ task'[w].op = "provision"
      BY <1>1, <2>1, <2>3, GoTask DEF Phases
    <3>2. QED  BY <1>1, <2>1, <2>3, <3>1
  <2>4. CASE Claim(w) /\ Finish(w) /\ leaked' = leaked \cup {x}
    <3>1. task'[w] = NoTask
      BY <1>1, <2>4, EndTask
    <3>2. claims' \subseteq claims \cup ({"pv", "pvc"} \X {x})
      BY <1>4, <2>4, ClaimMade DEF ClaimFails
    <3>3. QED  BY <1>1, <2>1, <2>4, <3>1, <3>2
  <2>5. QED  BY <2>1, <2>2, <2>3, <2>4
<1>5. CASE ClaimsTakenBack(w)
  BY <1>5, <1>1, EndTask, UnclaimedDef DEF ClaimsTakenBack
<1>6. CASE Deployed(w)
  BY <1>6, <1>1, GoTask DEF Deployed, HelmInstall, Phases
<1>7. CASE DeployRefused(w)
  BY <1>7, <1>1, GoTask, EndTask DEF DeployRefused, Phases
<1>8. CASE DeployUnanswered(w)
  BY <1>8, <1>1, EndTask DEF DeployUnanswered, HelmInstall
<1>9. CASE CreateRows(w)
  <2>1. /\ service' = service \cup {x} /\ UNCHANGED <<release, claims>>
        /\ Goto(w, "presets") \/ Finish(w)
    BY <1>9 DEF CreateRows
  <2>2. task'[w].pc \in {"presets", "end"}
    BY <1>1, <2>1, GoTask, EndTask DEF Phases
  <2>3. task[w].op = "provision" /\ task[w].pc = "rows"
    BY <1>9 DEF CreateRows
  <2>4. QED  BY <1>1, <2>1, <2>2, <2>3
<1>10. CASE Undone(w)
  <2>1. /\ service' = service \ {x} /\ DeleteK8SService(w)
        /\ Goto(w, "restore") \/ Finish(w)
    BY <1>10 DEF Undone
  <2>2. task'[w].pc \in {"restore", "end"}
    BY <1>1, <2>1, GoTask, EndTask DEF Phases
  <2>3. x \notin release' /\ \A k \in Kinds : <<k, x>> \notin claims'
    BY <2>1, Uninstallation
  <2>4. QED  BY <2>1, <2>2, <2>3
<1>11. CASE UndoFails(w)
  <2>1. /\ service' = service /\ Finish(w) /\ task[w].pc = "undo"
        /\ \/ UNCHANGED <<storage, leaked>>
           \/ HalfDeleted(w) /\ leaked' = leaked \cup {x}
    BY <1>11 DEF UndoFails
  <2>2. task'[w] = NoTask
    BY <1>1, <2>1, EndTask
  <2>3. CASE UNCHANGED <<storage, leaked>>
    BY <1>1, <2>1, <2>2, <2>3
  <2>4. CASE HalfDeleted(w) /\ leaked' = leaked \cup {x}
    <3>1. claims' \subseteq claims
      BY <2>4, HalfUninstallation
    <3>2. QED  BY <1>1, <2>2, <2>4, <3>1
  <2>5. QED  BY <2>1, <2>3, <2>4
<1>12. CASE Restored(w)
  BY <1>12, <1>1, <1>2, GoTask, EndTask DEF Restored, Phases
<1>13. CASE RestoreFails(w)
  BY <1>13, <1>1, <1>2, GoTask, EndTask DEF RestoreFails, Phases
<1>14. CASE Uninstalled(w)
  <2>1. service' = service \ {x} /\ DeleteK8SService(w) /\ Goto(w, "presets")
    BY <1>14 DEF Uninstalled
  <2>2. task'[w].pc = "presets"
    BY <1>1, <2>1, GoTask DEF Phases
  <2>3. x \notin release' /\ \A k \in Kinds : <<k, x>> \notin claims'
    BY <2>1, Uninstallation
  <2>4. QED  BY <2>1, <2>2, <2>3
<1>15. CASE UninstallFails(w)
  <2>1. /\ service' = service /\ Finish(w) /\ task[w].pc = "uninstall"
        /\ \/ UNCHANGED <<storage, leaked>>
           \/ HalfDeleted(w) /\ leaked' = leaked \cup {x}
    BY <1>15 DEF UninstallFails
  <2>2. task'[w] = NoTask
    BY <1>1, <2>1, EndTask
  <2>3. CASE UNCHANGED <<storage, leaked>>
    BY <1>1, <2>1, <2>2, <2>3
  <2>4. CASE HalfDeleted(w) /\ leaked' = leaked \cup {x}
    <3>1. claims' \subseteq claims
      BY <2>4, HalfUninstallation
    <3>2. QED  BY <1>1, <2>2, <2>4, <3>1
  <2>5. QED  BY <2>1, <2>3, <2>4
<1>16. CASE Unblock(w)
  BY <1>16, <1>1, <1>2, GoTask, EndTask DEF Unblock, Phases
<1>17. CASE UnblockFails(w)
  BY <1>17, <1>1, <1>2, GoTask, EndTask DEF UnblockFails, Phases
<1>18. CASE PresetsUpdated(w)
  <2>1. /\ UNCHANGED <<service, storage, leaked>> /\ task[w].pc \in {"presets", "again"}
        /\ Finish(w) \/ Goto(w, "ingress") \/ Goto(w, "unblock")
    BY <1>18 DEF PresetsUpdated
  <2>2. task'[w].pc \in {"end", "ingress", "unblock"}
    BY <1>1, <2>1, GoTask, EndTask DEF Phases
  <2>3. QED  BY <1>2, <2>1, <2>2
<1>19. CASE PresetsFail(w)
  <2>1. /\ UNCHANGED <<service, storage, leaked>> /\ task[w].pc \in {"presets", "again"}
        /\ Finish(w) \/ Goto(w, "stuck") \/ Goto(w, "undo")
    BY <1>19 DEF PresetsFail
  <2>2. task'[w].pc \in {"end", "stuck", "undo"}
    BY <1>1, <2>1, GoTask, EndTask DEF Phases
  <2>3. QED  BY <1>2, <2>1, <2>2
<1>20. CASE RowsBound(w)
  BY <1>20, <1>2, BoundRow DEF RowsBound
<1>21. CASE RowsFail(w)
  BY <1>21, <1>1, <1>2, GoTask, EndTask DEF RowsFail, Phases
<1>22. CASE CommitFails(w)
  BY <1>22, <1>1, <1>2, GoTask, EndTask DEF CommitFails, Phases
<1>23. CASE IngressUpdated(w)
  BY <1>23, <1>2, Updated
<1>24. CASE IngressRefused(w)
  <2>1. /\ At(w, "ingress") /\ UNCHANGED <<service, storage, leaked>>
        /\ \E apart : RollBack(w, apart)
    BY <1>24 DEF IngressRefused
  <2>2. Goto(w, "undo") \/ Goto(w, "stuck") \/ Finish(w)
    BY <2>1 DEF RollBack, RestoreDomain
  <2>3. task'[w].pc \in {"end", "stuck", "undo"}
    BY <1>1, <2>2, GoTask, EndTask DEF Phases
  <2>4. QED  BY <1>2, <2>1, <2>3
<1>25. CASE IngressUnanswered(w)
  <2>1. /\ At(w, "ingress") /\ UNCHANGED <<service, storage, leaked>>
        /\ \E apart : RollBack(w, apart)
    BY <1>25 DEF IngressUnanswered
  <2>2. Goto(w, "undo") \/ Goto(w, "stuck") \/ Finish(w)
    BY <2>1 DEF RollBack, RestoreDomain
  <2>3. task'[w].pc \in {"end", "stuck", "undo"}
    BY <1>1, <2>2, GoTask, EndTask DEF Phases
  <2>4. QED  BY <1>2, <2>1, <2>3
<1>26. CASE BalancerUpdated(w)
  BY <1>26, <1>1, <1>2, GoTask, EndTask DEF BalancerUpdated, Phases
<1>27. CASE BalancerFails(w)
  <2>1. At(w, "balancer") /\ UNCHANGED <<service, storage, leaked>>
    BY <1>27, BackFromBalancer
  <2>2. Goto(w, "again") \/ Goto(w, "undo") \/ Goto(w, "stuck") \/ Finish(w)
    BY <1>27, BackFromBalancer DEF RollBack, RestoreDomain
  <2>3. task'[w].pc \in {"end", "stuck", "undo", "again"}
    BY <1>1, <2>2, GoTask, EndTask DEF Phases
  <2>4. QED  BY <1>2, <2>1, <2>3
<1>28. QED
  BY <1>3, <1>4, <1>5, <1>6, <1>7, <1>8, <1>9, <1>10, <1>11, <1>12, <1>13, <1>14,
     <1>15, <1>16, <1>17, <1>18, <1>19, <1>20, <1>21, <1>22, <1>23, <1>24, <1>25,
     <1>26, <1>27
     DEF Acting, Provision, Deprovision, Publish

----------------------------------------------------------------------------
(* The rules of the ingress.                                               *)

\* Only the ingress update makes a backup.
LEMMA ActTaskOf ==
  ASSUME IInv, NEW w \in Workspaces, Acting(w), ~IngressUpdated(w)
  PROVE  \/ task'[w] = NoTask
         \/ task'[w].backup = task[w].backup /\ task'[w].op = task[w].op
<1>1. Shape
  BY DEF IInv
<1> USE DEF At
<1>2. CASE Claimed(w)
  <2>1. AfterClaim[task[w].pc] \in Phases /\ Goto(w, AfterClaim[task[w].pc])
    BY <1>2 DEF Claimed, AfterClaim, Phases
  <2>2. QED  BY <1>1, <2>1, GoTask
<1>3. CASE ClaimFails(w)
  <2>1. Finish(w) \/ Goto(w, "unclaim")
    BY <1>3 DEF ClaimFails
  <2>2. QED  BY <1>1, <2>1, GoTask, EndTask DEF Phases
<1>4. CASE ClaimsTakenBack(w)
  BY <1>4, <1>1, GoTask, EndTask DEF ClaimsTakenBack, Phases
<1>5. CASE Deployed(w)
  BY <1>5, <1>1, GoTask, EndTask DEF Deployed, Phases
<1>6. CASE DeployRefused(w)
  BY <1>6, <1>1, GoTask, EndTask DEF DeployRefused, Phases
<1>7. CASE DeployUnanswered(w)
  BY <1>7, <1>1, GoTask, EndTask DEF DeployUnanswered, Phases
<1>8. CASE CreateRows(w)
  BY <1>8, <1>1, GoTask, EndTask DEF CreateRows, Phases
<1>9. CASE Undone(w)
  BY <1>9, <1>1, GoTask, EndTask DEF Undone, Phases
<1>10. CASE UndoFails(w)
  BY <1>10, <1>1, GoTask, EndTask DEF UndoFails, Phases
<1>11. CASE Restored(w)
  BY <1>11, <1>1, GoTask, EndTask DEF Restored, Phases
<1>12. CASE RestoreFails(w)
  BY <1>12, <1>1, GoTask, EndTask DEF RestoreFails, Phases
<1>13. CASE Uninstalled(w)
  BY <1>13, <1>1, GoTask, EndTask DEF Uninstalled, Phases
<1>14. CASE UninstallFails(w)
  BY <1>14, <1>1, GoTask, EndTask DEF UninstallFails, Phases
<1>15. CASE Unblock(w)
  BY <1>15, <1>1, GoTask, EndTask DEF Unblock, Phases
<1>16. CASE UnblockFails(w)
  BY <1>16, <1>1, GoTask, EndTask DEF UnblockFails, Phases
<1>17. CASE PresetsUpdated(w)
  BY <1>17, <1>1, GoTask, EndTask DEF PresetsUpdated, Phases
<1>18. CASE PresetsFail(w)
  BY <1>18, <1>1, GoTask, EndTask DEF PresetsFail, Phases
<1>19. CASE RowsBound(w)
  <2>1. Svc(w) \in Services
    BY <1>19, Actor DEF RowsBound
  <2>2. QED  BY <1>19, <2>1, BoundRow
<1>20. CASE RowsFail(w)
  BY <1>20, <1>1, GoTask, EndTask DEF RowsFail, Phases
<1>21. CASE CommitFails(w)
  BY <1>21, <1>1, GoTask, EndTask DEF CommitFails, Phases
<1>22. CASE IngressUpdated(w)
  BY <1>22
<1>23. CASE IngressRefused(w)
  <2>1. Goto(w, "undo") \/ Goto(w, "stuck") \/ Finish(w)
    BY <1>23 DEF IngressRefused, RollBack, RestoreDomain
  <2>2. QED  BY <1>1, <2>1, GoTask, EndTask DEF Phases
<1>24. CASE IngressUnanswered(w)
  <2>1. Goto(w, "undo") \/ Goto(w, "stuck") \/ Finish(w)
    BY <1>24 DEF IngressUnanswered, RollBack, RestoreDomain
  <2>2. QED  BY <1>1, <2>1, GoTask, EndTask DEF Phases
<1>25. CASE BalancerUpdated(w)
  BY <1>25, <1>1, GoTask, EndTask DEF BalancerUpdated, Phases
<1>26. CASE BalancerFails(w)
  <2>1. Goto(w, "again") \/ Goto(w, "undo") \/ Goto(w, "stuck") \/ Finish(w)
    BY <1>26, BackFromBalancer DEF RollBack, RestoreDomain
  <2>2. QED  BY <1>1, <2>1, GoTask, EndTask DEF Phases
<1>27. QED
  BY <1>2, <1>3, <1>4, <1>5, <1>6, <1>7, <1>8, <1>9, <1>10, <1>11, <1>12, <1>13, <1>14,
     <1>15, <1>16, <1>17, <1>18, <1>19, <1>20, <1>21, <1>22, <1>23, <1>24, <1>25, <1>26
     DEF Acting, Provision, Deprovision, Publish

\* A backup holds rules of the service.
LEMMA ActOwn ==
  ASSUME IInv, NEW w \in Workspaces, NEW x \in Services, x = Svc(w), Acting(w)
  PROVE  OwnBackup(x, task[w])'
<1>1. OwnBackup(x, task[w])
  BY ActTask, Actor DEF Rules
<1>2. CASE IngressUpdated(w)
  <2>1. task'[w].backup.rules = RulesOf(x)
    BY <1>2, Updated
  <2>2. QED  BY <2>1 DEF OwnBackup, RulesOf
<1>3. CASE ~IngressUpdated(w)
  BY <1>1, <1>3, ActTaskOf DEF OwnBackup, NoTask, NoBackup
<1>4. QED  BY <1>2, <1>3

\* The catch blocks, for a stream.
LEMMA BackStream ==
  ASSUME IInv, NEW w \in Workspaces, NEW x \in Streams, x = Svc(w), NEW apart,
         At(w, "ingress") \/ At(w, "balancer"), task[w].op # "deprovision", RollBack(w, apart),
         UNCHANGED rules, x \notin torn
  PROVE  StreamRules(x, task[w])'
<1> USE DEF StreamRules, Provisions, Restoring, At
<1>1. /\ task[w].op \in {"provision", "bind", "unbind"} /\ StreamRules(x, task[w]) /\ Rows(x, task[w])
      /\ Shape /\ x \in Services /\ RulesOf(x)' = RulesOf(x)
  BY Actor DEF OpsIn, Ops, IInv, Rules, RulesOf
<1>2. CASE task[w].op = "provision"
  <2>1. Goto(w, "undo") /\ Routed' = Routed \ {x} /\ x \in Routed
    BY <1>1, <1>2, RolledBack DEF Routed, Rows
  <2>2. task'[w].op = "provision" /\ task'[w].pc = "undo" /\ task'[w].backup = task[w].backup
    BY <1>1, <1>2, <2>1, GoTask DEF Phases
  <2>3. CASE At(w, "ingress")
    BY <1>1, <1>2, <2>1, <2>2, <2>3
  <2>4. CASE At(w, "balancer")
    <3>1. task[w].backup.there
      BY <1>1, <1>2, <2>4 DEF Rows
    <3>2. QED  BY <1>1, <1>2, <2>1, <2>2, <3>1
  <2>5. QED  BY <2>3, <2>4
<1>3. CASE task[w].op # "provision"
  <2>1. /\ x \in Routed /\ Routed' = Routed /\ route'[x].port = route[x].port
        /\ (Goto(w, "stuck") /\ task[w].op = "unbind") \/ Finish(w)
    BY <1>1, <1>3, RolledBack DEF Routed
  <2>2. RulesOf(x)' = {TcpRule(x)} /\ TcpRule(x)' = TcpRule(x)
    BY <1>1, <1>3, <2>1 DEF TcpRule
  <2>3. task'[w].op # "provision" /\ task'[w].pc \in {"stuck", "end"}
    BY <1>1, <2>1, GoTask, EndTask DEF Phases
  <2>4. QED  BY <2>1, <2>2, <2>3
<1>4. QED  BY <1>2, <1>3

\* Every step keeps the rule of a stream, or says that it is torn.
LEMMA ActStream ==
  ASSUME IInv, NEW w \in Workspaces, NEW x \in Streams, x = Svc(w), Acting(w), x \notin torn'
  PROVE  StreamRules(x, task[w])'
<1>1. /\ task[w].pc # "end" /\ task[w].op \in OpsIn(task[w].pc) /\ Shape /\ x \in Services
      /\ Rows(x, task[w]) /\ (x \notin torn => StreamRules(x, task[w]))
      /\ (x \in Routed => x \in service)
  BY ActTask, Actor DEF IInv, Shape, Rules
<1>2. /\ rules' = rules => RulesOf(x)' = RulesOf(x)
      /\ route' = route => Routed' = Routed
      /\ x \in Routed /\ route'[x].port = route[x].port => TcpRule(x)' = TcpRule(x)
  BY DEF RulesOf, TcpRule, Routed
<1>3. /\ task[w].op = "provision" => task[w].backup.rules = {} \/ x \in torn
      /\ task[w].pc # "ingress" => \/ task'[w] = NoTask
                                   \/ task'[w].backup = task[w].backup /\ task'[w].op = task[w].op
  BY <1>1, ActTaskOf DEF StreamRules, IngressUpdated, At
<1>4. RemoveRoutes(x) => x \notin Routed' /\ Routed' = Routed \ {x}
  BY RowRemoved DEF IInv, Shape, Routed
<1>5. NoTask.op = "none" /\ NoTask.pc = "end"
  BY DEF NoTask
<1> USE DEF At, OpsIn, Ops, StreamRules, Provisions, Restoring, db, ingress, history
<1>6. CASE Claimed(w)
  <2>1. /\ task[w].pc \in {"pv", "pvc", "resources"} /\ task[w].op = "provision"
        /\ UNCHANGED <<route, rules, torn>>
        /\ Goto(w, "pvc") \/ Goto(w, "resources") \/ Goto(w, "deploy")
    BY <1>6, <1>1 DEF Claimed, AfterClaim
  <2>2. task'[w].pc \in {"pvc", "resources", "deploy"} /\ x \notin Routed
    BY <1>1, <2>1, GoTask DEF Rows, Phases
  <2>3. QED  BY <1>1, <1>2, <1>3, <1>5, <2>1, <2>2
<1>7. CASE ClaimFails(w)
  <2>1. /\ task[w].pc \in {"pv", "pvc", "resources"} /\ task[w].op = "provision"
        /\ UNCHANGED <<route, rules, torn>>
        /\ Finish(w) \/ Goto(w, "unclaim")
    BY <1>7, <1>1 DEF ClaimFails, AfterClaim
  <2>2. task'[w].pc \in {"unclaim", "end"} /\ x \notin Routed
    BY <1>1, <2>1, GoTask, EndTask DEF Rows, Phases
  <2>3. QED  BY <1>1, <1>2, <1>3, <1>5, <2>1, <2>2, ActTaskOf
<1>8. CASE ClaimsTakenBack(w)
  BY <1>8, <1>1, <1>2, <1>3, <1>5, GoTask, EndTask DEF ClaimsTakenBack, Rows, Phases
<1>9. CASE Deployed(w)
  BY <1>9, <1>1, <1>2, <1>3, <1>5, GoTask, EndTask DEF Deployed, Rows, Phases
<1>10. CASE DeployRefused(w)
  BY <1>10, <1>1, <1>2, <1>3, <1>5, GoTask, EndTask DEF DeployRefused, Rows, Phases
<1>11. CASE DeployUnanswered(w)
  BY <1>11, <1>1, <1>2, <1>3, <1>5, GoTask, EndTask DEF DeployUnanswered, Rows, Phases
<1>12. CASE CreateRows(w)
  <2>1. /\ task[w].pc = "rows" /\ task[w].op = "provision" /\ UNCHANGED <<rules, torn>>
        /\ (Finish(w) /\ route' = route) \/ Goto(w, "presets")
    BY <1>12 DEF CreateRows
  <2>2. x \notin Routed
    BY <1>1, <2>1 DEF Rows
  <2>3. RulesOf(x)' = {}
    BY <1>1, <1>2, <1>3, <1>5, <2>1, <2>2
  <2>4. CASE Finish(w) /\ route' = route
    BY <1>1, <1>2, <1>3, <1>5, <2>1, <2>2, <2>3, <2>4, EndTask
  <2>5. CASE Goto(w, "presets")
    <3>1. task'[w].pc = "presets" /\ task'[w].op = "provision" /\ task'[w].backup = task[w].backup
      BY <1>1, <2>1, <2>5, GoTask DEF Phases
    <3>2. QED  BY <1>1, <1>2, <1>3, <1>5, <2>1, <2>3, <3>1
  <2>6. QED  BY <2>1, <2>4, <2>5
<1>13. CASE Undone(w)
  <2>1. /\ DeleteK8SService(w) /\ task[w].pc = "undo" /\ task[w].op = "provision"
        /\ UNCHANGED <<route, torn>>
        /\ IF task[w].backup.there THEN Goto(w, "restore") ELSE Finish(w)
    BY <1>13, <1>1 DEF Undone
  <2>2. x \notin Routed
    BY <1>1, <2>1 DEF Rows
  <2>3. rules' = rules
    BY <1>1, <2>1, <2>2, Uninstallation, CleanedUp
  <2>4. CASE task[w].backup.there
    <3>1. task'[w].pc = "restore" /\ task'[w].backup = task[w].backup
      BY <1>1, <2>1, <2>4, GoTask DEF Phases
    <3>2. QED  BY <1>1, <1>2, <1>3, <1>5, <2>1, <2>2, <2>4, <3>1
  <2>5. CASE ~task[w].backup.there
    <3>1. task'[w] = NoTask
      BY <1>1, <2>1, <2>5, EndTask
    <3>2. QED  BY <1>1, <1>2, <1>3, <1>5, <2>1, <2>2, <2>3, <2>5, <3>1
  <2>6. QED  BY <2>4, <2>5
<1>14. CASE UndoFails(w)
  BY <1>14 DEF UndoFails
<1>15. CASE Restored(w)
  <2>1. /\ RollbackK8SResources(w) /\ task[w].pc = "restore" /\ task[w].op = "provision"
        /\ UNCHANGED <<route, torn>> /\ Finish(w)
    BY <1>15, <1>1 DEF Restored
  <2>2. x \notin Routed /\ task[w].backup.rules = {} /\ task'[w] = NoTask
    BY <1>1, <1>2, <1>3, <1>5, <2>1, EndTask DEF Rows
  <2>3. RulesOf(x)' = {}
    BY <2>1, <2>2 DEF RollbackK8SResources, RulesOf
  <2>4. QED  BY <1>1, <1>2, <1>3, <1>5, <2>1, <2>2, <2>3
<1>16. CASE RestoreFails(w)
  BY <1>16 DEF RestoreFails
<1>17. CASE Uninstalled(w)
  <2>1. /\ DeleteK8SService(w) /\ task[w].pc = "uninstall" /\ task[w].op = "deprovision"
        /\ RemoveRoutes(x) /\ Goto(w, "presets") /\ UNCHANGED torn
    BY <1>17, <1>1 DEF Uninstalled
  <2>2. x \notin Routed' /\ task'[w].pc = "presets" /\ task'[w].op = "deprovision"
    BY <1>1, <1>4, <2>1, GoTask DEF Phases
  <2>3. CASE x \in Routed
    <3>1. rules' = rules \ {TcpRule(x)}
      BY <1>1, <2>1, <2>3, Uninstallation, CleanedUp
    <3>2. RulesOf(x) = {TcpRule(x)}
      BY <1>1, <2>1, <2>3
    <3>3. RulesOf(x)' = {}
      BY <3>1, <3>2 DEF RulesOf
    <3>4. QED  BY <2>2, <3>3
  <2>4. CASE x \notin Routed
    <3>1. rules' = rules
      BY <1>1, <2>1, <2>4, Uninstallation, CleanedUp
    <3>2. QED  BY <1>1, <1>2, <1>3, <1>5, <2>1, <2>2, <2>4, <3>1
  <2>5. QED  BY <2>3, <2>4
<1>18. CASE UninstallFails(w)
  <2>1. task[w].pc = "uninstall" /\ task[w].op = "deprovision" /\ Finish(w) /\ route' = route
        /\ UNCHANGED <<rules, torn>>
    BY <1>18, <1>1 DEF UninstallFails
  <2>2. task'[w] = NoTask
    BY <1>1, <2>1, EndTask
  <2>3. QED  BY <1>1, <1>2, <1>3, <1>5, <2>1, <2>2
<1>19. CASE Unblock(w)
  BY <1>19, <1>1, <1>2, <1>3, <1>5, GoTask, EndTask DEF Unblock, Rows, Phases
<1>20. CASE UnblockFails(w)
  BY <1>20 DEF UnblockFails
<1>21. CASE PresetsUpdated(w)
  BY <1>21, <1>1, <1>2, <1>3, <1>5, GoTask, EndTask DEF PresetsUpdated, Rows, Phases
<1>22. CASE PresetsFail(w)
  <2>1. /\ task[w].pc \in {"presets", "again"} /\ UNCHANGED <<rules, torn>>
        /\ \/ task[w].pc = "again" /\ Goto(w, "stuck") /\ route' = route
           \/ task[w].op = "provision" /\ Goto(w, "undo") /\ RemoveRoutes(x)
    BY <1>22 DEF PresetsFail
  <2>2. CASE task[w].pc = "again" /\ Goto(w, "stuck") /\ route' = route
    BY <1>1, <1>2, <1>3, <1>5, <2>1, <2>2, GoTask DEF Phases
  <2>3. CASE task[w].op = "provision" /\ Goto(w, "undo") /\ RemoveRoutes(x)
    <3>1. x \notin Routed' /\ task'[w].pc = "undo" /\ task'[w].op = "provision"
      BY <1>1, <1>4, <2>3, GoTask DEF Phases
    <3>2. QED  BY <1>1, <1>2, <1>3, <1>5, <2>1, <2>3, <3>1
  <2>4. QED  BY <2>1, <2>2, <2>3
<1>23. CASE RowsBound(w)
  <2>1. /\ task[w].pc = "rows" /\ task[w].op \in {"bind", "unbind"} /\ UNCHANGED <<rules, torn>>
    BY <1>23 DEF RowsBound
  <2>2. /\ x \in Routed /\ Routed' = Routed /\ route'[x].port = route[x].port
        /\ task'[w].op = task[w].op
    BY <1>1, <1>23, BoundRow DEF Routed
  <2>3. QED  BY <1>1, <1>2, <1>3, <1>5, <2>1, <2>2
<1>24. CASE RowsFail(w)
  BY <1>24, <1>1, <1>2, <1>3, <1>5, GoTask, EndTask DEF RowsFail, Rows, Phases
<1>25. CASE CommitFails(w)
  BY <1>25, <1>1, <1>2, <1>3, <1>5, GoTask, EndTask DEF CommitFails, Rows, Phases
<1>26. CASE IngressUpdated(w)
  <2>1. /\ At(w, "ingress") /\ WriteRules(w) /\ task'[w].pc = "balancer" /\ task'[w].op = task[w].op
        /\ task'[w].backup.rules = RulesOf(x) /\ UNCHANGED <<route, torn>>
    BY <1>26, Updated
  <2>2. x \in Routed /\ RulesOf(x) \subseteq {TcpRule(x)} /\ Rule(x) = TcpRule(x)
        /\ (task[w].op = "provision" => RulesOf(x) = {})
    BY <1>1, <2>1, AtIngress DEF Rule
  <2>3. rules' = {r \in rules : ~(r.svc = x /\ r.port = route[x].port)} \cup {TcpRule(x)}
    BY <1>1, <2>1, <2>2, RulesWritten
  <2>4. TcpRule(x).svc = x /\ TcpRule(x).port = route[x].port
    BY DEF TcpRule
  <2>5. RulesOf(x)' = {TcpRule(x)}
    BY <2>2, <2>3, <2>4 DEF RulesOf
  <2>6. QED  BY <1>1, <1>2, <1>3, <1>5, <2>1, <2>2, <2>5
<1>27. CASE IngressRefused(w)
  <2>1. At(w, "ingress") /\ UNCHANGED rules /\ (\E apart : RollBack(w, apart)) /\ x \notin torn
    BY <1>27 DEF IngressRefused, RollBack
  <2>2. QED  BY <1>1, <1>2, <1>3, <1>5, <2>1, BackStream
<1>28. CASE IngressUnanswered(w)
  BY <1>28 DEF IngressUnanswered, RollBack
<1>29. CASE BalancerUpdated(w)
  BY <1>29, <1>1, <1>2, <1>3, <1>5, GoTask, EndTask DEF BalancerUpdated, Rows, Phases
<1>30. CASE BalancerFails(w)
  <2>1. At(w, "balancer") /\ UNCHANGED rules
    BY <1>30, BackFromBalancer DEF ingress
  <2>2. CASE task[w].op = "deprovision"
    <3>1. Goto(w, "again") /\ UNCHANGED route /\ x \notin torn
      BY <1>30, <2>2, BackFromBalancer
    <3>2. QED  BY <1>1, <1>2, <1>3, <1>5, <2>1, <2>2, <3>1, GoTask DEF Phases
  <2>3. CASE task[w].op # "deprovision"
    <3>1. PICK apart : RollBack(w, apart)
      BY <1>30, <2>3, BackFromBalancer
    <3>2. x \notin torn
      BY <3>1 DEF RollBack
    <3>3. QED  BY <1>1, <1>2, <1>3, <1>5, <2>1, <2>3, <3>1, <3>2, BackStream
  <2>4. QED  BY <2>2, <2>3
<1>31. QED
  BY <1>6, <1>7, <1>8, <1>9, <1>10, <1>11, <1>12, <1>13, <1>14, <1>15, <1>16, <1>17,
     <1>18, <1>19, <1>20, <1>21, <1>22, <1>23, <1>24, <1>25, <1>26, <1>27, <1>28,
     <1>29, <1>30
     DEF Acting, Provision, Deprovision, Publish

\* The catch blocks, for a web site.
LEMMA BackHttp ==
  ASSUME IInv, NEW w \in Workspaces, NEW x \in Services \ Streams, x = Svc(w), NEW apart,
         At(w, "ingress"), RollBack(w, apart), UNCHANGED rules, x \notin torn,
         task[w].op = "bind" => task[w].old = NoDomain
  PROVE  HttpRules(x, task[w])'
<1> USE DEF Binds, Provisions, At
<1>1. /\ task[w].op \in {"provision", "bind", "unbind"} /\ HttpRules(x, task[w]) /\ Rows(x, task[w])
      /\ Shape
  BY Actor DEF OpsIn, Ops, IInv, Rules
<1>2. CASE task[w].op = "provision"
  <2>1. x \notin Routed'
    BY <1>2, RolledBack DEF Routed
  <2>2. QED  BY <2>1 DEF HttpRules
<1>3. CASE task[w].op # "provision"
  <2>1. /\ x \in Routed /\ route'[x].port = route[x].port
        /\ \/ Goto(w, "stuck")
           \/ /\ Finish(w)
              /\ route'[x].domain = IF task[w].op = "bind" THEN NoDomain ELSE task[w].domain
    BY <1>1, <1>3, RolledBack
  <2>2. OldEntry(x, task[w]) \in rules
    BY <1>1, <1>3, <2>1 DEF HttpRules
  <2>3. CASE Goto(w, "stuck")
    <3>1. task'[w].pc = "stuck"
      BY <1>1, <2>3, GoTask DEF Phases
    <3>2. QED  BY <3>1 DEF HttpRules
  <2>4. CASE /\ Finish(w)
             /\ route'[x].domain = IF task[w].op = "bind" THEN NoDomain ELSE task[w].domain
    <3>1. route'[x].domain = task[w].old
      BY <1>1, <1>3, <2>4 DEF Rows
    <3>2. HttpRule(x)' = OldEntry(x, task[w])
      BY <2>1, <3>1 DEF HttpRule, OldEntry
    <3>3. task'[w].pc = "end"
      BY <1>1, <2>4, EndTask
    <3>4. QED  BY <2>2, <3>2, <3>3 DEF HttpRules
  <2>5. QED  BY <2>1, <2>3, <2>4
<1>4. QED  BY <1>2, <1>3

\* Every step keeps the rule of a web site, or says that it is torn.
LEMMA ActHttp ==
  ASSUME IInv, NEW w \in Workspaces, NEW x \in Services \ Streams, x = Svc(w), Acting(w)
  PROVE  /\ x \notin torn' => HttpRules(x, task[w])'
         /\ Binds(task'[w], {"balancer"}) => HttpRule(x)' \in rules'
<1>1. /\ task[w].pc # "end" /\ task[w].op \in OpsIn(task[w].pc) /\ Shape /\ x \in Services
      /\ Rows(x, task[w]) /\ (x \notin torn => HttpRules(x, task[w]))
      /\ (Binds(task[w], {"balancer"}) => HttpRule(x) \in rules)
      /\ (x \in Routed => x \in service)
  BY ActTask, Actor DEF IInv, Shape, Rules
<1>2. /\ route' = route => Routed' = Routed /\ HttpRule(x)' = HttpRule(x)
      /\ RemoveRoutes(x) => x \notin Routed'
  BY <1>1, RowRemoved DEF HttpRule, Routed, Shape
<1>3. ASSUME x \notin Routed', task'[w].pc # "balancer"
      PROVE  /\ x \notin torn' => HttpRules(x, task[w])'
             /\ Binds(task'[w], {"balancer"}) => HttpRule(x)' \in rules'
  BY <1>3 DEF HttpRules, Binds
<1>4. NoTask.op = "none" /\ NoTask.pc = "end"
  BY DEF NoTask
<1> USE DEF At, OpsIn, Ops, HttpRules, Binds, Provisions, db, ingress, history
<1>5. CASE Claimed(w)
  <2>1. /\ task[w].pc \in {"pv", "pvc", "resources"} /\ task[w].op = "provision"
        /\ UNCHANGED route
        /\ Goto(w, "pvc") \/ Goto(w, "resources") \/ Goto(w, "deploy")
    BY <1>5, <1>1 DEF Claimed, AfterClaim
  <2>2. task'[w].pc \in {"pvc", "resources", "deploy"} /\ x \notin Routed
    BY <1>1, <2>1, GoTask DEF Rows, Phases
  <2>3. QED  BY <1>2, <1>3, <2>1, <2>2
<1>6. CASE ClaimFails(w)
  <2>1. /\ task[w].pc \in {"pv", "pvc", "resources"} /\ task[w].op = "provision"
        /\ UNCHANGED route
        /\ Finish(w) \/ Goto(w, "unclaim")
    BY <1>6, <1>1 DEF ClaimFails, AfterClaim
  <2>2. task'[w].pc \in {"unclaim", "end"} /\ x \notin Routed
    BY <1>1, <2>1, GoTask, EndTask DEF Rows, Phases
  <2>3. QED  BY <1>2, <1>3, <2>1, <2>2
<1>7. CASE ClaimsTakenBack(w)
  <2>1. UNCHANGED route /\ x \notin Routed /\ (Finish(w))
    BY <1>7, <1>1 DEF ClaimsTakenBack, Rows
  <2>2. task'[w].pc # "balancer"
    BY <1>1, <2>1, GoTask, EndTask DEF Phases
  <2>3. QED  BY <1>2, <1>3, <2>1, <2>2
<1>8. CASE Deployed(w)
  <2>1. UNCHANGED route /\ x \notin Routed /\ (Goto(w, "rows"))
    BY <1>8, <1>1 DEF Deployed, Rows
  <2>2. task'[w].pc # "balancer"
    BY <1>1, <2>1, GoTask, EndTask DEF Phases
  <2>3. QED  BY <1>2, <1>3, <2>1, <2>2
<1>9. CASE DeployRefused(w)
  <2>1. UNCHANGED route /\ x \notin Routed /\ (Goto(w, "unclaim") \/ Finish(w))
    BY <1>9, <1>1 DEF DeployRefused, Rows
  <2>2. task'[w].pc # "balancer"
    BY <1>1, <2>1, GoTask, EndTask DEF Phases
  <2>3. QED  BY <1>2, <1>3, <2>1, <2>2
<1>10. CASE DeployUnanswered(w)
  <2>1. UNCHANGED route /\ x \notin Routed /\ (Finish(w))
    BY <1>10, <1>1 DEF DeployUnanswered, Rows
  <2>2. task'[w].pc # "balancer"
    BY <1>1, <2>1, GoTask, EndTask DEF Phases
  <2>3. QED  BY <1>2, <1>3, <2>1, <2>2
<1>11. CASE CreateRows(w)
  <2>1. /\ task[w].pc = "rows" /\ task[w].op = "provision"
        /\ (Finish(w) /\ route' = route) \/ Goto(w, "presets")
    BY <1>11 DEF CreateRows
  <2>2. x \notin Routed
    BY <1>1, <2>1 DEF Rows
  <2>3. CASE Finish(w) /\ route' = route
    BY <1>1, <1>2, <1>3, <2>2, <2>3, EndTask
  <2>4. CASE Goto(w, "presets")
    <3>1. task'[w].pc = "presets"
      BY <1>1, <2>4, GoTask DEF Phases
    <3>2. QED  BY <3>1
  <2>5. QED  BY <2>1, <2>3, <2>4
<1>12. CASE Undone(w)
  <2>1. UNCHANGED route /\ x \notin Routed /\ (Goto(w, "restore") \/ Finish(w))
    BY <1>12, <1>1 DEF Undone, Rows
  <2>2. task'[w].pc # "balancer"
    BY <1>1, <2>1, GoTask, EndTask DEF Phases
  <2>3. QED  BY <1>2, <1>3, <2>1, <2>2
<1>13. CASE UndoFails(w)
  <2>1. UNCHANGED route /\ x \notin Routed /\ (Finish(w))
    BY <1>13, <1>1 DEF UndoFails, Rows
  <2>2. task'[w].pc # "balancer"
    BY <1>1, <2>1, GoTask, EndTask DEF Phases
  <2>3. QED  BY <1>2, <1>3, <2>1, <2>2
<1>14. CASE Restored(w)
  <2>1. UNCHANGED route /\ x \notin Routed /\ (Finish(w))
    BY <1>14, <1>1 DEF Restored, Rows
  <2>2. task'[w].pc # "balancer"
    BY <1>1, <2>1, GoTask, EndTask DEF Phases
  <2>3. QED  BY <1>2, <1>3, <2>1, <2>2
<1>15. CASE RestoreFails(w)
  <2>1. UNCHANGED route /\ x \notin Routed /\ (Finish(w))
    BY <1>15, <1>1 DEF RestoreFails, Rows
  <2>2. task'[w].pc # "balancer"
    BY <1>1, <2>1, GoTask, EndTask DEF Phases
  <2>3. QED  BY <1>2, <1>3, <2>1, <2>2
<1>16. CASE Uninstalled(w)
  <2>1. RemoveRoutes(x) /\ Goto(w, "presets")
    BY <1>16 DEF Uninstalled
  <2>2. QED  BY <1>1, <1>2, <1>3, <2>1, GoTask DEF Phases
<1>17. CASE UninstallFails(w)
  <2>1. /\ task[w].pc = "uninstall" /\ Finish(w) /\ route' = route
        /\ UNCHANGED <<rules, torn>> \/ x \in torn'
    BY <1>17, <1>1 DEF UninstallFails
  <2>2. task'[w] = NoTask
    BY <1>1, <2>1, EndTask
  <2>3. QED  BY <1>1, <1>2, <1>3, <1>4, <2>1, <2>2
<1>18. CASE Unblock(w)
  <2>1. UNCHANGED route /\ x \notin Routed /\ Goto(w, "balancer") /\ task[w].op = "deprovision"
    BY <1>18, <1>1 DEF Unblock, Rows
  <2>2. task'[w].op = "deprovision"
    BY <1>1, <2>1, GoTask DEF Phases
  <2>3. QED  BY <1>2, <2>1, <2>2
<1>19. CASE UnblockFails(w)
  <2>1. UNCHANGED route /\ x \notin Routed /\ Goto(w, "balancer") /\ task[w].op = "deprovision"
    BY <1>19, <1>1 DEF UnblockFails, Rows
  <2>2. task'[w].op = "deprovision"
    BY <1>1, <2>1, GoTask DEF Phases
  <2>3. QED  BY <1>2, <2>1, <2>2
<1>20. CASE PresetsUpdated(w)
  <2>1. /\ UNCHANGED <<route, rules, torn>>
        /\ \/ task[w].op = "deprovision" /\ task[w].pc = "again" /\ Finish(w)
           \/ task[w].op = "provision" /\ Goto(w, "ingress")
           \/ task[w].op = "deprovision" /\ task[w].pc = "presets" /\ Goto(w, "unblock")
    BY <1>20, <1>1 DEF PresetsUpdated
  <2>2. CASE task[w].op = "provision" /\ Goto(w, "ingress")
    <3>1. task'[w].pc = "ingress" /\ task'[w].op = "provision"
      BY <1>1, <2>2, GoTask DEF Phases
    <3>2. QED  BY <3>1
  <2>3. CASE task[w].op = "deprovision" /\ task[w].pc # "uninstall" /\ (Finish(w) \/ Goto(w, "unblock"))
    <3>1. task'[w].pc \in {"end", "unblock"} /\ x \notin Routed
      BY <1>1, <2>3, GoTask, EndTask DEF Phases, Rows
    <3>2. QED  BY <1>2, <1>3, <2>1, <3>1
  <2>4. QED  BY <2>1, <2>2, <2>3
<1>21. CASE PresetsFail(w)
  <2>1. /\ task[w].pc \in {"presets", "again"}
        /\ \/ task[w].op = "deprovision" /\ (Goto(w, "stuck") \/ Finish(w)) /\ route' = route
           \/ task[w].op = "provision" /\ Goto(w, "undo") /\ RemoveRoutes(x)
    BY <1>21, <1>1 DEF PresetsFail
  <2>2. CASE task[w].op = "deprovision" /\ (Goto(w, "stuck") \/ Finish(w)) /\ route' = route
    <3>1. task'[w].pc \in {"end", "stuck"} /\ x \notin Routed
      BY <1>1, <2>1, <2>2, GoTask, EndTask DEF Phases, Rows
    <3>2. QED  BY <1>2, <1>3, <2>2, <3>1
  <2>3. CASE task[w].op = "provision" /\ Goto(w, "undo") /\ RemoveRoutes(x)
    BY <1>1, <1>2, <1>3, <2>3, GoTask DEF Phases
  <2>4. QED  BY <2>1, <2>2, <2>3
<1>22. CASE RowsBound(w)
  <2>1. /\ task[w].pc = "rows" /\ task[w].op \in {"bind", "unbind"} /\ UNCHANGED <<rules, torn>>
    BY <1>22 DEF RowsBound
  <2>2. /\ x \in Routed /\ route'[x].port = route[x].port
        /\ task'[w].op = task[w].op /\ task'[w].pc = "ingress" /\ task'[w].old = route[x].domain
    BY <1>22, BoundRow
  <2>3. OldEntry(x, task[w])' = HttpRule(x)
    BY <2>2 DEF OldEntry, HttpRule
  <2>4. QED  BY <1>1, <2>1, <2>2, <2>3
<1>23. CASE RowsFail(w)
  BY <1>23, <1>1, <1>2, <1>3, <1>4, GoTask, EndTask DEF RowsFail, Rows, Phases
<1>24. CASE CommitFails(w)
  BY <1>24, <1>1, <1>2, <1>3, <1>4, GoTask, EndTask DEF CommitFails, Rows, Phases
<1>25. CASE IngressUpdated(w)
  <2>1. /\ At(w, "ingress") /\ WriteRules(w) /\ UNCHANGED route
    BY <1>25, Updated
  <2>2. x \in Routed /\ Rule(x) = HttpRule(x)
    BY <1>1, <2>1, AtIngress DEF Rule
  <2>3. HttpRule(x) \in rules'
    BY <1>1, <2>1, <2>2, RulesWritten
  <2>4. task'[w].pc = "balancer"
    BY <1>25, Updated
  <2>5. QED  BY <1>2, <2>1, <2>3, <2>4
<1>26. CASE IngressRefused(w)
  <2>1. /\ At(w, "ingress") /\ UNCHANGED rules
        /\ RollBack(w, IF task[w].op = "bind" /\ task[w].old # NoDomain THEN {Svc(w)} ELSE {})
    BY <1>26 DEF IngressRefused
  <2>2. task'[w].pc # "balancer"
    <3>1. Goto(w, "undo") \/ Goto(w, "stuck") \/ Finish(w)
      BY <2>1 DEF RollBack, RestoreDomain
    <3>2. QED  BY <1>1, <3>1, GoTask, EndTask DEF Phases
  <2>3. ASSUME x \notin torn'
        PROVE  HttpRules(x, task[w])'
    <3>1. x \notin torn /\ (task[w].op = "bind" => task[w].old = NoDomain)
      BY <2>1, <2>3 DEF RollBack
    <3>2. QED  BY <2>1, <3>1, BackHttp
  <2>4. QED  BY <2>2, <2>3
<1>27. CASE IngressUnanswered(w)
  <2>1. x \in torn' /\ (Goto(w, "undo") \/ Goto(w, "stuck") \/ Finish(w))
    BY <1>27 DEF IngressUnanswered, RollBack, RestoreDomain
  <2>2. task'[w].pc # "balancer"
    BY <1>1, <2>1, GoTask, EndTask DEF Phases
  <2>3. QED  BY <2>1, <2>2
<1>28. CASE BalancerUpdated(w)
  <2>1. /\ task[w].pc = "balancer" /\ UNCHANGED <<route, rules>> /\ Finish(w)
        /\ task[w].op \in {"bind", "unbind"} \/ torn' = torn
    BY <1>28 DEF BalancerUpdated
  <2>2. task'[w] = NoTask
    BY <1>1, <2>1, EndTask
  <2>3. QED  BY <1>1, <1>2, <1>4, <2>1, <2>2
<1>29. CASE BalancerFails(w)
  <2>1. task[w].pc = "balancer"
    BY <1>29, BackFromBalancer
  <2>2. CASE task[w].op = "deprovision"
    <3>1. Goto(w, "again") /\ UNCHANGED route /\ x \notin Routed
      BY <1>29, <1>1, <2>1, <2>2, BackFromBalancer DEF Rows
    <3>2. task'[w].pc = "again"
      BY <1>1, <3>1, GoTask DEF Phases
    <3>3. QED  BY <1>2, <1>3, <3>1, <3>2
  <2>3. CASE task[w].op # "deprovision"
    <3>1. PICK apart : RollBack(w, apart)
      BY <1>29, <2>3, BackFromBalancer
    <3>2. Goto(w, "undo") \/ Goto(w, "stuck") \/ Finish(w)
      BY <3>1 DEF RollBack, RestoreDomain
    <3>3. task'[w].pc # "balancer"
      BY <1>1, <3>2, GoTask, EndTask DEF Phases
    <3>4. task[w].op = "provision" => x \notin Routed'
      BY <1>2, <3>1 DEF RollBack
    <3>5. task[w].op # "provision" => x \in torn'
      BY <1>29, <2>3, BackFromBalancer
    <3>6. QED  BY <1>3, <3>3, <3>4, <3>5
  <2>4. QED  BY <2>2, <2>3
<1>30. QED
  BY <1>5, <1>6, <1>7, <1>8, <1>9, <1>10, <1>11, <1>12, <1>13, <1>14, <1>15, <1>16,
     <1>17, <1>18, <1>19, <1>20, <1>21, <1>22, <1>23, <1>24, <1>25, <1>26, <1>27,
     <1>28, <1>29
     DEF Acting, Provision, Deprovision, Publish

\* Every step keeps what the invariant says of rules.
LEMMA ActRules ==
  ASSUME IInv, NEW w \in Workspaces, NEW x \in Services, x = Svc(w), Acting(w)
  PROVE  Rules(x, task[w])'
<1>1. OwnBackup(x, task[w])'
  BY ActOwn
<1>2. CASE x \in Streams
  BY <1>1, <1>2, ActStream DEF Rules
<1>3. CASE x \notin Streams
  BY <1>1, <1>3, ActHttp DEF Rules
<1>4. QED  BY <1>2, <1>3

----------------------------------------------------------------------------
(* The blocks of the proxy.                                                *)

\* What HttpGenerated leaves of each service.
LEMMA HttpPart ==
  ASSUME NEW C, NEW n, NEW s \in Services, NEW b, b.svc = s
  PROVE  /\ s \notin Streams /\ s \in ServicesForWsRoutes(n)
              => (b \in HttpGenerated(C, n) <=> b = HttpBlock(s))
         /\ s \in Streams \/ s \notin ServicesForWsRoutes(n)
              => (b \in HttpGenerated(C, n) => b \in C)
         /\ s \in Streams => (b \in C => b \in HttpGenerated(C, n))
<1> DEFINE P == ServicesForWsRoutes(n) \ Streams
<1>1. \A u : HttpBlock(u).svc = u
  BY DEF HttpBlock
<1>2. CASE P = {}
  BY <1>2 DEF HttpGenerated
<1>3. CASE P # {}
  <2>1. HttpGenerated(C, n) = HttpCleared(C, n) \cup {HttpBlock(u) : u \in P}
    BY <1>3 DEF HttpGenerated
  <2>2. b \in HttpCleared(C, n) <=> b \in C /\ (s \in Streams \/ ~UnderName(n, b))
    BY DEF HttpCleared
  <2>3. b \in {HttpBlock(u) : u \in P} <=> s \in P /\ b = HttpBlock(s)
    BY <1>1
  <2>4. s \in ServicesForWsRoutes(n) => UnderName(n, b)
    BY DEF ServicesForWsRoutes, UnderName
  <2>5. QED  BY <2>1, <2>2, <2>3, <2>4
<1>4. QED  BY <1>2, <1>3

\* What TcpGenerated leaves of each service.
LEMMA TcpPart ==
  ASSUME NEW C, NEW n, NEW s \in Services, NEW b, b.svc = s
  PROVE  /\ s \in Streams /\ s \in ServicesForWsRoutes(n)
              => (b \in TcpGenerated(C, n) <=> b = TcpBlock(s))
         /\ s \notin Streams \/ s \notin ServicesForWsRoutes(n)
              => (b \in TcpGenerated(C, n) => b \in C)
         /\ s \notin Streams => (b \in C => b \in TcpGenerated(C, n))
<1> DEFINE P == ServicesForWsRoutes(n) \cap Streams
<1>1. \A u : TcpBlock(u).svc = u
  BY DEF TcpBlock
<1>2. CASE P = {}
  BY <1>2 DEF TcpGenerated
<1>3. CASE P # {}
  <2>1. TcpGenerated(C, n) = TcpCleared(C, n) \cup {TcpBlock(u) : u \in P}
    BY <1>3 DEF TcpGenerated
  <2>2. b \in TcpCleared(C, n) <=> b \in C /\ (s \notin Streams \/ ~UnderName(n, b))
    BY DEF TcpCleared
  <2>3. b \in {TcpBlock(u) : u \in P} <=> s \in P /\ b = TcpBlock(s)
    BY <1>1
  <2>4. s \in ServicesForWsRoutes(n) => UnderName(n, b)
    BY DEF ServicesForWsRoutes, UnderName
  <2>5. QED  BY <2>1, <2>2, <2>3, <2>4
<1>4. QED  BY <1>2, <1>3

\* A generation gives every service with a route in the namespace its block, and nobody
\* else one.
LEMMA Generation ==
  ASSUME NEW n, NEW s \in Services
  PROVE  /\ s \in ServicesForWsRoutes(n) => {b \in Generated(n) : b.svc = s} = {Block(s)}
         /\ s \notin ServicesForWsRoutes(n) => {b \in Generated(n) : b.svc = s} \subseteq BlocksOf(s)
<1> DEFINE C == HttpGenerated(proxy, n)
<1>1. Block(s).svc = s
  BY DEF Block, HttpBlock, TcpBlock
<1>2. ASSUME NEW b, b.svc = s
      PROVE  /\ s \in ServicesForWsRoutes(n) => (b \in TcpGenerated(C, n) <=> b = Block(s))
             /\ s \notin ServicesForWsRoutes(n) => (b \in TcpGenerated(C, n) => b \in proxy)
  <2>1. s \notin Streams /\ s \in ServicesForWsRoutes(n) => (b \in C <=> b = HttpBlock(s))
    BY <1>2, HttpPart
  <2>2. s \in Streams \/ s \notin ServicesForWsRoutes(n) => (b \in C => b \in proxy)
    BY <1>2, HttpPart
  <2> HIDE DEF C
  <2>3. QED  BY <1>2, <2>1, <2>2, TcpPart DEF Block
<1>3. QED  BY <1>1, <1>2 DEF Generated, BlocksOf

\* A service with a route that is not among LostBlocks keeps its blocks.
LEMMA Lost ==
  ASSUME NEW C, NEW s \in Routed, s \notin LostBlocks(C)
  PROVE  BlocksOf(s) \subseteq C
BY DEF LostBlocks, BlocksOf

\* The blocks of a service, when a step is not about it.
LEMMA BlocksKept ==
  ASSUME IInv, NEW s \in Services, TaskOf(s)' = TaskOf(s), s \in torn => s \in torn',
         s \in Routed' <=> s \in Routed, s \in Routed => route'[s] = route[s],
         Thinned(s)
  PROVE  Blocks(s, TaskOf(s))'
<1> DEFINE t == TaskOf(s)
<1>1. Blocks(s, t) /\ Rows(s, t)
  BY DEF IInv, Followed
<1>2. t' = t
  OBVIOUS
<1>3. s \in Routed => Block(s)' = Block(s) /\ OldBlock(s, t)' = OldBlock(s, t)
  BY <1>2 DEF Block, OldBlock, TcpBlock, HttpBlock, OldEntry
<1> HIDE DEF t
<1>4. ASSUME s \in Routed, NEW b, ServedBy(s, b)
      PROVE  BlocksOf(s)' \subseteq {b} /\ (s \notin wiped' => BlocksOf(s)' = {b})
  BY <1>4 DEF ServedBy, Thinned
<1>5. BlocksOf(s) = {} => BlocksOf(s)' = {}
  BY DEF Thinned
<1>6. ASSUME s \notin torn'
      PROVE  Serving(s, t)'
  <2>1. Serving(s, t) /\ (Binds(t, {"ingress", "balancer"}) => s \in Routed)
    BY <1>1, <1>6 DEF Blocks, Rows, Binds
  <2>2. Binds(t, {"ingress", "balancer"}) => ServedBy(s, OldBlock(s, t))'
    BY <1>3, <1>4, <2>1 DEF Serving, ServedBy
  <2>3. s \in Routed /\ ~Awaited(t) /\ t.pc \notin {"ingress", "balancer", "stuck"}
          => ServedBy(s, Block(s))'
    BY <1>3, <1>4, <2>1 DEF Serving, ServedBy
  <2>4. QED  BY <1>2, <1>5, <2>1, <2>2, <2>3 DEF Serving, Awaited, Binds, Provisions
<1>7. QED  BY <1>6 DEF Blocks, t

\* A step may take the blocks of other services; wiped says so.
LEMMA ActOthersBlocks ==
  ASSUME IInv, NEW w \in Workspaces, NEW x \in Services, x = Svc(w), Acting(w),
         NEW s \in Services \ {x}
  PROVE  Blocks(s, TaskOf(s))'
<1>1. /\ TaskOf(s)' = TaskOf(s) /\ (s \in torn => s \in torn')
      /\ s \in Routed' <=> s \in Routed
      /\ s \in Routed => route'[s] = route[s]
      /\ Home(x) = w
  BY ActsOn, OthersKept, ActRoute DEF Routed
<1>2. Thinned(s) => Blocks(s, TaskOf(s))'
  BY <1>1, BlocksKept
<1>3. UNCHANGED proxy /\ (s \in wiped' <=> s \in wiped) => Blocks(s, TaskOf(s))'
  BY <1>2 DEF Thinned, BlocksOf
<1> USE DEF history
<1>4. CASE Claimed(w)
  BY <1>4, <1>3 DEF Claimed
<1>5. CASE ClaimFails(w)
  BY <1>5, <1>3 DEF ClaimFails
<1>6. CASE ClaimsTakenBack(w)
  BY <1>6, <1>3 DEF ClaimsTakenBack
<1>7. CASE Deployed(w)
  BY <1>7, <1>3 DEF Deployed
<1>8. CASE DeployRefused(w)
  BY <1>8, <1>3 DEF DeployRefused
<1>9. CASE DeployUnanswered(w)
  BY <1>9, <1>3 DEF DeployUnanswered
<1>10. CASE CreateRows(w)
  BY <1>10, <1>3 DEF CreateRows
<1>11. CASE Undone(w)
  BY <1>11, <1>3 DEF Undone
<1>12. CASE UndoFails(w)
  BY <1>12, <1>3 DEF UndoFails
<1>13. CASE Restored(w)
  BY <1>13, <1>3 DEF Restored
<1>14. CASE RestoreFails(w)
  BY <1>14, <1>3 DEF RestoreFails
<1>15. CASE Uninstalled(w)
  BY <1>15, <1>3 DEF Uninstalled
<1>16. CASE UninstallFails(w)
  BY <1>16, <1>3 DEF UninstallFails
<1>17. CASE Unblock(w)
  <2>1. CASE task[w].exposed
    <3>1. proxy' \subseteq proxy /\ wiped' = wiped \cup LostBlocks(proxy')
      BY <1>17, <2>1 DEF Unblock
    <3>2. QED  BY <1>2, <3>1, Lost DEF Thinned, BlocksOf
  <2>2. CASE ~task[w].exposed
    BY <1>17, <1>3, <2>2 DEF Unblock
  <2>3. QED  BY <2>1, <2>2
<1>18. CASE UnblockFails(w)
  BY <1>18, <1>3 DEF UnblockFails
<1>19. CASE PresetsUpdated(w)
  BY <1>19, <1>3 DEF PresetsUpdated
<1>20. CASE PresetsFail(w)
  BY <1>20, <1>3 DEF PresetsFail
<1>21. CASE RowsBound(w)
  BY <1>21, <1>3 DEF RowsBound
<1>22. CASE RowsFail(w)
  BY <1>22, <1>3 DEF RowsFail
<1>23. CASE CommitFails(w)
  BY <1>23, <1>3 DEF CommitFails
<1>24. CASE IngressUpdated(w)
  BY <1>24, <1>3 DEF IngressUpdated
<1>25. CASE IngressRefused(w)
  BY <1>25, <1>3 DEF IngressRefused
<1>26. CASE IngressUnanswered(w)
  BY <1>26, <1>3 DEF IngressUnanswered
<1>27. CASE BalancerUpdated(w)
  <2> DEFINE n == Ns(w)
             C == Generated(n)
  <2>1. proxy' = C /\ wiped' = (wiped \cup LostBlocks(C)) \ ServicesForWsRoutes(n) /\ route' = route
    BY <1>27 DEF BalancerUpdated, db
  <2>2. BlocksOf(s)' = {b \in C : b.svc = s}
    BY <2>1 DEF BlocksOf
  <2> HIDE DEF C
  <2>3. CASE s \in ServicesForWsRoutes(n)
    <3>1. s \in Routed /\ Home(s) = w
      BY <1>1, <2>3 DEF ServicesForWsRoutes, Home, Ns
    <3>2. TaskOf(s) = NoTask
      BY <3>1 DEF TaskOf
    <3>3. BlocksOf(s)' = {Block(s)}
      BY <2>2, <2>3, Generation DEF C
    <3>4. Block(s)' = Block(s)
      BY <2>1 DEF Block, TcpBlock, HttpBlock
    <3>5. Serving(s, TaskOf(s))'
      BY <1>1, <3>1, <3>2, <3>3, <3>4
         DEF Serving, ServedBy, Awaited, Binds, Provisions, NoTask
    <3>6. QED  BY <3>5 DEF Blocks
  <2>4. CASE s \notin ServicesForWsRoutes(n)
    <3>1. BlocksOf(s)' \subseteq BlocksOf(s)
      BY <2>2, <2>4, Generation DEF C
    <3>2. s \in Routed /\ s \notin wiped' => s \notin wiped /\ s \notin LostBlocks(C)
      BY <2>1, <2>4
    <3>3. s \in Routed /\ s \notin wiped' => BlocksOf(s) \subseteq BlocksOf(s)'
      BY <2>2, <3>2, Lost DEF BlocksOf
    <3>4. QED  BY <1>2, <3>1, <3>2, <3>3 DEF Thinned
  <2>5. QED  BY <2>3, <2>4
<1>28. CASE BalancerFails(w)
  <2>1. CASE s \in torn'
    BY <2>1 DEF Blocks
  <2>2. CASE s \notin torn'
    <3>1. BlocksOf(s)' = BlocksOf(s) /\ wiped' = wiped
      BY <1>28, <2>2, BackFromBalancer, FailedBalancer
    <3>2. QED  BY <1>2, <3>1 DEF Thinned
  <2>3. QED  BY <2>1, <2>2
<1>29. QED
  BY <1>4, <1>5, <1>6, <1>7, <1>8, <1>9, <1>10, <1>11, <1>12, <1>13, <1>14, <1>15,
     <1>16, <1>17, <1>18, <1>19, <1>20, <1>21, <1>22, <1>23, <1>24, <1>25, <1>26,
     <1>27, <1>28
     DEF Acting, Provision, Deprovision, Publish

\* The catch blocks leave the blocks the row asks for.
LEMMA BackServing ==
  ASSUME IInv, NEW w \in Workspaces, NEW x \in Services, x = Svc(w), NEW apart,
         At(w, "ingress") \/ (At(w, "balancer") /\ task[w].op = "provision"), RollBack(w, apart),
         BlocksOf(x)' = BlocksOf(x), UNCHANGED wiped, x \notin torn,
         x \notin Streams /\ task[w].op = "bind" => task[w].old = NoDomain
  PROVE  Serving(x, task[w])'
<1> USE DEF Provisions, At
<1>1. /\ task[w].op \in {"provision", "bind", "unbind"} /\ Serving(x, task[w]) /\ Rows(x, task[w])
      /\ Shape
  BY Actor DEF OpsIn, Ops, IInv, Blocks
<1>2. CASE task[w].op = "provision"
  <2>1. x \notin Routed' /\ Goto(w, "undo")
    BY <1>2, RolledBack DEF Routed
  <2>2. task'[w].op = "provision" /\ task'[w].pc = "undo"
    BY <1>1, <1>2, <2>1, GoTask DEF Phases
  <2>3. BlocksOf(x)' = {}
    BY <1>1, <1>2 DEF Serving, Awaited
  <2>4. QED  BY <2>1, <2>2, <2>3 DEF Serving, Awaited, Binds
<1>3. CASE task[w].op # "provision"
  <2>1. /\ x \in Routed /\ x \in Routed' /\ route'[x].port = route[x].port
        /\ \/ Goto(w, "stuck")
           \/ /\ Finish(w)
              /\ route'[x].domain = IF task[w].op = "bind" THEN NoDomain ELSE task[w].domain
    BY <1>1, <1>3, RolledBack DEF Routed
  <2>2. ServedBy(x, OldBlock(x, task[w]))
    BY <1>1, <1>3 DEF Serving, Binds
  <2>3. CASE Goto(w, "stuck")
    <3>1. task'[w].pc = "stuck" /\ task'[w].op = task[w].op
      BY <1>1, <2>3, GoTask DEF Phases
    <3>2. QED  BY <2>1, <3>1, <1>1, <1>3 DEF Serving, Awaited, Binds
  <2>4. CASE /\ Finish(w)
             /\ route'[x].domain = IF task[w].op = "bind" THEN NoDomain ELSE task[w].domain
    <3>1. x \notin Streams => route'[x].domain = task[w].old
      BY <1>1, <1>3, <2>4 DEF Rows
    <3>2. Block(x)' = OldBlock(x, task[w])
      BY <2>1, <3>1 DEF Block, HttpBlock, TcpBlock, OldBlock, OldEntry
    <3>3. task'[w].pc = "end" /\ task'[w].op = "none"
      BY <1>1, <2>4, EndTask
    <3>4. ServedBy(x, Block(x))'
      BY <1>1, <2>2, <3>2 DEF ServedBy
    <3>5. QED  BY <2>1, <3>3, <3>4 DEF Serving, Awaited, Binds
  <2>5. QED  BY <2>1, <2>3, <2>4
<1>4. QED  BY <1>2, <1>3

\* Every step leaves the blocks of its service as far from the row as the task has brought
\* them.
LEMMA ActServing ==
  ASSUME IInv, NEW w \in Workspaces, NEW x \in Services, x = Svc(w), Acting(w), x \notin torn'
  PROVE  Serving(x, task[w])'
<1>1. /\ task[w].pc # "end" /\ task[w].op \in OpsIn(task[w].pc) /\ Shape
      /\ Rows(x, task[w]) /\ (x \notin torn => Serving(x, task[w]))
      /\ (x \in Routed => x \in service)
  BY ActTask, Actor DEF IInv, Shape, Blocks
<1>2. /\ proxy' = proxy => BlocksOf(x)' = BlocksOf(x)
      /\ route' = route => /\ Routed' = Routed /\ Block(x)' = Block(x)
                           /\ \A t : OldBlock(x, t)' = OldBlock(x, t)
      /\ RemoveRoutes(x) => x \notin Routed'
  BY <1>1, RowRemoved
     DEF Block, OldBlock, HttpBlock, TcpBlock, OldEntry, Routed, Shape, BlocksOf
<1>3. ASSUME x \notin Routed', BlocksOf(x)' = {}, task'[w].op \notin {"bind", "unbind"}
      PROVE  Serving(x, task[w])'
  BY <1>3 DEF Serving, Binds
<1>4. NoTask.op = "none" /\ NoTask.pc = "end"
  BY DEF NoTask
<1> USE DEF At, OpsIn, Ops, Provisions, Awaited, Binds, db, ingress, history
<1>5. CASE Claimed(w)
  <2>1. /\ task[w].pc \in {"pv", "pvc", "resources"} /\ task[w].op = "provision"
        /\ UNCHANGED <<route, proxy, torn>>
        /\ Goto(w, "pvc") \/ Goto(w, "resources") \/ Goto(w, "deploy")
    BY <1>5, <1>1 DEF Claimed, AfterClaim
  <2>2. task'[w].op = "provision" /\ x \notin Routed
    BY <1>1, <2>1, GoTask DEF Rows, Phases
  <2>3. BlocksOf(x) = {}
    BY <1>1, <2>1, <2>2 DEF Serving
  <2>4. QED  BY <1>2, <1>3, <2>1, <2>2, <2>3
<1>6. CASE ClaimFails(w)
  <2>1. /\ task[w].pc \in {"pv", "pvc", "resources"} /\ task[w].op = "provision"
        /\ UNCHANGED <<route, proxy, torn>>
        /\ Finish(w) \/ Goto(w, "unclaim")
    BY <1>6, <1>1 DEF ClaimFails, AfterClaim
  <2>2. task'[w].op \in {"provision", "none"} /\ x \notin Routed
    BY <1>1, <2>1, GoTask, EndTask DEF Rows, Phases
  <2>3. BlocksOf(x) = {}
    BY <1>1, <2>1, <2>2 DEF Serving
  <2>4. QED  BY <1>2, <1>3, <2>1, <2>2, <2>3
<1>7. CASE ClaimsTakenBack(w)
  <2>1. /\ UNCHANGED <<route, proxy, torn>> /\ x \notin Routed /\ (Finish(w))
        /\ task[w].op = "provision" /\ BlocksOf(x) = {}
    BY <1>7, <1>1 DEF ClaimsTakenBack, Rows, Serving
  <2>2. task'[w].op \in {"provision", "none"}
    BY <1>1, <2>1, GoTask, EndTask DEF Phases
  <2>3. QED  BY <1>2, <1>3, <2>1, <2>2
<1>8. CASE Deployed(w)
  <2>1. /\ UNCHANGED <<route, proxy, torn>> /\ x \notin Routed /\ (Goto(w, "rows"))
        /\ task[w].op = "provision" /\ BlocksOf(x) = {}
    BY <1>8, <1>1 DEF Deployed, Rows, Serving
  <2>2. task'[w].op \in {"provision", "none"}
    BY <1>1, <2>1, GoTask, EndTask DEF Phases
  <2>3. QED  BY <1>2, <1>3, <2>1, <2>2
<1>9. CASE DeployRefused(w)
  <2>1. /\ UNCHANGED <<route, proxy, torn>> /\ x \notin Routed /\ (Goto(w, "unclaim") \/ Finish(w))
        /\ task[w].op = "provision" /\ BlocksOf(x) = {}
    BY <1>9, <1>1 DEF DeployRefused, Rows, Serving
  <2>2. task'[w].op \in {"provision", "none"}
    BY <1>1, <2>1, GoTask, EndTask DEF Phases
  <2>3. QED  BY <1>2, <1>3, <2>1, <2>2
<1>10. CASE DeployUnanswered(w)
  <2>1. /\ UNCHANGED <<route, proxy, torn>> /\ x \notin Routed /\ (Finish(w))
        /\ task[w].op = "provision" /\ BlocksOf(x) = {}
    BY <1>10, <1>1 DEF DeployUnanswered, Rows, Serving
  <2>2. task'[w].op \in {"provision", "none"}
    BY <1>1, <2>1, GoTask, EndTask DEF Phases
  <2>3. QED  BY <1>2, <1>3, <2>1, <2>2
<1>11. CASE CreateRows(w)
  <2>1. /\ task[w].pc = "rows" /\ task[w].op = "provision" /\ UNCHANGED <<proxy, torn>>
        /\ (Finish(w) /\ route' = route) \/ Goto(w, "presets")
    BY <1>11 DEF CreateRows
  <2>2. x \notin Routed
    BY <1>1, <2>1 DEF Rows
  <2>3. BlocksOf(x)' = {}
    BY <1>1, <1>2, <2>1, <2>2 DEF Serving
  <2>4. CASE Finish(w) /\ route' = route
    BY <1>1, <1>2, <1>3, <2>2, <2>3, <2>4, EndTask
  <2>5. CASE Goto(w, "presets")
    <3>1. task'[w].pc = "presets" /\ task'[w].op = "provision"
      BY <1>1, <2>1, <2>5, GoTask DEF Phases
    <3>2. QED  BY <2>3, <3>1 DEF Serving
  <2>6. QED  BY <2>1, <2>4, <2>5
<1>12. CASE Undone(w)
  <2>1. /\ UNCHANGED <<route, proxy, torn>> /\ x \notin Routed /\ (Goto(w, "restore") \/ Finish(w))
        /\ task[w].op = "provision" /\ BlocksOf(x) = {}
    BY <1>12, <1>1 DEF Undone, Rows, Serving
  <2>2. task'[w].op \in {"provision", "none"}
    BY <1>1, <2>1, GoTask, EndTask DEF Phases
  <2>3. QED  BY <1>2, <1>3, <2>1, <2>2
<1>13. CASE UndoFails(w)
  BY <1>13 DEF UndoFails
<1>14. CASE Restored(w)
  <2>1. /\ UNCHANGED <<route, proxy, torn>> /\ x \notin Routed /\ (Finish(w))
        /\ task[w].op = "provision" /\ BlocksOf(x) = {}
    BY <1>14, <1>1 DEF Restored, Rows, Serving
  <2>2. task'[w].op \in {"provision", "none"}
    BY <1>1, <2>1, GoTask, EndTask DEF Phases
  <2>3. QED  BY <1>2, <1>3, <2>1, <2>2
<1>15. CASE RestoreFails(w)
  BY <1>15 DEF RestoreFails
<1>16. CASE Uninstalled(w)
  <2>1. /\ task[w].pc = "uninstall" /\ task[w].op = "deprovision"
        /\ RemoveRoutes(x) /\ Goto(w, "presets") /\ UNCHANGED <<proxy, torn>>
    BY <1>16, <1>1 DEF Uninstalled
  <2>2. /\ x \notin Routed' /\ task'[w].pc = "presets" /\ task'[w].op = "deprovision"
        /\ task'[w].exposed = task[w].exposed
    BY <1>1, <1>2, <2>1, GoTask DEF Phases
  <2>3. ~task[w].exposed => BlocksOf(x) = {}
    BY <1>1, <2>1 DEF Serving, Rows
  <2>4. QED  BY <1>2, <2>1, <2>2, <2>3 DEF Serving
<1>17. CASE UninstallFails(w)
  <2>1. /\ task[w].pc = "uninstall" /\ task[w].op = "deprovision" /\ Finish(w)
        /\ UNCHANGED <<route, proxy, wiped, torn>>
    BY <1>17, <1>1 DEF UninstallFails
  <2>2. task'[w] = NoTask
    BY <1>1, <2>1, EndTask
  <2>3. QED  BY <1>1, <1>2, <1>3, <1>4, <2>1, <2>2 DEF Serving, ServedBy
<1>18. CASE Unblock(w)
  <2>1. /\ task[w].pc = "unblock" /\ task[w].op = "deprovision" /\ Goto(w, "balancer") /\ route' = route
        /\ x \notin Routed
    BY <1>18, <1>1 DEF Unblock, Rows
  <2>2. task'[w].op = "deprovision"
    BY <1>1, <2>1, GoTask DEF Phases
  <2>3. CASE task[w].exposed
    <3>1. proxy' = {b \in proxy : ~OfService(x, b)}
      BY <1>18, <2>3 DEF Unblock
    <3>2. BlocksOf(x)' = {}
      BY <3>1 DEF BlocksOf, OfService
    <3>3. QED  BY <1>2, <1>3, <2>1, <2>2, <3>2
  <2>4. CASE ~task[w].exposed
    <3>1. UNCHANGED <<proxy, torn>>
      BY <1>18, <2>4 DEF Unblock
    <3>2. BlocksOf(x) = {}
      BY <1>1, <2>1, <2>4, <3>1 DEF Serving
    <3>3. QED  BY <1>2, <1>3, <2>1, <2>2, <3>1, <3>2
  <2>5. QED  BY <2>3, <2>4
<1>19. CASE UnblockFails(w)
  BY <1>19 DEF UnblockFails
<1>20. CASE PresetsUpdated(w)
  <2>1. /\ UNCHANGED <<route, proxy, wiped, torn>>
        /\ \/ task[w].op = "deprovision" /\ task[w].pc = "again" /\ Finish(w)
           \/ task[w].op = "provision" /\ task[w].pc = "presets" /\ Goto(w, "ingress")
           \/ task[w].op = "deprovision" /\ task[w].pc = "presets" /\ Goto(w, "unblock")
    BY <1>20, <1>1 DEF PresetsUpdated
  <2>2. CASE task[w].op = "provision" /\ task[w].pc = "presets" /\ Goto(w, "ingress")
    <3>1. task'[w].pc = "ingress" /\ task'[w].op = "provision" /\ x \in Routed
      BY <1>1, <2>2, GoTask DEF Phases, Rows
    <3>2. BlocksOf(x)' = {}
      BY <1>1, <1>2, <2>1, <2>2 DEF Serving
    <3>3. QED  BY <1>2, <2>1, <3>1, <3>2 DEF Serving
  <2>3. CASE task[w].op = "deprovision" /\ task[w].pc = "again" /\ Finish(w)
    <3>1. task'[w].op = "none" /\ x \notin Routed
      BY <1>1, <2>3, EndTask DEF Rows
    <3>2. QED  BY <1>1, <1>2, <1>3, <2>1, <2>3, <3>1 DEF Serving
  <2>4. CASE task[w].op = "deprovision" /\ task[w].pc = "presets" /\ Goto(w, "unblock")
    <3>1. /\ task'[w].op = "deprovision" /\ task'[w].pc = "unblock" /\ x \notin Routed
          /\ task'[w].exposed = task[w].exposed
      BY <1>1, <2>4, GoTask DEF Rows, Phases
    <3>2. QED  BY <1>1, <1>2, <2>1, <2>4, <3>1 DEF Serving
  <2>5. QED  BY <2>1, <2>2, <2>3, <2>4
<1>21. CASE PresetsFail(w)
  <2>1. /\ UNCHANGED <<proxy, wiped, torn>>
        /\ \/ task[w].op = "deprovision" /\ task[w].pc = "again" /\ Goto(w, "stuck") /\ route' = route
           \/ task[w].op = "provision" /\ task[w].pc = "presets" /\ Goto(w, "undo") /\ RemoveRoutes(x)
    BY <1>21, <1>1 DEF PresetsFail
  <2>2. CASE task[w].op = "deprovision" /\ task[w].pc = "again" /\ Goto(w, "stuck") /\ route' = route
    <3>1. task'[w].op = "deprovision" /\ x \notin Routed
      BY <1>1, <2>2, GoTask DEF Rows, Phases
    <3>2. QED  BY <1>1, <1>2, <1>3, <2>1, <2>2, <3>1 DEF Serving
  <2>3. CASE task[w].op = "provision" /\ task[w].pc = "presets" /\ Goto(w, "undo") /\ RemoveRoutes(x)
    <3>1. x \notin Routed' /\ task'[w].op = "provision"
      BY <1>1, <1>2, <2>3, GoTask DEF Phases
    <3>2. QED  BY <1>1, <1>2, <1>3, <2>1, <2>3, <3>1 DEF Serving
  <2>4. QED  BY <2>1, <2>2, <2>3
<1>22. CASE RowsBound(w)
  <2>1. /\ task[w].pc = "rows" /\ task[w].op \in {"bind", "unbind"} /\ UNCHANGED <<proxy, wiped, torn>>
    BY <1>22 DEF RowsBound
  <2>2. /\ x \in Routed /\ Routed' = Routed /\ route'[x].port = route[x].port
        /\ task'[w].op = task[w].op /\ task'[w].pc = "ingress" /\ task'[w].old = route[x].domain
    BY <1>1, <1>22, BoundRow DEF Routed
  <2>3. OldBlock(x, task[w])' = Block(x)
    BY <2>2 DEF OldBlock, OldEntry, Block, TcpBlock, HttpBlock
  <2>4. ServedBy(x, Block(x))
    BY <1>1, <2>1, <2>2 DEF Serving
  <2>5. ServedBy(x, OldBlock(x, task[w]))'
    BY <1>2, <2>1, <2>3, <2>4 DEF ServedBy
  <2>6. QED  BY <2>1, <2>2, <2>5 DEF Serving
<1>23. CASE RowsFail(w)
  <2>1. /\ UNCHANGED <<route, proxy, wiped, torn>> /\ task[w].op \in {"bind", "unbind"}
        /\ task[w].pc = "rows" /\ x \in Routed /\ Finish(w)
    BY <1>23, <1>1 DEF RowsFail, Rows
  <2>2. ServedBy(x, Block(x))
    BY <1>1, <2>1 DEF Serving
  <2>3. ServedBy(x, Block(x))'
    BY <1>2, <2>1, <2>2 DEF ServedBy
  <2>4. task'[w].pc \in {"stuck", "end"} /\ task'[w].op # "provision"
    BY <1>1, <2>1, GoTask, EndTask DEF Phases
  <2>5. QED  BY <1>2, <2>1, <2>3, <2>4 DEF Serving
<1>24. CASE CommitFails(w)
  <2>1. /\ UNCHANGED <<route, proxy, wiped, torn>> /\ task[w].op \in {"bind", "unbind"}
        /\ task[w].pc = "rows" /\ x \in Routed /\ Goto(w, "stuck")
    BY <1>24, <1>1 DEF CommitFails, Rows
  <2>2. ServedBy(x, Block(x))
    BY <1>1, <2>1 DEF Serving
  <2>3. ServedBy(x, Block(x))'
    BY <1>2, <2>1, <2>2 DEF ServedBy
  <2>4. task'[w].pc \in {"stuck", "end"} /\ task'[w].op # "provision"
    BY <1>1, <2>1, GoTask, EndTask DEF Phases
  <2>5. QED  BY <1>2, <2>1, <2>3, <2>4 DEF Serving
<1>25. CASE IngressUpdated(w)
  <2>1. /\ At(w, "ingress") /\ task'[w].pc = "balancer" /\ task'[w].op = task[w].op
        /\ task'[w].old = task[w].old /\ UNCHANGED <<route, proxy, wiped, torn>>
    BY <1>25, Updated
  <2>2. x \in Routed /\ OldBlock(x, task[w])' = OldBlock(x, task[w])
    BY <1>1, <2>1, AtIngress DEF OldBlock, OldEntry, TcpBlock
  <2>3. CASE task[w].op = "provision"
    BY <1>1, <1>2, <2>1, <2>2, <2>3 DEF Serving
  <2>4. CASE task[w].op \in {"bind", "unbind"}
    <3>1. ServedBy(x, OldBlock(x, task[w]))'
      BY <1>1, <1>2, <2>1, <2>2, <2>4 DEF Serving, ServedBy
    <3>2. QED  BY <1>2, <2>1, <2>2, <2>4, <3>1 DEF Serving
  <2>5. QED  BY <1>1, <2>1, <2>3, <2>4
<1>26. CASE IngressRefused(w)
  <2>1. /\ At(w, "ingress") /\ UNCHANGED <<proxy, wiped>>
        /\ RollBack(w, IF task[w].op = "bind" /\ task[w].old # NoDomain THEN {Svc(w)} ELSE {})
    BY <1>26 DEF IngressRefused
  <2>2. x \notin torn /\ (task[w].op = "bind" => task[w].old = NoDomain)
    BY <2>1 DEF RollBack
  <2>3. QED  BY <1>2, <2>1, <2>2, BackServing
<1>27. CASE IngressUnanswered(w)
  BY <1>27 DEF IngressUnanswered, RollBack
<1>28. CASE BalancerUpdated(w)
  <2> DEFINE n == Ns(w)
  <2>1. /\ task[w].pc = "balancer" /\ proxy' = Generated(n) /\ UNCHANGED route /\ Finish(w)
        /\ task[w].op \in {"bind", "unbind"} \/ torn' = torn
    BY <1>28 DEF BalancerUpdated
  <2>2. task'[w] = NoTask /\ BlocksOf(x)' = {b \in Generated(n) : b.svc = x}
    BY <1>1, <2>1, EndTask DEF BlocksOf
  <2>3. CASE x \in Routed
    <3>1. x \in ServicesForWsRoutes(n)
      BY <2>3 DEF ServicesForWsRoutes, Ns
    <3>2. BlocksOf(x)' = {Block(x)'}
      BY <1>2, <2>1, <2>2, <3>1, Generation
    <3>3. QED  BY <1>2, <1>4, <2>1, <2>2, <2>3, <3>2 DEF Serving, ServedBy
  <2>4. CASE x \notin Routed
    <3>1. x \notin ServicesForWsRoutes(n)
      BY <2>4 DEF ServicesForWsRoutes
    <3>2. torn' = torn /\ BlocksOf(x) = {}
      BY <1>1, <2>1, <2>4 DEF Serving, Rows
    <3>3. BlocksOf(x)' = {}
      BY <2>2, <3>1, <3>2, Generation
    <3>4. QED  BY <1>2, <1>3, <1>4, <2>1, <2>2, <2>4, <3>3
  <2>5. QED  BY <2>3, <2>4
<1>29. CASE BalancerFails(w)
  <2>1. /\ task[w].pc = "balancer" /\ BlocksOf(x)' = BlocksOf(x) /\ UNCHANGED wiped
        /\ x \notin torn
    BY <1>29, BackFromBalancer, FailedBalancer
  <2>2. CASE task[w].op = "deprovision"
    <3>1. Goto(w, "again") /\ UNCHANGED route /\ x \notin Routed
      BY <1>29, <1>1, <2>1, <2>2, BackFromBalancer DEF Rows
    <3>2. task'[w].op = "deprovision" /\ BlocksOf(x) = {}
      BY <1>1, <2>1, <2>2, <3>1, GoTask DEF Phases, Serving
    <3>3. QED  BY <1>2, <1>3, <2>1, <3>1, <3>2
  <2>3. CASE task[w].op # "deprovision"
    <3>1. PICK apart : RollBack(w, apart)
      BY <1>29, <2>3, BackFromBalancer
    <3>2. task[w].op = "provision"
      BY <1>29, <2>3, BackFromBalancer
    <3>3. QED  BY <2>1, <3>1, <3>2, BackServing
  <2>4. QED  BY <2>2, <2>3
<1>30. QED
  BY <1>5, <1>6, <1>7, <1>8, <1>9, <1>10, <1>11, <1>12, <1>13, <1>14, <1>15, <1>16,
     <1>17, <1>18, <1>19, <1>20, <1>21, <1>22, <1>23, <1>24, <1>25, <1>26, <1>27,
     <1>28, <1>29
     DEF Acting, Provision, Deprovision, Publish

\* nginx accepts no configuration in which a port is served twice.  Blocks that stayed after
\* a refused one are of torn services, and a service that ceases to be torn without a
\* configuration has no block left.
LEMMA ActServed ==
  ASSUME IInv, NEW w \in Workspaces, NEW x \in Services, x = Svc(w), Acting(w)
  PROVE  Fresh' /\ Served'
<1>1. Fresh /\ Served
  BY DEF IInv
<1>2. CASE BalancerUpdated(w)
  <2>1. Loadable(Generated(Ns(w))) /\ proxy' = Generated(Ns(w)) /\ empty' = FALSE
    BY <1>2 DEF BalancerUpdated
  <2>2. QED  BY <2>1 DEF Loadable, Fresh, Served
<1>3. CASE BalancerFails(w)
  <2>1. torn \subseteq torn' /\ (\A b \in proxy' \ proxy : b.svc \in torn') /\ Fresh'
    BY <1>3, BackFromBalancer, FailedBalancer
  <2>2. QED  BY <1>1, <2>1 DEF Served
<1>4. CASE Unblock(w)
  <2>1. CASE task[w].exposed
    <3>1. /\ proxy' = {b \in proxy : ~OfService(x, b)} /\ empty' = empty
          /\ torn' = torn \ ({x} \ Streams)
      BY <1>4, <2>1 DEF Unblock
    <3>2. \A b \in proxy' : b \in proxy /\ b.svc # x
      BY <3>1 DEF OfService
    <3>3. \A b \in proxy' : b.svc \notin torn' => b.svc \notin torn
      BY <3>1, <3>2
    <3>4. QED  BY <1>1, <3>1, <3>2, <3>3 DEF Fresh, Served
  <2>2. CASE ~task[w].exposed
    BY <1>1, <1>4, <2>2 DEF Unblock, Fresh, Served
  <2>3. QED  BY <2>1, <2>2
<1>5. CASE ~BalancerUpdated(w) /\ ~BalancerFails(w) /\ ~Unblock(w)
  <2>1. proxy' = proxy /\ empty' = empty /\ torn \subseteq torn'
    BY <1>5
       DEF Acting, Provision, Deprovision, Publish, Claimed, ClaimFails,
           ClaimsTakenBack, Deployed, DeployRefused, DeployUnanswered, CreateRows,
           Undone, UndoFails, Restored, RestoreFails, Uninstalled, UninstallFails,
           UnblockFails, PresetsUpdated, PresetsFail, RowsBound, RowsFail,
           CommitFails, IngressUpdated, IngressRefused, IngressUnanswered, RollBack, history
  <2>2. QED  BY <1>1, <2>1 DEF Fresh, Served
<1>6. QED  BY <1>2, <1>3, <1>4, <1>5

\* So a service that is not torn is served.
LEMMA ActBlocks ==
  ASSUME IInv, NEW w \in Workspaces, NEW x \in Services, x = Svc(w), Acting(w)
  PROVE  Blocks(x, task[w])'
BY ActServing DEF Blocks

----------------------------------------------------------------------------
(* The listeners.                                                          *)

\* The stream ports of other workspaces, before and after a step.
LEMMA OtherPorts ==
  ASSUME IInv, NEW w \in Workspaces, Acting(w), NEW v \in Workspaces \ {w}
  PROVE  /\ StreamPorts(v, Routed)' = StreamPorts(v, Routed)
         /\ \A y : StreamPorts(v, Routed \ {y})' = StreamPorts(v, Routed \ {y})
<1>1. PICK x \in Services : x = Svc(w)
  BY ActsOn
<1>2. Home(x) = w /\ Routed' \ {x} = Routed \ {x} /\ \A s \in Routed \ {x} : route'[s] = route[s]
  BY <1>1, ActsOn, ActRoute DEF Routed
<1>3. QED  BY <1>2 DEF StreamPorts

\* Those of its workspace.
LEMMA PortsKept ==
  ASSUME IInv, NEW w \in Workspaces, NEW x \in Services, x = Svc(w), Acting(w)
  PROVE  /\ StreamPorts(w, Routed \ {x})' = StreamPorts(w, Routed \ {x})
         /\ x \notin Streams => StreamPorts(w, Routed)' = StreamPorts(w, Routed)
         /\ x \notin Routed' => StreamPorts(w, Routed)' = StreamPorts(w, Routed \ {x})
         /\ x \notin Routed => StreamPorts(w, Routed) = StreamPorts(w, Routed \ {x})
         /\ (x \in Routed' <=> x \in Routed) /\ (x \in Routed => route'[x].port = route[x].port)
              => StreamPorts(w, Routed)' = StreamPorts(w, Routed)
<1>1. Home(x) = w /\ Routed' \ {x} = Routed \ {x} /\ \A s \in Routed \ {x} : route'[s] = route[s]
  BY ActsOn, ActRoute DEF Routed
<1>2. StreamPorts(w, Routed \ {x})' = StreamPorts(w, Routed \ {x})
  BY <1>1 DEF StreamPorts
<1>3. x \notin Streams => StreamPorts(w, Routed)' = StreamPorts(w, Routed)
  BY <1>1 DEF StreamPorts
<1>4. x \notin Routed' => StreamPorts(w, Routed)' = StreamPorts(w, Routed \ {x})
  BY <1>1 DEF StreamPorts
<1>5. x \notin Routed => StreamPorts(w, Routed) = StreamPorts(w, Routed \ {x})
  BY DEF StreamPorts
<1>6. (x \in Routed' <=> x \in Routed) /\ (x \in Routed => route'[x].port = route[x].port)
        => StreamPorts(w, Routed)' = StreamPorts(w, Routed)
  BY <1>1 DEF StreamPorts
<1>7. QED  BY <1>2, <1>3, <1>4, <1>5, <1>6

\* A stream that is torn stays torn; a task on a web site changes no listeners.
LEMMA StreamsKept ==
  ASSUME IInv, NEW w \in Workspaces, NEW x \in Services, x = Svc(w), Acting(w)
  PROVE  /\ x \in Streams /\ x \in torn => x \in torn'
         /\ x \notin Streams => listeners' = listeners
<1> USE DEF At, ingress, history
<1>1. CASE Claimed(w)
  BY <1>1 DEF Claimed
<1>2. CASE ClaimFails(w)
  BY <1>2 DEF ClaimFails
<1>3. CASE ClaimsTakenBack(w)
  BY <1>3 DEF ClaimsTakenBack
<1>4. CASE Deployed(w)
  BY <1>4 DEF Deployed
<1>5. CASE DeployRefused(w)
  BY <1>5 DEF DeployRefused
<1>6. CASE DeployUnanswered(w)
  BY <1>6 DEF DeployUnanswered
<1>7. CASE CreateRows(w)
  BY <1>7 DEF CreateRows
<1>8. CASE Undone(w)
  BY <1>8, Uninstallation DEF Undone, CleanupIngressRules
<1>9. CASE UndoFails(w)
  BY <1>9, HalfUninstallation DEF UndoFails, CleanupIngressRules
<1>10. CASE Restored(w)
  BY <1>10 DEF Restored, RollbackK8SResources
<1>11. CASE RestoreFails(w)
  BY <1>11 DEF RestoreFails
<1>12. CASE Uninstalled(w)
  BY <1>12, Uninstallation DEF Uninstalled, CleanupIngressRules
<1>13. CASE UninstallFails(w)
  BY <1>13, HalfUninstallation DEF UninstallFails, CleanupIngressRules
<1>14. CASE Unblock(w)
  BY <1>14 DEF Unblock
<1>15. CASE UnblockFails(w)
  BY <1>15 DEF UnblockFails
<1>16. CASE PresetsUpdated(w)
  BY <1>16 DEF PresetsUpdated
<1>17. CASE PresetsFail(w)
  BY <1>17 DEF PresetsFail
<1>18. CASE RowsBound(w)
  BY <1>18 DEF RowsBound
<1>19. CASE RowsFail(w)
  BY <1>19 DEF RowsFail
<1>20. CASE CommitFails(w)
  BY <1>20 DEF CommitFails
<1>21. CASE IngressUpdated(w)
  BY <1>21 DEF IngressUpdated, WriteRules
<1>22. CASE IngressRefused(w)
  BY <1>22 DEF IngressRefused, RollBack
<1>23. CASE IngressUnanswered(w)
  BY <1>23 DEF IngressUnanswered, WriteRules, RollBack
<1>24. CASE BalancerUpdated(w)
  BY <1>24 DEF BalancerUpdated
<1>25. CASE BalancerFails(w)
  BY <1>25, BackFromBalancer
<1>26. QED
  BY <1>1, <1>2, <1>3, <1>4, <1>5, <1>6, <1>7, <1>8, <1>9, <1>10, <1>11, <1>12, <1>13,
     <1>14, <1>15, <1>16, <1>17, <1>18, <1>19, <1>20, <1>21, <1>22, <1>23, <1>24, <1>25
     DEF Acting, Provision, Deprovision, Publish

\* Every step keeps the listeners of its workspace those of its streams, or says that one
\* is torn.
LEMMA ActHearing ==
  ASSUME IInv, NEW w \in Workspaces, NEW x \in Streams, x = Svc(w), Acting(w),
         Hearing(w), x \notin torn'
  PROVE  Hearing(w)'
<1>1. /\ x \in Services /\ task[w].pc # "end" /\ task[w].op \in OpsIn(task[w].pc) /\ Shape
      /\ Rows(x, task[w]) /\ (x \in Routed => x \in service)
      /\ task'[w] = NoTask \/ task'[w].svc = task[w].svc
      /\ NoTask.op = "none" /\ NoTask.pc = "end" /\ NoTask.svc = NoService /\ NoService \notin Services
      /\ Streams \subseteq Services
  BY ActTask, Actor, NoTaskType, ServiceAssumption DEF IInv, Shape
<1> DEFINE out == StreamPorts(w, Routed \ {x})
           all == StreamPorts(w, Routed)
<1>2. /\ Unheard(task[w]) => listeners[w] = out
      /\ task[w].op = "provision" /\ task[w].backup.there => task[w].backup.listeners = out
      /\ ~Unheard(task[w]) /\ ~Restoring(task[w]) => listeners[w] = all
      /\ out' = out
      /\ x \notin Routed' => all' = out
      /\ x \notin Routed => all = out
  BY <1>1, PortsKept DEF Hearing
<1>3. (x \in Routed' <=> x \in Routed) /\ (x \in Routed => route'[x].port = route[x].port) => all' = all
  BY <1>1, PortsKept
<1>4. task'[w] # NoTask => Svc(w)' = x
  BY <1>1 DEF Svc
<1>5. task'[w] = NoTask => Svc(w)' \notin Streams /\ ~Unheard(task[w])'
  BY <1>1 DEF Svc, Unheard, Provisions
<1>6. ASSUME task'[w] # NoTask, Unheard(task[w])' => listeners'[w] = out,
             task'[w].op = "provision" /\ task'[w].backup.there => task'[w].backup.listeners = out,
             ~Unheard(task[w])' /\ ~Restoring(task[w])' => listeners'[w] = all'
      PROVE  Hearing(w)'
  <2>1. Svc(w)' = x /\ StreamPorts(w, Routed \ {x})' = out
    BY <1>2, <1>4, <1>6
  <2> HIDE DEF out
  <2>2. QED  BY <1>6, <2>1 DEF Hearing
<1>7. ASSUME task'[w] = NoTask, listeners'[w] = all'
      PROVE  Hearing(w)'
  BY <1>5, <1>7 DEF Hearing
<1> HIDE DEF out, all
\* The service is not listened on.
<1>8. ASSUME listeners'[w] = out, x \notin Routed' \/ (task'[w] # NoTask /\ Unheard(task[w])'),
             task'[w] = NoTask \/ (task'[w].op = task[w].op /\ task'[w].backup = task[w].backup)
      PROVE  Hearing(w)'
  BY <1>2, <1>6, <1>7, <1>8
\* The service is listened on when it is routed.
<1>9. ASSUME listeners'[w] = all', ~Unheard(task[w])',
             task'[w] = NoTask \/ (task'[w].op = task[w].op /\ task'[w].backup = task[w].backup)
      PROVE  Hearing(w)'
  BY <1>2, <1>6, <1>7, <1>9
\* The backup is going to be restored.
<1>10. ASSUME task'[w] # NoTask, task'[w].op = task[w].op, task'[w].backup = task[w].backup,
              task'[w].backup.there, task'[w].pc \in {"undo", "restore"}
       PROVE  Hearing(w)'
  BY <1>2, <1>6, <1>10 DEF Restoring, Unheard, Provisions
<1>11. route' = route => (x \in Routed' <=> x \in Routed) /\ all' = all
  BY <1>3 DEF Routed
<1>12. RemoveRoutes(x) => x \notin Routed'
  BY <1>1, RowRemoved DEF Routed, Shape
<1> USE DEF At, OpsIn, Ops, Provisions, Unheard, Restoring, db, ingress, history
<1>13. CASE Claimed(w)
  <2>1. /\ UNCHANGED <<route, listeners>> /\ task[w].op = "provision" /\ x \notin Routed
        /\ listeners[w] = out /\ (Goto(w, "pvc") \/ Goto(w, "resources") \/ Goto(w, "deploy"))
    BY <1>13, <1>1, <1>2 DEF Claimed, Rows, AfterClaim
  <2>2. \/ task'[w] = NoTask
        \/ task'[w].op = task[w].op /\ task'[w].backup = task[w].backup
    BY <1>1, <2>1, GoTask, EndTask DEF Phases
  <2>3. QED  BY <1>8, <1>11, <2>1, <2>2
<1>14. CASE ClaimFails(w)
  <2>1. /\ UNCHANGED <<route, listeners>> /\ task[w].op = "provision" /\ x \notin Routed
        /\ listeners[w] = out /\ (Finish(w) \/ Goto(w, "unclaim"))
    BY <1>14, <1>1, <1>2 DEF ClaimFails, Rows, AfterClaim
  <2>2. \/ task'[w] = NoTask
        \/ task'[w].op = task[w].op /\ task'[w].backup = task[w].backup
    BY <1>1, <2>1, GoTask, EndTask DEF Phases
  <2>3. QED  BY <1>8, <1>11, <2>1, <2>2
<1>15. CASE ClaimsTakenBack(w)
  <2>1. /\ UNCHANGED <<route, listeners>> /\ task[w].op = "provision" /\ x \notin Routed
        /\ listeners[w] = out /\ (Finish(w))
    BY <1>15, <1>1, <1>2 DEF ClaimsTakenBack, Rows, AfterClaim
  <2>2. \/ task'[w] = NoTask
        \/ task'[w].op = task[w].op /\ task'[w].backup = task[w].backup
    BY <1>1, <2>1, GoTask, EndTask DEF Phases
  <2>3. QED  BY <1>8, <1>11, <2>1, <2>2
<1>16. CASE Deployed(w)
  <2>1. /\ UNCHANGED <<route, listeners>> /\ task[w].op = "provision" /\ x \notin Routed
        /\ listeners[w] = out /\ (Goto(w, "rows"))
    BY <1>16, <1>1, <1>2 DEF Deployed, Rows, AfterClaim
  <2>2. \/ task'[w] = NoTask
        \/ task'[w].op = task[w].op /\ task'[w].backup = task[w].backup
    BY <1>1, <2>1, GoTask, EndTask DEF Phases
  <2>3. QED  BY <1>8, <1>11, <2>1, <2>2
<1>17. CASE DeployRefused(w)
  <2>1. /\ UNCHANGED <<route, listeners>> /\ task[w].op = "provision" /\ x \notin Routed
        /\ listeners[w] = out /\ (Finish(w) \/ Goto(w, "unclaim"))
    BY <1>17, <1>1, <1>2 DEF DeployRefused, Rows, AfterClaim
  <2>2. \/ task'[w] = NoTask
        \/ task'[w].op = task[w].op /\ task'[w].backup = task[w].backup
    BY <1>1, <2>1, GoTask, EndTask DEF Phases
  <2>3. QED  BY <1>8, <1>11, <2>1, <2>2
<1>18. CASE DeployUnanswered(w)
  <2>1. /\ UNCHANGED <<route, listeners>> /\ task[w].op = "provision" /\ x \notin Routed
        /\ listeners[w] = out /\ (Finish(w))
    BY <1>18, <1>1, <1>2 DEF DeployUnanswered, Rows, AfterClaim
  <2>2. \/ task'[w] = NoTask
        \/ task'[w].op = task[w].op /\ task'[w].backup = task[w].backup
    BY <1>1, <2>1, GoTask, EndTask DEF Phases
  <2>3. QED  BY <1>8, <1>11, <2>1, <2>2
<1>19. CASE CreateRows(w)
  <2>1. /\ task[w].pc = "rows" /\ task[w].op = "provision" /\ listeners' = listeners
        /\ (Finish(w) /\ route' = route) \/ Goto(w, "presets")
    BY <1>19 DEF CreateRows
  <2>2. x \notin Routed /\ listeners[w] = out
    BY <1>1, <1>2, <2>1 DEF Rows
  <2>3. CASE Finish(w) /\ route' = route
    BY <1>1, <1>8, <1>11, <2>1, <2>2, <2>3, EndTask
  <2>4. CASE Goto(w, "presets")
    <3>1. /\ task'[w].pc = "presets" /\ task'[w].op = task[w].op
          /\ task'[w].backup = task[w].backup
      BY <1>1, <2>4, GoTask DEF Phases
    <3>2. QED  BY <1>1, <1>8, <2>1, <2>2, <3>1
  <2>5. QED  BY <2>1, <2>3, <2>4
<1>20. CASE Undone(w)
  <2>1. /\ task[w].pc = "undo" /\ task[w].op = "provision" /\ UNCHANGED route /\ x \notin Routed
        /\ CleanupIngressRules(w, x)
        /\ IF task[w].backup.there THEN Goto(w, "restore") ELSE Finish(w)
    BY <1>20, <1>1, Uninstallation DEF Undone, Rows
  <2>2. listeners' = listeners
    BY <1>1, <2>1, CleanedUp
  <2>3. CASE task[w].backup.there
    <3>1. /\ task'[w].pc = "restore" /\ task'[w].op = task[w].op
          /\ task'[w].backup = task[w].backup
      BY <1>1, <2>1, <2>3, GoTask DEF Phases
    <3>2. QED  BY <1>1, <1>10, <2>3, <3>1
  <2>4. CASE ~task[w].backup.there
    BY <1>1, <1>2, <1>8, <1>11, <2>1, <2>2, <2>4, EndTask
  <2>5. QED  BY <2>3, <2>4
<1>21. CASE UndoFails(w)
  BY <1>21 DEF UndoFails
<1>22. CASE Restored(w)
  <2>1. /\ task[w].pc = "restore" /\ task[w].op = "provision" /\ UNCHANGED route
        /\ x \notin Routed /\ task[w].backup.there /\ Finish(w) /\ RollbackK8SResources(w)
    BY <1>22, <1>1 DEF Restored, Rows
  <2>2. listeners'[w] = task[w].backup.listeners
    BY <1>1, <2>1, RestoredRules
  <2>3. QED  BY <1>1, <1>2, <1>8, <1>11, <2>1, <2>2, EndTask
<1>23. CASE RestoreFails(w)
  BY <1>23 DEF RestoreFails
<1>24. CASE Uninstalled(w)
  <2>1. /\ task[w].pc = "uninstall" /\ task[w].op = "deprovision" /\ RemoveRoutes(x)
        /\ CleanupIngressRules(w, x) /\ Goto(w, "presets")
    BY <1>24, <1>1, Uninstallation DEF Uninstalled
  <2>2. listeners'[w] = out
    <3>1. CASE x \in Routed
      BY <1>1, <2>1, <3>1, CleanedUp DEF out
    <3>2. CASE x \notin Routed
      BY <1>1, <1>2, <2>1, <3>2, CleanedUp
    <3>3. QED  BY <3>1, <3>2
  <2>3. task'[w].op = task[w].op /\ task'[w].backup = task[w].backup
    BY <1>1, <2>1, GoTask DEF Phases
  <2>4. QED  BY <1>8, <1>12, <2>1, <2>2, <2>3
<1>25. CASE UninstallFails(w)
  <2>1. /\ task[w].op \in {"deprovision"} /\ task[w].pc = "uninstall"
        /\ UNCHANGED <<route, listeners>> /\ Finish(w)
    BY <1>25, <1>1 DEF UninstallFails
  <2>2. \/ task'[w] = NoTask
        \/ task'[w].op = task[w].op /\ task'[w].backup = task[w].backup
    BY <1>1, <2>1, GoTask, EndTask DEF Phases
  <2>3. QED  BY <1>1, <1>2, <1>9, <1>11, <2>1, <2>2
<1>26. CASE Unblock(w)
  <2>1. /\ task[w].op \in {"deprovision"} /\ task[w].pc = "unblock"
        /\ UNCHANGED <<route, listeners>> /\ Goto(w, "balancer")
    BY <1>26, <1>1 DEF Unblock
  <2>2. \/ task'[w] = NoTask
        \/ task'[w].op = task[w].op /\ task'[w].backup = task[w].backup
    BY <1>1, <2>1, GoTask, EndTask DEF Phases
  <2>3. QED  BY <1>1, <1>2, <1>9, <1>11, <2>1, <2>2
<1>27. CASE UnblockFails(w)
  BY <1>27 DEF UnblockFails
<1>28. CASE PresetsUpdated(w)
  <2>1. /\ UNCHANGED <<route, listeners>>
        /\ \/ task[w].op = "deprovision" /\ task[w].pc = "again" /\ Finish(w)
           \/ task[w].op = "provision" /\ task[w].pc = "presets" /\ Goto(w, "ingress")
           \/ task[w].op = "deprovision" /\ task[w].pc = "presets" /\ Goto(w, "unblock")
    BY <1>28, <1>1 DEF PresetsUpdated
  <2>2. CASE task[w].op = "provision" /\ task[w].pc = "presets" /\ Goto(w, "ingress")
    <3>1. /\ task'[w].pc = "ingress" /\ task'[w].op = task[w].op
          /\ task'[w].backup = task[w].backup
      BY <1>1, <2>2, GoTask DEF Phases
    <3>2. QED  BY <1>1, <1>2, <1>8, <2>1, <2>2, <3>1
  <2>3. CASE task[w].op = "deprovision" /\ (Finish(w) \/ Goto(w, "unblock"))
    <3>1. \/ task'[w] = NoTask
          \/ task'[w].op = task[w].op /\ task'[w].backup = task[w].backup
      BY <1>1, <2>3, GoTask, EndTask DEF Phases
    <3>2. listeners[w] = all
      BY <1>2, <2>1, <2>3
    <3>3. QED  BY <1>1, <1>9, <1>11, <2>1, <2>3, <3>1, <3>2
  <2>4. QED  BY <2>1, <2>2, <2>3
<1>29. CASE PresetsFail(w)
  <2>1. /\ listeners' = listeners
        /\ \/ task[w].op = "deprovision" /\ task[w].pc = "again" /\ Goto(w, "stuck") /\ route' = route
           \/ task[w].op = "provision" /\ task[w].pc = "presets" /\ Goto(w, "undo") /\ RemoveRoutes(x)
    BY <1>29, <1>1 DEF PresetsFail
  <2>2. \/ task'[w] = NoTask
        \/ task'[w].op = task[w].op /\ task'[w].backup = task[w].backup
    BY <1>1, <2>1, GoTask, EndTask DEF Phases
  <2>3. CASE task[w].op = "deprovision" /\ task[w].pc = "again" /\ Goto(w, "stuck") /\ route' = route
    BY <1>1, <1>2, <1>9, <1>11, <2>1, <2>2, <2>3
  <2>4. CASE task[w].op = "provision" /\ task[w].pc = "presets" /\ Goto(w, "undo") /\ RemoveRoutes(x)
    BY <1>1, <1>2, <1>8, <1>12, <2>1, <2>2, <2>4
  <2>5. QED  BY <2>1, <2>3, <2>4
<1>30. CASE RowsBound(w)
  <2>1. task[w].pc = "rows" /\ task[w].op \in {"bind", "unbind"} /\ UNCHANGED listeners
    BY <1>30 DEF RowsBound
  <2>2. /\ x \in Routed /\ x \in Routed' /\ route'[x].port = route[x].port
        /\ task'[w].op = task[w].op /\ task'[w].backup = task[w].backup
    BY <1>1, <1>30, BoundRow DEF Routed
  <2>3. QED  BY <1>1, <1>2, <1>3, <1>9, <2>1, <2>2
<1>31. CASE RowsFail(w)
  <2>1. /\ task[w].op \in {"bind", "unbind"} /\ task[w].pc = "rows"
        /\ UNCHANGED <<route, listeners>> /\ Finish(w)
    BY <1>31, <1>1 DEF RowsFail
  <2>2. \/ task'[w] = NoTask
        \/ task'[w].op = task[w].op /\ task'[w].backup = task[w].backup
    BY <1>1, <2>1, GoTask, EndTask DEF Phases
  <2>3. QED  BY <1>1, <1>2, <1>9, <1>11, <2>1, <2>2
<1>32. CASE CommitFails(w)
  <2>1. /\ task[w].op \in {"bind", "unbind"} /\ task[w].pc = "rows"
        /\ UNCHANGED <<route, listeners>> /\ Goto(w, "stuck")
    BY <1>32, <1>1 DEF CommitFails
  <2>2. \/ task'[w] = NoTask
        \/ task'[w].op = task[w].op /\ task'[w].backup = task[w].backup
    BY <1>1, <2>1, GoTask, EndTask DEF Phases
  <2>3. QED  BY <1>1, <1>2, <1>9, <1>11, <2>1, <2>2
<1>33. CASE IngressUpdated(w)
  <2>1. /\ task[w].pc = "ingress" /\ WriteRules(w) /\ task'[w].pc = "balancer"
        /\ task'[w].op = task[w].op /\ task'[w].backup.listeners = listeners[w] /\ route' = route
    BY <1>33, Updated DEF At
  <2>2. x \in Routed
    BY <1>1, <2>1, AtIngress
  <2>3. listeners'[w] = all
    BY <1>1, <2>1, <2>2, RulesWritten DEF all
  <2>4. QED  BY <1>1, <1>2, <1>6, <1>11, <2>1, <2>3
<1>34. CASE IngressRefused(w)
  <2>1. /\ task[w].pc = "ingress" /\ listeners' = listeners
        /\ RollBack(w, IF task[w].op = "bind" /\ task[w].old # NoDomain THEN {Svc(w)} ELSE {})
        /\ task[w].op \in {"provision", "bind", "unbind"}
    BY <1>1, <1>34 DEF IngressRefused
  <2>2. CASE task[w].op = "provision"
    <3>1. Goto(w, "undo") /\ DOMAIN route' = Routed \ {x}
      BY <1>1, <2>1, <2>2, RolledBack
    <3>2. Goto(w, "undo") /\ x \notin Routed'
      BY <3>1 DEF Routed
    <3>3. task'[w].op = task[w].op /\ task'[w].backup = task[w].backup
      BY <1>1, <3>2, GoTask DEF Phases
    <3>4. QED  BY <1>1, <1>2, <1>8, <2>1, <2>2, <3>2, <3>3
  <2>3. CASE task[w].op # "provision"
    <3>1. /\ x \in Routed /\ x \in Routed' /\ route'[x].port = route[x].port
          /\ Goto(w, "stuck") \/ Finish(w)
      BY <1>1, <2>1, <2>3, RolledBack DEF Routed
    <3>2. \/ task'[w] = NoTask
          \/ task'[w].op = task[w].op /\ task'[w].backup = task[w].backup
      BY <1>1, <3>1, GoTask, EndTask DEF Phases
    <3>3. all' = all /\ listeners[w] = all
      BY <1>1, <1>2, <1>3, <2>1, <2>3, <3>1
    <3>4. QED  BY <1>1, <1>9, <2>1, <2>3, <3>2, <3>3
  <2>4. QED  BY <2>2, <2>3
<1>35. CASE IngressUnanswered(w)
  BY <1>35 DEF IngressUnanswered, RollBack
<1>36. CASE BalancerUpdated(w)
  <2>1. task[w].pc = "balancer" /\ UNCHANGED <<route, listeners>> /\ Finish(w)
    BY <1>36 DEF BalancerUpdated
  <2>2. task'[w] = NoTask /\ listeners[w] = all
    BY <1>1, <1>2, <2>1, EndTask
  <2>3. QED  BY <1>7, <1>11, <2>1, <2>2
<1>37. CASE BalancerFails(w)
  <2>1. task[w].pc = "balancer" /\ UNCHANGED listeners
    BY <1>37, BackFromBalancer DEF ingress
  <2>2. CASE task[w].op = "deprovision"
    <3>1. Goto(w, "again") /\ UNCHANGED route
      BY <1>37, <2>2, BackFromBalancer
    <3>2. task'[w].op = task[w].op /\ task'[w].backup = task[w].backup
      BY <1>1, <3>1, GoTask DEF Phases
    <3>3. QED  BY <1>1, <1>2, <1>9, <1>11, <2>1, <2>2, <3>1, <3>2
  <2>3. CASE task[w].op # "deprovision"
    <3>1. PICK apart : RollBack(w, apart)
      BY <1>37, <2>3, BackFromBalancer
    <3>2. task[w].op = "provision"
      BY <1>37, <2>3, BackFromBalancer
    <3>3. Goto(w, "undo") /\ task[w].backup.there
      BY <1>1, <2>1, <2>3, <3>1, <3>2, RolledBack DEF Rows
    <3>4. /\ task'[w].pc = "undo" /\ task'[w].op = task[w].op
          /\ task'[w].backup = task[w].backup
      BY <1>1, <3>3, GoTask DEF Phases
    <3>5. QED  BY <1>1, <1>10, <3>2, <3>3, <3>4
  <2>4. QED  BY <2>2, <2>3
<1>38. QED
  BY <1>13, <1>14, <1>15, <1>16, <1>17, <1>18, <1>19, <1>20, <1>21, <1>22, <1>23,
     <1>24, <1>25, <1>26, <1>27, <1>28, <1>29, <1>30, <1>31, <1>32, <1>33, <1>34,
     <1>35, <1>36, <1>37
     DEF Acting, Provision, Deprovision, Publish

\* And those of the other workspaces.
LEMMA ActHeard ==
  ASSUME IInv, NEW w \in Workspaces, NEW x \in Services, x = Svc(w), Acting(w),
         NEW v \in Workspaces
  PROVE  Heard(v)'
<1>1. Heard(v) /\ Home(x) = w /\ Shape /\ task[w].pc # "end"
      /\ \A s \in Services \ {x} : s \in torn => s \in torn'
  BY ActsOn, ActTask, OthersKept DEF IInv
<1>2. torn \subseteq Services /\ torn' \subseteq Services /\ Streams \subseteq Services
  BY <1>1, SetsTyped, ServiceAssumption DEF Shape
<1>3. CASE v # w
  <2>1. (\A s \in torn' \cap Streams : Home(s) # v) => \A s \in torn \cap Streams : Home(s) # v
    BY <1>1, <1>2, <1>3
  <2>2. task'[v] = task[v] /\ listeners'[v] = listeners[v]
    BY <1>3, ActTask, ActIngress
  <2>3. /\ StreamPorts(v, Routed)' = StreamPorts(v, Routed)
        /\ \A y : StreamPorts(v, Routed \ {y})' = StreamPorts(v, Routed \ {y})
    BY <1>3, OtherPorts
  <2>4. ASSUME Hearing(v)
        PROVE  Hearing(v)'
    <3>1. PICK y : y = Svc(v)
      OBVIOUS
    <3>2. Svc(v)' = y /\ StreamPorts(v, Routed \ {y})' = StreamPorts(v, Routed \ {y})
      BY <2>2, <2>3, <3>1 DEF Svc
    <3>3. QED  BY <2>2, <2>3, <2>4, <3>1, <3>2 DEF Hearing
  <2>5. QED  BY <1>1, <2>1, <2>4 DEF Heard
<1>4. CASE v = w /\ x \notin Streams
  <2>1. (\A s \in torn' \cap Streams : Home(s) # w) => \A s \in torn \cap Streams : Home(s) # w
    BY <1>1, <1>2, <1>4
  <2>2. listeners' = listeners /\ StreamPorts(w, Routed)' = StreamPorts(w, Routed)
    BY <1>4, StreamsKept, PortsKept
  <2>3. Svc(w)' \notin Streams
    BY <1>2, <1>4, ActTask, NoTaskType, ServiceAssumption DEF Svc
  <2>4. Hearing(w) => Hearing(w)'
    BY <1>4, <2>2, <2>3 DEF Hearing
  <2>5. QED  BY <1>1, <1>4, <2>1, <2>4 DEF Heard
<1>5. CASE v = w /\ x \in Streams
  <2>1. SUFFICES ASSUME \A s \in torn' \cap Streams : Home(s) # w
                 PROVE  Hearing(w)'
    BY <1>5 DEF Heard
  <2>2. x \notin torn'
    BY <1>1, <1>5, <2>1
  <2>3. x \notin torn
    BY <1>5, <2>2, StreamsKept
  <2>4. \A s \in torn \cap Streams : Home(s) # w
    BY <1>1, <1>2, <2>1, <2>3
  <2>5. Hearing(w)
    BY <1>1, <1>5, <2>4 DEF Heard
  <2>6. QED  BY <1>5, <2>2, <2>5, ActHearing
<1>6. QED  BY <1>3, <1>4, <1>5

----------------------------------------------------------------------------
(* The pod presets.                                                        *)

\* Every step keeps the preset of its namespace, or says that it is out of date.
LEMMA ActToldHere ==
  ASSUME IInv, NEW w \in Workspaces, NEW x \in Services, x = Svc(w), Acting(w),
         NEW n \in Namespaces, n = Ns(w)
  PROVE  Told(n)'
<1>1. /\ x \in Services /\ task[w].pc # "end" /\ task[w].op \in OpsIn(task[w].pc) /\ Shape
      /\ WorkspaceOf[n] = w /\ NamespaceOf[x] = n /\ Told(n)
  BY ActTask, Actor DEF IInv, Ns
<1>2. Routed' = Routed => PresetOf(n)' = PresetOf(n)
  BY DEF PresetOf, ServicesForWsRoutes
<1>3. ASSUME Routed' = Routed, presets' = presets, n \in blank => n \in blank', task[w].pc # "presets"
      PROVE  Told(n)'
  BY <1>1, <1>2, <1>3 DEF Told
<1>4. n \in blank' => Told(n)'
  BY DEF Told
<1>5. task'[w].pc = "presets" /\ task'[w].svc = x => Told(n)'
  BY <1>1 DEF Told, Ns, Svc
<1>6. route' = route => Routed' = Routed
  BY DEF Routed
<1> USE DEF At, OpsIn, db, history
<1>7. ASSUME NEW apart, task[w].pc \in {"ingress", "balancer"}, task[w].op # "deprovision", RollBack(w, apart)
      PROVE  n \in blank' \/ (Routed' = Routed /\ blank' = blank)
  BY <1>7, RolledBack DEF Routed
<1>8. CASE Claimed(w)
  BY <1>8, <1>3, <1>6 DEF Claimed, AfterClaim
<1>9. CASE ClaimFails(w)
  BY <1>9, <1>3, <1>6 DEF ClaimFails, AfterClaim
<1>10. CASE ClaimsTakenBack(w)
  BY <1>10, <1>3, <1>6 DEF ClaimsTakenBack
<1>11. CASE Deployed(w)
  BY <1>11, <1>3, <1>6 DEF Deployed
<1>12. CASE DeployRefused(w)
  BY <1>12, <1>3, <1>6 DEF DeployRefused
<1>13. CASE DeployUnanswered(w)
  BY <1>13, <1>3, <1>6 DEF DeployUnanswered
<1>14. CASE CreateRows(w)
  <2>1. /\ task[w].pc = "rows" /\ presets' = presets /\ blank' = blank
        /\ (Finish(w) /\ route' = route) \/ Goto(w, "presets")
    BY <1>14 DEF CreateRows
  <2>2. CASE Goto(w, "presets")
    <3>1. task'[w].pc = "presets" /\ task'[w].svc = x
      BY <1>1, <2>2, GoTask DEF Phases, Svc
    <3>2. QED  BY <1>5, <3>1
  <2>3. QED  BY <1>3, <1>6, <2>1, <2>2
<1>15. CASE Undone(w)
  BY <1>15, <1>3, <1>6 DEF Undone
<1>16. CASE UndoFails(w)
  BY <1>16, <1>3, <1>6 DEF UndoFails
<1>17. CASE Restored(w)
  BY <1>17, <1>3, <1>6 DEF Restored
<1>18. CASE RestoreFails(w)
  BY <1>18, <1>3, <1>6 DEF RestoreFails
<1>19. CASE Uninstalled(w)
  <2>1. Goto(w, "presets")
    BY <1>19 DEF Uninstalled
  <2>2. task'[w].pc = "presets" /\ task'[w].svc = x
    BY <1>1, <2>1, GoTask DEF Phases, Svc
  <2>3. QED  BY <1>5, <2>2
<1>20. CASE UninstallFails(w)
  BY <1>20, <1>3, <1>6 DEF UninstallFails
<1>21. CASE Unblock(w)
  BY <1>21, <1>3, <1>6 DEF Unblock
<1>22. CASE UnblockFails(w)
  BY <1>22, <1>3, <1>6 DEF UnblockFails
<1>23. CASE PresetsUpdated(w)
  <2>1. presets' = [presets EXCEPT ![n] = PresetOf(n)] /\ route' = route
    BY <1>23 DEF PresetsUpdated
  <2>2. presets \in [Namespaces -> SUBSET Services]
    BY <1>1 DEF Shape
  <2>3. presets'[n] = PresetOf(n)
    BY <2>1, <2>2
  <2>4. QED  BY <1>2, <1>6, <2>1, <2>3 DEF Told
<1>24. CASE PresetsFail(w)
  BY <1>24, <1>4 DEF PresetsFail
<1>25. CASE RowsBound(w)
  <2>1. Routed' = Routed
    BY <1>25, BoundRow DEF Routed
  <2>2. QED  BY <1>25, <1>3, <2>1 DEF RowsBound
<1>26. CASE RowsFail(w)
  BY <1>26, <1>3, <1>6 DEF RowsFail
<1>27. CASE CommitFails(w)
  BY <1>27, <1>3, <1>6 DEF CommitFails
<1>28. CASE IngressUpdated(w)
  BY <1>28, <1>3, <1>6 DEF IngressUpdated
<1>29. CASE IngressRefused(w)
  <2>1. /\ At(w, "ingress") /\ presets' = presets
        /\ \E apart : RollBack(w, apart)
    BY <1>29 DEF IngressRefused
  <2>2. QED  BY <1>1, <1>3, <1>4, <1>7, <2>1
<1>30. CASE IngressUnanswered(w)
  <2>1. /\ At(w, "ingress") /\ presets' = presets
        /\ \E apart : RollBack(w, apart)
    BY <1>30 DEF IngressUnanswered
  <2>2. QED  BY <1>1, <1>3, <1>4, <1>7, <2>1
<1>31. CASE BalancerUpdated(w)
  BY <1>31, <1>3, <1>6 DEF BalancerUpdated
<1>32. CASE BalancerFails(w)
  <2>1. task[w].pc = "balancer" /\ presets' = presets
    BY <1>32, BackFromBalancer
  <2>2. CASE task[w].op = "deprovision"
    <3>1. UNCHANGED <<route, blank>>
      BY <1>32, <2>2, BackFromBalancer
    <3>2. QED  BY <1>3, <1>6, <2>1, <3>1
  <2>3. CASE task[w].op # "deprovision"
    <3>1. PICK apart : RollBack(w, apart)
      BY <1>32, <2>3, BackFromBalancer
    <3>2. QED  BY <1>3, <1>4, <1>7, <2>1, <2>3, <3>1
  <2>4. QED  BY <2>2, <2>3
<1>33. QED
  BY <1>8, <1>9, <1>10, <1>11, <1>12, <1>13, <1>14, <1>15, <1>16, <1>17, <1>18, <1>19,
     <1>20, <1>21, <1>22, <1>23, <1>24, <1>25, <1>26, <1>27, <1>28, <1>29, <1>30,
     <1>31, <1>32
     DEF Acting, Provision, Deprovision, Publish

\* And those of the other namespaces.
LEMMA ActTold ==
  ASSUME IInv, NEW w \in Workspaces, NEW x \in Services, x = Svc(w), Acting(w),
         NEW n \in Namespaces
  PROVE  Told(n)'
<1>1. CASE n = Ns(w)
  BY <1>1, ActToldHere
<1>2. CASE n # Ns(w)
  <2>1. NamespaceOf[x] = Ns(w) /\ Ns(w) \in Namespaces
    BY Homes DEF Ns
  <2>2. Told(n) /\ presets'[n] = presets[n]
    BY <1>2, ActPresets DEF IInv
  <2>3. Routed' \ {x} = Routed \ {x}
    BY ActRoute DEF Routed
  <2>4. PresetOf(n)' = PresetOf(n)
    BY <1>2, <2>1, <2>3 DEF PresetOf, ServicesForWsRoutes
  <2>5. n \in blank => n \in blank'
    BY <1>2
       DEF Acting, Provision, Deprovision, Publish, Claimed, ClaimFails,
           ClaimsTakenBack, Deployed, DeployRefused, DeployUnanswered, CreateRows,
           Undone, UndoFails, Restored, RestoreFails, Uninstalled, UninstallFails,
           Unblock, UnblockFails, PresetsUpdated, PresetsFail, RowsBound, RowsFail,
           CommitFails, IngressUpdated, IngressRefused, IngressUnanswered,
           BalancerUpdated, BalancerFails, RollBack, history
  <2>6. task[WorkspaceOf[n]].pc = "presets" /\ Ns(WorkspaceOf[n]) = n
          => task'[WorkspaceOf[n]].pc = "presets" /\ Ns(WorkspaceOf[n])' = n
    <3>1. WorkspaceOf[n] \in Workspaces
      BY ServiceAssumption
    <3>2. CASE WorkspaceOf[n] = w
      BY <1>2, <3>2
    <3>3. CASE WorkspaceOf[n] # w
      BY <3>1, <3>3, ActTask DEF Ns, Svc
    <3>4. QED  BY <3>2, <3>3
  <2>7. QED  BY <2>2, <2>4, <2>5, <2>6 DEF Told
<1>3. QED  BY <1>1, <1>2

----------------------------------------------------------------------------
(* The invariant is inductive.                                             *)

\* What a task finds in the rows, when a step is not about its service.
LEMMA RowsKept ==
  ASSUME NEW s \in Services, NEW t, Rows(s, t), s \in service' <=> s \in service,
         s \in Routed' <=> s \in Routed, s \in Routed => route'[s] = route[s]
  PROVE  Rows(s, t)'
BY DEF Rows, Provisions

\* Likewise the storage.
LEMMA StorageKept ==
  ASSUME NEW s \in Services, NEW t, Storage(s, t), s \in service' <=> s \in service,
         s \in release' <=> s \in release, s \in leaked' <=> s \in leaked,
         \A k \in Kinds : <<k, s>> \in claims' <=> <<k, s>> \in claims
  PROVE  Storage(s, t)'
BY DEF Storage, Installed, Provisions, Kinds

\* Likewise the rules.
LEMMA RulesOfKept ==
  ASSUME NEW s \in Services, NEW t, Rules(s, t), RulesOf(s)' = RulesOf(s), s \in torn => s \in torn',
         s \in Routed' <=> s \in Routed, s \in Routed => route'[s] = route[s], t.op \in {"bind", "unbind"} => s \in Routed
  PROVE  Rules(s, t)'
<1>1. \A r : r.svc = s => (r \in rules' <=> r \in rules)
  BY DEF RulesOf
<1>2. OldEntry(s, t).svc = s /\ HttpRule(s).svc = s
  BY DEF OldEntry, HttpRule
<1>3. s \in Routed => /\ OldEntry(s, t)' = OldEntry(s, t) /\ HttpRule(s)' = HttpRule(s)
                      /\ TcpRule(s)' = TcpRule(s)
  BY DEF OldEntry, HttpRule, TcpRule
<1>4. s \in Routed => /\ OldEntry(s, t)' \in rules' <=> OldEntry(s, t) \in rules
                      /\ HttpRule(s)' \in rules' <=> HttpRule(s) \in rules
  BY <1>1, <1>2, <1>3
<1>5. StreamRules(s, t) => StreamRules(s, t)'
  BY <1>3 DEF StreamRules
<1>6. HttpRules(s, t) => HttpRules(s, t)'
  BY <1>4 DEF HttpRules
<1>7. Binds(t, {"balancer"}) /\ s \notin Streams => HttpRule(s)' \in rules'
  BY <1>4 DEF Rules, Binds
<1>8. QED  BY <1>5, <1>6, <1>7 DEF Rules, OwnBackup

\* A step of a task keeps what the invariant says of every service.
LEMMA ActFollowed ==
  ASSUME IInv, NEW w \in Workspaces, NEW x \in Services, x = Svc(w), Acting(w),
         NEW s \in Services
  PROVE  Followed(s)'
<1>1. CASE s = x
  <2>1. PICK t : t = task'[w]
    OBVIOUS
  <2>2. TaskOf(x)' = t
    BY <2>1, ActsOn
  <2>3. Rows(x, task[w])' /\ Storage(x, task[w])' /\ Rules(x, task[w])' /\ Blocks(x, task[w])'
    BY ActRows, ActStorage, ActRules, ActBlocks
  <2>4. QED  BY <1>1, <2>1, <2>2, <2>3 DEF Followed
<1>2. CASE s # x
  <2>1. PICK t : t = TaskOf(s)
    OBVIOUS
  <2>2. TaskOf(s)' = t
    BY <1>2, <2>1, ActsOn
  <2>3. Rows(s, t) /\ Storage(s, t) /\ Rules(s, t)
    BY <2>1 DEF IInv, Followed
  <2>4. Routed' \ {x} = Routed \ {x} /\ \A q \in Routed \ {x} : route'[q] = route[q]
    BY ActRoute DEF Routed
  <2>5. (s \in Routed' <=> s \in Routed) /\ (s \in Routed => route'[s] = route[s])
    BY <1>2, <2>4
  <2>6. Rows(s, t)'
    BY <1>2, <2>3, <2>5, OthersKept, RowsKept
  <2>7. Storage(s, t)'
    BY <1>2, <2>3, OthersKept, StorageKept
  <2>8. Rules(s, t)'
    <3>1. t.op \in {"bind", "unbind"} => s \in Routed
      BY <2>3 DEF Rows
    <3>2. RulesOf(s)' = RulesOf(s) /\ (s \in torn => s \in torn')
      BY <1>2, OthersKept, RulesKept
    <3>3. QED  BY <2>3, <2>5, <3>1, <3>2, RulesOfKept
  <2>9. Blocks(s, t)'
    BY <1>2, <2>1, <2>2, ActOthersBlocks
  <2>10. QED  BY <2>2, <2>6, <2>7, <2>8, <2>9 DEF Followed
<1>3. QED  BY <1>1, <1>2

\* It keeps the types.
LEMMA ActShape ==
  ASSUME IInv, NEW w \in Workspaces, NEW x \in Services, x = Svc(w), Acting(w)
  PROVE  Shape'
<1>1. route' \in Routes /\ Routed' \ {x} = Routed \ {x}
  BY ActRoute DEF Routed
<1>2. Routed \subseteq service /\ Routed' \subseteq Services
  BY <1>1, RoutesDef DEF IInv, Shape, Routed
<1>3. ASSUME NEW s \in Routed'
      PROVE  s \in service'
  <2>1. CASE s = x
    BY <2>1, ActRows
  <2>2. CASE s # x
    BY <1>1, <1>2, <2>2, OthersKept
  <2>3. QED  BY <2>1, <2>2
<1>4. /\ rules' \subseteq Entry /\ listeners' \in [Workspaces -> SUBSET Ports]
      /\ presets' \in [Namespaces -> SUBSET Services]
      /\ task' \in [Workspaces -> TaskSet]
  BY ActIngress, ActPresets, ActTask
<1>5. QED  BY <1>1, <1>3, <1>4, SetsTyped DEF Shape

\* It keeps the invariant.
LEMMA ActStep ==
  ASSUME IInv, NEW w \in Workspaces, Acting(w)
  PROVE  IInv'
<1>1. PICK x \in Services : x = Svc(w)
  BY ActsOn
<1>2. Shape'
  BY <1>1, ActShape
<1>3. Plans'
  <2>1. ASSUME NEW v \in Workspaces
        PROVE  Plan(v)'
    <3>1. CASE v = w
      BY <3>1, ActPlan
    <3>2. CASE v # w
      <4>1. task'[v] = task[v] /\ Plan(v)
        BY <3>2, ActTask DEF IInv, Plans
      <4>2. QED  BY <4>1 DEF Plan, Svc
    <3>3. QED  BY <3>1, <3>2
  <2>2. QED  BY <2>1 DEF Plans
<1>4. \A s \in Services : Followed(s)'
  BY <1>1, ActFollowed
<1>5. \A v \in Workspaces : Heard(v)'
  BY <1>1, ActHeard
<1>6. \A n \in Namespaces : Told(n)'
  BY <1>1, ActTold
<1>7. Fresh' /\ Served'
  BY <1>1, ActServed
<1>8. QED  BY <1>2, <1>3, <1>4, <1>5, <1>6, <1>7 DEF IInv

\* What holds of a service without a task holds when its task begins.
LEMMA AskedService ==
  ASSUME IInv, NEW op \in Ops, NEW s \in Services, NEW d \in Hosts, NEW e \in BOOLEAN,
         NEW pc \in Phases, Asking(op, s, d, e, pc),
         NEW t, t.op = op, t.pc = pc, t.domain = d, t.exposed = e, t.backup = NoBackup,
         TaskOf(s) = NoTask
  PROVE  Rows(s, t) /\ Storage(s, t) /\ Rules(s, t) /\ Blocks(s, t)
<1>1. /\ Rows(s, NoTask) /\ Storage(s, NoTask) /\ Rules(s, NoTask) /\ Blocks(s, NoTask)
      /\ (s \in Routed => s \in service)
  BY DEF IInv, Followed, Shape
<1>2. NoTask.op = "none" /\ NoTask.pc = "end" /\ ~NoBackup.there /\ NoBackup.rules = {}
  BY DEF NoTask, NoBackup
<1>3. op \in {"provision", "deprovision", "bind", "unbind"}
  BY DEF Ops
<1> USE DEF Asking, Provisions, Binds
<1>4. Rows(s, t)
  BY <1>1, <1>3 DEF Rows
<1>5. Storage(s, t)
  <2>1. ~Installed(NoTask) /\ ~Installed(t)
    BY <1>2 DEF Installed
  <2>2. pc \notin {"pvc", "resources", "unclaim"} /\ (pc = "deploy" => s \notin Stateful)
    OBVIOUS
  <2>3. s \notin leaked =>
          /\ s \in service <=> s \in release
          /\ \A k \in {"pv", "pvc"} : <<k, s>> \in claims <=> s \in service /\ s \in Stateful
    BY <1>1, <1>2, <2>1 DEF Storage
  <2>4. \A k \in {"pv", "pvc"} : <<k, s>> \in claims => s \in Stateful
    BY <1>1 DEF Storage
  <2>5. QED  BY <2>1, <2>2, <2>3, <2>4 DEF Storage
<1>6. Rules(s, t)
  <2>1. OwnBackup(s, t)
    BY <1>2 DEF OwnBackup
  <2>2. pc \notin {"balancer", "presets", "ingress", "stuck"} /\ ~Restoring(t)
    BY <1>2 DEF Restoring
  <2>3. StreamRules(s, NoTask) => StreamRules(s, t)
    BY <1>2, <2>2 DEF StreamRules, Restoring
  <2>4. HttpRules(s, NoTask) => HttpRules(s, t)
    BY <1>2, <2>2 DEF HttpRules
  <2>5. QED  BY <1>1, <2>1, <2>2, <2>3, <2>4 DEF Rules
<1>7. Blocks(s, t)
  <2>1. pc \notin {"balancer", "presets", "unblock", "ingress", "stuck"}
    OBVIOUS
  <2>2. Serving(s, NoTask) => Serving(s, t)
    BY <1>2, <2>1 DEF Serving, Awaited
  <2>3. QED  BY <1>1, <2>2 DEF Blocks
<1>8. QED  BY <1>4, <1>5, <1>6, <1>7

\* A request keeps the invariant.
LEMMA AskStep ==
  ASSUME IInv, NEW op \in Ops, NEW s \in Services, NEW d \in Hosts, NEW e \in BOOLEAN,
         NEW pc \in Phases, Asking(op, s, d, e, pc), Request(op, s, d, e, pc)
  PROVE  IInv'
<1>1. PICK w \in Workspaces : w = Home(s)
  BY Homes
<1>2. PICK t : t = task'[w]
  OBVIOUS
<1>3. /\ task' \in [Workspaces -> TaskSet] /\ TaskOf(s)' = t /\ TaskOf(s) = NoTask /\ task[w] = NoTask
      /\ t.op = op /\ t.svc = s /\ t.pc = pc /\ t.domain = d /\ t.exposed = e /\ t.backup = NoBackup
      /\ \A v \in Workspaces \ {w} : task'[v] = task[v]
      /\ \A v \in Services \ {s} : TaskOf(v)' = TaskOf(v)
      /\ tasks' \in 0..MaxTasks
  BY <1>1, <1>2, Asked DEF IInv
<1>4. UNCHANGED <<db, storage, ingress, presets, nginx, faults, history>>
  BY Asked DEF IInv
<1>5. pc \in {"pv", "deploy", "uninstall", "rows"} /\ (pc = "rows" => op \in {"bind", "unbind"})
      /\ (pc \in {"pv", "deploy"} => op = "provision") /\ (pc = "uninstall" => op = "deprovision")
  BY DEF Asking
<1>6. Shape'
  BY <1>3, <1>4 DEF IInv, Shape, Routed, db, storage, ingress, history
<1>7. Plans'
  <2>1. Plan(w)'
    BY <1>1, <1>2, <1>3, <1>5 DEF Plan, Svc, OpsIn
  <2>2. ASSUME NEW v \in Workspaces \ {w}
        PROVE  Plan(v)'
    BY <1>3, <2>2 DEF IInv, Plans, Plan, Svc
  <2>3. QED  BY <2>1, <2>2 DEF Plans
<1> USE DEF db, storage, ingress, history
<1>8. ASSUME NEW v \in Services
      PROVE  Followed(v)'
  <2>1. PICK u : u = TaskOf(v)'
    OBVIOUS
  <2>2. Rows(v, u) /\ Storage(v, u) /\ Rules(v, u) /\ Blocks(v, u)
    <3>1. CASE v = s
      BY <1>3, <2>1, <3>1, AskedService
    <3>2. CASE v # s
      BY <1>3, <2>1, <3>2 DEF IInv, Followed
    <3>3. QED  BY <3>1, <3>2
  <2>3. /\ Rows(v, u)' <=> Rows(v, u)
        /\ Storage(v, u)' <=> Storage(v, u)
    BY <1>4 DEF Rows, Storage, Routed
  <2>4. Rules(v, u)' <=> Rules(v, u)
    BY <1>4
       DEF Rules, StreamRules, HttpRules, OldEntry, HttpRule, TcpRule, RulesOf, Routed
  <2>5. Blocks(v, u)' <=> Blocks(v, u)
    BY <1>4
       DEF Blocks, Serving, ServedBy, BlocksOf, OldBlock, Block, OldEntry, HttpBlock,
           TcpBlock, Routed
  <2>6. QED  BY <2>1, <2>2, <2>3, <2>4, <2>5 DEF Followed
<1>9. \A v \in Workspaces : StreamPorts(v, Routed)' = StreamPorts(v, Routed)
      /\ \A y : StreamPorts(v, Routed \ {y})' = StreamPorts(v, Routed \ {y})
  BY <1>4 DEF StreamPorts, Routed
<1>10. ASSUME NEW v \in Workspaces
       PROVE  Heard(v)'
  <2>1. PICK y : y = Svc(v)'
    OBVIOUS
  <2>2. Hearing(v) => Hearing(v)'
    <3>1. CASE v = w
      <4>1. Svc(w) = NoService /\ NoService \notin Streams
        BY <1>3, NoTaskType, ServiceAssumption DEF Svc
      <4>2. Hearing(w) => listeners[w] = StreamPorts(w, Routed)
        BY <4>1 DEF Hearing
      <4>3. ~Unheard(task[w])' /\ ~task'[w].backup.there
        BY <1>2, <1>3, <1>5 DEF Unheard, Provisions, NoBackup
      <4>4. ~Restoring(task[w])'
        BY <4>3 DEF Restoring
      <4>5. QED  BY <1>4, <1>9, <3>1, <4>2, <4>3, <4>4 DEF Hearing
    <3>2. CASE v # w
      <4>1. task'[v] = task[v] /\ Svc(v) = y
        BY <1>3, <2>1, <3>2 DEF Svc
      <4>2. QED  BY <1>4, <1>9, <2>1, <4>1 DEF Hearing
    <3>3. QED  BY <3>1, <3>2
  <2>3. QED  BY <1>4, <2>2 DEF IInv, Heard
<1>11. ASSUME NEW n \in Namespaces
       PROVE  Told(n)'
  <2>1. PresetOf(n)' = PresetOf(n) /\ WorkspaceOf[n] \in Workspaces
    BY <1>4, ServiceAssumption DEF PresetOf, ServicesForWsRoutes, Routed
  <2>2. Told(n)
    BY DEF IInv
  <2>3. CASE WorkspaceOf[n] = w
    <3>1. task[w].pc = "end"
      BY <1>3, NoTaskType
    <3>2. QED  BY <1>4, <2>1, <2>2, <2>3, <3>1 DEF Told
  <2>4. CASE WorkspaceOf[n] # w
    <3>1. task'[WorkspaceOf[n]] = task[WorkspaceOf[n]]
      BY <1>3, <2>1, <2>4
    <3>2. QED  BY <1>4, <2>1, <2>2, <3>1 DEF Told, Ns, Svc
  <2>5. QED  BY <2>3, <2>4
<1>12. Fresh' /\ Served'
  BY <1>4 DEF IInv, Fresh, Served, history
<1>13. QED  BY <1>6, <1>7, <1>8, <1>10, <1>11, <1>12 DEF IInv

\* So does the deletion of a domain.
LEMMA Unmoved ==
  ASSUME IInv, domains' \subseteq Domains,
         UNCHANGED <<service, route, storage, ingress, presets, nginx, task, tasks, faults, history>>
  PROVE  IInv'
<1> USE DEF storage, ingress, history
<1>1. Shape'
  BY DEF IInv, Shape, Routed
<1>2. Plans'
  BY DEF IInv, Plans, Plan, Svc
<1>3. ASSUME NEW v \in Services
      PROVE  Followed(v)'
  <2>1. PICK u : u = TaskOf(v)
    OBVIOUS
  <2>2. TaskOf(v)' = u /\ Rows(v, u) /\ Storage(v, u) /\ Rules(v, u) /\ Blocks(v, u)
    BY <2>1 DEF IInv, Followed, TaskOf, Svc
  <2>3. Rows(v, u)' /\ Storage(v, u)'
    BY <2>2 DEF Rows, Storage, Routed
  <2>4. Rules(v, u)'
    BY <2>2
       DEF Rules, StreamRules, HttpRules, OldEntry, HttpRule, TcpRule, RulesOf, Routed
  <2>5. Blocks(v, u)'
    BY <2>2
       DEF Blocks, Serving, ServedBy, BlocksOf, OldBlock, Block, OldEntry, HttpBlock,
           TcpBlock, Routed
  <2>6. QED  BY <2>2, <2>3, <2>4, <2>5 DEF Followed
<1>4. ASSUME NEW v \in Workspaces
      PROVE  Heard(v)'
  BY DEF IInv, Heard, Hearing, Svc, StreamPorts, Routed
<1>5. ASSUME NEW n \in Namespaces
      PROVE  Told(n)'
  BY DEF IInv, Told, PresetOf, ServicesForWsRoutes, Ns, Svc, Routed
<1>6. Fresh' /\ Served'
  BY DEF IInv, Fresh, Served
<1>7. QED  BY <1>1, <1>2, <1>3, <1>4, <1>5, <1>6 DEF IInv

\* So does every command of a user.
LEMMA AskedStep ==
  ASSUME IInv, Ask
  PROVE  IInv'
<1>1. /\ domains \subseteq Domains /\ service \subseteq Services /\ Routed \subseteq service
      /\ \A s \in Routed : route[s].domain \in Hosts
  BY RouteRow DEF IInv, Shape
<1>2. CASE CreateServiceCommand
  <2>1. PICK s \in Services, e \in BOOLEAN : InstallService(s, e)
    BY <1>2 DEF CreateServiceCommand
  <2>2. PICK pc \in Phases : pc = IF s \in Stateful THEN "pv" ELSE "deploy"
    BY DEF Phases
  <2>3. Request("provision", s, NoDomain, e, pc) /\ Asking("provision", s, NoDomain, e, pc)
    BY <2>1, <2>2 DEF InstallService, Asking
  <2>4. QED  BY <2>3, AskStep DEF Ops, Hosts
<1>3. CASE DeleteServiceCommand
  <2>1. PICK s \in service : DeleteService(s)
    BY <1>3 DEF DeleteServiceCommand, WorkspacesServices
  <2>2. PICK e \in BOOLEAN : e <=> s \in Routed
    <3>1. CASE s \in Routed
      BY <3>1
    <3>2. CASE s \notin Routed
      BY <3>2
    <3>3. QED  BY <3>1, <3>2
  <2>3. e = (s \in Routed)
    BY <2>2
  <2>4. Request("deprovision", s, NoDomain, e, "uninstall")
    BY <2>1, <2>3 DEF DeleteService
  <2>5. Asking("deprovision", s, NoDomain, e, "uninstall")
    BY <2>1, <2>2 DEF DeleteService, Asking
  <2>6. QED  BY <1>1, <2>4, <2>5, AskStep DEF Ops, Hosts, Phases
<1>4. CASE BindCommand
  <2>1. PICK d \in domains, s \in Routed : BindDomain(s, d)
    BY <1>4 DEF BindCommand
  <2>2. Request("bind", s, d, TRUE, "rows") /\ Asking("bind", s, d, TRUE, "rows")
    BY <1>1, <2>1 DEF BindDomain, Asking
  <2>3. QED  BY <1>1, <2>2, AskStep DEF Ops, Hosts, Phases
<1>5. CASE UnbindCommand
  <2>1. PICK d \in domains, s \in Routed : route[s].domain = d /\ UnbindDomain(s, d)
    BY <1>5 DEF UnbindCommand, DomainRoutes
  <2>2. Request("unbind", s, d, TRUE, "rows") /\ Asking("unbind", s, d, TRUE, "rows")
    BY <2>1 DEF UnbindDomain, Asking
  <2>3. QED  BY <1>1, <2>2, AskStep DEF Ops, Hosts, Phases
<1>6. CASE \E d \in Domains : DeleteDomain(d)
  BY <1>1, <1>6, Unmoved DEF DeleteDomain
<1>7. QED  BY <1>2, <1>3, <1>4, <1>5, <1>6 DEF Ask

\* Every step keeps the invariant.
LEMMA IInvStep == IInv /\ [Next]_vars => IInv'
<1> SUFFICES ASSUME IInv, [Next]_vars
             PROVE  IInv'
  OBVIOUS
<1>1. CASE Ask
  BY <1>1, AskedStep
<1>2. ASSUME NEW w \in Workspaces, Acting(w)
      PROVE  IInv'
  BY <1>2, ActStep
<1>3. CASE UNCHANGED vars
  BY <1>3, Unmoved DEF vars, db, IInv, Shape
<1>4. QED  BY <1>1, <1>2, <1>3 DEF Next, Acting

\* It holds in the first state.
LEMMA IInvInit == Init => IInv
<1> SUFFICES ASSUME Init
             PROVE  IInv
  OBVIOUS
<1> USE DEF Init
<1>1. Routed = {} /\ route \in Routes
  <2>1. Routed = {}
    BY DEF Routed
  <2>2. route \in [{} -> Row]
    OBVIOUS
  <2>3. {} \in SUBSET Services
    OBVIOUS
  <2>4. QED  BY <2>1, <2>2, <2>3 DEF Routes
<1>2. \A w \in Workspaces : task[w] = NoTask
  OBVIOUS
<1>3. \A s \in Services : TaskOf(s) = NoTask
  BY <1>2, Homes DEF TaskOf
<1>4. Shape
  BY <1>1, NoTaskType, BoundsAssumption DEF Shape
<1>5. Plans
  BY <1>2, NoTaskType DEF Plans, Plan, OpsIn
<1>6. NoTask.op = "none" /\ NoTask.pc = "end" /\ ~NoTask.backup.there /\ NoTask.backup.rules = {}
  BY DEF NoTask, NoBackup
<1>7. ASSUME NEW s \in Services
      PROVE  Followed(s)
  <2>1. Rows(s, NoTask) /\ Storage(s, NoTask)
    BY <1>1, <1>6 DEF Rows, Storage, Installed, Provisions
  <2>2. Rules(s, NoTask)
    BY <1>1, <1>6
       DEF Rules, OwnBackup, StreamRules, HttpRules, RulesOf, Binds, Provisions,
           Restoring
  <2>3. Blocks(s, NoTask)
    BY <1>1, <1>6 DEF Blocks, Serving, BlocksOf, Awaited, Binds, Provisions
  <2>4. QED  BY <1>3, <2>1, <2>2, <2>3 DEF Followed
<1>8. ASSUME NEW w \in Workspaces
      PROVE  Heard(w)
  <2>1. Svc(w) \notin Streams
    BY <1>2, NoTaskType, ServiceAssumption DEF Svc
  <2>2. listeners[w] = StreamPorts(w, Routed)
    BY <1>1 DEF StreamPorts
  <2>3. QED  BY <2>1, <2>2 DEF Heard, Hearing
<1>9. ASSUME NEW n \in Namespaces
      PROVE  Told(n)
  BY <1>1 DEF Told, PresetOf, ServicesForWsRoutes
<1>10. Fresh /\ Served
  BY DEF Fresh, Served
<1>11. QED  BY <1>4, <1>5, <1>7, <1>8, <1>9, <1>10 DEF IInv

----------------------------------------------------------------------------
(* The theorems.                                                           *)

\* What the invariant says of a service between tasks.
LEMMA SettledTask ==
  ASSUME IInv, NEW s \in Services, Settled(s)
  PROVE  /\ TaskOf(s) = NoTask
         /\ Rows(s, NoTask) /\ Storage(s, NoTask) /\ Rules(s, NoTask) /\ Blocks(s, NoTask)
<1>1. TaskOf(s) = NoTask
  BY DEF TaskOf, Settled, Idle
<1>2. QED  BY <1>1 DEF IInv, Followed

\* It implies the types.
LEMMA InvType ==
  ASSUME IInv
  PROVE  TypeOK
<1>1. Shape
  BY DEF IInv
<1>2. \A s \in Routed : route[s] \in [port : Ports, domain : Hosts]
  BY <1>1, RoutesDef DEF Shape, Row, Routed
<1>3. ASSUME NEW w \in Workspaces
      PROVE  Idle(w) \/ IsTask(task[w], w)
  <2>1. CASE task[w].pc = "end"
    BY <2>1 DEF IInv, Plans, Plan, Idle
  <2>2. CASE task[w].pc # "end"
    <3>1. /\ Svc(w) \in Services /\ Home(Svc(w)) = w /\ task[w] \in TaskSet
          /\ task[w].op \in OpsIn(task[w].pc)
      BY <2>2, Actor DEF IInv
    <3>2. task[w].pc \in Phases /\ task[w].backup \in Backup /\ task[w].exposed \in BOOLEAN
          /\ task[w].domain \in Hosts /\ task[w].old \in Hosts
      BY <3>1 DEF TaskSet
    <3>3. task[w].op \in Ops
      BY <2>2, <3>1, <3>2 DEF OpsIn, Ops, Phases
    <3>4. QED  BY <2>2, <3>1, <3>2, <3>3 DEF IsTask, Phases, Svc
  <2>3. QED  BY <2>1, <2>2
<1>4. QED  BY <1>1, <1>2, <1>3 DEF Shape, TypeOK

\* It implies that release and storage follow the rows.
LEMMA InvNothingLeft ==
  ASSUME IInv
  PROVE  NothingLeftBehind
<1> SUFFICES ASSUME NEW s \in Services \ leaked, Settled(s)
             PROVE  /\ s \in service <=> s \in release
                    /\ {c \in claims : c[2] = s}
                         = IF s \in service \cap Stateful THEN {"pv", "pvc"} \X {s} ELSE {}
  BY DEF NothingLeftBehind
<1>1. /\ s \in service <=> s \in release
      /\ \A k \in {"pv", "pvc"} : <<k, s>> \in claims <=> s \in service /\ s \in Stateful
  BY SettledTask, NoTaskType DEF Storage, Installed, Provisions
<1>2. claims \subseteq {"pv", "pvc"} \X Services
  BY DEF IInv, Shape
<1>3. {c \in claims : c[2] = s} = {c \in {"pv", "pvc"} \X {s} : c \in claims}
  BY <1>2
<1>4. CASE s \in service \cap Stateful
  <2>1. \A c \in {"pv", "pvc"} \X {s} : c \in claims
    BY <1>1, <1>4
  <2>2. QED  BY <1>1, <1>3, <1>4, <2>1
<1>5. CASE s \notin service \cap Stateful
  <2>1. \A c \in {"pv", "pvc"} \X {s} : c \notin claims
    BY <1>1, <1>5
  <2>2. QED  BY <1>1, <1>3, <1>5, <2>1
<1>6. QED  BY <1>4, <1>5

\* It implies that ingress and presets follow the routes.
LEMMA InvCluster ==
  ASSUME IInv
  PROVE  ClusterFollowsRoutes
<1>1. NoTask.op = "none" /\ NoTask.pc = "end" /\ NoTask.svc = NoService
  BY NoTaskType
<1>2. ASSUME NEW s \in Services \ torn, Settled(s)
      PROVE  IF s \in Routed THEN Rule(s) \in rules ELSE s \in Streams => RulesOf(s) = {}
  <2>1. Rules(s, NoTask)
    BY <1>2, SettledTask
  <2>2. CASE s \in Streams
    <3>1. StreamRules(s, NoTask)
      BY <1>2, <2>1, <2>2 DEF Rules
    <3>2. CASE s \in Routed
      <4>1. RulesOf(s) = {TcpRule(s)}
        BY <1>1, <3>1, <3>2 DEF StreamRules, Provisions
      <4>2. TcpRule(s) \in rules
        BY <4>1 DEF RulesOf
      <4>3. QED  BY <2>2, <3>2, <4>2 DEF Rule
    <3>3. CASE s \notin Routed
      BY <1>1, <3>1, <3>3 DEF StreamRules, Restoring
    <3>4. QED  BY <3>2, <3>3
  <2>3. CASE s \notin Streams
    BY <1>1, <1>2, <2>1, <2>3 DEF Rules, HttpRules, Rule
  <2>4. QED  BY <2>2, <2>3
<1>3. ASSUME NEW w \in Workspaces, Idle(w), \A s \in torn \cap Streams : Home(s) # w
      PROVE  listeners[w] = StreamPorts(w, Routed)
  <2>1. Hearing(w)
    BY <1>3 DEF IInv, Heard
  <2>2. Svc(w) \notin Streams
    BY <1>1, <1>3, ServiceAssumption DEF Idle, Svc
  <2>3. QED  BY <2>1, <2>2 DEF Hearing
<1>4. ASSUME NEW n \in Namespaces \ blank, Idle(WorkspaceOf[n])
      PROVE  presets[n] = PresetOf(n)
  BY <1>1, <1>4 DEF IInv, Told, Idle
<1>5. QED  BY <1>2, <1>3, <1>4 DEF ClusterFollowsRoutes

\* It implies that the proxy follows the routes.
LEMMA InvProxy ==
  ASSUME IInv
  PROVE  ProxyFollowsRoutes
<1>1. NoTask.op = "none" /\ NoTask.pc = "end"
  BY NoTaskType
<1>2. ASSUME NEW s \in Services \ (torn \cup wiped), Settled(s)
      PROVE  BlocksOf(s) = IF s \in Routed THEN {Block(s)} ELSE {}
  <2>1. Serving(s, NoTask)
    BY <1>2, SettledTask DEF Blocks
  <2>2. CASE s \in Routed
    <3>1. ServedBy(s, Block(s))
      BY <1>1, <2>1, <2>2 DEF Serving, Awaited, Provisions
    <3>2. QED  BY <1>2, <2>2, <3>1 DEF ServedBy
  <2>3. CASE s \notin Routed
    BY <1>1, <2>1, <2>3 DEF Serving
  <2>4. QED  BY <2>2, <2>3
<1>3. ASSUME NEW s \in Services \ (torn \cup wiped), Settled(s)
      PROVE  {b \in proxy : b.svc = s} =
               IF s \in Routed THEN {IF s \in Streams THEN TcpBlock(s) ELSE HttpBlock(s)} ELSE {}
  BY <1>2, <1>3 DEF BlocksOf, Block
<1>4. ASSUME NEW s \in Routed \ (torn \cup wiped), NEW t \in Routed \ (torn \cup wiped),
             s # t, SameKind(s, t), Settled(s), Settled(t)
      PROVE  route[s].port # route[t].port
  <2>1. s \in Services /\ t \in Services
    BY RowEntries DEF IInv
  <2>2. Block(s) \in proxy /\ Block(t) \in proxy
    <3>1. BlocksOf(s) = {Block(s)} /\ BlocksOf(t) = {Block(t)}
      BY <1>2, <1>4, <2>1
    <3>2. QED  BY <3>1 DEF BlocksOf
  <2>3. /\ Block(s).svc = s /\ Block(s).port = route[s].port
        /\ Block(t).svc = t /\ Block(t).port = route[t].port
    BY DEF Block, TcpBlock, HttpBlock
  <2>4. Served
    BY DEF IInv
  <2>5. QED  BY <1>4, <2>2, <2>3, <2>4 DEF Served
<1>5. QED  BY <1>3, <1>4 DEF ProxyFollowsRoutes

\* The invariant holds in every reachable state.
LEMMA Invariant == Spec => []IInv
BY IInvInit, IInvStep, PTL DEF Spec

\* Type correctness of rows, releases, claims, rules, listeners, presets, blocks and tasks;
\* every virtual port is one of Ports (createDbRoutes).
THEOREM TypeCorrect == Spec => []TypeOK
BY Invariant, InvType, PTL

\* Between tasks a service has its helm release, its volume and its claim if and only if it
\* has its row (provisionService, deprovisionService and their rollbacks).
THEOREM StorageFollowsRows == Spec => []NothingLeftBehind
BY Invariant, InvNothingLeft, PTL

\* Between tasks the ingress has the rule of every route and listens on the ports of the
\* streams and no others, and the pods are told of the services with a route
\* (requestUpdateClusterIngressRules, cleanupIngressRulesForServices,
\* updateClusterPodPresets).
THEOREM ClusterFollows == Spec => []ClusterFollowsRoutes
BY Invariant, InvCluster, PTL

\* Between tasks nginx has the block of every route and no block without one, whatever the
\* tasks of other namespaces generate, and serves no port for two services of a kind
\* (tasks.nginx.js).
THEOREM ProxyFollows == Spec => []ProxyFollowsRoutes
BY Invariant, InvProxy, PTL

=============================================================================
