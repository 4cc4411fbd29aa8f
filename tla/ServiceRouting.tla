--------------------------- MODULE ServiceRouting ---------------------------
(***************************************************************************)
(* Managed services and the way to them: the rows of a service and of its  *)
(* route (virtual port, domain), its persistent volume and claim, its helm *)
(* release, the ingress rules and the pod preset on the cluster, and the   *)
(* server blocks of the nginx that all workspaces share.  The tasks of     *)
(* tasks.services.js and the domain tasks of tasks.runtime.js change them, *)
(* one request to the host node after another, and roll back by hand.      *)
(*                                                                         *)
(* The tasks of a workspace run one at a time (the API refuses a request   *)
(* while one is open); those of different workspaces interleave.  A        *)
(* service exposes one ClusterIP port.  The files and the lock behind an   *)
(* update of the proxy are NginxProxy's: here it is applied or it is not.  *)
(***************************************************************************)
EXTENDS Integers, FiniteSets, Functions

CONSTANTS Services,     \* instance names
          Streams,      \* services whose port is a TCP stream
          Stateful,     \* services that need a persistent volume
          Namespaces, Workspaces,
          NamespaceOf,  \* of each service
          WorkspaceOf,  \* of each namespace
          Prefixes,     \* pairs of namespaces, the first one's full name a prefix of the second's
          NamePrefixes, \* likewise, of services with an HTTP port
          Ports,        \* virtual ports, 20000..29998 in the code
          Domains,      \* domains with their subdomains
          NoDomain, NoService,
          MaxTasks,     \* bound: tasks
          MaxFaults     \* bound: refused or unanswered requests

ASSUME ServiceAssumption ==
  /\ Streams \subseteq Services /\ Stateful \subseteq Services /\ NoService \notin Services
  /\ NamespaceOf \in [Services -> Namespaces]
  /\ WorkspaceOf \in [Namespaces -> Workspaces]
  /\ Prefixes \subseteq Namespaces \X Namespaces
  /\ NamePrefixes \subseteq (Services \ Streams) \X (Services \ Streams)
  /\ NoDomain \notin Domains
ASSUME BoundsAssumption == MaxTasks \in Nat /\ MaxFaults \in Nat

VARIABLES domains,   \* domains with a row
          service,   \* services with a row
          route,     \* port and domain of the services with a route's row
          release,   \* services with a helm release
          claims,    \* persistent volumes and claims on the clusters
          rules,     \* VirtualServers and TransportServers of the ingress
          listeners, \* per workspace: stream ports the ingress listens on
          presets,   \* per namespace: services its pods are told about
          proxy,     \* server blocks of nginx
          empty,     \* default.conf is the empty text: nothing was generated yet
          task,      \* per workspace: the task being executed
          tasks, faults,
          torn,      \* history: proxy or ingress apart from the rows since an event named below
          leaked,    \* history: release or claims apart from the rows, likewise
          blank,     \* history: namespaces whose preset is out of date, likewise
          wiped      \* history: services whose blocks another namespace removed

db == <<domains, service, route>>
storage == <<release, claims>>
ingress == <<rules, listeners>>
nginx == <<proxy, empty>>
history == <<torn, leaked, blank, wiped>>
vars == <<db, storage, ingress, presets, nginx, task, tasks, faults, history>>

Hosts == Domains \cup {NoDomain}
Routed == DOMAIN route
Home(s) == WorkspaceOf[NamespaceOf[s]]

Entry == [svc : Services, port : Ports, domain : Hosts]
Backup == [there : BOOLEAN, rules : SUBSET Entry, listeners : SUBSET Ports]
NoBackup == [there |-> FALSE, rules |-> {}, listeners |-> {}]

Ops == {"provision", "deprovision", "bind", "unbind"}
NoTask == [op |-> "none", svc |-> NoService, domain |-> NoDomain, old |-> NoDomain,
           exposed |-> FALSE, backup |-> NoBackup, pc |-> "end"]
Idle(w) == task[w] = NoTask
Settled(s) == Idle(Home(s))

IsTask(t, w) ==
  /\ t.op \in Ops /\ t.svc \in Services /\ Home(t.svc) = w
  /\ t.domain \in Hosts /\ t.old \in Hosts /\ t.exposed \in BOOLEAN
  /\ t.backup \in Backup
  /\ t.pc \in {"pv", "pvc", "resources", "unclaim", "deploy", "rows", "presets", "ingress",
               "balancer", "undo", "restore", "uninstall", "unblock", "again", "stuck"}

TypeOK ==
  /\ domains \subseteq Domains
  /\ service \subseteq Services /\ Routed \subseteq service
  /\ \A s \in Routed : route[s] \in [port : Ports, domain : Hosts]
  /\ release \subseteq Services /\ claims \subseteq {"pv", "pvc"} \X Services
  /\ rules \subseteq Entry /\ proxy \subseteq Entry /\ empty \in BOOLEAN
  /\ listeners \in [Workspaces -> SUBSET Ports]
  /\ presets \in [Namespaces -> SUBSET Services]
  /\ \A w \in Workspaces : Idle(w) \/ IsTask(task[w], w)
  /\ tasks \in 0..MaxTasks /\ faults \in 0..MaxFaults
  /\ torn \subseteq Services /\ leaked \subseteq Services
  /\ wiped \subseteq Services /\ blank \subseteq Namespaces

Init ==
  /\ domains = Domains /\ service = {} /\ route = [s \in {} |-> NoDomain]
  /\ release = {} /\ claims = {} /\ rules = {} /\ proxy = {} /\ empty = TRUE
  /\ listeners = [w \in Workspaces |-> {}] /\ presets = [n \in Namespaces |-> {}]
  /\ task = [w \in Workspaces |-> NoTask]
  /\ tasks = 0 /\ faults = 0
  /\ torn = {} /\ leaked = {} /\ blank = {} /\ wiped = {}

Fault == faults < MaxFaults /\ faults' = faults + 1
Svc(w) == task[w].svc
Ns(w) == NamespaceOf[Svc(w)]
At(w, pc) == task[w].pc = pc
Goto(w, pc) == task' = [task EXCEPT ![w].pc = pc]
Finish(w) == task' = [task EXCEPT ![w] = NoTask]

----------------------------------------------------------------------------
(* The command line and the API, which schedules a task for a workspace    *)
(* that has none.  A new service has no domain yet.                        *)

Request(op, s, d, exposed, pc) ==
  /\ Settled(s) /\ tasks < MaxTasks
  /\ tasks' = tasks + 1
  /\ task' = [task EXCEPT ![Home(s)] =
       [NoTask EXCEPT !.op = op, !.svc = s, !.domain = d, !.exposed = exposed, !.pc = pc]]
  /\ UNCHANGED <<db, storage, ingress, presets, nginx, faults, history>>

InstallService(s, exposed) ==
  /\ s \notin service
  /\ Request("provision", s, NoDomain, exposed, IF s \in Stateful THEN "pv" ELSE "deploy")

DeleteService(s) ==
  /\ s \in service
  /\ Request("deprovision", s, NoDomain, s \in Routed, "uninstall")

\* No other service may have the subdomain of the domain.
SubdomainOverlap(s, d) == \E t \in Routed \ {s} : route[t].domain = d

BindDomain(s, d) ==
  /\ ~SubdomainOverlap(s, d)
  /\ Request("bind", s, d, TRUE, "rows")

UnbindDomain(s, d) == Request("unbind", s, d, TRUE, "rows")

\* A domain that routes use is not deleted.  The workspace from which it is
\* deleted has no open task, others of the organisation may have one.
DeleteDomain(d) ==
  /\ d \in domains /\ (\E w \in Workspaces : Idle(w))
  /\ \A s \in Routed : route[s].domain # d
  /\ domains' = domains \ {d}
  /\ UNCHANGED <<service, route, storage, ingress, presets, nginx, task, tasks, faults, history>>

\* What the commands let their user choose from.
WorkspacesServices(n) == {s \in service : NamespaceOf[s] = n}
DomainRoutes(d, n) == {s \in Routed : route[s].domain = d /\ NamespaceOf[s] = n}

CreateServiceCommand == \E s \in Services, exposed \in BOOLEAN : InstallService(s, exposed)
DeleteServiceCommand == \E n \in Namespaces : \E s \in WorkspacesServices(n) : DeleteService(s)
BindCommand ==
  \E n \in Namespaces, d \in domains : \E s \in WorkspacesServices(n) \cap Routed : BindDomain(s, d)
UnbindCommand ==
  \E n \in Namespaces, d \in domains : \E s \in DomainRoutes(d, n) : UnbindDomain(s, d)

Ask == CreateServiceCommand \/ DeleteServiceCommand \/ BindCommand \/ UnbindCommand
       \/ \E d \in Domains : DeleteDomain(d)

----------------------------------------------------------------------------
(* Storage and deployment of a new service.                                *)

DeployPersistantVolume(s) == claims' = claims \cup {<<"pv", s>>}
DeployPersistantVolumeClaim(s) == claims' = claims \cup {<<"pvc", s>>}
RemovePersistantVolumeClaim(C, s) == C \ {<<"pvc", s>>}
RemovePersistantVolume(C, s) == C \ {<<"pv", s>>}
Unclaimed(s) == RemovePersistantVolume(RemovePersistantVolumeClaim(claims, s), s)

AfterClaim == [pv |-> "pvc", pvc |-> "resources", resources |-> "deploy"]
Claim(w) ==
  CASE At(w, "pv") -> DeployPersistantVolume(Svc(w))
    [] At(w, "pvc") -> DeployPersistantVolumeClaim(Svc(w))
    [] OTHER -> UNCHANGED claims

Claimed(w) ==
  /\ task[w].pc \in DOMAIN AfterClaim
  /\ Claim(w)
  /\ Goto(w, AfterClaim[task[w].pc])
  /\ UNCHANGED <<db, release, ingress, presets, nginx, tasks, faults, history>>

\* A refusal takes back what was made before, a timeout nothing.
ClaimFails(w) ==
  /\ task[w].pc \in DOMAIN AfterClaim /\ Fault
  /\ \/ /\ IF At(w, "pv") THEN Finish(w) ELSE Goto(w, "unclaim")
        /\ UNCHANGED <<claims, leaked>>
     \/ /\ Claim(w) /\ Finish(w)
        /\ leaked' = leaked \cup {Svc(w)}
  /\ UNCHANGED <<db, release, ingress, presets, nginx, tasks, torn, blank, wiped>>

\* deprovisionPVC and deprovisionPV do not look at the answer.
ClaimsTakenBack(w) ==
  /\ At(w, "unclaim")
  /\ \/ claims' = Unclaimed(Svc(w)) /\ UNCHANGED <<faults, leaked>>
     \/ Fault /\ leaked' = leaked \cup {Svc(w)} /\ UNCHANGED claims
  /\ Finish(w)
  /\ UNCHANGED <<db, release, ingress, presets, nginx, tasks, torn, blank, wiped>>

HelmInstall(s) == s \notin release /\ release' = release \cup {s}

Deployed(w) ==
  /\ At(w, "deploy")
  /\ HelmInstall(Svc(w))
  /\ Goto(w, "rows")
  /\ UNCHANGED <<db, claims, ingress, presets, nginx, tasks, faults, history>>

\* helm does not install a release that exists.
DeployRefused(w) ==
  /\ At(w, "deploy")
  /\ IF Svc(w) \in release THEN UNCHANGED faults ELSE Fault
  /\ IF Svc(w) \in Stateful THEN Goto(w, "unclaim") ELSE Finish(w)
  /\ leaked' = IF Svc(w) \in release THEN leaked \cup {Svc(w)} ELSE leaked
  /\ UNCHANGED <<db, storage, ingress, presets, nginx, tasks, torn, blank, wiped>>

DeployUnanswered(w) ==
  /\ At(w, "deploy") /\ Fault
  /\ HelmInstall(Svc(w))
  /\ leaked' = leaked \cup {Svc(w)}
  /\ Finish(w)
  /\ UNCHANGED <<db, claims, ingress, presets, nginx, tasks, torn, blank, wiped>>

----------------------------------------------------------------------------
(* Rows and pod presets.                                                   *)

\* Mutant of DrawnPorts: the upper bound is included.
DrawnPortsIncluded == Ports \cup {p + 1 : p \in Ports}

\* The ports in use are rows, the port that is drawn is a number: none of
\* them is ever found in the list.
DrawnPorts == Ports

CreateDbRoutes(w) ==
  \E p \in DrawnPorts :
    route' = [s \in Routed \cup {Svc(w)} |->
                IF s = Svc(w) THEN [port |-> p, domain |-> task[w].domain] ELSE route[s]]

CreateRows(w) ==
  /\ At(w, "rows") /\ task[w].op = "provision"
  /\ service' = service \cup {Svc(w)} /\ UNCHANGED domains
  /\ IF task[w].exposed THEN CreateDbRoutes(w) /\ Goto(w, "presets")
                        ELSE Finish(w) /\ UNCHANGED route
  /\ leaked' = leaked \ {Svc(w)}
  /\ UNCHANGED <<storage, ingress, presets, nginx, tasks, faults, torn, blank, wiped>>

RemoveRoutes(s) == route' = Restrict(route, Routed \ {s})

\* Services without a route are not in the preset.
ServicesForWsRoutes(n) == {s \in Routed : NamespaceOf[s] = n}
PresetOf(n) == ServicesForWsRoutes(n)

PresetsUpdated(w) ==
  /\ At(w, "presets") \/ At(w, "again")
  /\ presets' = [presets EXCEPT ![Ns(w)] = PresetOf(Ns(w))]
  /\ blank' = blank \ {Ns(w)}
  /\ IF At(w, "again") THEN Finish(w)
     ELSE Goto(w, IF task[w].op = "provision" THEN "ingress" ELSE "unblock")
  /\ UNCHANGED <<db, storage, ingress, nginx, tasks, faults, torn, leaked, wiped>>

\* The host deletes the preset before it applies the new one.  A failure in
\* the catch block of a deprovisioning leaves its task IN_PROGRESS.
PresetsFail(w) ==
  /\ At(w, "presets") \/ At(w, "again")
  /\ Fault
  /\ \E P \in {presets[Ns(w)], {}, PresetOf(Ns(w))} : presets' = [presets EXCEPT ![Ns(w)] = P]
  /\ blank' = blank \cup {Ns(w)}
  /\ CASE At(w, "again") -> Goto(w, "stuck") /\ UNCHANGED <<route, torn>>
       [] task[w].op = "provision" -> Goto(w, "undo") /\ RemoveRoutes(Svc(w)) /\ UNCHANGED torn
       [] OTHER -> Finish(w) /\ torn' = torn \cup {Svc(w)} /\ UNCHANGED route
  /\ UNCHANGED <<domains, service, storage, ingress, nginx, tasks, leaked, wiped>>

----------------------------------------------------------------------------
(* The domain of a route.                                                  *)

\* The row of the domain is gone: the database refuses.
NoSuchDomain(d) == d \in Domains \ domains

RowsBound(w) ==
  /\ At(w, "rows") /\ task[w].op \in {"bind", "unbind"}
  /\ task[w].op = "bind" => ~NoSuchDomain(task[w].domain)
  /\ route' = [route EXCEPT ![Svc(w)].domain = IF task[w].op = "bind" THEN task[w].domain ELSE NoDomain]
  /\ task' = [task EXCEPT ![w].old = route[Svc(w)].domain, ![w].pc = "ingress"]
  /\ UNCHANGED <<domains, service, storage, ingress, presets, nginx, tasks, faults, history>>

RowsFail(w) ==
  /\ At(w, "rows") /\ task[w].op \in {"bind", "unbind"}
  /\ IF task[w].op = "bind" /\ NoSuchDomain(task[w].domain) THEN UNCHANGED faults ELSE Fault
  /\ Finish(w)
  /\ UNCHANGED <<db, storage, ingress, presets, nginx, tasks, history>>

\* commitTransaction releases the client before it throws, and the handler
\* rolls back on that client: the second error leaves the task IN_PROGRESS.
CommitFails(w) ==
  /\ At(w, "rows") /\ task[w].op = "bind" /\ Fault
  /\ Goto(w, "stuck")
  /\ UNCHANGED <<db, storage, ingress, presets, nginx, tasks, history>>

\* What the catch blocks write, whatever domain the route had before.  An
\* unbound domain may have been deleted since: the error leaves the task
\* IN_PROGRESS.
RestoreDomain(w) ==
  LET d == IF task[w].op = "bind" THEN NoDomain ELSE task[w].domain
  IN IF NoSuchDomain(d) THEN Goto(w, "stuck") /\ UNCHANGED route
     ELSE Finish(w) /\ route' = [route EXCEPT ![Svc(w)].domain = d]

----------------------------------------------------------------------------
(* update_cluster_ingress on the host of the master node.                  *)

HttpRule(s) == [svc |-> s, port |-> route[s].port, domain |-> route[s].domain]
TcpRule(s) == [svc |-> s, port |-> route[s].port, domain |-> NoDomain]
Rule(s) == IF s \in Streams THEN TcpRule(s) ELSE HttpRule(s)
RulesOf(s) == {r \in rules : r.svc = s}

\* The names of a rule hold service and port.
ApplyRule(s) == rules' = {r \in rules : ~(r.svc = s /\ r.port = route[s].port)} \cup {Rule(s)}

StreamPorts(w, R) == {route[s].port : s \in {t \in R \cap Streams : Home(t) = w}}
UpdateGlobalTCP(w, R) == listeners' = [listeners EXCEPT ![w] = StreamPorts(w, R)]

WriteRules(w) ==
  /\ ApplyRule(Svc(w))
  /\ IF Svc(w) \in Streams THEN UpdateGlobalTCP(w, Routed) ELSE UNCHANGED listeners

IngressUpdated(w) ==
  /\ At(w, "ingress")
  /\ WriteRules(w)
  /\ task' = [task EXCEPT ![w].pc = "balancer",
       ![w].backup = [there |-> TRUE, rules |-> RulesOf(Svc(w)), listeners |-> listeners[w]]]
  /\ UNCHANGED <<db, storage, presets, nginx, tasks, faults, history>>

\* The catch blocks of the three kinds of task.  apart: services of which proxy
\* or ingress keep something the row does not say.
RollBack(w, apart) ==
  /\ IF task[w].op = "provision"
       THEN Goto(w, "undo") /\ RemoveRoutes(Svc(w)) /\ blank' = blank \cup {Ns(w)}
       ELSE RestoreDomain(w) /\ UNCHANGED blank
  /\ torn' = torn \cup apart

\* A host that fails restores what it changed.
IngressRefused(w) ==
  /\ At(w, "ingress") /\ Fault
  /\ RollBack(w, IF task[w].op = "bind" /\ task[w].old # NoDomain THEN {Svc(w)} ELSE {})
  /\ UNCHANGED <<domains, service, storage, ingress, presets, nginx, tasks, leaked, wiped>>

IngressUnanswered(w) ==
  /\ At(w, "ingress") /\ Fault
  /\ WriteRules(w)
  /\ RollBack(w, {Svc(w)})
  /\ UNCHANGED <<domains, service, storage, presets, nginx, tasks, leaked, wiped>>

----------------------------------------------------------------------------
(* The configuration of nginx.                                             *)

HttpBlock(s) == [svc |-> s, port |-> route[s].port, domain |-> route[s].domain]
TcpBlock(s) == [svc |-> s, port |-> route[s].port, domain |-> NoDomain]

\* Blocks go by the prefix of their host or upstream name, and only when the
\* namespace has a route of their kind.
UnderName(n, b) == LET m == NamespaceOf[b.svc] IN m = n \/ <<n, m>> \in Prefixes
HttpCleared(C, n) == {b \in C : b.svc \in Streams \/ ~UnderName(n, b)}
TcpCleared(C, n) == {b \in C : b.svc \notin Streams \/ ~UnderName(n, b)}

HttpGenerated(C, n) ==
  LET P == ServicesForWsRoutes(n) \ Streams
  IN IF P = {} THEN C ELSE HttpCleared(C, n) \cup {HttpBlock(s) : s \in P}
TcpGenerated(C, n) ==
  LET P == ServicesForWsRoutes(n) \cap Streams
  IN IF P = {} THEN C ELSE TcpCleared(C, n) \cup {TcpBlock(s) : s \in P}
Generated(n) == TcpGenerated(HttpGenerated(proxy, n), n)

\* Services that lose their block.
LostBlocks(C) == {s \in Routed : \E b \in proxy \ C : b.svc = s}

\* Two blocks of one kind on a port are a duplicate to nginx.
SameKind(s, t) == (s \in Streams) = (t \in Streams)
Loadable(C) == \A b, c \in C : b # c /\ SameKind(b.svc, c.svc) => b.port # c.port

BalancerUpdated(w) ==
  /\ At(w, "balancer")
  /\ Loadable(Generated(Ns(w)))
  /\ proxy' = Generated(Ns(w)) /\ empty' = FALSE
  /\ wiped' = (wiped \cup LostBlocks(Generated(Ns(w)))) \ ServicesForWsRoutes(Ns(w))
  /\ Finish(w)
  /\ torn' = IF task[w].op \in {"bind", "unbind"} THEN torn \ ({Svc(w)} \ Streams) ELSE torn
  /\ UNCHANGED <<db, storage, ingress, presets, tasks, faults, leaked, blank>>

\* The former default.conf is put back unless it was the empty text, which is
\* taken for no backup: then the blocks stay.
BalancerFails(w) ==
  /\ At(w, "balancer")
  /\ \/ Fault /\ UNCHANGED nginx
     \/ /\ IF Loadable(Generated(Ns(w))) THEN Fault ELSE UNCHANGED faults
        /\ proxy' = IF empty THEN HttpGenerated(proxy, Ns(w)) ELSE proxy
        /\ empty' = FALSE
  /\ LET stayed == {b.svc : b \in proxy' \ proxy}
     IN IF task[w].op = "deprovision"
          THEN Goto(w, "again") /\ torn' = torn \cup stayed /\ UNCHANGED <<route, blank>>
          ELSE RollBack(w, stayed \cup (IF task[w].op = "provision" THEN {} ELSE {Svc(w)}))
  /\ UNCHANGED <<domains, service, storage, ingress, presets, tasks, leaked, wiped>>

----------------------------------------------------------------------------
(* Removal of a service.                                                   *)

HelmUninstall(s) == s \in release /\ release' = release \ {s}

\* The name of a VirtualServer is made from a column the query does not
\* select: kubectl does not find it, and errors are ignored.
CleanupIngressRules(w, s) ==
  IF s \in Routed \cap Streams
    THEN /\ rules' = rules \ {TcpRule(s)}
         /\ UpdateGlobalTCP(w, Routed \ {s})
    ELSE UNCHANGED ingress

\* Mutant of DeleteK8SService: volume and claim stay.
DeleteK8SServiceOnly(w) ==
  /\ HelmUninstall(Svc(w))
  /\ CleanupIngressRules(w, Svc(w))
  /\ UNCHANGED claims

DeleteK8SService(w) ==
  /\ HelmUninstall(Svc(w))
  /\ claims' = Unclaimed(Svc(w))
  /\ CleanupIngressRules(w, Svc(w))

\* The answer did not come, or the host stopped after the uninstallation.
HalfDeleted(w) ==
  \/ DeleteK8SService(w)
  \/ HelmUninstall(Svc(w)) /\ UNCHANGED <<claims, ingress>>

Uninstalled(w) ==
  /\ At(w, "uninstall")
  /\ DeleteK8SService(w)
  /\ service' = service \ {Svc(w)} /\ RemoveRoutes(Svc(w)) /\ UNCHANGED domains
  /\ leaked' = leaked \ {Svc(w)} /\ wiped' = wiped \ {Svc(w)}
  /\ Goto(w, "presets")
  /\ UNCHANGED <<presets, nginx, tasks, faults, torn, blank>>

\* helm does not uninstall what is not there: after a removal that failed
\* half-way every further one fails.
UninstallFails(w) ==
  /\ At(w, "uninstall")
  /\ \/ /\ IF Svc(w) \in release THEN Fault ELSE UNCHANGED faults
        /\ UNCHANGED <<storage, ingress, leaked, torn>>
     \/ /\ HalfDeleted(w) /\ Fault
        /\ leaked' = leaked \cup {Svc(w)} /\ torn' = torn \cup {Svc(w)}
  /\ Finish(w)
  /\ UNCHANGED <<db, presets, nginx, tasks, blank, wiped>>

\* Mutant of Unblock: the blocks are left to the generation that follows.
UnblockNot(w) ==
  /\ At(w, "unblock")
  /\ Goto(w, "balancer")
  /\ torn' = torn \ ({Svc(w)} \ Streams)
  /\ UNCHANGED <<db, storage, ingress, presets, nginx, tasks, faults, leaked, blank, wiped>>

\* A TCP block goes by its whole name, an HTTP block when the name occurs in it.
OfService(s, b) == b.svc = s \/ <<s, b.svc>> \in NamePrefixes

\* The files change without a reload, for a service that has routes.
Unblock(w) ==
  /\ At(w, "unblock")
  /\ IF task[w].exposed
       THEN /\ proxy' = {b \in proxy : ~OfService(Svc(w), b)}
            /\ wiped' = wiped \cup LostBlocks(proxy')
            /\ torn' = torn \ ({Svc(w)} \ Streams)
       ELSE UNCHANGED <<proxy, torn, wiped>>
  /\ Goto(w, "balancer")
  /\ UNCHANGED <<db, storage, ingress, presets, empty, tasks, faults, leaked, blank>>

\* The error is swallowed after the files are put back.
UnblockFails(w) ==
  /\ At(w, "unblock") /\ Fault
  /\ torn' = torn \cup {Svc(w)}
  /\ Goto(w, "balancer")
  /\ UNCHANGED <<db, storage, ingress, presets, nginx, tasks, leaked, blank, wiped>>

----------------------------------------------------------------------------
(* Rollback of a provisioning whose release is installed.                  *)

\* The routes are gone before: the host finds no rules to clean up.
Undone(w) ==
  /\ At(w, "undo")
  /\ DeleteK8SService(w)
  /\ service' = service \ {Svc(w)} /\ UNCHANGED domains
  /\ leaked' = leaked \ {Svc(w)}
  /\ IF task[w].backup.there THEN Goto(w, "restore") ELSE Finish(w)
  /\ UNCHANGED <<route, presets, nginx, tasks, faults, torn, blank, wiped>>

\* The row stays, and so do ingress rules.
UndoFails(w) ==
  /\ At(w, "undo") /\ Fault
  /\ \/ UNCHANGED <<storage, ingress, leaked>>
     \/ HalfDeleted(w) /\ leaked' = leaked \cup {Svc(w)}
  /\ torn' = torn \cup {Svc(w)}
  /\ Finish(w)
  /\ UNCHANGED <<db, presets, nginx, tasks, blank, wiped>>

\* Mutant of RollbackK8SResources: the listeners are not restored.
RollbackK8SResourcesHttp(w) ==
  /\ rules' = (rules \ RulesOf(Svc(w))) \cup task[w].backup.rules
  /\ UNCHANGED listeners

RollbackK8SResources(w) ==
  /\ rules' = (rules \ RulesOf(Svc(w))) \cup task[w].backup.rules
  /\ listeners' = IF Svc(w) \in Streams THEN [listeners EXCEPT ![w] = task[w].backup.listeners]
                  ELSE listeners

Restored(w) ==
  /\ At(w, "restore")
  /\ RollbackK8SResources(w)
  /\ Finish(w)
  /\ UNCHANGED <<db, storage, presets, nginx, tasks, faults, history>>

RestoreFails(w) ==
  /\ At(w, "restore") /\ Fault
  /\ torn' = torn \cup {Svc(w)}
  /\ Finish(w)
  /\ UNCHANGED <<db, storage, ingress, presets, nginx, tasks, leaked, blank, wiped>>

Provision(w) == Claimed(w) \/ ClaimFails(w) \/ ClaimsTakenBack(w)
                \/ Deployed(w) \/ DeployRefused(w) \/ DeployUnanswered(w) \/ CreateRows(w)
                \/ Undone(w) \/ UndoFails(w) \/ Restored(w) \/ RestoreFails(w)
Deprovision(w) == Uninstalled(w) \/ UninstallFails(w) \/ Unblock(w) \/ UnblockFails(w)
Publish(w) == PresetsUpdated(w) \/ PresetsFail(w) \/ RowsBound(w) \/ RowsFail(w) \/ CommitFails(w)
              \/ IngressUpdated(w) \/ IngressRefused(w) \/ IngressUnanswered(w)
              \/ BalancerUpdated(w) \/ BalancerFails(w)

Next == Ask \/ \E w \in Workspaces : Provision(w) \/ Deprovision(w) \/ Publish(w)

Spec == Init /\ [][Next]_vars

----------------------------------------------------------------------------
(* Properties.                                                             *)

\* nginx serves a service at the port and domain its row names, and no
\* service without a route, after tasks that fail too: unless a task on the
\* service failed at a point from which nothing brings the two together (the
\* first generation of all is not undone: default.conf was the empty text), or
\* another namespace's configuration took the blocks away.  Nothing keeps a
\* virtual port from being drawn twice, but of two services that are served one
\* has given its port up (nginx refused its block and it was rolled back).
ProxyFollowsRoutes ==
  /\ \A s \in Services \ (torn \cup wiped) : Settled(s) =>
       {b \in proxy : b.svc = s} =
         IF s \in Routed THEN {IF s \in Streams THEN TcpBlock(s) ELSE HttpBlock(s)} ELSE {}
  /\ \A s, t \in Routed \ (torn \cup wiped) :
       s # t /\ SameKind(s, t) /\ Settled(s) /\ Settled(t) => route[s].port # route[t].port

\* The ingress knows every route and listens on the ports of the streams and
\* on no others; no TransportServer outlives its route; the pods are told of
\* the services with a route and of no others.
ClusterFollowsRoutes ==
  /\ \A s \in Services \ torn : Settled(s) =>
       IF s \in Routed THEN Rule(s) \in rules ELSE s \in Streams => RulesOf(s) = {}
  /\ \A w \in Workspaces :
       Idle(w) /\ (\A s \in torn \cap Streams : Home(s) # w) => listeners[w] = StreamPorts(w, Routed)
  /\ \A n \in Namespaces \ blank : Idle(WorkspaceOf[n]) => presets[n] = PresetOf(n)

\* A service has its helm release and its storage if and only if it has its
\* row, unless a request was not answered or an undo failed.
NothingLeftBehind ==
  \A s \in Services \ leaked : Settled(s) =>
    /\ s \in service <=> s \in release
    /\ {c \in claims : c[2] = s} = IF s \in service \cap Stateful THEN {"pv", "pvc"} \X {s} ELSE {}

=============================================================================
