--------------------------- MODULE ClusterGroups ---------------------------
(***************************************************************************)
(* The groups of a workspace's cluster in keycloak, named after account,   *)
(* organisation and workspace.  A task creates them after the cluster, and *)
(* another one removes them after the workspace; the API grants and        *)
(* revokes memberships and creates namespaces whose role bindings name the *)
(* groups.  "Workspaces" are the rows that bear one name, one after the    *)
(* other.  Tasks are executed at the same time (the announcement of a task *)
(* starts a call of its own), and so are requests to the API.              *)
(***************************************************************************)
EXTENDS Naturals, FiniteSets

CONSTANTS
  Workspaces,    \* rows of workspaces with the same name and organisation
  Users,
  Groups,        \* cluster-admin, admin, developer
  ClusterAdmin,  \* the group of the user who created the workspace
  Requests,      \* apply_rbac_bindings and create_namespace
  NoWorkspace,
  MaxDeletes,    \* workspaces that are deleted
  MaxEvents      \* refused requests to keycloak and hosts, failed statements,
                 \* users keycloak finds not or twice, and the three kinds of
                 \* overlap the properties name

ASSUME ClusterAdminAssumption == ClusterAdmin \in Groups
ASSUME NoWorkspaceAssumption == NoWorkspace \notin Workspaces
ASSUME EventsAssumption == MaxDeletes \in Nat /\ MaxEvents \in Nat

VARIABLES
  row,       \* of the workspace
  creator,   \* clusterAdminUserEmail
  nodes,     \* workspaces with a cluster, i.e. with rows in k8s_nodes
  payload,   \* workspaces whose deletion lists nodes
  task,      \* [kind -> [workspace -> status or step]]
  base,      \* the workspace whose task created the base group
  groups,    \* its subgroups
  members,   \* pairs of a user and a group
  request,   \* requests to the API
  namespaces,\* pairs of a workspace and the groups of its role bindings
  events,
  wanted,    \* what answered requests asked for, in the present workspace
  mixed,     \* users: see the properties
  shared,    \* workspaces: see the properties
  hasty,     \* workspaces: see the properties
  torn       \* namespaces: see the properties

rows == <<row, creator, nodes, payload, task>>
keycloak == <<base, groups, members>>
api == <<request, namespaces>>
history == <<wanted, mixed, shared, hasty, torn>>
groupsVars == <<rows, keycloak, api, events, history>>

Steps == [create  |-> {"deployed", "announced"},
          groups  |-> {"base", "made"},
          delete  |-> {"destroyed"},
          cleanup |-> {"stripped"}]
Kinds == DOMAIN Steps
NoRequest == [pc |-> "idle"]
Ended == [pc |-> "ended"]
RbacPcs == {"checked", "removed"}
NamespacePcs == {"asked", "listed"}

GroupsTypeOK ==
  /\ row \in [Workspaces -> {"unused", "present", "gone"}]
  /\ creator \in [Workspaces -> Users]
  /\ nodes \subseteq Workspaces /\ payload \subseteq Workspaces
  /\ \A k \in Kinds :
       task[k] \in [Workspaces -> {"none", "PENDING", "DONE", "ERROR"} \cup Steps[k]]
  /\ base \in Workspaces \cup {NoWorkspace}
  /\ groups \subseteq Groups /\ (base = NoWorkspace => groups = {})
  /\ members \subseteq Users \X groups
  /\ \A r \in Requests :
       \/ request[r] \in {NoRequest, Ended}
       \/ request[r] \in [pc : RbacPcs, ws : Workspaces, user : Users,
                          want : SUBSET Groups, left : SUBSET Groups]
       \/ request[r] \in [pc : NamespacePcs, ws : Workspaces, bound : SUBSET Groups]
  /\ namespaces \subseteq Workspaces \X SUBSET Groups
  /\ events \in 0..MaxEvents
  /\ wanted \in [Users -> SUBSET Groups]
  /\ mixed \subseteq Users
  /\ shared \subseteq Workspaces /\ hasty \subseteq Workspaces
  /\ torn \subseteq Workspaces \X SUBSET Groups

GroupsInit ==
  /\ row = [w \in Workspaces |-> "unused"]
  /\ creator \in [Workspaces -> Users]
  /\ nodes = {} /\ payload = {}
  /\ task = [k \in Kinds |-> [w \in Workspaces |-> "none"]]
  /\ base = NoWorkspace /\ groups = {} /\ members = {}
  /\ request = [r \in Requests |-> NoRequest] /\ namespaces = {}
  /\ events = 0
  /\ wanted = [u \in Users |-> {}]
  /\ mixed = {} /\ shared = {} /\ hasty = {} /\ torn = {}

Is(k, w, s) == task[k][w] = s
Becomes(k, w, s) == task' = [task EXCEPT ![k][w] = s]
Fault == events < MaxEvents /\ events' = events + 1
NoFault == UNCHANGED events
FaultIf(condition) == IF condition THEN Fault ELSE NoFault

OpenTask(w) == \E k \in Kinds : task[k][w] \in {"PENDING"} \cup Steps[k]
OpenRbac(w) == {r \in Requests : request[r].pc \in RbacPcs /\ request[r].ws = w}

\* Mutant of Ready: tasks a handler has taken up are not looked for.
ReadyPending(w) == row[w] = "present" /\ \A k \in Kinds : ~Is(k, w, "PENDING")

\* _precheckWorkspaceReadyNotBussy: what is done with its result comes later.
Ready(w) == row[w] = "present" /\ ~OpenTask(w)
----------------------------------------------------------------------------
(* Workspaces.create: the row, then its task.                              *)
\* Shared: the groups of a workspace that had the name are still cleaned up.
CreateWorkspace(w) ==
  LET others == {v \in Workspaces : OpenTask(v) \/ OpenRbac(v) # {}}
  IN /\ row[w] = "unused"
     /\ \A v \in Workspaces : row[v] # "present"
     /\ row' = [row EXCEPT ![w] = "present"]
     /\ wanted' = [u \in Users |-> {}] /\ mixed' = {}
     /\ shared' = shared \cup others \cup (IF others = {} THEN {} ELSE {w})
     /\ FaultIf(others # {})
     /\ UNCHANGED <<creator, nodes, payload, task, keycloak, api, hasty, torn>>

ScheduleCreate(w) ==
  /\ row[w] = "present" /\ Is("create", w, "none")
  /\ Becomes("create", w, "PENDING")
  /\ UNCHANGED <<row, creator, nodes, payload, keycloak, api, events, history>>
----------------------------------------------------------------------------
(* CREATE-K8S-CLUSTER.                                                     *)
DeployCluster(w) ==
  /\ Is("create", w, "PENDING")
  /\ nodes' = nodes \cup {w}
  /\ Becomes("create", w, "deployed")
  /\ UNCHANGED <<row, creator, payload, keycloak, api, events, history>>

DeployFails(w) ==
  /\ Is("create", w, "PENDING") /\ Fault
  /\ row' = [row EXCEPT ![w] = "gone"]
  /\ Becomes("create", w, "ERROR")
  /\ UNCHANGED <<creator, nodes, payload, keycloak, api, history>>

\* When the task cannot be scheduled the error is swallowed.
ScheduleGroups(w) ==
  /\ Is("create", w, "deployed")
  /\ \/ /\ row[w] = "present" /\ NoFault
        /\ task' = [task EXCEPT !["create"][w] = "announced", !["groups"][w] = "PENDING"]
     \/ /\ FaultIf(row[w] = "present")
        /\ Becomes("create", w, "announced")
  /\ UNCHANGED <<row, creator, nodes, payload, keycloak, api, history>>

CreateDone(w) ==
  /\ Is("create", w, "announced")
  /\ Becomes("create", w, "DONE")
  /\ UNCHANGED <<row, creator, nodes, payload, keycloak, api, events, history>>
----------------------------------------------------------------------------
(* CREATE-KEYCLOAK-WS-GROUPS.                                              *)
\* Keycloak refuses a second group of the same name.
CreateClusterGroupBase(w) ==
  /\ Is("groups", w, "PENDING")
  /\ base = NoWorkspace
  /\ base' = w
  /\ Becomes("groups", w, "base")
  /\ UNCHANGED <<row, creator, nodes, payload, groups, members, api, events, history>>

CreateClusterGroup(w) ==
  /\ Is("groups", w, "base")
  /\ base = w
  /\ \E g \in Groups \ groups : groups' = groups \cup {g}
  /\ Becomes("groups", w, IF groups' = Groups THEN "made" ELSE "base")
  /\ UNCHANGED <<row, creator, nodes, payload, base, members, api, events, history>>

\* Mutant of Granted: the group is not looked for.
GrantedUnseen(u, g) == members \cup {<<u, g>>}

\* addClusterGroupToUser finds groups by their names; it does nothing, and
\* reports nothing, when there is none.
Granted(u, g) == members \cup ({<<u, g>>} \cap (Users \X groups))

\* getUserByEmail found no user, or several: nothing is granted or reported either.
Overlooked(u) == UNCHANGED members /\ mixed' = mixed \cup {u} /\ Fault

AddClusterAdmin(w) ==
  /\ Is("groups", w, "made")
  /\ \/ members' = Granted(creator[w], ClusterAdmin) /\ UNCHANGED mixed /\ NoFault
     \/ Overlooked(creator[w])
  /\ wanted' = [wanted EXCEPT ![creator[w]] = {ClusterAdmin}]
  /\ Becomes("groups", w, "DONE")
  /\ UNCHANGED <<row, creator, nodes, payload, base, groups, api, shared, hasty, torn>>

CreateGroupsFails(w) ==
  /\ task["groups"][w] \in {"PENDING"} \cup Steps.groups
  /\ FaultIf(~ \/ Is("groups", w, "PENDING") /\ base # NoWorkspace
               \/ Is("groups", w, "base") /\ base # w)
  /\ Becomes("groups", w, "ERROR")
  /\ UNCHANGED <<row, creator, nodes, payload, keycloak, api, history>>
----------------------------------------------------------------------------
(* DEPROVISION-WORKSPACE-RESOURCES.                                        *)
\* scheduleWorkspaceDelete does not look for open tasks.
ScheduleDelete(w) ==
  /\ row[w] = "present" /\ Is("delete", w, "none")
  /\ Cardinality({v \in Workspaces : ~Is("delete", v, "none")}) < MaxDeletes
  /\ payload' = payload \cup ({w} \cap nodes)
  /\ Becomes("delete", w, "PENDING")
  /\ hasty' = hasty \cup (IF OpenTask(w) THEN {w} ELSE {})
  /\ FaultIf(OpenTask(w))
  /\ UNCHANGED <<row, creator, nodes, keycloak, api, wanted, mixed, shared, torn>>

\* The clean-up of the groups is scheduled when the machines are gone; when it
\* cannot be scheduled the error is swallowed.
DestroyNodes(w) ==
  /\ Is("delete", w, "PENDING") /\ w \in payload
  /\ nodes' = nodes \ {w}
  /\ namespaces' = {n \in namespaces : n[1] # w}
  /\ \/ /\ row[w] = "present" /\ NoFault
        /\ task' = [task EXCEPT !["delete"][w] = "destroyed", !["cleanup"][w] = "PENDING"]
     \/ Fault /\ Becomes("delete", w, "destroyed")
  /\ UNCHANGED <<row, creator, payload, keycloak, request, history>>

\* Without nodes the handler fails on the first node of its payload.
DestroyFails(w) ==
  /\ Is("delete", w, "PENDING")
  /\ FaultIf(w \in payload)
  /\ Becomes("delete", w, "ERROR")
  /\ UNCHANGED <<row, creator, nodes, payload, keycloak, api, history>>

DeleteWorkspace(w) ==
  /\ Is("delete", w, "destroyed")
  /\ row' = [row EXCEPT ![w] = "gone"]
  /\ nodes' = nodes \ {w}
  /\ Becomes("delete", w, "DONE")
  /\ UNCHANGED <<creator, payload, keycloak, api, events, history>>

\* The clean-up of the load balancer or the statement fails: the row stays.
DeleteWorkspaceFails(w) ==
  /\ Is("delete", w, "destroyed") /\ Fault
  /\ Becomes("delete", w, "ERROR")
  /\ UNCHANGED <<row, creator, nodes, payload, keycloak, api, history>>
----------------------------------------------------------------------------
(* CLEANUP-KEYCLOAK-WS-GROUPS.                                             *)
RemoveMembers(w) ==
  /\ Is("cleanup", w, "PENDING")
  /\ members' = {}
  /\ Becomes("cleanup", w, "stripped")
  /\ UNCHANGED <<row, creator, nodes, payload, base, groups, api, events, history>>

\* Mutant of DeleteBase: the subgroups are deleted and the base group stays.
DeleteSubGroups(w) ==
  /\ Is("cleanup", w, "stripped")
  /\ groups' = {} /\ members' = {}
  /\ Becomes("cleanup", w, "DONE")
  /\ UNCHANGED <<row, creator, nodes, payload, base, api, events, history>>

\* deleteClusterBaseGroup finds the group by its name.
DeleteBase(w) ==
  /\ Is("cleanup", w, "stripped")
  /\ base' = NoWorkspace /\ groups' = {} /\ members' = {}
  /\ Becomes("cleanup", w, "DONE")
  /\ UNCHANGED <<row, creator, nodes, payload, api, events, history>>

CleanupFails(w) ==
  /\ task["cleanup"][w] \in {"PENDING", "stripped"} /\ Fault
  /\ IF Is("cleanup", w, "PENDING") THEN members' \in SUBSET members ELSE UNCHANGED members
  /\ Becomes("cleanup", w, "ERROR")
  /\ UNCHANGED <<row, creator, nodes, payload, base, groups, api, history>>
----------------------------------------------------------------------------
(* applyRbacBindings.                                                      *)
RbacUsers(w) == {request[r].user : r \in OpenRbac(w)}
Ends(r) == request' = [request EXCEPT ![r] = Ended]

\* Mixed: another request for the user is open, or the task that creates the
\* cluster is not scheduled yet.
ApplyRbacBindings(r, w) ==
  /\ request[r] = NoRequest
  /\ Ready(w)
  /\ \E u \in Users, want \in SUBSET Groups :
       /\ request' = [request EXCEPT ![r] = [pc |-> "checked", ws |-> w, user |-> u,
                                             want |-> want, left |-> want]]
       /\ LET early == u \in RbacUsers(w) \/ Is("create", w, "none")
          IN mixed' = mixed \cup (IF early THEN {u} ELSE {}) /\ FaultIf(early)
  /\ UNCHANGED <<rows, keycloak, namespaces, wanted, shared, hasty, torn>>

MembershipsOf(u) == members \cap ({u} \X Groups)
RemoveClusterBaseGroupsForUser(r) ==
  /\ request[r].pc = "checked"
  /\ members' = members \ MembershipsOf(request[r].user)
  /\ request' = [request EXCEPT ![r].pc = "removed"]
  /\ UNCHANGED <<rows, base, groups, namespaces, events, history>>

AddClusterGroupToUser(r) ==
  /\ request[r].pc = "removed"
  /\ \E g \in request[r].left :
       /\ request' = [request EXCEPT ![r].left = @ \ {g}]
       /\ \/ members' = Granted(request[r].user, g) /\ UNCHANGED mixed /\ NoFault
          \/ Overlooked(request[r].user)
  /\ UNCHANGED <<rows, base, groups, namespaces, wanted, shared, hasty, torn>>

RbacAnswered(r) ==
  /\ request[r].pc = "removed" /\ request[r].left = {}
  /\ Ends(r)
  /\ wanted' = [wanted EXCEPT ![request[r].user] = request[r].want]
  /\ UNCHANGED <<rows, keycloak, namespaces, events, mixed, shared, hasty, torn>>

\* The user is left with some of the old and new groups.
RbacFails(r) ==
  /\ request[r].pc \in RbacPcs /\ Fault
  /\ Ends(r)
  /\ \/ UNCHANGED members
     \/ request[r].pc = "checked"
        /\ \E m \in MembershipsOf(request[r].user) : members' = members \ {m}
  /\ mixed' = mixed \cup {request[r].user}
  /\ UNCHANGED <<rows, base, groups, namespaces, wanted, shared, hasty, torn>>
----------------------------------------------------------------------------
(* createNamespace.                                                        *)
AskNamespace(r, w) ==
  /\ request[r] = NoRequest
  /\ Ready(w) /\ w \in nodes
  /\ request' = [request EXCEPT ![r] = [pc |-> "asked", ws |-> w, bound |-> {}]]
  /\ UNCHANGED <<rows, keycloak, namespaces, events, history>>

GetAvailableClusterGroups(r) ==
  /\ request[r].pc = "asked"
  /\ request' = [request EXCEPT ![r].pc = "listed", ![r].bound = groups]
  /\ UNCHANGED <<rows, keycloak, namespaces, events, history>>

\* The host binds the groups one by one, all but the cluster's administrators.
Bindings(r) == request[r].bound \ {ClusterAdmin}

CreateNamespace(r) ==
  /\ request[r].pc = "listed" /\ request[r].ws \in nodes
  /\ Ends(r)
  /\ namespaces' = namespaces \cup {<<request[r].ws, Bindings(r)>>}
  /\ UNCHANGED <<rows, keycloak, events, history>>

CreateNamespaceFails(r) ==
  /\ request[r].pc \in NamespacePcs
  /\ FaultIf(request[r].ws \in nodes)
  /\ Ends(r)
  /\ UNCHANGED <<rows, keycloak, namespaces, history>>

\* Torn: the deletion of a namespace that could not be completed fails too, or the
\* answer came too late.  Neither is reported.
NamespaceLeftBehind(r) ==
  /\ request[r].pc = "listed" /\ request[r].ws \in nodes /\ Fault
  /\ Ends(r)
  /\ \E some \in SUBSET Bindings(r) :
       /\ namespaces' = namespaces \cup {<<request[r].ws, some>>}
       /\ torn' = torn \cup {<<request[r].ws, some>>}
  /\ UNCHANGED <<rows, keycloak, wanted, mixed, shared, hasty>>
----------------------------------------------------------------------------
GroupsNext ==
  \/ \E w \in Workspaces :
       \/ CreateWorkspace(w) \/ ScheduleCreate(w)
       \/ DeployCluster(w) \/ DeployFails(w) \/ ScheduleGroups(w) \/ CreateDone(w)
       \/ CreateClusterGroupBase(w) \/ CreateClusterGroup(w) \/ AddClusterAdmin(w)
       \/ CreateGroupsFails(w)
       \/ ScheduleDelete(w) \/ DestroyNodes(w) \/ DestroyFails(w)
       \/ DeleteWorkspace(w) \/ DeleteWorkspaceFails(w)
       \/ RemoveMembers(w) \/ DeleteBase(w) \/ CleanupFails(w)
  \/ \E r \in Requests :
       \/ \E w \in Workspaces : ApplyRbacBindings(r, w) \/ AskNamespace(r, w)
       \/ RemoveClusterBaseGroupsForUser(r) \/ AddClusterGroupToUser(r)
       \/ RbacAnswered(r) \/ RbacFails(r)
       \/ GetAvailableClusterGroups(r) \/ CreateNamespace(r)
       \/ CreateNamespaceFails(r) \/ NamespaceLeftBehind(r)

GroupsSpec == GroupsInit /\ [][GroupsNext]_groupsVars
----------------------------------------------------------------------------
(* Properties.  shared: workspaces of one name that were not one after the *)
(* other, because names are checked before rows are inserted and the       *)
(* groups go after the row.  hasty: workspaces whose deletion was          *)
(* scheduled while they had an open task.  mixed: users with two requests  *)
(* open at once, a request that failed, one that was let through before    *)
(* the task that creates the cluster was scheduled, or who were not found  *)
(* when a group was to be granted.  torn: namespaces whose creation failed *)
(* and could not be undone.                                                *)
Available(w) ==
  /\ row[w] = "present" /\ Is("groups", w, "DONE") /\ Is("delete", w, "none")
  /\ ~OpenTask(w) /\ w \notin shared

\* A cluster whose groups were created has all of them, made for it and not for
\* a predecessor of the same name, and the role bindings of its namespaces name
\* all of them but the administrators'; one whose groups were cleaned up has none.
GroupsFollowWorkspaces ==
  \A w \in Workspaces :
    /\ Available(w) => /\ base = w /\ groups = Groups
                       /\ \A n \in namespaces \ torn :
                            n[1] = w => n[2] = Groups \ {ClusterAdmin}
    /\ Is("cleanup", w, "DONE") /\ w \notin hasty => base # w

\* A user has in an available cluster what the last answered request granted,
\* and nothing else: no grant is lost while groups are being made, and none is
\* inherited from a workspace that had the name before.
MembershipsFollowRequests ==
  \A w \in Workspaces, u \in Users :
    Available(w) /\ u \notin RbacUsers(w) /\ u \notin mixed =>
      MembershipsOf(u) = {u} \X wanted[u]

============================================================================
