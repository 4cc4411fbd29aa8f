------------------------- MODULE WorkspaceLifecycle -------------------------
(***************************************************************************)
(* Workspaces of one organisation from creation to deletion: rows written  *)
(* by the API (services/workspaces, controllers/tasks), tasks executed by  *)
(* the task controller and VMs deployed and destroyed by host nodes.       *)
(*                                                                         *)
(* Each cluster has one master and at most one worker, added by a scale-up *)
(* (task UPDATE-K8S-CLUSTER).  A deletion task works on the list of nodes  *)
(* the API read when it scheduled the task, and any number of deletions    *)
(* may be scheduled.  Deleting a workspace or organisation row cascades.   *)
(* Tasks run concurrently, each at most once (TaskQueue); hosts go on with *)
(* a deployment whose requester gave up.  All VMs are on the master's host *)
(* (ClusterScale has others).                                              *)
(***************************************************************************)
EXTENDS Naturals, FiniteSets

CONSTANTS Workspaces,
          Deletions,    \* DEPROVISION-WORKSPACE-RESOURCES tasks
          NoWorkspace,
          MaxFaults     \* bound: failing requests, statements and time-outs

ASSUME NoWorkspaceAssumption == NoWorkspace \notin Workspaces
ASSUME BoundsAssumption == MaxFaults \in Nat

Master(w) == <<w, "master">>
Worker(w) == <<w, "worker">>
Nodes == Workspaces \X {"master", "worker"}

VARIABLES org,        \* the organisation's row is there
          ws,         \* workspaces rows
          rows,       \* k8s_nodes rows
          vms,        \* virtual machines
          create,     \* per workspace, its CREATE-K8S-CLUSTER task
          grow,       \* per workspace, its UPDATE-K8S-CLUSTER task
          host,       \* per node, how far the host is with deploying it
          delStage, delWs, delNodes, todo,   \* per deletion: the task, its
                      \* workspace, the nodes in its payload, those still ahead
          orgTask, plan,   \* DEPROVISION-ORGANIZATION, and what to schedule first
          faults,
          disturbed   \* history: one of the events named below happened

tables == <<org, ws, rows>>
deletes == <<delStage, delWs, delNodes, todo>>
orgVars == <<orgTask, plan>>
vars == <<tables, vms, create, grow, host, deletes, orgVars, faults, disturbed>>

Busy == {"pending", "working", "joined", "undo"}
Settled == {"DONE", "ERROR"}

TypeOK ==
  /\ org \in BOOLEAN
  /\ ws \in [Workspaces -> {"none", "present", "deleted"}]
  /\ rows \subseteq Nodes /\ vms \subseteq Nodes
  /\ create \in [Workspaces -> {"none", "pending", "working"} \cup Settled]
  /\ grow \in [Workspaces -> {"none"} \cup Busy \cup Settled]
  /\ host \in [Nodes -> {"idle", "deploying", "booted", "ok", "failed"}]
  /\ delStage \in [Deletions -> {"none", "pending", "working"} \cup Settled]
  /\ delWs \in [Deletions -> Workspaces \cup {NoWorkspace}]
  /\ delNodes \in [Deletions -> SUBSET Nodes] /\ todo \in [Deletions -> SUBSET Nodes]
  /\ orgTask \in {"none", "planning", "pending", "checked", "stuck"} \cup Settled
  /\ plan \subseteq Workspaces
  /\ faults \in 0..MaxFaults
  /\ disturbed \in BOOLEAN

Init ==
  /\ org = TRUE
  /\ ws = [w \in Workspaces |-> "none"]
  /\ rows = {} /\ vms = {}
  /\ create = [w \in Workspaces |-> "none"] /\ grow = create
  /\ host = [n \in Nodes |-> "idle"]
  /\ delStage = [d \in Deletions |-> "none"]
  /\ delWs = [d \in Deletions |-> NoWorkspace]
  /\ delNodes = [d \in Deletions |-> {}] /\ todo = delNodes
  /\ orgTask = "none" /\ plan = {}
  /\ faults = 0 /\ disturbed = FALSE

NodesOf(w) == {n \in Nodes : n[1] = w}
DeletedBy(w) == {d \in Deletions : delWs[d] = w}
BeingDeleted(w) == \E d \in DeletedBy(w) : delStage[d] \in Busy
InUse(w) == create[w] \in Busy \/ grow[w] \in Busy

Fault == faults < MaxFaults /\ faults' = faults + 1

\* DELETE FROM workspaces cascades to its nodes.
DeleteWorkspaceRow(w) ==
  /\ ws' = [ws EXCEPT ![w] = "deleted"]
  /\ rows' = rows \ NodesOf(w)

----------------------------------------------------------------------------
(* The API.                                                                *)

\* services/workspaces create: the row, then, after an await, the task.  The
\* organisation must exist.
CreateWorkspace(w) ==
  /\ org
  /\ ws[w] = "none"
  /\ ws' = [ws EXCEPT ![w] = "present"]
  /\ disturbed' = (disturbed \/ orgTask = "checked")
  /\ UNCHANGED <<org, rows, vms, create, grow, host, deletes, orgVars, faults>>

\* An API process that stops in between leaves a row without a task.
ScheduleCreate(w) ==
  /\ ws[w] # "none" /\ create[w] = "none"
  /\ create' = [create EXCEPT ![w] = "pending"]
  /\ disturbed' = (disturbed \/ BeingDeleted(w))
  /\ UNCHANGED <<tables, vms, grow, host, deletes, orgVars, faults>>

\* scheduleK8SConfig: refused while another task of the workspace is open.
ScheduleGrow(w) ==
  /\ ws[w] = "present" /\ grow[w] = "none"
  /\ ~InUse(w) /\ ~BeingDeleted(w)
  /\ grow' = [grow EXCEPT ![w] = "pending"]
  /\ UNCHANGED <<tables, vms, create, host, deletes, orgVars, faults, disturbed>>

\* The payload lists the nodes of this moment.  No check for open tasks.
NewDeletion(d, w) ==
  /\ delStage[d] = "none"
  /\ delStage' = [delStage EXCEPT ![d] = "pending"]
  /\ delWs' = [delWs EXCEPT ![d] = w]
  /\ delNodes' = [delNodes EXCEPT ![d] = rows \cap NodesOf(w)]
  /\ todo' = [todo EXCEPT ![d] = rows \cap NodesOf(w)]
  /\ disturbed' = (disturbed \/ InUse(w))

ScheduleDelete(d, w) ==
  /\ ws[w] = "present"
  /\ NewDeletion(d, w)
  /\ UNCHANGED <<tables, vms, create, grow, host, orgVars, faults>>

\* scheduleOrgDelete: a deletion for every workspace there is now, then the task.
RequestOrgDelete ==
  /\ org /\ orgTask = "none"
  /\ orgTask' = "planning"
  /\ plan' = {w \in Workspaces : ws[w] = "present"}
  /\ UNCHANGED <<tables, vms, create, grow, host, deletes, faults, disturbed>>

PlanDelete(w) ==
  /\ orgTask = "planning" /\ w \in plan
  /\ plan' = plan \ {w}
  /\ IF ws[w] = "present" THEN \E d \in Deletions : NewDeletion(d, w)
                          ELSE UNCHANGED <<deletes, disturbed>>
  /\ UNCHANGED <<tables, vms, create, grow, host, orgTask, faults>>

ScheduleOrgDelete ==
  /\ orgTask = "planning" /\ plan = {}
  /\ orgTask' = "pending"
  /\ UNCHANGED <<tables, vms, create, grow, host, deletes, plan, faults, disturbed>>

----------------------------------------------------------------------------
(* Host nodes: deployWorkspaceCluster and requestProvisionWorker.          *)

\* The organisation of the workspace is read first; a worker then joins its
\* master.
Boot(n) ==
  /\ host[n] = "deploying"
  /\ ws[n[1]] = "present"
  /\ n = Worker(n[1]) => Master(n[1]) \in vms
  /\ vms' = vms \cup {n}
  /\ host' = [host EXCEPT ![n] = "booted"]
  /\ UNCHANGED <<tables, create, grow, deletes, orgVars, faults, disturbed>>

\* The engine fails before there is a VM, or removes the VM it has created.
BootFails(n) ==
  /\ host[n] = "deploying"
  /\ \/ Fault
     \/ UNCHANGED faults /\ (ws[n[1]] # "present" \/ Master(n[1]) \notin vms)
  /\ host' = [host EXCEPT ![n] = "failed"]
  /\ UNCHANGED <<tables, vms, create, grow, deletes, orgVars, disturbed>>

\* The row of the node refers to the workspace's row.
Register(n) ==
  /\ host[n] = "booted"
  /\ ws[n[1]] = "present"
  /\ rows' = rows \cup {n}
  /\ host' = [host EXCEPT ![n] = "ok"]
  /\ UNCHANGED <<org, ws, vms, create, grow, deletes, orgVars, faults, disturbed>>

RegisterFails(n) ==
  /\ host[n] = "booted"
  /\ IF ws[n[1]] = "present" THEN Fault ELSE UNCHANGED faults
  /\ vms' = vms \ {n}
  /\ host' = [host EXCEPT ![n] = "failed"]
  /\ UNCHANGED <<tables, create, grow, deletes, orgVars, disturbed>>

\* So may the removal of the VM: what the engine's clean-up throws is answered
\* like the first error, what the host's rollback throws is only logged.
LeavesVm(n) ==
  /\ \/ host[n] = "booted"
     \/ host[n] = "deploying" /\ ws[n[1]] = "present"
  /\ Fault /\ disturbed' = TRUE
  /\ vms' = vms \cup {n}
  /\ host' = [host EXCEPT ![n] = "failed"]
  /\ UNCHANGED <<tables, create, grow, deletes, orgVars>>

HostStep(n) == Boot(n) \/ BootFails(n) \/ Register(n) \/ RegisterFails(n) \/ LeavesVm(n)

----------------------------------------------------------------------------
(* processScheduledInitiateK8sCluster.                                     *)

StartCreate(w) ==
  /\ create[w] = "pending"
  /\ create' = [create EXCEPT ![w] = "working"]
  /\ host' = [host EXCEPT ![Master(w)] = "deploying"]
  /\ UNCHANGED <<tables, vms, grow, deletes, orgVars, faults, disturbed>>

CreateDone(w) ==
  /\ create[w] = "working" /\ host[Master(w)] = "ok"
  /\ create' = [create EXCEPT ![w] = "DONE"]
  /\ UNCHANGED <<tables, vms, grow, host, deletes, orgVars, faults, disturbed>>

\* An error or no answer in fifteen minutes: the workspace is deleted.
CreateFails(w) ==
  /\ create[w] = "working"
  /\ \/ host[Master(w)] = "failed" /\ UNCHANGED <<faults, disturbed>>
     \/ Fault /\ disturbed' = TRUE
  /\ DeleteWorkspaceRow(w)
  /\ create' = [create EXCEPT ![w] = "ERROR"]
  /\ UNCHANGED <<org, vms, grow, host, deletes, orgVars>>

CreateStep(w) == StartCreate(w) \/ CreateDone(w) \/ CreateFails(w)

----------------------------------------------------------------------------
(* processScheduledUpdateK8sCluster, scaling up by one worker.             *)

StartGrow(w) ==
  /\ grow[w] = "pending"
  /\ IF Master(w) \in rows
       THEN /\ grow' = [grow EXCEPT ![w] = "working"]
            /\ host' = [host EXCEPT ![Worker(w)] = "deploying"]
       ELSE /\ grow' = [grow EXCEPT ![w] = "ERROR"]
            /\ UNCHANGED host
  /\ UNCHANGED <<tables, vms, create, deletes, orgVars, faults, disturbed>>

GrowAnswered(w) ==
  /\ grow[w] = "working"
  /\ \/ host[Worker(w)] = "ok" /\ grow' = [grow EXCEPT ![w] = "joined"]
     \/ host[Worker(w)] = "failed" /\ grow' = [grow EXCEPT ![w] = "ERROR"]
  /\ UNCHANGED <<tables, vms, create, host, deletes, orgVars, faults, disturbed>>

\* No answer: nothing to roll back as far as the task knows.
GrowTimesOut(w) ==
  /\ grow[w] = "working"
  /\ Fault /\ disturbed' = TRUE
  /\ grow' = [grow EXCEPT ![w] = "ERROR"]
  /\ UNCHANGED <<tables, vms, create, host, deletes, orgVars>>

\* Volumes are attached and the master, over SSH, is tainted.
TaintMaster(w) ==
  /\ grow[w] = "joined" /\ Master(w) \in vms
  /\ grow' = [grow EXCEPT ![w] = "DONE"]
  /\ UNCHANGED <<tables, vms, create, host, deletes, orgVars, faults, disturbed>>

TaintFails(w) ==
  /\ grow[w] = "joined"
  /\ IF Master(w) \in vms THEN Fault ELSE UNCHANGED faults
  /\ grow' = [grow EXCEPT ![w] = "undo"]
  /\ UNCHANGED <<tables, vms, create, host, deletes, orgVars, disturbed>>

\* scaleDownK8SClusterNodes as a rollback: the worker is drained through its
\* master, then destroyed; its errors are only logged.
UndoGrow(w) ==
  /\ grow[w] = "undo"
  /\ \/ /\ {Master(w), Worker(w)} \subseteq rows \cap vms
        /\ vms' = vms \ {Worker(w)} /\ rows' = rows \ {Worker(w)}
        /\ UNCHANGED faults
     \/ /\ IF {Master(w), Worker(w)} \subseteq rows \cap vms THEN Fault ELSE UNCHANGED faults
        /\ UNCHANGED <<vms, rows>>
     \/ /\ {Master(w), Worker(w)} \subseteq rows \cap vms /\ Fault
        /\ vms' = vms \ {Worker(w)} /\ UNCHANGED rows
  /\ grow' = [grow EXCEPT ![w] = "ERROR"]
  /\ UNCHANGED <<org, ws, create, host, deletes, orgVars, disturbed>>

GrowStep(w) == \/ StartGrow(w) \/ GrowAnswered(w) \/ GrowTimesOut(w)
               \/ TaintMaster(w) \/ TaintFails(w) \/ UndoGrow(w)

----------------------------------------------------------------------------
(* processScheduledDeprovisionWorkspaceResources.                          *)

DelGoTo(d, s) == delStage' = [delStage EXCEPT ![d] = s]

StartDelete(d) ==
  /\ delStage[d] = "pending"
  /\ DelGoTo(d, "working")
  /\ UNCHANGED <<tables, vms, create, grow, host, delWs, delNodes, todo, orgVars, faults, disturbed>>

\* Workers go first.
IsNextNode(d, n) == /\ delStage[d] = "working" /\ n \in todo[d]
                    /\ n = Master(n[1]) => Worker(n[1]) \notin todo[d]

\* requestDeprovisionWorker and requestDeprovisionMaster.
DestroyNode(d, n) ==
  /\ IsNextNode(d, n)
  /\ n \in vms
  /\ vms' = vms \ {n} /\ rows' = rows \ {n}
  /\ todo' = [todo EXCEPT ![d] = @ \ {n}]
  /\ UNCHANGED <<org, ws, create, grow, host, delStage, delWs, delNodes, orgVars, faults, disturbed>>

\* Mutant of DestroyFails: the loop goes on to the next node.
DestroyFailsGoesOn(d, n) ==
  /\ IsNextNode(d, n)
  /\ IF n \in vms THEN Fault ELSE UNCHANGED faults
  /\ todo' = [todo EXCEPT ![d] = @ \ {n}]
  /\ UNCHANGED <<tables, vms, create, grow, host, delStage, delWs, delNodes, orgVars, disturbed>>

\* The VM is not there (404), or its host fails before or after destroying it.
DestroyFails(d, n) ==
  /\ IsNextNode(d, n)
  /\ \/ n \notin vms /\ UNCHANGED <<vms, rows, faults>>
     \/ n \in vms /\ Fault /\ UNCHANGED <<vms, rows>>
     \/ n \in vms /\ Fault /\ vms' = vms \ {n} /\ (rows' = rows \ {n} \/ UNCHANGED rows)
  /\ DelGoTo(d, "ERROR")
  /\ UNCHANGED <<org, ws, create, grow, host, delWs, delNodes, todo, orgVars, disturbed>>

\* Mutant of FinishDelete: the task is DONE with the workspace's row in place.
FinishDeleteKeepsRow(d) ==
  /\ delStage[d] = "working" /\ todo[d] = {} /\ delNodes[d] # {}
  /\ DelGoTo(d, "DONE")
  /\ UNCHANGED <<tables, vms, create, grow, host, delWs, delNodes, todo, orgVars, faults, disturbed>>

\* Mutant of FinishDelete: a status no one looks for.
FinishDeleteOddStatus(d) ==
  /\ delStage[d] = "working" /\ todo[d] = {} /\ delNodes[d] # {}
  /\ DeleteWorkspaceRow(delWs[d])
  /\ DelGoTo(d, "FINISHED")
  /\ UNCHANGED <<org, vms, create, grow, host, delWs, delNodes, todo, orgVars, faults, disturbed>>

FinishDelete(d) ==
  /\ delStage[d] = "working" /\ todo[d] = {} /\ delNodes[d] # {}
  /\ DeleteWorkspaceRow(delWs[d])
  /\ DelGoTo(d, "DONE")
  /\ UNCHANGED <<org, vms, create, grow, host, delWs, delNodes, todo, orgVars, faults, disturbed>>

\* k8sNodes[0] of an empty list throws; so may the clean-up of nginx.
FinishDeleteFails(d) ==
  /\ delStage[d] = "working" /\ todo[d] = {}
  /\ IF delNodes[d] = {} THEN UNCHANGED faults ELSE Fault
  /\ DelGoTo(d, "ERROR")
  /\ UNCHANGED <<tables, vms, create, grow, host, delWs, delNodes, todo, orgVars, disturbed>>

DeleteStep(d) ==
  \/ StartDelete(d) \/ FinishDelete(d) \/ FinishDeleteFails(d)
  \/ \E n \in Nodes : DestroyNode(d, n) \/ DestroyFails(d, n)

----------------------------------------------------------------------------
(* processScheduledDeprovisionOrganization: it stays PENDING as long as    *)
(* workspaces remain; between the query and the delete lie two awaits.     *)

\* Mutant of CheckOrg: the workspaces that remain are not looked for.
CheckOrgNot ==
  /\ orgTask = "pending"
  /\ orgTask' = "checked"
  /\ UNCHANGED <<tables, vms, create, grow, host, deletes, plan, faults, disturbed>>

CheckOrg ==
  /\ orgTask = "pending"
  /\ \A w \in Workspaces : ws[w] # "present"
  /\ orgTask' = "checked"
  /\ UNCHANGED <<tables, vms, create, grow, host, deletes, plan, faults, disturbed>>

\* DELETE FROM organizations cascades to workspaces and their nodes.
RemoveOrg ==
  /\ org' = FALSE
  /\ ws' = [w \in Workspaces |-> IF ws[w] = "none" THEN "none" ELSE "deleted"]
  /\ rows' = {}

DeleteOrg ==
  /\ orgTask = "checked"
  /\ orgTask' = "DONE"
  /\ RemoveOrg
  /\ UNCHANGED <<vms, create, grow, host, deletes, plan, faults, disturbed>>

\* A statement fails: ERROR, before or after the organisation is deleted.  If
\* that update fails too, nobody takes up the task that is IN_PROGRESS.
OrgFails ==
  /\ orgTask \in {"pending", "checked"}
  /\ Fault
  /\ \/ orgTask' = "ERROR"
     \/ orgTask = "checked" /\ orgTask' = "stuck"
  /\ \/ UNCHANGED tables
     \/ orgTask = "checked" /\ RemoveOrg
  /\ UNCHANGED <<vms, create, grow, host, deletes, plan, disturbed>>

----------------------------------------------------------------------------
ControllerStep ==
  \/ \E w \in Workspaces : CreateStep(w) \/ GrowStep(w)
  \/ \E d \in Deletions : DeleteStep(d)
  \/ CheckOrg \/ DeleteOrg \/ OrgFails

Next ==
  \/ \E w \in Workspaces : \/ CreateWorkspace(w) \/ ScheduleCreate(w) \/ ScheduleGrow(w)
                           \/ PlanDelete(w)
                           \/ \E d \in Deletions : ScheduleDelete(d, w)
  \/ RequestOrgDelete \/ ScheduleOrgDelete
  \/ \E n \in Nodes : HostStep(n)
  \/ ControllerStep

Spec == Init /\ [][Next]_vars

(* The task controller takes up pending tasks and its requests settle; a   *)
(* deployment ends; a request to the API is carried through.               *)
Fairness ==
  /\ \A w \in Workspaces : /\ WF_vars(CreateStep(w)) /\ WF_vars(GrowStep(w))
                           /\ WF_vars(ScheduleCreate(w)) /\ WF_vars(PlanDelete(w))
  /\ \A n \in Nodes : WF_vars(HostStep(n))
  /\ \A d \in Deletions : WF_vars(DeleteStep(d))
  /\ WF_vars(ScheduleOrgDelete) /\ WF_vars(CheckOrg) /\ WF_vars(DeleteOrg)

FairSpec == Spec /\ Fairness

----------------------------------------------------------------------------
(* Properties.  disturbed says that a request for a deployment timed out,  *)
(* that a deletion was scheduled while the workspace had an open task,     *)
(* that a workspace was created while its organisation was being deleted,  *)
(* or that a host could not remove the VM of a deployment that failed.     *)

Deploying(n) == host[n] \in {"deploying", "booted"}

\* A VM that nobody is deploying is in k8s_nodes, whatever deployments,
\* deletions and rollbacks failed: without a row nobody can destroy it.  And a
\* deletion that succeeded leaves no VM of its workspace, and none can appear.
NoOrphanVm ==
  ~disturbed =>
    /\ \A n \in vms : n \in rows \/ Deploying(n)
    /\ \A d \in Deletions : delStage[d] = "DONE" => vms \cap NodesOf(delWs[d]) = {}

\* "Only once all workspaces have been deprovisioned, we delete this
\* organization": the row goes when no workspace is left.
OrgGoesLast ==
  [][org /\ ~org' /\ ~disturbed => \A w \in Workspaces : ws[w] # "present"]_vars

\* An organisation's deletion waits for nothing but workspaces without a
\* deletion that succeeded, if no statement of its own fails.
OrgIsDeleted ==
  orgTask = "pending" ~>
    \/ ~org \/ orgTask \in {"ERROR", "stuck"}
    \/ \E w \in Workspaces : /\ ws[w] = "present"
                             /\ \A d \in DeletedBy(w) : delStage[d] # "DONE"

=============================================================================
