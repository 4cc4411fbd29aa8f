--------------------- MODULE WorkspaceLifecycleProofs ---------------------
(***************************************************************************)
(* Proofs about WorkspaceLifecycle, for any workspaces, deletions and      *)
(* bound on faults.                                                        *)
(***************************************************************************)
EXTENDS WorkspaceLifecycle, TLAPS

----------------------------------------------------------------------------
(* The inductive invariant.                                                *)

\* A node is deployed once, by the one task that is for it, and a worker only
\* after its master was registered.
DeployedOnce ==
  \A w \in Workspaces :
    /\ create[w] \in {"none", "pending"} => host[Master(w)] = "idle"
    /\ grow[w] \in {"none", "pending"} => host[Worker(w)] = "idle"
MasterFirst ==
  \A w \in Workspaces : host[Worker(w)] # "idle" => host[Master(w)] = "ok"

\* A VM whose deployment failed is one its host could not remove.
VmsDeployed ==
  \A n \in vms : host[n] \in {"booted", "ok"} \/ (host[n] = "failed" /\ disturbed)
RowsRegistered == \A n \in rows : host[n] = "ok" /\ ws[n[1]] = "present"
DeletionsNamed == \A d \in Deletions : delStage[d] # "none" => delWs[d] \in Workspaces

Steady == DeployedOnce /\ MasterFirst /\ VmsDeployed /\ RowsRegistered /\ DeletionsNamed

\* As long as no deployment timed out and no deletion met an open task: a host
\* deploys only what an open task waits for,
Deployers ==
  \A w \in Workspaces : /\ Deploying(Master(w)) => create[w] = "working"
                        /\ Deploying(Worker(w)) => grow[w] = "working"

VmsHaveRows == \A n \in vms : n \in rows \/ Deploying(n)

\* a workspace that is being deleted has no open task, so that no VM can appear
\* that the list of the deletion does not have,
DeletionsAlone ==
  \A d \in Deletions : delStage[d] \in {"pending", "working"} =>
    ~InUse(delWs[d]) /\ vms \cap NodesOf(delWs[d]) \subseteq todo[d]

\* and a host does not boot a VM for a workspace whose row is gone.
DeletionsDone ==
  \A d \in Deletions : delStage[d] = "DONE" =>
    ws[delWs[d]] = "deleted" /\ vms \cap NodesOf(delWs[d]) = {}

OrgIsEmpty == orgTask = "checked" => \A w \in Workspaces : ws[w] # "present"

Undisturbed == Deployers /\ VmsHaveRows /\ DeletionsAlone /\ DeletionsDone /\ OrgIsEmpty
UInv == ~disturbed => Undisturbed

IInv == TypeOK /\ Steady /\ UInv

----------------------------------------------------------------------------
(* Types.                                                                  *)

\* A node is the master or the worker of one workspace.
LEMMA NodeFacts ==
  /\ \A w \in Workspaces : /\ Master(w) \in Nodes /\ Worker(w) \in Nodes
                           /\ Master(w)[1] = w /\ Worker(w)[1] = w
  /\ \A w, v \in Workspaces : /\ Master(w) # Worker(v)
                              /\ Master(w) = Master(v) => w = v
                              /\ Worker(w) = Worker(v) => w = v
  /\ \A n \in Nodes : n[1] \in Workspaces /\ (n = Master(n[1]) \/ n = Worker(n[1]))
  /\ \A w : NodesOf(w) \subseteq Nodes
BY DEF Nodes, Master, Worker, NodesOf

\* The first state has the right types.
LEMMA TypeInit == Init => TypeOK
<1> SUFFICES ASSUME Init PROVE TypeOK
  OBVIOUS
<1>1. ws \in [Workspaces -> {"none", "present", "deleted"}]
  BY DEF Init
<1>2. /\ create \in [Workspaces -> {"none", "pending", "working"} \cup Settled]
      /\ grow \in [Workspaces -> {"none"} \cup Busy \cup Settled]
  BY DEF Init
<1>3. host \in [Nodes -> {"idle", "deploying", "booted", "ok", "failed"}]
  BY DEF Init
<1>4. /\ delStage \in [Deletions -> {"none", "pending", "working"} \cup Settled]
      /\ delWs \in [Deletions -> Workspaces \cup {NoWorkspace}]
  BY DEF Init
<1>5. delNodes \in [Deletions -> SUBSET Nodes] /\ todo \in [Deletions -> SUBSET Nodes]
  BY DEF Init
<1>6. org \in BOOLEAN /\ disturbed \in BOOLEAN
  BY DEF Init
<1>7. rows \subseteq Nodes /\ vms \subseteq Nodes /\ plan \subseteq Workspaces /\ orgTask = "none"
  BY DEF Init
<1>8. faults \in 0..MaxFaults
  BY BoundsAssumption DEF Init
<1> QED
  BY <1>1, <1>2, <1>3, <1>4, <1>5, <1>6, <1>7, <1>8 DEF TypeOK

\* Every step keeps the types.
LEMMA TypeStep == TypeOK /\ DeletionsNamed /\ [Next]_vars => TypeOK'
<1> SUFFICES ASSUME TypeOK, DeletionsNamed, [Next]_vars PROVE TypeOK'
  OBVIOUS
<1> USE BoundsAssumption, NodeFacts DEF TypeOK, Busy, Settled, tables, deletes, orgVars, Fault
<1>1. ASSUME NEW w \in Workspaces, CreateWorkspace(w) \/ ScheduleCreate(w) \/ ScheduleGrow(w)
      PROVE  TypeOK'
  <2>1. CASE CreateWorkspace(w)
    <3>1. disturbed' \in BOOLEAN
      BY <2>1 DEF CreateWorkspace
    <3> QED
      BY <2>1, <3>1 DEF CreateWorkspace
  <2>2. CASE ScheduleCreate(w)
    <3>1. disturbed' \in BOOLEAN
      BY <2>2 DEF ScheduleCreate
    <3> QED
      BY <2>2, <3>1 DEF ScheduleCreate
  <2>3. CASE ScheduleGrow(w)
    BY <2>3 DEF ScheduleGrow
  <2> QED
    BY <1>1, <2>1, <2>2, <2>3
<1>2. ASSUME NEW d \in Deletions, NEW w \in Workspaces, NewDeletion(d, w)
      PROVE  /\ delStage' \in [Deletions -> {"none", "pending", "working"} \cup Settled]
             /\ delWs' \in [Deletions -> Workspaces \cup {NoWorkspace}]
             /\ delNodes' \in [Deletions -> SUBSET Nodes] /\ todo' \in [Deletions -> SUBSET Nodes]
             /\ disturbed' \in BOOLEAN
  BY <1>2 DEF NewDeletion
<1>3. ASSUME NEW d \in Deletions, NEW w \in Workspaces, ScheduleDelete(d, w)
      PROVE  TypeOK'
  BY <1>3, <1>2 DEF ScheduleDelete
<1>4. ASSUME NEW w \in Workspaces, PlanDelete(w) PROVE TypeOK'
  BY <1>4, <1>2 DEF PlanDelete
<1>5. CASE RequestOrgDelete \/ ScheduleOrgDelete \/ CheckOrg \/ DeleteOrg \/ OrgFails
  <2>1. CASE RequestOrgDelete
    BY <2>1 DEF RequestOrgDelete
  <2>2. CASE ScheduleOrgDelete
    BY <2>2 DEF ScheduleOrgDelete
  <2>3. CASE CheckOrg
    BY <2>3 DEF CheckOrg
  <2>4. CASE DeleteOrg
    BY <2>4 DEF DeleteOrg, RemoveOrg
  <2>5. CASE OrgFails
    <3>1. /\ faults' \in 0..MaxFaults /\ orgTask' \in {"ERROR", "stuck"}
          /\ UNCHANGED <<vms, create, grow, host, deletes, plan, disturbed>>
      BY <2>5 DEF OrgFails
    <3>2. /\ org' \in BOOLEAN /\ rows' \subseteq Nodes
          /\ ws' \in [Workspaces -> {"none", "present", "deleted"}]
      BY <2>5 DEF OrgFails, RemoveOrg
    <3> QED
      BY <3>1, <3>2
  <2> QED
    BY <1>5, <2>1, <2>2, <2>3, <2>4, <2>5
<1>6. ASSUME NEW n \in Nodes, HostStep(n) PROVE TypeOK'
  <2>1. CASE Boot(n)
    BY <2>1 DEF Boot
  <2>2. CASE BootFails(n)
    BY <2>2 DEF BootFails
  <2>3. CASE Register(n)
    BY <2>3 DEF Register
  <2>4. CASE RegisterFails(n)
    BY <2>4 DEF RegisterFails
  <2>5. CASE LeavesVm(n)
    BY <2>5 DEF LeavesVm
  <2> QED
    BY <1>6, <2>1, <2>2, <2>3, <2>4, <2>5 DEF HostStep
<1>7. ASSUME NEW w \in Workspaces, CreateStep(w) PROVE TypeOK'
  <2>1. CASE StartCreate(w)
    BY <2>1 DEF StartCreate
  <2>2. CASE CreateDone(w)
    BY <2>2 DEF CreateDone
  <2>3. CASE CreateFails(w)
    <3>1. \/ UNCHANGED <<faults, disturbed>>
          \/ Fault /\ disturbed' = TRUE
      BY <2>3 DEF CreateFails
    <3>2. faults' \in 0..MaxFaults
      BY <3>1
    <3>3. disturbed' \in BOOLEAN
      BY <3>1
    <3> QED
      BY SMTT(60), <2>3, <3>2, <3>3 DEF CreateFails, DeleteWorkspaceRow
  <2> QED
    BY <1>7, <2>1, <2>2, <2>3 DEF CreateStep
<1>8. ASSUME NEW w \in Workspaces, GrowStep(w) PROVE TypeOK'
  <2>1. CASE StartGrow(w)
    <3>1. /\ UNCHANGED <<tables, vms, create, deletes, orgVars, faults, disturbed>>
          /\ \/ grow' = [grow EXCEPT ![w] = "working"]
             \/ grow' = [grow EXCEPT ![w] = "ERROR"]
          /\ \/ host' = [host EXCEPT ![Worker(w)] = "deploying"]
             \/ UNCHANGED host
      BY <2>1 DEF StartGrow
    <3> QED
      BY <3>1
  <2>2. CASE GrowAnswered(w)
    BY <2>2 DEF GrowAnswered
  <2>3. CASE GrowTimesOut(w)
    BY <2>3 DEF GrowTimesOut
  <2>4. CASE TaintMaster(w) \/ TaintFails(w)
    BY <2>4 DEF TaintMaster, TaintFails
  <2>5. CASE UndoGrow(w)
    BY <2>5 DEF UndoGrow
  <2> QED
    BY <1>8, <2>1, <2>2, <2>3, <2>4, <2>5 DEF GrowStep
<1>9. ASSUME NEW d \in Deletions, DeleteStep(d) PROVE TypeOK'
  BY <1>9
     DEF DeleteStep, StartDelete, FinishDelete, FinishDeleteFails, DestroyNode,
         DestroyFails, DelGoTo, IsNextNode, DeleteWorkspaceRow
<1>10. CASE UNCHANGED vars
  BY <1>10 DEF vars
<1> QED
  BY <1>1, <1>3, <1>4, <1>5, <1>6, <1>7, <1>8, <1>9, <1>10 DEF Next, ControllerStep

----------------------------------------------------------------------------
(* What holds whatever timed out.                                          *)

\* What disturbed the workspaces is not forgotten.
LEMMA Monotone == ASSUME TypeOK, [Next]_vars, disturbed PROVE disturbed'
<1> USE DEF deletes
<1>1. ASSUME NEW w \in Workspaces,
             CreateWorkspace(w) \/ ScheduleCreate(w) \/ ScheduleGrow(w) \/ PlanDelete(w)
               \/ \E d \in Deletions : ScheduleDelete(d, w)
      PROVE  disturbed'
  BY <1>1
     DEF CreateWorkspace, ScheduleCreate, ScheduleGrow, PlanDelete, ScheduleDelete,
         NewDeletion
<1>2. CASE RequestOrgDelete \/ ScheduleOrgDelete \/ CheckOrg \/ DeleteOrg \/ OrgFails
  BY <1>2 DEF RequestOrgDelete, ScheduleOrgDelete, CheckOrg, DeleteOrg, OrgFails
<1>3. ASSUME NEW n \in Nodes, HostStep(n) PROVE disturbed'
  BY <1>3 DEF HostStep, Boot, BootFails, Register, RegisterFails, LeavesVm
<1>4. ASSUME NEW w \in Workspaces, CreateStep(w) \/ GrowStep(w) PROVE disturbed'
  BY <1>4
     DEF CreateStep, StartCreate, CreateDone, CreateFails, GrowStep, StartGrow,
         GrowAnswered, GrowTimesOut, TaintMaster, TaintFails, UndoGrow
<1>5. ASSUME NEW d \in Deletions, DeleteStep(d) PROVE disturbed'
  BY <1>5
     DEF DeleteStep, StartDelete, FinishDelete, FinishDeleteFails, DestroyNode,
         DestroyFails
<1>6. CASE UNCHANGED vars
  BY <1>6 DEF vars
<1> QED
  BY <1>1, <1>2, <1>3, <1>4, <1>5, <1>6 DEF Next, ControllerStep

\* Every step keeps the order of deployments and what rows and VMs stand for.
LEMMA SteadyStep ==
  ASSUME TypeOK, Steady, [Next]_vars
  PROVE  Steady'
<1> USE NodeFacts, Monotone DEF TypeOK, Busy, tables, deletes, orgVars,
        Steady, DeployedOnce, MasterFirst, VmsDeployed, RowsRegistered, DeletionsNamed
<1>1. ASSUME NEW w \in Workspaces, CreateWorkspace(w) \/ ScheduleCreate(w) \/ ScheduleGrow(w)
      PROVE  Steady'
  BY <1>1 DEF CreateWorkspace, ScheduleCreate, ScheduleGrow
<1>2. ASSUME NEW w \in Workspaces, PlanDelete(w) \/ \E d \in Deletions : ScheduleDelete(d, w)
      PROVE  Steady'
  BY <1>2 DEF PlanDelete, ScheduleDelete, NewDeletion
<1>3. CASE RequestOrgDelete \/ ScheduleOrgDelete \/ CheckOrg \/ DeleteOrg \/ OrgFails
  BY <1>3 DEF RequestOrgDelete, ScheduleOrgDelete, CheckOrg, DeleteOrg, OrgFails, RemoveOrg
<1>4. ASSUME NEW n \in Nodes, HostStep(n) PROVE Steady'
  <2>1. CASE Boot(n)
    BY <2>1 DEF Boot
  <2>2. CASE BootFails(n)
    BY <2>2 DEF BootFails
  <2>3. CASE Register(n)
    BY <2>3 DEF Register
  <2>4. CASE RegisterFails(n)
    BY <2>4 DEF RegisterFails
  <2>5. CASE LeavesVm(n)
    BY <2>5 DEF LeavesVm
  <2> QED
    BY <1>4, <2>1, <2>2, <2>3, <2>4, <2>5 DEF HostStep
<1>5. ASSUME NEW w \in Workspaces, CreateStep(w) PROVE Steady'
  <2>1. CASE StartCreate(w)
    BY <2>1 DEF StartCreate
  <2>2. CASE CreateDone(w)
    BY <2>2 DEF CreateDone
  <2>3. CASE CreateFails(w)
    BY <2>3 DEF CreateFails, DeleteWorkspaceRow, NodesOf
  <2> QED
    BY <1>5, <2>1, <2>2, <2>3 DEF CreateStep
<1>6. ASSUME NEW w \in Workspaces, GrowStep(w) PROVE Steady'
  <2>1. CASE StartGrow(w)
    BY <2>1 DEF StartGrow
  <2>2. CASE GrowAnswered(w) \/ GrowTimesOut(w) \/ TaintMaster(w) \/ TaintFails(w)
    BY <2>2 DEF GrowAnswered, GrowTimesOut, TaintMaster, TaintFails
  <2>3. CASE UndoGrow(w)
    BY <2>3 DEF UndoGrow
  <2> QED
    BY <1>6, <2>1, <2>2, <2>3 DEF GrowStep
<1>7. ASSUME NEW d \in Deletions, DeleteStep(d) PROVE Steady'
  <2>1. CASE FinishDelete(d)
    BY <2>1 DEF FinishDelete, DelGoTo, DeleteWorkspaceRow, NodesOf
  <2>2. CASE StartDelete(d) \/ FinishDeleteFails(d)
    BY <2>2 DEF StartDelete, FinishDeleteFails, DelGoTo
  <2>3. ASSUME NEW n \in Nodes, DestroyNode(d, n) \/ DestroyFails(d, n) PROVE Steady'
    BY <2>3 DEF DestroyNode, DestroyFails, IsNextNode, DelGoTo
  <2> QED
    BY <1>7, <2>1, <2>2, <2>3 DEF DeleteStep
<1>8. CASE UNCHANGED vars
  BY <1>8 DEF vars
<1> QED
  BY <1>1, <1>2, <1>3, <1>4, <1>5, <1>6, <1>7, <1>8 DEF Next, ControllerStep

----------------------------------------------------------------------------
(* What holds as long as nothing was disturbed.                            *)

\* The API writes rows and schedules tasks: a deletion lists every VM there is.
LEMMA ApiParts ==
  ASSUME TypeOK, Steady, Undisturbed, ~disturbed', NEW w \in Workspaces,
         \/ CreateWorkspace(w) \/ ScheduleCreate(w) \/ ScheduleGrow(w) \/ PlanDelete(w)
         \/ \E d \in Deletions : ScheduleDelete(d, w)
  PROVE  Undisturbed'
<1> USE NodeFacts DEF TypeOK, Busy, tables, deletes, orgVars, Steady, Undisturbed
<1>1. CASE CreateWorkspace(w)
  <2>1. /\ UNCHANGED <<rows, vms, create, grow, host, deletes, orgVars>>
        /\ ws[w] = "none" /\ \A v \in Workspaces : ws[v] = "deleted" => ws'[v] = "deleted"
        /\ orgTask # "checked"
    BY <1>1 DEF CreateWorkspace
  <2>2. Deployers' /\ VmsHaveRows' /\ OrgIsEmpty'
    BY <2>1 DEF Deployers, VmsHaveRows, OrgIsEmpty, Deploying
  <2>3. DeletionsAlone' /\ DeletionsDone'
    BY <2>1 DEF DeletionsAlone, DeletionsDone, DeletionsNamed, InUse
  <2> QED
    BY <2>2, <2>3
<1>2. CASE ScheduleCreate(w)
  <2>1. /\ UNCHANGED <<tables, vms, grow, host, deletes, orgVars>>
        /\ create[w] = "none" /\ create' = [create EXCEPT ![w] = "pending"]
        /\ \A d \in Deletions : delWs[d] = w => delStage[d] \notin {"pending", "working"}
    BY <1>2 DEF ScheduleCreate, BeingDeleted, DeletedBy
  <2>2. Deployers' /\ VmsHaveRows' /\ OrgIsEmpty' /\ DeletionsDone'
    BY <2>1 DEF Deployers, VmsHaveRows, OrgIsEmpty, DeletionsDone, Deploying
  <2>3. DeletionsAlone'
    BY <2>1 DEF DeletionsAlone, DeletionsNamed, InUse
  <2> QED
    BY <2>2, <2>3
<1>3. CASE ScheduleGrow(w)
  <2>1. /\ UNCHANGED <<tables, vms, create, host, deletes, orgVars>>
        /\ grow[w] = "none" /\ grow' = [grow EXCEPT ![w] = "pending"]
        /\ \A d \in Deletions : delWs[d] = w => delStage[d] \notin {"pending", "working"}
    BY <1>3 DEF ScheduleGrow, BeingDeleted, DeletedBy
  <2>2. Deployers' /\ VmsHaveRows' /\ OrgIsEmpty' /\ DeletionsDone'
    BY <2>1 DEF Deployers, VmsHaveRows, OrgIsEmpty, DeletionsDone, Deploying
  <2>3. DeletionsAlone'
    BY <2>1 DEF DeletionsAlone, DeletionsNamed, InUse
  <2> QED
    BY <2>2, <2>3
<1>4. ASSUME NEW d \in Deletions, NewDeletion(d, w),
             UNCHANGED <<tables, vms, create, grow, host, orgTask>>
      PROVE  Undisturbed'
  <2>1. ~InUse(w)
    BY <1>4 DEF NewDeletion
  <2>2. \A n \in NodesOf(w) : ~Deploying(n)
    BY <2>1 DEF InUse, Deployers, NodesOf
  <2>3. vms \cap NodesOf(w) \subseteq rows \cap NodesOf(w)
    BY <2>2 DEF VmsHaveRows
  <2>4. Deployers' /\ VmsHaveRows'
    BY <1>4 DEF Deployers, VmsHaveRows, Deploying
  <2>5. DeletionsAlone'
    BY <1>4, <2>1, <2>3 DEF DeletionsAlone, NewDeletion, InUse
  <2>6. DeletionsDone'
    BY <1>4 DEF DeletionsDone, NewDeletion
  <2>7. OrgIsEmpty'
    BY <1>4 DEF OrgIsEmpty
  <2> QED
    BY <2>4, <2>5, <2>6, <2>7
<1>5. CASE PlanDelete(w)
  <2>1. CASE UNCHANGED deletes
    BY <1>5, <2>1
       DEF PlanDelete, Deployers, VmsHaveRows, DeletionsAlone, DeletionsDone,
           OrgIsEmpty, InUse, Deploying
  <2> QED
    BY <1>4, <1>5, <2>1 DEF PlanDelete
<1>6. ASSUME NEW d \in Deletions, ScheduleDelete(d, w) PROVE Undisturbed'
  BY <1>4, <1>6 DEF ScheduleDelete
<1> QED
  BY <1>1, <1>2, <1>3, <1>5, <1>6

\* The deletion of the organisation.
LEMMA OrgParts ==
  ASSUME TypeOK, Steady, Undisturbed,
         RequestOrgDelete \/ ScheduleOrgDelete \/ CheckOrg \/ DeleteOrg \/ OrgFails
  PROVE  Undisturbed'
<1> USE NodeFacts DEF TypeOK, Busy, tables, deletes, orgVars, Steady, Undisturbed
<1>1. CASE RequestOrgDelete \/ ScheduleOrgDelete \/ CheckOrg
  BY <1>1
     DEF RequestOrgDelete, ScheduleOrgDelete, CheckOrg, Deployers, VmsHaveRows,
         DeletionsAlone, DeletionsDone, OrgIsEmpty, InUse, Deploying
<1>2. CASE (DeleteOrg \/ OrgFails) /\ orgTask = "checked" /\ RemoveOrg
  <2>1. \A w \in Workspaces : ws[w] # "present"
    BY <1>2 DEF OrgIsEmpty
  <2>2. rows = {}
    BY <2>1 DEF RowsRegistered
  <2>3. UNCHANGED <<vms, create, grow, host, deletes>>
    BY <1>2 DEF DeleteOrg, OrgFails
  <2> QED
    BY <1>2, <2>1, <2>2, <2>3
       DEF RemoveOrg, Deployers, VmsHaveRows, DeletionsAlone, DeletionsNamed,
           DeletionsDone, OrgIsEmpty, InUse, Deploying
<1>3. CASE OrgFails /\ UNCHANGED tables
  BY <1>3
     DEF OrgFails, Deployers, VmsHaveRows, DeletionsAlone, DeletionsDone, OrgIsEmpty,
         InUse, Deploying
<1> QED
  BY <1>1, <1>2, <1>3 DEF DeleteOrg, OrgFails

\* A host goes on with a deployment: a task waits for it, so no deletion is open.
LEMMA HostParts ==
  ASSUME TypeOK, Steady, Undisturbed, ~disturbed', NEW n \in Nodes, HostStep(n)
  PROVE  Undisturbed'
<1> USE NodeFacts DEF TypeOK, Busy, tables, deletes, orgVars, Steady, Undisturbed
<1> ~disturbed /\ ~LeavesVm(n)
  BY Monotone DEF LeavesVm, Next
<1>1. Deploying(n) /\ InUse(n[1])
  BY DEF HostStep, Boot, BootFails, Register, RegisterFails, Deploying, Deployers, InUse
<1>2. \A d \in Deletions : delStage[d] \in {"pending", "working"} => n \notin NodesOf(delWs[d])
  BY <1>1 DEF DeletionsAlone, NodesOf
<1>3. UNCHANGED <<org, ws, create, grow, deletes, orgVars, disturbed>>
  BY DEF HostStep, Boot, BootFails, Register, RegisterFails
<1>4. /\ \A m \in Nodes : m # n => host'[m] = host[m]
      /\ host'[n] \in {"booted", "ok", "failed"}
      /\ host'[n] = "booted" => ws[n[1]] = "present" /\ vms' = vms \cup {n} /\ rows' = rows
      /\ host'[n] = "ok" => n \in rows' /\ rows \subseteq rows' /\ vms' = vms
      /\ host'[n] = "failed" => n \notin vms' /\ vms' \subseteq vms /\ rows' = rows
  <2>1. CASE Boot(n)
    BY <2>1 DEF Boot
  <2>2. CASE BootFails(n)
    BY <2>2 DEF BootFails, VmsDeployed
  <2>3. CASE Register(n)
    BY <2>3 DEF Register
  <2>4. CASE RegisterFails(n)
    BY <2>4 DEF RegisterFails
  <2> QED
    BY <2>1, <2>2, <2>3, <2>4 DEF HostStep
<1>5. Deployers'
  BY <1>1, <1>3, <1>4 DEF Deployers, Deploying
<1>6. VmsHaveRows'
  BY <1>1, <1>3, <1>4 DEF VmsHaveRows, Deploying
<1>7. DeletionsAlone'
  BY <1>2, <1>3, <1>4 DEF DeletionsAlone, InUse
<1>8. DeletionsDone'
  BY <1>3, <1>4 DEF DeletionsDone, NodesOf
<1>9. OrgIsEmpty'
  BY <1>3 DEF OrgIsEmpty
<1> QED
  BY <1>5, <1>6, <1>7, <1>8, <1>9

\* The creation task: where it deletes the workspace, the master's VM is gone and
\* a worker was never asked for.
LEMMA CreateParts ==
  ASSUME TypeOK, Steady, Undisturbed, ~disturbed', NEW w \in Workspaces, CreateStep(w)
  PROVE  Undisturbed'
<1> USE NodeFacts DEF TypeOK, Busy, tables, deletes, orgVars, Steady, Undisturbed
<1>1. CASE StartCreate(w)
  BY <1>1
     DEF StartCreate, Deployers, VmsHaveRows, DeletionsAlone, DeletionsDone,
         OrgIsEmpty, InUse, Deploying, DeployedOnce
<1>2. CASE CreateDone(w)
  BY <1>2
     DEF CreateDone, Deployers, VmsHaveRows, DeletionsAlone, DeletionsDone, OrgIsEmpty,
         InUse, Deploying
<1>3. CASE CreateFails(w)
  <2>1. host[Master(w)] = "failed"
    BY <1>3 DEF CreateFails
  <2>2. vms \cap NodesOf(w) = {}
    BY <2>1, Monotone DEF NodesOf, MasterFirst, VmsDeployed, Next, ControllerStep
  <2>3. /\ UNCHANGED <<org, vms, grow, host, deletes, orgVars>>
        /\ create' = [create EXCEPT ![w] = "ERROR"]
        /\ ws' = [ws EXCEPT ![w] = "deleted"] /\ rows' = rows \ NodesOf(w)
    BY <1>3 DEF CreateFails, DeleteWorkspaceRow
  <2>4. Deployers' /\ VmsHaveRows'
    BY <2>1, <2>2, <2>3 DEF Deployers, VmsHaveRows, Deploying
  <2>5. DeletionsAlone' /\ DeletionsDone' /\ OrgIsEmpty'
    BY <2>3 DEF DeletionsAlone, DeletionsDone, OrgIsEmpty, InUse, DeletionsNamed
  <2> QED
    BY <2>4, <2>5
<1> QED
  BY <1>1, <1>2, <1>3 DEF CreateStep

\* The scale-up task and its rollback.
LEMMA GrowParts ==
  ASSUME TypeOK, Steady, Undisturbed, ~disturbed', NEW w \in Workspaces, GrowStep(w)
  PROVE  Undisturbed'
<1> USE NodeFacts DEF TypeOK, Busy, tables, deletes, orgVars, Steady, Undisturbed
<1>1. grow[w] \in Busy
  BY DEF GrowStep, StartGrow, GrowAnswered, GrowTimesOut, TaintMaster, TaintFails,
         UndoGrow
<1>2. \A d \in Deletions : delStage[d] \in {"pending", "working"} =>
        delWs[d] \in Workspaces /\ delWs[d] # w
  BY <1>1 DEF DeletionsAlone, InUse, DeletionsNamed
<1>3. CASE StartGrow(w)
  <2>1. /\ UNCHANGED <<tables, vms, create, deletes, orgVars>>
        /\ \A v \in Workspaces : v # w => grow'[v] = grow[v]
        /\ \A n \in Nodes : n # Worker(w) => host'[n] = host[n]
        /\ host'[Worker(w)] = host[Worker(w)] \/ grow'[w] = "working"
        /\ host[Worker(w)] = "idle"
    BY <1>3 DEF StartGrow, DeployedOnce
  <2>2. Worker(w) \notin vms
    BY <2>1 DEF VmsDeployed
  <2>3. Deployers'
    <3>1. \A v \in Workspaces : Deploying(Master(v))' => create'[v] = "working"
      BY <2>1 DEF Deployers, Deploying
    <3>2. \A v \in Workspaces \ {w} : Deploying(Worker(v))' => grow'[v] = "working"
      BY <2>1 DEF Deployers, Deploying
    <3>3. Deploying(Worker(w))' => grow'[w] = "working"
      BY <2>1 DEF Deploying
    <3> QED
      BY <3>1, <3>2, <3>3 DEF Deployers
  <2>4. VmsHaveRows'
    BY <2>1, <2>2 DEF VmsHaveRows, Deploying
  <2>5. DeletionsAlone' /\ DeletionsDone' /\ OrgIsEmpty'
    BY <1>2, <2>1 DEF DeletionsAlone, DeletionsDone, OrgIsEmpty, InUse
  <2> QED
    BY <2>3, <2>4, <2>5
<1>4. CASE GrowAnswered(w) \/ GrowTimesOut(w) \/ TaintMaster(w) \/ TaintFails(w)
  <2>1. /\ UNCHANGED <<tables, vms, create, host, deletes, orgVars>>
        /\ grow[w] \in Busy /\ (grow[w] # "working" \/ ~Deploying(Worker(w)))
        /\ \A v \in Workspaces : v # w => grow'[v] = grow[v]
    BY <1>4 DEF GrowAnswered, GrowTimesOut, TaintMaster, TaintFails, Deploying
  <2>2. Deployers' /\ VmsHaveRows' /\ OrgIsEmpty' /\ DeletionsDone'
    BY <2>1 DEF Deployers, VmsHaveRows, OrgIsEmpty, DeletionsDone, Deploying
  <2>3. DeletionsAlone'
    BY <1>2, <2>1 DEF DeletionsAlone, InUse
  <2> QED
    BY <2>2, <2>3
<1>5. CASE UndoGrow(w)
  <2>1. /\ UNCHANGED <<org, ws, create, host, deletes, orgVars>>
        /\ grow[w] = "undo" /\ grow' = [grow EXCEPT ![w] = "ERROR"]
        /\ vms' \subseteq vms
        /\ rows' = rows \/ (rows' = rows \ {Worker(w)} /\ vms' = vms \ {Worker(w)})
    BY <1>5 DEF UndoGrow
  <2>2. Deployers' /\ VmsHaveRows' /\ OrgIsEmpty' /\ DeletionsDone'
    BY <2>1 DEF Deployers, VmsHaveRows, OrgIsEmpty, DeletionsDone, Deploying
  <2>3. DeletionsAlone'
    BY <2>1 DEF DeletionsAlone, InUse
  <2> QED
    BY <2>2, <2>3
<1> QED
  BY <1>3, <1>4, <1>5 DEF GrowStep

\* A deletion: nothing is left on its list when the row of the workspace goes.
LEMMA DeleteParts ==
  ASSUME TypeOK, Steady, Undisturbed, NEW d \in Deletions, DeleteStep(d)
  PROVE  Undisturbed'
<1> USE NodeFacts DEF TypeOK, Busy, tables, deletes, orgVars, Steady, Undisturbed
<1>1. CASE StartDelete(d) \/ FinishDeleteFails(d)
  BY <1>1
     DEF StartDelete, FinishDeleteFails, DelGoTo, Deployers, VmsHaveRows,
         DeletionsAlone, DeletionsDone, OrgIsEmpty, InUse, Deploying
<1>2. CASE FinishDelete(d)
  <2>1. vms \cap NodesOf(delWs[d]) = {}
    BY <1>2 DEF FinishDelete, DeletionsAlone
  <2> QED
    BY <1>2, <2>1
       DEF FinishDelete, DelGoTo, DeleteWorkspaceRow, Deployers, VmsHaveRows,
           DeletionsAlone, DeletionsDone, OrgIsEmpty, InUse, Deploying, DeletionsNamed
<1>3. ASSUME NEW n \in Nodes, DestroyNode(d, n) \/ DestroyFails(d, n) PROVE Undisturbed'
  <2>1. /\ UNCHANGED <<org, ws, create, grow, host, delWs, orgVars>>
        /\ vms' \subseteq vms
        /\ rows' = rows \/ (rows' = rows \ {n} /\ vms' = vms \ {n})
    BY <1>3 DEF DestroyNode, DestroyFails
  <2>2. Deployers' /\ VmsHaveRows' /\ OrgIsEmpty'
    BY <2>1 DEF Deployers, VmsHaveRows, OrgIsEmpty, Deploying
  <2>3. \A e \in Deletions : /\ delStage'[e] \in {delStage[e], "ERROR"}
                             /\ delStage'[e] = "ERROR" \/ vms' \cap todo[e] \subseteq todo'[e]
    BY <1>3 DEF DestroyNode, DestroyFails, IsNextNode, DelGoTo
  <2>4. DeletionsAlone' /\ DeletionsDone'
    BY <2>1, <2>3 DEF DeletionsAlone, DeletionsDone, InUse
  <2> QED
    BY <2>2, <2>4
<1> QED
  BY <1>1, <1>2, <1>3 DEF DeleteStep

\* Every step that disturbs nothing keeps these parts.
LEMMA UInvStep ==
  ASSUME TypeOK, Steady, UInv, [Next]_vars
  PROVE  UInv'
<1> SUFFICES ASSUME ~disturbed' PROVE Undisturbed'
  BY DEF UInv
<1>1. Undisturbed
  BY Monotone DEF UInv
<1>2. CASE UNCHANGED vars
  BY <1>1, <1>2
     DEF vars, tables, deletes, orgVars, Undisturbed, Deployers, VmsHaveRows,
         DeletionsAlone, DeletionsDone, OrgIsEmpty, InUse, Deploying
<1> QED
  BY <1>1, <1>2, ApiParts, OrgParts, HostParts, CreateParts, GrowParts, DeleteParts
     DEF Next, ControllerStep

----------------------------------------------------------------------------
(* The theorems.                                                           *)

\* The invariant holds in the first state.
LEMMA InvInit == Init => IInv
BY TypeInit, NodeFacts
   DEF Init, IInv, Steady, DeployedOnce, MasterFirst, VmsDeployed, RowsRegistered,
       DeletionsNamed, UInv, Undisturbed, Deployers, VmsHaveRows, DeletionsAlone,
       DeletionsDone, OrgIsEmpty, InUse, Deploying

\* The invariant is inductive.
LEMMA InvStep == IInv /\ [Next]_vars => IInv'
BY TypeStep, SteadyStep, UInvStep DEF IInv, Steady

\* It says of VMs without a row and of deletions what NoOrphanVm says.
LEMMA InvOrphan == UInv => NoOrphanVm
BY DEF UInv, Undisturbed, NoOrphanVm, VmsHaveRows, DeletionsDone

\* Only a task that found no workspace removes the row of the organisation.
LEMMA LastStep ==
  ASSUME IInv, [Next]_vars, org, ~org', ~disturbed
  PROVE \A w \in Workspaces : ws[w] # "present"
<1>1. orgTask = "checked"
  BY DEF Next, ControllerStep, vars, tables, CreateWorkspace, ScheduleCreate,
         ScheduleGrow, PlanDelete, ScheduleDelete, RequestOrgDelete, ScheduleOrgDelete,
         CheckOrg, HostStep, Boot, BootFails, Register, RegisterFails, LeavesVm, CreateStep,
         StartCreate, CreateDone, CreateFails, GrowStep, StartGrow, GrowAnswered,
         GrowTimesOut, TaintMaster, TaintFails, UndoGrow, DeleteStep, StartDelete,
         FinishDelete, FinishDeleteFails, DestroyNode, DestroyFails, DeleteOrg, OrgFails
<1> QED
  BY <1>1 DEF IInv, UInv, Undisturbed, OrgIsEmpty

\* Type correctness of rows, tasks, deployments and deletions.
THEOREM TypeCorrect == Spec => []TypeOK
<1>1. IInv => TypeOK
  BY DEF IInv
<1> QED
  BY <1>1, InvInit, InvStep, PTL DEF Spec

\* As long as no request for a deployment timed out, no deletion was scheduled
\* beside an open task and no host failed to remove the VM of a failed deployment, a
\* VM that nobody is deploying has its row in k8s_nodes, and a deletion that
\* succeeded leaves no VM (deployWorkspaceCluster, the rollbacks of the tasks,
\* processScheduledDeprovisionWorkspaceResources).
THEOREM NoOrphan == Spec => []NoOrphanVm
<1>1. IInv => UInv
  BY DEF IInv
<1> QED
  BY <1>1, InvInit, InvStep, InvOrphan, PTL DEF Spec

\* The row of the organisation goes in no step while a workspace is left, if none
\* was created meanwhile (processScheduledDeprovisionOrganization).
THEOREM OrgLast == Spec => OrgGoesLast
<1>1. IInv /\ [Next]_vars =>
      [org /\ ~org' /\ ~disturbed => \A w \in Workspaces : ws[w] # "present"]_vars
  BY LastStep
<1> QED
  BY <1>1, InvInit, InvStep, PTL DEF Spec, OrgGoesLast
=============================================================================
