---------------------------- MODULE GlusterVolume ----------------------------
(***************************************************************************)
(* Replicated (gluster) volumes of one workspace: the volume in the gluster*)
(* network, its rows, the addresses that may mount it and its mounts on    *)
(* the VMs of the cluster (tasks.gluster.js of the task controller and     *)
(* task.gluster.js of the host node).                                      *)
(*                                                                         *)
(* Mounting on some nodes and unmounting from some are jobs: a task binds  *)
(* or unbinds a volume with one, and the scaling of the cluster runs them  *)
(* for a new worker (ClusterScale, which also has the next-state relation).*)
(* Tasks of a workspace run one at a time.  Where the replicas are, and    *)
(* what removing the bricks' folders leaves, is not modelled.              *)
(***************************************************************************)
EXTENDS Naturals, FiniteSets

CONSTANTS Nodes,      \* addresses the workspace's VMs may have
          Master,
          Volumes,    \* gluster volumes it may ever have
          NoVolume,
          MaxTasks,   \* bound: tasks
          MaxFaults   \* bound: refused or unanswered requests

ASSUME GlusterAssumption == Master \in Nodes /\ NoVolume \notin Volumes
ASSUME TasksAssumption == MaxTasks \in Nat /\ MaxFaults \in Nat

VARIABLES nodes,    \* k8s_nodes rows
          vms,      \* of them and of others, those with a VM
          gluster,  \* volumes started in the gluster network
          row,      \* volumes and gluster_vol_replicas rows
          bound,    \* volume_bindings rows
          allow,    \* auth.allow of each volume
          mounted,  \* of each volume, where it is mounted
          op, vol,  \* the task and its volume
          job,      \* the mounting or unmounting in progress
          tasks, faults,
          torn      \* history: volumes apart from their rows since an event named below

volumeVars == <<gluster, row, bound, allow, mounted>>
taskVars == <<op, vol, job>>

NoJob == [pc |-> "idle", vol |-> NoVolume, targets |-> {}, all |-> FALSE, left |-> {}, done |-> {}]
MountSteps == {"authorise", "mount", "unmountBack", "deny"}
UnmountSteps == {"pvs", "unmount", "remount", "restrict", "remountAll"}

GlusterTypeOK ==
  /\ nodes \subseteq Nodes /\ vms \subseteq Nodes /\ Master \in nodes \cap vms
  /\ gluster \subseteq Volumes /\ row \subseteq Volumes /\ bound \subseteq row
  /\ allow \in [Volumes -> SUBSET Nodes] /\ mounted \in [Volumes -> SUBSET Nodes]
  /\ op \in {"none", "provision", "deprovision", "bind", "unbind", "scale"}
  /\ vol \in Volumes \cup {NoVolume}
  /\ job.pc \in {"idle", "ok", "failed"} \cup MountSteps \cup UnmountSteps
  /\ job.vol \in Volumes \cup {NoVolume} /\ job.all \in BOOLEAN
  /\ job.targets \subseteq Nodes /\ job.left \subseteq job.targets /\ job.done \subseteq job.targets
  /\ tasks \in 0..MaxTasks /\ faults \in 0..MaxFaults
  /\ torn \subseteq Volumes

\* Before it is bound a volume can be mounted by everyone.
GlusterInit ==
  /\ nodes = {Master} /\ vms = {Master} /\ gluster = {} /\ row = {} /\ bound = {}
  /\ allow = [v \in Volumes |-> Nodes] /\ mounted = [v \in Volumes |-> {}]
  /\ op = "none" /\ vol = NoVolume /\ job = NoJob
  /\ tasks = 0 /\ faults = 0 /\ torn = {}

Idle == op = "none"
Fault == faults < MaxFaults /\ faults' = faults + 1
Ends == op' = "none" /\ vol' = NoVolume /\ job' = NoJob
Starts(o) == Idle /\ tasks < MaxTasks /\ tasks' = tasks + 1 /\ op' = o

Step(pc) == job.pc = pc
Go(pc, left) == job' = [job EXCEPT !.pc = pc, !.left = left]
Tear == torn' = torn \cup {job.vol}
Reach(v) == {n \in allow[v] \cap vms : v \in gluster}
CanMount(n) == n \in Reach(job.vol) \ mounted[job.vol]
Mount(n) == mounted' = [mounted EXCEPT ![job.vol] = @ \cup {n}]
Unmount(n) == mounted' = [mounted EXCEPT ![job.vol] = @ \ {n}]

----------------------------------------------------------------------------
(* The tasks: requests to the API, provisioning and deprovisioning.        *)

CreateVolume(v) ==
  /\ Starts("provision") /\ v \notin row \cup gluster
  /\ vol' = v
  /\ UNCHANGED <<nodes, vms, volumeVars, job, faults, torn>>

\* Mutant of DeleteVolume: bindings are not looked at.
DeleteVolumeBound(v) ==
  /\ Starts("deprovision") /\ v \in row
  /\ vol' = v
  /\ UNCHANGED <<nodes, vms, volumeVars, job, faults, torn>>

DeleteVolume(v) ==
  /\ Starts("deprovision") /\ v \in row \ bound
  /\ vol' = v
  /\ UNCHANGED <<nodes, vms, volumeVars, job, faults, torn>>

CreateRows == row' = row \cup {vol}
DeleteRows == row' = row \ {vol}

\* The volume is created, started, configured and gets its rows on one host.
ProvisionGlusterVolume ==
  /\ op = "provision"
  /\ gluster' = gluster \cup {vol} /\ CreateRows
  /\ Ends
  /\ UNCHANGED <<nodes, vms, bound, allow, mounted, tasks, faults, torn>>

\* Fewer than two peers with space, or a refusal, after which the host takes
\* the volume back; it may fail in that, too.
ProvisionFails ==
  /\ op = "provision"
  /\ Fault
  /\ \/ UNCHANGED <<gluster, torn>>
     \/ gluster' = gluster \cup {vol} /\ torn' = torn \cup {vol}
  /\ Ends
  /\ UNCHANGED <<nodes, vms, row, bound, allow, mounted, tasks>>

DeprovisionGlusterVolume ==
  /\ op = "deprovision" /\ vol \in gluster
  /\ gluster' = gluster \ {vol} /\ DeleteRows
  /\ Ends
  /\ UNCHANGED <<nodes, vms, bound, allow, mounted, tasks, faults, torn>>

\* gluster does not stop a volume twice: one whose row could not be deleted
\* stays there for good.
DeprovisionFails ==
  /\ op = "deprovision"
  /\ IF vol \in gluster THEN Fault ELSE UNCHANGED faults
  /\ \/ UNCHANGED <<gluster, torn>>
     \/ gluster' = gluster \ {vol} /\ torn' = torn \cup {vol}
  /\ Ends
  /\ UNCHANGED <<nodes, vms, row, bound, allow, mounted, tasks>>

----------------------------------------------------------------------------
(* mountGlusterVolumeToClusterVMs: the nodes are allowed, then mounted one *)
(* after another; the first error unmounts those that were mounted.        *)

MountJob(v, T, all) ==
  job' = [NoJob EXCEPT !.pc = "authorise", !.vol = v, !.targets = T, !.all = all]

BindVolume(v) ==
  /\ Starts("bind") /\ v \in row \ bound
  /\ vol' = v /\ MountJob(v, nodes, TRUE)
  /\ UNCHANGED <<nodes, vms, volumeVars, faults, torn>>

SetAuthorizedIps == allow' = [allow EXCEPT ![job.vol] = nodes]

Authorised ==
  /\ Step("authorise")
  /\ SetAuthorizedIps
  /\ Go("mount", job.targets)
  /\ UNCHANGED <<nodes, vms, gluster, row, bound, mounted, op, vol, tasks, faults, torn>>

AuthoriseFails ==
  /\ Step("authorise") /\ Fault
  /\ SetAuthorizedIps \/ UNCHANGED allow
  /\ Go("failed", {})
  /\ UNCHANGED <<nodes, vms, gluster, row, bound, mounted, op, vol, tasks, torn>>

MountK8SNodeGlusterVolume(n) ==
  /\ Step("mount") /\ n \in job.left /\ CanMount(n)
  /\ Mount(n)
  /\ job' = [job EXCEPT !.done = @ \cup {n}, !.left = @ \ {n},
                        !.pc = IF job.left = {n} THEN "ok" ELSE "mount"]
  /\ UNCHANGED <<nodes, vms, gluster, row, bound, allow, op, vol, tasks, faults, torn>>

\* The host refuses a folder that is mounted already.  A mount whose answer
\* does not come is not undone.
MountFails(n) ==
  /\ Step("mount") /\ n \in job.left
  /\ IF CanMount(n) THEN Fault ELSE UNCHANGED faults
  /\ \/ UNCHANGED <<mounted, torn>>
     \/ CanMount(n) /\ Mount(n) /\ Tear
  /\ IF job.done = {} THEN Go("failed", {}) ELSE Go("unmountBack", job.done)
  /\ UNCHANGED <<nodes, vms, gluster, row, bound, allow, op, vol, tasks>>

\* Mutant of UnmountBack: the mounts of the other nodes stay.
UnmountBackNot ==
  /\ Step("unmountBack")
  /\ Go("deny", {})
  /\ UNCHANGED <<nodes, vms, volumeVars, op, vol, tasks, faults, torn>>

\* A refusal and an umount that fails leave the same: the loop goes on.
UnmountBack ==
  /\ Step("unmountBack")
  /\ \/ \E n \in job.left : /\ Unmount(n) /\ Go("unmountBack", job.left \ {n})
                            /\ UNCHANGED <<faults, torn>>
     \/ \E n \in job.left : /\ Fault /\ Tear /\ Go("unmountBack", job.left \ {n})
                            /\ UNCHANGED mounted
     \/ job.left = {} /\ Go("deny", {}) /\ UNCHANGED <<mounted, faults, torn>>
  /\ UNCHANGED <<nodes, vms, gluster, row, bound, allow, op, vol, tasks>>

\* gluster refuses an empty list of addresses; nobody looks at the answer.
Remaining == IF job.all THEN {} ELSE nodes \ job.targets
Deny ==
  /\ Step("deny")
  /\ \/ UNCHANGED faults /\ allow' = IF Remaining = {} THEN allow ELSE [allow EXCEPT ![job.vol] = Remaining]
     \/ Fault /\ UNCHANGED allow
  /\ Go("failed", {})
  /\ UNCHANGED <<nodes, vms, gluster, row, bound, mounted, op, vol, tasks, torn>>

----------------------------------------------------------------------------
(* unmountGlusterVolumeFromClusterVMs.                                     *)

UnmountJob(v, T, all) ==
  job' = [NoJob EXCEPT !.pc = IF all THEN "pvs" ELSE "unmount", !.vol = v,
                       !.targets = T, !.all = all, !.left = T \cap nodes]

UnbindVolume(v) ==
  /\ Starts("unbind") /\ v \in bound
  /\ vol' = v /\ UnmountJob(v, nodes, TRUE)
  /\ UNCHANGED <<nodes, vms, volumeVars, faults, torn>>

\* The host lists the volume's folder on the master.
RemoveAllPvForVolume ==
  /\ Step("pvs")
  /\ \/ Master \in mounted[job.vol] /\ Go("unmount", job.left) /\ UNCHANGED faults
     \/ Master \notin mounted[job.vol] /\ Go("failed", {}) /\ UNCHANGED faults
     \/ Fault /\ Go("failed", {})
  /\ UNCHANGED <<nodes, vms, volumeVars, op, vol, tasks, torn>>

\* Nothing to unmount is no error, and neither is an umount that fails: a volume
\* in use stays mounted and the host answers as ever.
UnmountK8SNodeGlusterVolume ==
  /\ Step("unmount")
  /\ \/ \E n \in job.left \cap vms :
          /\ \/ Unmount(n) /\ UNCHANGED <<faults, torn>>
             \/ n \in mounted[job.vol] /\ Fault /\ Tear /\ UNCHANGED mounted
          /\ job' = [job EXCEPT !.done = @ \cup {n}, !.left = @ \ {n}]
     \/ job.left = {} /\ Go("restrict", {}) /\ UNCHANGED <<mounted, faults, torn>>
  /\ UNCHANGED <<nodes, vms, gluster, row, bound, allow, op, vol, tasks>>

UnmountFails(n) ==
  /\ Step("unmount") /\ n \in job.left
  /\ IF n \in vms THEN Fault ELSE UNCHANGED faults
  /\ UNCHANGED <<mounted, torn>> \/ (n \in vms /\ Unmount(n) /\ Tear)
  /\ Go("remount", job.done)
  /\ UNCHANGED <<nodes, vms, gluster, row, bound, allow, op, vol, tasks>>

\* Nodes whose rows are gone have no address: an error as well.
SetRemainingIps == job.targets \subseteq nodes /\ allow' = [allow EXCEPT ![job.vol] = Remaining]

Restricted ==
  /\ Step("restrict")
  /\ SetRemainingIps
  /\ Go("ok", {})
  /\ UNCHANGED <<nodes, vms, gluster, row, bound, mounted, op, vol, tasks, faults, torn>>

RestrictFails ==
  /\ Step("restrict")
  /\ IF job.targets \subseteq nodes THEN Fault ELSE UNCHANGED faults
  /\ UNCHANGED <<allow, torn>> \/ (SetRemainingIps /\ Tear)
  /\ Go("remountAll", job.done)
  /\ UNCHANGED <<nodes, vms, gluster, row, bound, mounted, op, vol, tasks>>

\* The two catch blocks.  The first one's handler of a failing mount names a
\* variable that does not exist: the nodes after that one stay unmounted.
Remount ==
  /\ Step("remount") \/ Step("remountAll")
  /\ \/ \E n \in job.left : /\ CanMount(n) /\ Mount(n) /\ Go(job.pc, job.left \ {n})
                            /\ UNCHANGED <<faults, torn>>
     \/ \E n \in job.left : /\ IF CanMount(n) THEN Fault ELSE UNCHANGED faults
                            /\ IF Step("remount") THEN Go("failed", {}) ELSE Go(job.pc, job.left \ {n})
                            /\ Tear /\ UNCHANGED mounted
     \/ job.left = {} /\ Go("failed", {}) /\ UNCHANGED <<mounted, faults, torn>>
  /\ UNCHANGED <<nodes, vms, gluster, row, bound, allow, op, vol, tasks>>

----------------------------------------------------------------------------
(* The end of a binding or unbinding.                                      *)

AddVolumeBinding == bound' = bound \cup {vol}
RemoveVolumeBinding == bound' = bound \ {vol}

BoundOrUnbound ==
  /\ op \in {"bind", "unbind"} /\ Step("ok")
  /\ IF op = "bind" THEN AddVolumeBinding ELSE RemoveVolumeBinding
  /\ Ends
  /\ UNCHANGED <<nodes, vms, gluster, row, allow, mounted, tasks, faults, torn>>

\* The statement on the binding's row fails.
BindingFails ==
  /\ op \in {"bind", "unbind"} /\ Step("ok") /\ Fault
  /\ Tear
  /\ Ends
  /\ UNCHANGED <<nodes, vms, volumeVars, tasks>>

JobFailed ==
  /\ op \in {"bind", "unbind"} /\ Step("failed")
  /\ Ends
  /\ UNCHANGED <<nodes, vms, volumeVars, tasks, faults, torn>>

VolumeTask ==
  \/ \E v \in Volumes : CreateVolume(v) \/ DeleteVolume(v) \/ BindVolume(v) \/ UnbindVolume(v)
  \/ ProvisionGlusterVolume \/ ProvisionFails \/ DeprovisionGlusterVolume \/ DeprovisionFails
  \/ BoundOrUnbound \/ BindingFails \/ JobFailed

JobStep ==
  \/ Authorised \/ AuthoriseFails
  \/ \E n \in Nodes : MountK8SNodeGlusterVolume(n) \/ MountFails(n) \/ UnmountFails(n)
  \/ UnmountBack \/ Deny
  \/ RemoveAllPvForVolume \/ UnmountK8SNodeGlusterVolume \/ Restricted \/ RestrictFails \/ Remount

----------------------------------------------------------------------------
(* Properties.                                                             *)

\* Between tasks a bound volume can be used on every node of the cluster, also
\* on workers that joined after it was bound and after rollbacks, and another
\* one is mounted nowhere; volumes have their rows while they exist.  Except
\* volumes whose task was interrupted at one of the points that set torn, and
\* those that umount left mounted, which the host does not look at.
BindingsHold ==
  Idle => \A v \in Volumes \ torn :
    /\ v \in gluster <=> v \in row
    /\ v \in bound => nodes \subseteq mounted[v] \cap allow[v]
    /\ v \notin bound => mounted[v] = {}
=============================================================================
