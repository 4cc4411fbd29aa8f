---------------------------- MODULE ClusterScale ----------------------------
(***************************************************************************)
(* Scaling the cluster of a workspace: its workers' VMs and rows, the nodes*)
(* kubernetes knows, the master's taint, the workers' mounts of replicated *)
(* volumes (GlusterVolume, whose tasks run in turn with these) and the     *)
(* servers of the workspace's upstream in nginx (tasks.runtime.js of the   *)
(* task controller, tasks/index.js of the host node, nginx/index.js).      *)
(*                                                                         *)
(* Local volumes of workers are in LocalVolume.  Scaling replaces the      *)
(* servers of EVERY upstream; of other workspaces only their scalings are  *)
(* here.                                                                   *)
(***************************************************************************)
EXTENDS GlusterVolume, SequencesExt

CONSTANTS Hosts, MasterHost,
          OtherNodes,   \* addresses of another workspace's nodes
          NoNode,
          MaxScale      \* bound: workers asked for

ASSUME ClusterAssumption ==
  /\ MasterHost \in Hosts /\ NoNode \notin Nodes
  /\ OtherNodes \cap Nodes = {} /\ OtherNodes # {} /\ IsFiniteSet(OtherNodes)
  /\ MaxScale \in Nat

VARIABLES away,      \* workers whose VM is not on the host their row names
          members,   \* workers that joined the cluster
          tainted,   \* the master takes no workload
          own,       \* servers of the workspace's upstream
          scale,     \* the scaling in progress
          strayed,   \* history: a node was not removed or not registered, or the taint not set or removed
          outdated   \* history: the upstream missed an update or was overwritten

clusterVars == <<away, members, tainted, own, scale, strayed, outdated>>
scaleVars == <<nodes, vms, volumeVars, taskVars, tasks, faults, torn, clusterVars>>

NoScale == [mode |-> "none", pc |-> "none", want |-> 0, unused |-> {}, used |-> {}, usable |-> {},
            todo |-> {}, node |-> NoNode, vols |-> {}, got |-> {}, untaint |-> FALSE]
Steps == {"none", "provision", "volumes", "taint", "publish", "next", "detach", "destroy",
          "untaint", "unmount"}

Workers == nodes \ {Master}
Active == IF Workers = {} THEN nodes ELSE Workers

ScaleTypeOK ==
  /\ GlusterTypeOK
  /\ away \subseteq vms /\ members \subseteq Nodes \ {Master} /\ tainted \in BOOLEAN
  /\ ToSet(own) \subseteq Nodes \cup OtherNodes
  /\ scale.mode \in {"none", "up", "undo", "down"} /\ scale.pc \in Steps
  /\ scale.mode = "none" <=> op # "scale"
  /\ scale.want \in 0..MaxScale /\ scale.todo \subseteq Workers
  /\ scale.unused \cup scale.used \subseteq scale.usable /\ scale.usable \subseteq Hosts
  /\ scale.node \in Nodes \cup {NoNode} /\ scale.vols \subseteq bound
  /\ \A p \in scale.got : p[1] \in Volumes /\ p[2] \in Nodes
  /\ scale.untaint \in BOOLEAN
  /\ strayed \in BOOLEAN /\ outdated \in BOOLEAN

ScaleInit ==
  /\ GlusterInit
  /\ away = {} /\ members = {} /\ tainted = FALSE /\ own = <<Master>>
  /\ scale = NoScale /\ strayed = FALSE /\ outdated = FALSE

At(pc) == op = "scale" /\ scale.pc = pc
To(pc) == scale' = [scale EXCEPT !.pc = pc]
ScaleEnds == Ends /\ scale' = NoScale

----------------------------------------------------------------------------
(* The servers of an upstream.                                             *)

\* The items of a list at the indices in K, in order: the j-th of them is at the
\* index with j members of K up to it.
ItemsAt(list, K) ==
  LET index(j) == CHOOSE i \in K : Cardinality({k \in K : k <= i}) = j
  IN  [j \in 1..Cardinality(K) |-> list[index(j)]]

\* Mutant of Updated: the server left over is not looked at.
UpdatedSkipping(list, S) ==
  LET passed[i \in 0..Len(list)] == i > 0 /\ ~passed[i - 1] /\ list[i] \notin S
      left == {i \in DOMAIN list : ~passed[i]}
      seen == {i \in DOMAIN list : ~passed[i - 1]}
  IN  {ItemsAt(list, left) \o q : q \in SetToSeqs(S \ {list[i] : i \in seen})}

\* An index runs over the list while servers that are not in S are removed
\* from it, past the server after each of them; a server left alone is looked
\* at.  The nodes of S that were not seen are appended, in some order.
Updated(list, S) ==
  LET passed[i \in 0..Len(list)] == i > 0 /\ ~passed[i - 1] /\ list[i] \notin S
      left == {i \in DOMAIN list : ~passed[i]}
      alone == Cardinality(left) = 1
      seen == {i \in DOMAIN list : ~passed[i - 1]} \cup (IF alone THEN left ELSE {})
      kept == {i \in left : alone => list[i] \in S}
  IN  {ItemsAt(list, kept) \o q : q \in SetToSeqs(S \ {list[i] : i \in seen})}

\* Servers that leave together, and those that a list names twice, may not be
\* seen; except when all leave a list of at most three.
Orderly(S) ==
  LET leaving == ToSet(own) \ S IN
  /\ Cardinality(ToSet(own)) = Len(own)
  /\ Cardinality(leaving) <= 1 \/ (leaving = ToSet(own) /\ Len(own) <= 3)

UpstreamUpdated ==
  /\ own' \in Updated(own, Active)
  /\ outdated' = ~Orderly(Active)

\* Another workspace scales: its nodes replace the servers here, too.
OtherScales ==
  /\ tasks < MaxTasks /\ tasks' = tasks + 1
  /\ \E S \in (SUBSET OtherNodes) \ {{}} : own' \in Updated(own, S)
  /\ outdated' = TRUE
  /\ UNCHANGED <<nodes, vms, volumeVars, taskVars, faults, torn, away, members, tainted, scale, strayed>>

\* A task on a service or a domain writes the upstream anew.
Republish ==
  /\ Starts("none")
  /\ own' \in SetToSeqs(Active) /\ outdated' = FALSE
  /\ UNCHANGED <<nodes, vms, volumeVars, vol, job, faults, torn, away, members, tainted, scale, strayed>>

----------------------------------------------------------------------------
(* processScheduledUpdateK8sCluster.                                       *)

\* The host a worker's row names, whichever it was deployed on.
RowHost == MasterHost

ScaleUp ==
  \E k \in 2..MaxScale, usable \in (SUBSET Hosts) \ {{}} :
    LET used == {RowHost : n \in nodes} \cap usable IN
    /\ Starts("scale") /\ k > Cardinality(Workers)
    /\ scale' = [NoScale EXCEPT !.mode = "up", !.pc = "provision", !.want = k - Cardinality(Workers),
                                !.usable = usable, !.unused = usable \ used, !.used = used]
    /\ UNCHANGED <<nodes, vms, volumeVars, vol, job, faults, torn, away, members, tainted, own, strayed, outdated>>

ScaleDown ==
  \E S \in (SUBSET Workers) \ {{}} :
    /\ Starts("scale") /\ Cardinality(Workers \ S) # 1
    /\ scale' = [NoScale EXCEPT !.mode = "down", !.pc = "next", !.todo = S, !.untaint = (S = Workers)]
    /\ UNCHANGED <<nodes, vms, volumeVars, vol, job, faults, torn, away, members, tainted, own, strayed, outdated>>

----------------------------------------------------------------------------
(* scaleUpK8SCluster.                                                      *)

\* The catch block, for every worker deployed so far.
Undo(pc) == scale' = [scale EXCEPT !.mode = "undo", !.pc = pc, !.vols = {}]

\* Hosts the cluster does not use come first, then those it does, then all.
Favoured ==
  IF scale.unused # {} THEN scale.unused ELSE IF scale.used # {} THEN scale.used ELSE scale.usable

Joins(n) == n \notin nodes \cup vms \cup members /\ members' = members \cup {n}

Deployed(n, h) ==
  /\ Joins(n)
  /\ nodes' = nodes \cup {n} /\ vms' = vms \cup {n}
  /\ away' = IF h = RowHost THEN away ELSE away \cup {n}

ProvisionK8SWorker ==
  /\ At("provision")
  /\ \E n \in Nodes, h \in Favoured :
       /\ Deployed(n, h)
       /\ scale' = [scale EXCEPT !.pc = "volumes", !.want = @ - 1, !.todo = @ \cup {n}, !.node = n,
                                 !.vols = bound, !.unused = @ \ {h}, !.used = @ \ {h}]
  /\ UNCHANGED <<volumeVars, taskVars, tasks, faults, torn, tainted, own, strayed, outdated>>

\* The host takes its VM back, unless only its answer is missing.  A worker that
\* had joined stays a node of the cluster, and keeps its VM if the host fails
\* in taking that back.
ProvisionK8SWorkerFails ==
  /\ At("provision") /\ Fault
  /\ \/ UNCHANGED <<nodes, vms, members, away, strayed, outdated, torn>>
     \/ /\ \E n \in Nodes, h \in Favoured : Deployed(n, h)
        /\ strayed' = TRUE /\ outdated' = TRUE /\ torn' = torn \cup bound
     \/ /\ \E n \in Nodes : Joins(n) /\ vms' \in {vms, vms \cup {n}}
        /\ strayed' = TRUE
        /\ UNCHANGED <<nodes, away, outdated, torn>>
  /\ Undo("next")
  /\ UNCHANGED <<volumeVars, taskVars, tasks, tainted, own>>

MountVolume ==
  /\ At("volumes") /\ job = NoJob
  /\ \E v \in scale.vols : MountJob(v, {scale.node}, FALSE)
  /\ UNCHANGED <<nodes, vms, volumeVars, op, vol, tasks, faults, torn, clusterVars>>

VolumeMounted ==
  /\ At("volumes") /\ Step("ok")
  /\ scale' = [scale EXCEPT !.vols = @ \ {job.vol}, !.got = @ \cup {<<job.vol, scale.node>>}]
  /\ job' = NoJob
  /\ UNCHANGED <<nodes, vms, volumeVars, op, vol, tasks, faults, torn, away, members, tainted, own, strayed, outdated>>

\* The volumes mounted on this worker first, then all workers.
VolumeFails ==
  /\ At("volumes") /\ Step("failed")
  /\ Undo("unmount") /\ job' = NoJob
  /\ UNCHANGED <<nodes, vms, volumeVars, op, vol, tasks, faults, torn, away, members, tainted, own, strayed, outdated>>

WorkerReady ==
  /\ At("volumes") /\ scale.vols = {}
  /\ To(IF scale.want > 0 THEN "provision" ELSE "taint")
  /\ UNCHANGED <<nodes, vms, volumeVars, taskVars, tasks, faults, torn, away, members, tainted, own, strayed, outdated>>

TaintMaster == tainted' = TRUE
UntaintMaster == tainted' = FALSE

\* Nobody looks at the exit code of kubectl, here, when a worker is detached and
\* when the taint goes: what failed is answered as done.
TaintK8SMaster ==
  /\ At("taint")
  /\ \/ TaintMaster /\ To("publish") /\ UNCHANGED <<faults, strayed>>
     \/ Fault /\ strayed' = TRUE /\ To("publish") /\ UNCHANGED tainted
     \/ Fault /\ tainted' \in {tainted, TRUE} /\ Undo("next") /\ UNCHANGED strayed
  /\ UNCHANGED <<nodes, vms, volumeVars, taskVars, tasks, torn, away, members, own, outdated>>

----------------------------------------------------------------------------
(* scaleDownK8SClusterNodes, for the workers a task gives up and, one at a *)
(* time, for those a failed scaling up takes back.                         *)

NextWorker ==
  /\ At("next")
  /\ \E n \in scale.todo : scale' = [scale EXCEPT !.pc = "detach", !.node = n, !.todo = @ \ {n}]
  /\ UNCHANGED <<nodes, vms, volumeVars, taskVars, tasks, faults, torn, away, members, tainted, own, strayed, outdated>>

NoMoreWorkers ==
  /\ At("next") /\ scale.todo = {}
  /\ IF scale.mode = "undo" /\ Workers # {}
     THEN ScaleEnds
     ELSE /\ To(IF scale.mode = "undo" \/ scale.untaint THEN "untaint" ELSE "publish")
          /\ UNCHANGED taskVars
  /\ UNCHANGED <<nodes, vms, volumeVars, tasks, faults, torn, away, members, tainted, own, strayed, outdated>>

\* The task ends in an error; when undoing, the error is written to the log.
RemovalFails ==
  /\ outdated' = TRUE
  /\ IF scale.mode = "down" THEN ScaleEnds ELSE To("unmount") /\ UNCHANGED taskVars

\* Mutant of DetatchWorker: the node is only drained.
DetatchWorkerDrained == UNCHANGED members

\* Draining and deleting a node that is gone is no error.
DetatchWorker == members' = members \ {scale.node}

DetatchK8SWorker ==
  /\ At("detach")
  /\ \/ /\ DetatchWorker /\ To("destroy")
        /\ UNCHANGED <<taskVars, faults, torn, strayed, outdated>>
     \/ /\ Fault /\ strayed' = TRUE /\ To("destroy")
        /\ UNCHANGED <<members, taskVars, torn, outdated>>
     \/ /\ Fault /\ members' \in {members, members \ {scale.node}}
        /\ strayed' = TRUE /\ torn' = IF scale.mode = "undo" THEN torn \cup bound ELSE torn
        /\ RemovalFails
  /\ UNCHANGED <<nodes, vms, volumeVars, tasks, away, tainted, own>>

VmGone ==
  /\ vms' = vms \ {scale.node}
  /\ mounted' = [v \in Volumes |-> mounted[v] \ {scale.node}]

DeleteK8SNode == nodes' = nodes \ {scale.node}

\* The addresses that may mount a volume keep the worker's.
DeprovisionK8SWorker ==
  /\ At("destroy") /\ scale.node \in vms \ away
  /\ VmGone /\ DeleteK8SNode
  /\ To(IF scale.mode = "undo" THEN "publish" ELSE "next")
  /\ UNCHANGED <<gluster, row, bound, allow, taskVars, tasks, faults, torn, away, members, tainted, own, strayed, outdated>>

\* The host the row names does not have the VM, or a fault: of the request,
\* of its answer, or of the statement that deletes the row.
DeprovisionK8SWorkerFails ==
  /\ At("destroy")
  /\ IF scale.node \in vms \ away
     THEN /\ Fault
          /\ \/ UNCHANGED <<vms, mounted, nodes>>
             \/ VmGone /\ (DeleteK8SNode \/ UNCHANGED nodes)
     ELSE UNCHANGED <<vms, mounted, nodes, faults>>
  /\ strayed' = TRUE
  /\ torn' = IF scale.mode = "undo" \/ vms' # vms THEN torn \cup bound ELSE torn
  /\ RemovalFails
  /\ UNCHANGED <<gluster, row, bound, allow, tasks, away, members, tainted, own>>

UntaintK8SMaster ==
  /\ At("untaint")
  /\ \/ /\ \/ UntaintMaster /\ UNCHANGED <<faults, strayed>>
           \/ Fault /\ strayed' = TRUE /\ UNCHANGED tainted
        /\ UNCHANGED outdated
        /\ IF scale.mode = "down" THEN To("publish") /\ UNCHANGED taskVars ELSE ScaleEnds
     \/ /\ Fault /\ tainted' \in {tainted, FALSE} /\ strayed' = TRUE
        /\ outdated' = (outdated \/ scale.mode = "down") /\ ScaleEnds
  /\ UNCHANGED <<nodes, vms, volumeVars, tasks, torn, away, members, own>>

AfterPublishing ==
  IF scale.mode = "undo" THEN To("unmount") /\ UNCHANGED taskVars ELSE ScaleEnds

RequestUpdateUpstreamServers ==
  /\ At("publish")
  /\ UpstreamUpdated
  /\ AfterPublishing
  /\ UNCHANGED <<nodes, vms, volumeVars, tasks, faults, torn, away, members, tainted, strayed>>

\* nginx rejects the file, which is restored.
UpdateUpstreamServersFails ==
  /\ At("publish") /\ Fault
  /\ outdated' = TRUE
  /\ IF scale.mode = "up" THEN Undo("next") /\ UNCHANGED taskVars ELSE AfterPublishing
  /\ UNCHANGED <<nodes, vms, volumeVars, tasks, torn, away, members, tainted, own, strayed>>

----------------------------------------------------------------------------
(* _rollbackVolumesAndMounts.                                              *)

OfNode == {p \in scale.got : p[2] = scale.node}

RollbackVolume ==
  /\ At("unmount") /\ job = NoJob
  /\ \E p \in OfNode : UnmountJob(p[1], {scale.node}, FALSE)
  /\ UNCHANGED <<nodes, vms, volumeVars, op, vol, tasks, faults, torn, clusterVars>>

VolumeRolledBack ==
  /\ At("unmount") /\ job.pc \in {"ok", "failed"}
  /\ scale' = [scale EXCEPT !.got = @ \ {<<job.vol, scale.node>>}]
  /\ job' = NoJob
  /\ UNCHANGED <<nodes, vms, volumeVars, op, vol, tasks, faults, torn, away, members, tainted, own, strayed, outdated>>

VolumesRolledBack ==
  /\ At("unmount") /\ OfNode = {}
  /\ To("next")
  /\ UNCHANGED <<nodes, vms, volumeVars, taskVars, tasks, faults, torn, away, members, tainted, own, strayed, outdated>>

ScaleNext ==
  \/ (VolumeTask \/ JobStep) /\ UNCHANGED clusterVars
  \/ OtherScales \/ Republish \/ ScaleUp \/ ScaleDown
  \/ ProvisionK8SWorker \/ ProvisionK8SWorkerFails
  \/ MountVolume \/ VolumeMounted \/ VolumeFails \/ WorkerReady \/ TaintK8SMaster
  \/ NextWorker \/ NoMoreWorkers
  \/ DetatchK8SWorker \/ DeprovisionK8SWorker \/ DeprovisionK8SWorkerFails \/ UntaintK8SMaster
  \/ RequestUpdateUpstreamServers \/ UpdateUpstreamServersFails
  \/ RollbackVolume \/ VolumeRolledBack \/ VolumesRolledBack

ScaleSpec == ScaleInit /\ [][ScaleNext]_scaleVars

----------------------------------------------------------------------------
(* Properties; BindingsHold of GlusterVolume is one.                       *)

\* Between tasks the worker VMs, the nodes of the cluster and the rows are the
\* same, and the master is tainted exactly while there are workers, whatever
\* was undone (scaleUpK8SCluster, scaleDownK8SClusterNodes); unless a removal
\* or a provisioning was interrupted where strayed is set, a worker had joined
\* before its deployment failed, or a command of kubectl failed unnoticed.
ClusterFollowsRows ==
  (Idle /\ ~strayed) => /\ members = Workers /\ vms = nodes
                        /\ tainted <=> Workers # {}

\* Between tasks nginx sends the workspace's traffic to all of its workers, or
\* to its master, and to no other node (updateUpstreamServersForCluster), if
\* the last update was this workspace's, went through and was orderly.
UpstreamFollowsRows == (Idle /\ ~outdated) => ToSet(own) = Active

\* "untaint master node again to take on the workload" (tasks.runtime.js): a
\* cluster without workers in it has a master that takes workload.
MasterTakesOver == (Idle /\ members = {}) => ~tainted
=============================================================================
