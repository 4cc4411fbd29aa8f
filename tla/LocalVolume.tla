---------------------------- MODULE LocalVolume ----------------------------
(***************************************************************************)
(* Local volumes of one workspace: virtual disks attached to a SATA port   *)
(* of every VM of the cluster and mounted there (task-controller           *)
(* tasks.volume.js and tasks.runtime.js, host-node task.volume.js).        *)
(*                                                                         *)
(* Each host picks the first free port of its VM, but the volumes row has  *)
(* a single portIndex, overwritten at every attachment.  Detaching reads   *)
(* the row; mounting uses the copy of the row that the task holds.         *)
(*                                                                         *)
(* Tasks of a workspace run one at a time (_precheckWorkspaceReadyNotBussy *)
(* of the API).  Nodes are visited in any order: the query has no ORDER    *)
(* BY.  Requests to hosts can fail, or be carried out and their answer     *)
(* lost.  VMs that stay powered off after a failure are not modelled, and  *)
(* every VM is on the host its row names (ClusterScale has the others).    *)
(***************************************************************************)
EXTENDS Naturals, FiniteSets

CONSTANTS Nodes,        \* k8s_nodes rows the workspace may ever have
          InitNodes,    \* its nodes at first; masters, never removed
          Volumes,      \* volumes rows it may ever have
          MaxPort,      \* SATA ports 1..MaxPort take a disk: 19 in the code
          NoVolume, NoNode,
          MaxFaults     \* bound: requests that fail or whose answer is lost

ASSUME NodesAssumption == InitNodes \subseteq Nodes /\ InitNodes # {}
ASSUME PortsAssumption == MaxPort \in Nat
ASSUME NoValuesAssumption == NoVolume \notin Volumes /\ NoNode \notin Nodes
ASSUME BoundsAssumption == MaxFaults \in Nat

Ports == 1..MaxPort
NoPort == 0   \* null in the row

VARIABLES nodes,      \* the workspace's nodes
          row,        \* volumes rows: not yet, present, removed
          portIndex,  \* volumes.portIndex
          bound,      \* volume_bindings rows with target workspace
          slot,       \* per node and port, the disk VirtualBox has there
          fstab,      \* per node and volume, the port its folder is mounted from
          op, vol, newNode, step,   \* the task in progress
          left,       \* nodes, in a scale-up volumes, the loop still has ahead
          attached, mounted,        \* successAttach or successDetatch, successMounts
          cached,     \* the portIndex of the volume objects the task holds
          faults,
          disturbed   \* history: one of the events named below happened

disks == <<slot, fstab>>
rows == <<nodes, row, portIndex, bound>>
task == <<op, vol, newNode, step, left, attached, mounted, cached>>
vars == <<disks, rows, task, faults, disturbed>>

Ops == {"none", "bind", "unbind", "delete", "grow"}
Steps == {"idle", "attach", "mount", "unmountBack", "detachBack", "unmount",
          "detach", "reattach", "finish", "erase", "undo"}
PortOrNone == Ports \cup {NoPort}

TypeOK ==
  /\ nodes \subseteq Nodes /\ bound \subseteq Volumes
  /\ row \in [Volumes -> {"none", "present", "removed"}]
  /\ portIndex \in [Volumes -> PortOrNone] /\ cached \in [Volumes -> PortOrNone]
  /\ slot \in [Nodes -> [Ports -> Volumes \cup {NoVolume}]]
  /\ fstab \in [Nodes -> [Volumes -> PortOrNone]]
  /\ op \in Ops /\ step \in Steps
  /\ vol \in Volumes \cup {NoVolume} /\ newNode \in Nodes \cup {NoNode}
  /\ left \subseteq IF op = "grow" THEN Volumes ELSE Nodes
  /\ attached \subseteq Nodes /\ mounted \subseteq Nodes
  /\ faults \in 0..MaxFaults
  /\ disturbed \in BOOLEAN

Init ==
  /\ nodes = InitNodes /\ bound = {}
  /\ row = [v \in Volumes |-> "none"]
  /\ portIndex = [v \in Volumes |-> NoPort]
  /\ cached = portIndex
  /\ slot = [n \in Nodes |-> [p \in Ports |-> NoVolume]]
  /\ fstab = [n \in Nodes |-> [v \in Volumes |-> NoPort]]
  /\ op = "none" /\ step = "idle" /\ vol = NoVolume /\ newNode = NoNode
  /\ left = {} /\ attached = {} /\ mounted = {}
  /\ faults = 0 /\ disturbed = FALSE

----------------------------------------------------------------------------
(* Disks of a VM.                                                          *)

FreePorts(n) == {p \in Ports : slot[n][p] = NoVolume}

\* getNextSATAPortIndex
NextPort(n) == IF FreePorts(n) = {} THEN NoPort
               ELSE CHOOSE p \in FreePorts(n) : \A q \in FreePorts(n) : p <= q

IsAttached(n, v) == \E p \in Ports : slot[n][p] = v

\* VirtualBox refuses a disk that the VM already has on another port.
CanAttach(n, v) == FreePorts(n) # {} /\ ~IsAttached(n, v)

\* requestAttachLocalVolumeToVM writes the row before it attaches the disk.
PickPort(n, v) == portIndex' = [portIndex EXCEPT ![v] = NextPort(n)]
PutDisk(n, v) == /\ PickPort(n, v)
                 /\ slot' = [slot EXCEPT ![n][NextPort(n)] = v]

\* Mutant of FailToAttach: one port too many is tried.
FailToAttachTooFar(n, v) ==
  portIndex' = [portIndex EXCEPT ![v] = IF FreePorts(n) = {} THEN MaxPort + 1 ELSE NextPort(n)]

\* The request fails: before a port was chosen, or after the row was written.
FailToAttach(n, v) == \/ UNCHANGED portIndex
                      \/ FreePorts(n) # {} /\ PickPort(n, v)

\* Detaching goes by the row's port: nothing to do when it is null, an error
\* when that port is empty, and no look at which disk it is otherwise.
CanDetach(n, v) == portIndex[v] # NoPort => slot[n][portIndex[v]] # NoVolume
TakeDisk(n, v) == slot' = IF portIndex[v] = NoPort THEN slot
                          ELSE [slot EXCEPT ![n][portIndex[v]] = NoVolume]

\* mountLocalVolume: /dev/sdX of the port it is told, which must hold some
\* disk; a folder that is mounted already is left as it is.
CanMount(n, v, p) == fstab[n][v] # NoPort \/ (p # NoPort /\ slot[n][p] # NoVolume)
Mount(n, v, p) == fstab' = IF fstab[n][v] # NoPort THEN fstab
                           ELSE [fstab EXCEPT ![n][v] = p]
Unmount(n, v) == fstab' = [fstab EXCEPT ![n][v] = NoPort]

Fault == faults < MaxFaults /\ faults' = faults + 1
NoFault == UNCHANGED faults

Loop(s, l) == step' = s /\ left' = l
Idle == step = "idle"
GoOn(s, l) == Loop(s, l) /\ UNCHANGED <<op, vol, newNode, attached, mounted, cached>>
Ends ==
  /\ op' = "none" /\ vol' = NoVolume /\ newNode' = NoNode
  /\ Loop("idle", {})
  /\ attached' = {} /\ mounted' = {}
  /\ cached' = [v \in Volumes |-> NoPort]

----------------------------------------------------------------------------
(* Rows, and the start of each task.                                       *)

ProvisionVolume(v) ==
  /\ Idle
  /\ row[v] = "none"
  /\ row' = [row EXCEPT ![v] = "present"]
  /\ UNCHANGED <<disks, nodes, portIndex, bound, task, faults, disturbed>>

Start(o, v, s) ==
  /\ Idle
  /\ op' = o /\ vol' = v /\ step' = s /\ left' = nodes
  /\ attached' = {} /\ mounted' = {}
  /\ cached' = portIndex
  /\ UNCHANGED <<disks, rows, newNode, faults, disturbed>>

BindVolume(v) == row[v] = "present" /\ v \notin bound /\ Start("bind", v, "attach")
UnbindVolume(v) == v \in bound /\ Start("unbind", v, "unmount")
DeprovisionVolume(v) ==
  row[v] = "present" /\ v \notin bound /\ Start("delete", v, "unmount")

----------------------------------------------------------------------------
(* attachAndMountLocalVolumeToClusterVMs.                                  *)

Binding(s, n) == op = "bind" /\ step = s /\ n \in left

\* The task reads the row again after the first attachment only.
Attach(n) ==
  /\ Binding("attach", n)
  /\ CanAttach(n, vol)
  /\ PutDisk(n, vol)
  /\ attached' = attached \cup {n}
  /\ cached' = IF attached = {} THEN portIndex' ELSE cached
  /\ Loop("mount", left)
  /\ UNCHANGED <<fstab, nodes, row, bound, op, vol, newNode, mounted, faults, disturbed>>

AttachFails(n) ==
  /\ Binding("attach", n)
  /\ IF CanAttach(n, vol) THEN Fault ELSE NoFault
  /\ FailToAttach(n, vol)
  /\ GoOn("unmountBack", mounted)
  /\ UNCHANGED <<disks, nodes, row, bound, disturbed>>

AttachAnswerLost(n) ==
  /\ Binding("attach", n)
  /\ CanAttach(n, vol) /\ Fault
  /\ PutDisk(n, vol)
  /\ disturbed' = TRUE
  /\ GoOn("unmountBack", mounted)
  /\ UNCHANGED <<fstab, nodes, row, bound>>

\* The node whose disk was attached and is not mounted yet.
MountNext(n) == Binding("mount", n) /\ n \in attached \ mounted

MountVolume(n) ==
  /\ MountNext(n)
  /\ CanMount(n, vol, cached[vol])
  /\ Mount(n, vol, cached[vol])
  /\ mounted' = mounted \cup {n}
  /\ Loop(IF left = {n} THEN "finish" ELSE "attach", left \ {n})
  /\ UNCHANGED <<slot, rows, op, vol, newNode, attached, cached, faults, disturbed>>

MountFails(n) ==
  /\ MountNext(n)
  /\ IF CanMount(n, vol, cached[vol]) THEN Fault ELSE NoFault
  /\ GoOn("unmountBack", mounted)
  /\ UNCHANGED <<disks, rows, disturbed>>

MountAnswerLost(n) ==
  /\ MountNext(n)
  /\ CanMount(n, vol, cached[vol]) /\ Fault
  /\ Mount(n, vol, cached[vol])
  /\ disturbed' = TRUE
  /\ GoOn("unmountBack", mounted)
  /\ UNCHANGED <<slot, rows>>

AddVolumeBinding ==
  /\ op = "bind" /\ step = "finish"
  /\ bound' = bound \cup {vol}
  /\ Ends
  /\ UNCHANGED <<disks, nodes, row, portIndex, faults, disturbed>>

\* The catch block: nobody looks at the status of these answers.
UnmountBack ==
  /\ op = "bind" /\ step = "unmountBack"
  /\ \/ \E n \in left : /\ Unmount(n, vol)
                        /\ GoOn(step, left \ {n})
                        /\ UNCHANGED <<faults, disturbed>>
     \/ \E n \in left : /\ Fault /\ disturbed' = TRUE
                        /\ GoOn(step, left \ {n})
                        /\ UNCHANGED fstab
     \/ left = {} /\ GoOn("detachBack", attached) /\ UNCHANGED <<fstab, faults, disturbed>>
  /\ UNCHANGED <<slot, rows>>

\* A request of the catch block times out: the task ends there.
UnmountBackTimesOut ==
  /\ op = "bind" /\ step = "unmountBack" /\ left # {}
  /\ Fault /\ disturbed' = TRUE
  /\ Ends
  /\ UNCHANGED <<disks, rows>>

\* Errors of these requests are swallowed; at the end the port is cleared.
DetachBack ==
  /\ op = "bind" /\ step = "detachBack"
  /\ \/ \E n \in left : /\ CanDetach(n, vol) /\ TakeDisk(n, vol)
                        /\ GoOn(step, left \ {n})
                        /\ UNCHANGED <<portIndex, faults, disturbed>>
     \/ \E n \in left : /\ IF CanDetach(n, vol) THEN Fault ELSE NoFault
                        /\ disturbed' = TRUE
                        /\ GoOn(step, left \ {n})
                        /\ UNCHANGED <<slot, portIndex>>
     \/ /\ left = {}
        /\ portIndex' = [portIndex EXCEPT ![vol] = NoPort]
        /\ Ends
        /\ UNCHANGED <<slot, faults, disturbed>>
  /\ UNCHANGED <<fstab, nodes, row, bound>>

BindStep ==
  \/ \E n \in Nodes : \/ Attach(n) \/ AttachFails(n) \/ AttachAnswerLost(n)
                      \/ MountVolume(n) \/ MountFails(n) \/ MountAnswerLost(n)
  \/ AddVolumeBinding \/ UnmountBack \/ UnmountBackTimesOut \/ DetachBack

----------------------------------------------------------------------------
(* detatchAndUnmountLocalVolumeFromClusterVMs, then the binding row goes,  *)
(* or deleteLocalVolumeFromClusterVMs and the volumes row.                 *)

Releasing(s) == op \in {"unbind", "delete"} /\ step = s

UnmountVolume(n) ==
  /\ Releasing("unmount") /\ n \in left
  /\ Unmount(n, vol)
  /\ IF left = {n} THEN GoOn("detach", nodes) ELSE GoOn(step, left \ {n})
  /\ UNCHANGED <<slot, rows, faults, disturbed>>

\* Nobody looks at the result of umount: the host answers that it is done.
UnmountIgnored(n) ==
  /\ Releasing("unmount") /\ n \in left
  /\ Fault /\ disturbed' = TRUE
  /\ IF left = {n} THEN GoOn("detach", nodes) ELSE GoOn(step, left \ {n})
  /\ UNCHANGED <<disks, rows>>

\* The error is thrown again: the task ends in ERROR, nothing is mounted back.
UnmountFails(n) ==
  /\ Releasing("unmount") /\ n \in left
  /\ Fault /\ disturbed' = TRUE
  /\ (Unmount(n, vol) \/ UNCHANGED fstab)
  /\ Ends
  /\ UNCHANGED <<slot, rows>>

AfterRelease == IF op = "delete" THEN "erase" ELSE "finish"

\* attached is successDetatch here: the nodes to attach again on an error.
DetachVolume(n) ==
  /\ Releasing("detach") /\ n \in left
  /\ CanDetach(n, vol) /\ TakeDisk(n, vol)
  /\ attached' = attached \cup {n}
  /\ IF left = {n}
       THEN portIndex' = [portIndex EXCEPT ![vol] = NoPort] /\ Loop(AfterRelease, nodes)
       ELSE UNCHANGED portIndex /\ Loop(step, left \ {n})
  /\ UNCHANGED <<fstab, nodes, row, bound, op, vol, newNode, mounted, cached, faults, disturbed>>

DetachFails(n) ==
  /\ Releasing("detach") /\ n \in left
  /\ IF CanDetach(n, vol) THEN Fault /\ (TakeDisk(n, vol) \/ UNCHANGED slot)
                          ELSE NoFault /\ UNCHANGED slot
  /\ disturbed' = TRUE
  /\ GoOn("reattach", attached)
  /\ UNCHANGED <<fstab, rows>>

\* The catch block attaches the disks again, ignores errors and does not throw:
\* the task goes on as if the volume were released.
Reattach ==
  /\ Releasing("reattach")
  /\ \/ \E n \in left : /\ CanAttach(n, vol) /\ PutDisk(n, vol)
                        /\ GoOn(step, left \ {n}) /\ UNCHANGED faults
     \/ \E n \in left : /\ IF CanAttach(n, vol) THEN Fault ELSE NoFault
                        /\ FailToAttach(n, vol)
                        /\ GoOn(step, left \ {n}) /\ UNCHANGED slot
     \/ left = {} /\ GoOn(AfterRelease, nodes) /\ UNCHANGED <<slot, portIndex, faults>>
  /\ UNCHANGED <<fstab, nodes, row, bound, disturbed>>

RemoveVolumeBinding ==
  /\ op = "unbind" /\ step = "finish"
  /\ bound' = bound \ {vol}
  /\ Ends
  /\ UNCHANGED <<disks, nodes, row, portIndex, faults, disturbed>>

\* Mutant of EraseVolume: VirtualBox's refusal is ignored.
EraseVolumeAnyway ==
  /\ op = "delete" /\ step = "erase"
  /\ row' = [row EXCEPT ![vol] = "removed"]
  /\ Ends
  /\ UNCHANGED <<disks, nodes, portIndex, bound, faults, disturbed>>

\* The disk files go, VirtualBox keeps one that is attached; then the row goes.
EraseVolume ==
  /\ op = "delete" /\ step = "erase"
  /\ \/ \E n \in left : /\ ~IsAttached(n, vol)
                        /\ GoOn(step, left \ {n})
                        /\ UNCHANGED <<row, faults>>
     \/ \E n \in left : /\ IF IsAttached(n, vol) THEN NoFault ELSE Fault
                        /\ Ends /\ UNCHANGED row
     \/ left = {} /\ row' = [row EXCEPT ![vol] = "removed"] /\ Ends /\ UNCHANGED faults
  /\ UNCHANGED <<disks, nodes, portIndex, bound, disturbed>>

ReleaseStep ==
  \/ \E n \in Nodes : \/ UnmountVolume(n) \/ UnmountIgnored(n) \/ UnmountFails(n)
                      \/ DetachVolume(n) \/ DetachFails(n)
  \/ Reattach \/ RemoveVolumeBinding \/ EraseVolume

----------------------------------------------------------------------------
(* A worker joins: the bound volumes are attached and mounted on it, in    *)
(* the order of the ports their rows had when the task read them.          *)

\* The ports of the bound volumes are not 1..k: some volume before was unbound.
Gap == {portIndex[v] : v \in bound} # 1..Cardinality(bound)

AddWorker(n) ==
  /\ Idle
  /\ n \notin nodes
  /\ nodes' = nodes \cup {n}
  /\ disturbed' = (disturbed \/ Gap)
  /\ IF bound = {} THEN UNCHANGED task
     ELSE /\ op' = "grow" /\ newNode' = n
          /\ cached' = portIndex
          /\ Loop("attach", bound)
          /\ UNCHANGED <<vol, attached, mounted>>
  /\ UNCHANGED <<disks, row, portIndex, bound, faults>>

\* Mutant of IsNextVolume: the query loses its ORDER BY.
IsAnyVolume(v) == v \in left

\* ORDER BY "portIndex" ASC, nulls last.
IsNextVolume(v) ==
  /\ v \in left
  /\ cached[v] # NoPort => \A u \in left : cached[u] = NoPort \/ cached[v] <= cached[u]
  /\ cached[v] = NoPort => \A u \in left : cached[u] = NoPort

Growing(s, v) == op = "grow" /\ step = s /\ IsNextVolume(v)

GrowAttach(v) ==
  /\ Growing("attach", v)
  /\ CanAttach(newNode, v)
  /\ PutDisk(newNode, v)
  /\ GoOn("mount", left)
  /\ UNCHANGED <<fstab, nodes, row, bound, faults, disturbed>>

GrowMount(v) ==
  /\ Growing("mount", v)
  /\ CanMount(newNode, v, cached[v])
  /\ Mount(newNode, v, cached[v])
  /\ IF left = {v} THEN Ends ELSE GoOn("attach", left \ {v})
  /\ UNCHANGED <<slot, rows, faults, disturbed>>

\* The VM and all that is on it is gone; rows of volumes are not touched.
DropNode(n) ==
  /\ nodes' = nodes \ {n}
  /\ slot' = [slot EXCEPT ![n] = [p \in Ports |-> NoVolume]]
  /\ fstab' = [fstab EXCEPT ![n] = [v \in Volumes |-> NoPort]]

\* The catch block of a scale-up is entered; the row may hold the new port.
GrowFails(v) ==
  /\ \/ /\ Growing("attach", v)
        /\ IF CanAttach(newNode, v) THEN Fault ELSE NoFault
        /\ FailToAttach(newNode, v)
     \/ /\ Growing("mount", v)
        /\ IF CanMount(newNode, v, cached[v]) THEN Fault ELSE NoFault
        /\ UNCHANGED portIndex
  /\ GoOn("undo", {})
  /\ UNCHANGED <<disks, nodes, row, bound, disturbed>>

\* It undoes mounts and attachments and removes the worker again.
UndoGrow ==
  /\ op = "grow" /\ step = "undo"
  /\ DropNode(newNode)
  /\ Ends
  /\ UNCHANGED <<row, portIndex, bound, faults, disturbed>>

\* The disks of vs are detached from n, by the ports of their rows.
TakeDisks(n, vs) ==
  slot' = [slot EXCEPT ![n] = [p \in Ports |->
             IF \E v \in vs : portIndex[v] = p THEN NoVolume ELSE slot[n][p]]]

\* The removal is refused or times out, which is logged only: the worker stays,
\* with some of its folders unmounted and some of its disks detached.
UndoGrowFails ==
  /\ op = "grow" /\ step = "undo"
  /\ Fault /\ disturbed' = TRUE
  /\ \E vs \in SUBSET bound : TakeDisks(newNode, vs)
  /\ \E vs \in SUBSET bound : fstab' = [fstab EXCEPT ![newNode] =
       [v \in Volumes |-> IF v \in vs THEN NoPort ELSE fstab[newNode][v]]]
  /\ Ends
  /\ UNCHANGED rows

RemoveWorker(n) ==
  /\ Idle
  /\ n \in nodes \ InitNodes
  /\ DropNode(n)
  /\ UNCHANGED <<row, portIndex, bound, task, faults, disturbed>>

\* The disks of bound volumes go first, then the host refuses to remove the VM.
RemoveWorkerFails(n) ==
  /\ Idle
  /\ n \in nodes \ InitNodes
  /\ Fault /\ disturbed' = TRUE
  /\ \E vs \in SUBSET bound \ {{}} : TakeDisks(n, vs)
  /\ UNCHANGED <<fstab, rows, task>>

----------------------------------------------------------------------------
Next ==
  \/ \E v \in Volumes : \/ ProvisionVolume(v) \/ BindVolume(v) \/ UnbindVolume(v)
                        \/ DeprovisionVolume(v)
                        \/ GrowAttach(v) \/ GrowMount(v) \/ GrowFails(v)
  \/ BindStep \/ ReleaseStep
  \/ \E n \in Nodes : AddWorker(n) \/ RemoveWorker(n) \/ RemoveWorkerFails(n)
  \/ UndoGrow \/ UndoGrowFails

Spec == Init /\ [][Next]_vars

----------------------------------------------------------------------------
(* Properties.  disturbed says that an answer was lost, that a host failed *)
(* to unmount or detach, whether it said so or not, that the removal of a  *)
(* worker failed after disks were detached from it, in a scale-down or in  *)
(* the rollback of a scale-up, or that a worker was added over a gap in    *)
(* ports: the one portIndex may then be wrong for some nodes.              *)

\* A bound volume is attached at the row's port and mounted from it on every
\* node, however many binds failed and were rolled back and workers came and
\* went; and the folder of a volume never shows another volume's disk.
BoundIsUsable ==
  ~disturbed =>
    /\ Idle => \A v \in bound, n \in nodes :
         /\ portIndex[v] # NoPort
         /\ slot[n][portIndex[v]] = v
         /\ fstab[n][v] = portIndex[v]
    /\ \A n \in nodes, v \in Volumes : fstab[n][v] # NoPort => slot[n][fstab[n][v]] = v

\* A volume that is not bound has no disk on any VM, so that it can be bound
\* again and its port is free for others.  One whose row was removed is on no
\* VM, whatever failed before.
UnboundIsDetached ==
  /\ Idle /\ ~disturbed => \A v \in Volumes \ bound, n \in nodes :
       ~IsAttached(n, v) /\ fstab[n][v] = NoPort
  /\ \A v \in Volumes, n \in nodes : row[v] = "removed" => ~IsAttached(n, v)

=============================================================================
