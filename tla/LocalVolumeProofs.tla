------------------------ MODULE LocalVolumeProofs ------------------------
(***************************************************************************)
(* Proofs about LocalVolume, for any nodes, volumes, number of ports and   *)
(* bound on faults.                                                        *)
(*                                                                         *)
(* The inductive invariant says, for every moment of a task, which nodes   *)
(* have the disk of a volume and which have its folder mounted.  The heart *)
(* of it: on nodes that nothing has disturbed the same ports are free, so  *)
(* the port each host picks by itself is the one in the row.               *)
(***************************************************************************)
EXTENDS LocalVolume, FiniteSetTheorems, TLAPS

----------------------------------------------------------------------------
(* The inductive invariant.                                                *)

\* What the variables of the task hold, by the kind of task and its step.
TaskShape ==
  /\ op = "none" => step = "idle"
  /\ op \in {"none", "grow"} => vol = NoVolume
  /\ op = "bind" => /\ step \in {"attach", "mount", "unmountBack", "detachBack", "finish"}
                    /\ vol \in Volumes \ bound
  /\ op = "unbind" => /\ step \in {"unmount", "detach", "reattach", "finish"}
                      /\ vol \in bound
  /\ op = "delete" => /\ step \in {"unmount", "detach", "reattach", "erase"}
                      /\ vol \in Volumes \ bound
  /\ op \in {"bind", "unbind", "delete"} =>
       /\ row[vol] = "present"
       /\ left \subseteq nodes /\ attached \subseteq nodes /\ mounted \subseteq nodes
  /\ op = "grow" => /\ step \in {"attach", "mount", "undo"}
                    /\ newNode \in nodes \ InitNodes
                    /\ left \subseteq bound

RowsShape ==
  /\ \A v \in bound : row[v] = "present"
  /\ InitNodes \subseteq nodes
  /\ IsFiniteSet(bound)

OutsideIsEmpty ==
  \A n \in Nodes \ nodes : /\ \A p \in Ports : slot[n][p] = NoVolume
                          /\ \A v \in Volumes : fstab[n][v] = NoPort

\* The row of a volume goes only when no VM has its disk: the nodes the erasure
\* has done were seen without it.
RemovedIsDetached ==
  /\ \A v \in Volumes, n \in nodes : row[v] = "removed" => ~IsAttached(n, v)
  /\ step = "erase" => \A n \in nodes \ left : ~IsAttached(n, vol)

\* The disk of v is on the row's port of n and on no other port.
On(n, v) == /\ portIndex[v] \in Ports
            /\ \A p \in Ports : slot[n][p] = v <=> p = portIndex[v]

\* The task in progress having come this far, n has the disk of v.
HasDisk(n, v) ==
  IF v = vol
  THEN \/ op = "bind" /\ n \in (IF step = "detachBack" THEN left ELSE attached)
       \/ op = "unbind" /\ (step = "unmount" \/ (step = "detach" /\ n \in left))
  ELSE /\ v \in bound
       /\ op = "grow" /\ n = newNode => v \notin left \/ (step = "mount" /\ IsNextVolume(v))

\* The same for its folder.
HasMount(n, v) ==
  IF v = vol
  THEN \/ /\ op = "bind" /\ step # "detachBack"
          /\ n \in (IF step = "unmountBack" THEN left ELSE mounted)
       \/ op = "unbind" /\ step = "unmount" /\ n \in left
  ELSE v \in bound /\ (op = "grow" /\ n = newNode => v \notin left)

Placement ==
  \A n \in nodes, v \in Volumes :
    /\ IF HasDisk(n, v) THEN On(n, v) ELSE ~IsAttached(n, v)
    /\ fstab[n][v] = IF HasMount(n, v) THEN portIndex[v] ELSE NoPort

RowPorts ==
  /\ \A v \in Volumes \ {vol} :
       IF v \in bound THEN portIndex[v] \in Ports ELSE portIndex[v] = NoPort
  /\ op = "delete" => portIndex[vol] = NoPort
  /\ op = "unbind" => IF step = "finish" THEN portIndex[vol] = NoPort
                                         ELSE portIndex[vol] \in Ports

\* p is the first port that no bound volume has.
FirstFree(p) ==
  /\ p \in Ports
  /\ \A u \in bound : portIndex[u] # p
  /\ \A q \in Ports : q < p => \E u \in bound : portIndex[u] = q

\* From the first attachment of a bind on, the row and the task's copy of it
\* hold the first free port, which every later node will pick too.
BindShape == op = "bind" =>
  /\ mounted \subseteq attached
  /\ step = "attach" => attached = mounted
  /\ step = "mount" => \E n \in left : attached = mounted \cup {n}
  /\ step \in {"attach", "mount", "finish"} =>
       /\ mounted = nodes \ left
       /\ left = {} <=> step = "finish"
       /\ IF attached = {} THEN portIndex[vol] = NoPort
                           ELSE cached[vol] = portIndex[vol] /\ FirstFree(portIndex[vol])
  /\ step = "unmountBack" => left \subseteq mounted
  /\ step = "detachBack" => left \subseteq attached

ReleaseShape == op \in {"unbind", "delete"} =>
  /\ step # "reattach"
  /\ step \in {"unmount", "detach"} => left # {}

\* A worker joins: no gap below the ports of the bound volumes, and the volumes
\* it has already are those of the lowest ports.
GrowShape == op = "grow" =>
  /\ cached = portIndex
  /\ left # {}
  /\ \A v \in bound, q \in Ports : q < portIndex[v] => \E u \in bound : portIndex[u] = q
  /\ \A u \in bound \ left, v \in left : portIndex[u] < portIndex[v]

Parts == Placement /\ RowPorts /\ BindShape /\ ReleaseShape /\ GrowShape

\* A scale-up is rolled back: the other nodes have what is bound, and the
\* folders of the new one still show their own disks.
UndoParts ==
  /\ \A n \in nodes \ {newNode}, v \in Volumes :
       IF v \in bound THEN On(n, v) /\ fstab[n][v] = portIndex[v]
                      ELSE ~IsAttached(n, v) /\ fstab[n][v] = NoPort
  /\ \A v \in Volumes : fstab[newNode][v] # NoPort => slot[newNode][fstab[newNode][v]] = v
  /\ \A v \in Volumes : IF v \in bound THEN portIndex[v] \in Ports ELSE portIndex[v] = NoPort

PInv == ~disturbed => IF step = "undo" THEN UndoParts ELSE Parts

IInv == TypeOK /\ TaskShape /\ RowsShape /\ OutsideIsEmpty /\ RemovedIsDetached /\ PInv

----------------------------------------------------------------------------
(* Ports.                                                                  *)

\* A nonempty set of numbers has a smallest one.
LEMMA SmallestElement ==
  ASSUME NEW S, S \subseteq Nat, S # {}
  PROVE  \E m \in S : \A k \in S : m <= k
<1> DEFINE Less == OpToRel(<, Nat)
<1>1. IsWellFoundedOn(Less, Nat)
  BY NatLessThanWellFounded
<1> HIDE DEF Less
<1>2. PICK m \in S : \A k \in S : <<k, m>> \notin Less
  BY <1>1, WFMin
<1>3. \A k \in S : ~ (k < m)
  BY <1>2 DEF Less, OpToRel
<1> QED
  BY <1>3

\* getNextSATAPortIndex finds the first free port, if there is one.
LEMMA FirstFreePort ==
  ASSUME NEW n, FreePorts(n) # {}
  PROVE  /\ NextPort(n) \in FreePorts(n)
         /\ \A q \in FreePorts(n) : NextPort(n) <= q
<1>1. FreePorts(n) \subseteq Nat
  BY PortsAssumption DEF FreePorts, Ports
<1>2. \E p \in FreePorts(n) : \A q \in FreePorts(n) : p <= q
  BY <1>1, SmallestElement
<1> QED
  BY <1>2 DEF NextPort

\* It never names a port beyond the last.
LEMMA PortType == ASSUME NEW n PROVE NextPort(n) \in PortOrNone
<1>1. CASE FreePorts(n) = {}
  BY <1>1 DEF NextPort, PortOrNone
<1>2. CASE FreePorts(n) # {}
  BY <1>2, FirstFreePort DEF FreePorts, PortOrNone
<1> QED
  BY <1>1, <1>2

\* There is one first free port.
LEMMA SameFirst ==
  ASSUME NEW p, NEW q, FirstFree(p), FirstFree(q)
  PROVE  p = q
BY PortsAssumption DEF FirstFree, Ports

----------------------------------------------------------------------------
(* Types.                                                                  *)

\* The first state has the right types.
LEMMA TypeInit == Init => TypeOK
<1> SUFFICES ASSUME Init PROVE TypeOK
  OBVIOUS
<1>1. row \in [Volumes -> {"none", "present", "removed"}]
  BY DEF Init
<1>2. slot \in [Nodes -> [Ports -> Volumes \cup {NoVolume}]]
  BY DEF Init
<1>3. fstab \in [Nodes -> [Volumes -> PortOrNone]]
  BY DEF Init, PortOrNone
<1>4. portIndex \in [Volumes -> PortOrNone] /\ cached \in [Volumes -> PortOrNone]
  BY DEF Init, PortOrNone
<1>5. faults \in 0..MaxFaults
  BY BoundsAssumption DEF Init
<1>6. nodes \subseteq Nodes /\ bound = {} /\ left = {} /\ attached = {} /\ mounted = {}
  BY NodesAssumption DEF Init
<1> QED
  BY <1>1, <1>2, <1>3, <1>4, <1>5, <1>6 DEF Init, TypeOK, Ops, Steps

\* Attaching a disk keeps the types of the disks and of the row.
LEMMA PutDiskType ==
  ASSUME TypeOK, NEW n \in Nodes, NEW v \in Volumes, CanAttach(n, v), PutDisk(n, v)
  PROVE  /\ slot' \in [Nodes -> [Ports -> Volumes \cup {NoVolume}]]
         /\ portIndex' \in [Volumes -> PortOrNone]
<1>1. NextPort(n) \in Ports
  BY FirstFreePort DEF CanAttach, FreePorts
<1> QED
  BY <1>1 DEF TypeOK, PutDisk, PickPort, PortOrNone

\* So does an attachment that failed.
LEMMA FailToAttachType ==
  ASSUME TypeOK, NEW n \in Nodes, NEW v \in Volumes, FailToAttach(n, v)
  PROVE  portIndex' \in [Volumes -> PortOrNone]
BY PortType DEF TypeOK, FailToAttach, PickPort

\* So does detaching.
LEMMA TakeDiskType ==
  ASSUME TypeOK, NEW n \in Nodes, NEW v \in Volumes, TakeDisk(n, v)
  PROVE  slot' \in [Nodes -> [Ports -> Volumes \cup {NoVolume}]]
BY DEF TypeOK, TakeDisk

\* So does detaching several disks.
LEMMA TakeDisksType ==
  ASSUME TypeOK, NEW n \in Nodes \cup {NoNode}, NEW vs, TakeDisks(n, vs)
  PROVE  slot' \in [Nodes -> [Ports -> Volumes \cup {NoVolume}]]
<1>1. CASE n \in Nodes
  <2>1. [p \in Ports |-> IF \E v \in vs : portIndex[v] = p THEN NoVolume ELSE slot[n][p]]
          \in [Ports -> Volumes \cup {NoVolume}]
    BY <1>1 DEF TypeOK
  <2> QED
    BY <2>1 DEF TypeOK, TakeDisks
<1>2. CASE n \notin Nodes
  BY <1>2 DEF TypeOK, TakeDisks
<1> QED
  BY <1>1, <1>2

\* So do mounting and unmounting.
LEMMA MountType ==
  ASSUME TypeOK, NEW n \in Nodes, NEW v \in Volumes,
         Mount(n, v, cached[v]) \/ Unmount(n, v) \/ UNCHANGED fstab
  PROVE  fstab' \in [Nodes -> [Volumes -> PortOrNone]]
<1>1. ASSUME NEW p \in PortOrNone
      PROVE  [fstab EXCEPT ![n][v] = p] \in [Nodes -> [Volumes -> PortOrNone]]
  BY DEF TypeOK
<1>2. NoPort \in PortOrNone /\ cached[v] \in PortOrNone
  BY DEF TypeOK, PortOrNone
<1> QED
  BY <1>1, <1>2 DEF TypeOK, Mount, Unmount

\* The end of a task resets its variables to values of their types.
LEMMA EndsType == ASSUME TypeOK, Ends
  PROVE /\ op' \in Ops /\ step' \in Steps
        /\ vol' \in Volumes \cup {NoVolume} /\ newNode' \in Nodes \cup {NoNode}
        /\ left' = {} /\ attached' = {} /\ mounted' = {}
        /\ cached' \in [Volumes -> PortOrNone]
BY DEF Ends, Loop, Ops, Steps, PortOrNone

\* Every step keeps the types, given the shape of the task in progress.
LEMMA TypeStep == TypeOK /\ TaskShape /\ [Next]_vars => TypeOK'
<1> SUFFICES ASSUME TypeOK, TaskShape, [Next]_vars PROVE TypeOK'
  OBVIOUS
<1> USE BoundsAssumption
    DEF TypeOK, TaskShape, Ops, Steps, disks, rows, task, Loop, GoOn, Fault, NoFault, Idle
<1>1. ASSUME NEW v \in Volumes, ProvisionVolume(v) PROVE TypeOK'
  BY <1>1 DEF ProvisionVolume
<1>2. ASSUME NEW v \in Volumes, BindVolume(v) \/ UnbindVolume(v) \/ DeprovisionVolume(v)
      PROVE  TypeOK'
  BY <1>2 DEF BindVolume, UnbindVolume, DeprovisionVolume, Start
<1>3. ASSUME NEW n \in Nodes, Attach(n) PROVE TypeOK'
  BY <1>3, PutDiskType DEF Attach, Binding
<1>4. ASSUME NEW n \in Nodes, AttachFails(n) PROVE TypeOK'
  BY <1>4, FailToAttachType DEF AttachFails, Binding
<1>5. ASSUME NEW n \in Nodes, AttachAnswerLost(n) PROVE TypeOK'
  BY <1>5, PutDiskType DEF AttachAnswerLost, Binding
<1>6. ASSUME NEW n \in Nodes, MountVolume(n) \/ MountFails(n) \/ MountAnswerLost(n)
      PROVE  TypeOK'
  <2>1. fstab' \in [Nodes -> [Volumes -> PortOrNone]]
    BY <1>6, MountType DEF MountVolume, MountFails, MountAnswerLost, MountNext, Binding
  <2> QED
    <3>1. CASE MountVolume(n)
      BY <3>1, <2>1 DEF MountVolume, MountNext, Binding
    <3>2. CASE MountFails(n)
      BY <3>2, <2>1 DEF MountFails, MountNext, Binding
    <3>3. CASE MountAnswerLost(n)
      BY <3>3, <2>1 DEF MountAnswerLost, MountNext, Binding
    <3> QED BY <1>6, <3>1, <3>2, <3>3
<1>7. CASE AddVolumeBinding
  BY <1>7, EndsType DEF AddVolumeBinding
<1>8. CASE UnmountBack
  <2>1. fstab' \in [Nodes -> [Volumes -> PortOrNone]]
    BY <1>8, MountType DEF UnmountBack
  <2> QED
    <3>1. nodes' \subseteq Nodes /\ bound' \subseteq Volumes /\ UNCHANGED <<row, portIndex, slot>>
      BY <1>8 DEF UnmountBack
    <3>2. op' \in Ops /\ step' \in Steps /\ UNCHANGED <<vol, newNode, mounted, attached>>
      BY <1>8 DEF UnmountBack
    <3>3. left' \subseteq IF op' = "grow" THEN Volumes ELSE Nodes
      BY <1>8 DEF UnmountBack
    <3>4. faults' \in 0..MaxFaults
      BY <1>8 DEF UnmountBack
    <3>5. disturbed' \in BOOLEAN
      BY <1>8 DEF UnmountBack
    <3> QED BY <2>1, <3>1, <3>2, <3>3, <3>4, <3>5, <1>8 DEF UnmountBack
<1>9. CASE UnmountBackTimesOut
  BY <1>9, EndsType DEF UnmountBackTimesOut
<1>10. CASE DetachBack
  <2>1. slot' \in [Nodes -> [Ports -> Volumes \cup {NoVolume}]]
    BY <1>10, TakeDiskType DEF DetachBack
  <2>2. UNCHANGED <<fstab, nodes, row, bound>>
    BY <1>10 DEF DetachBack
  <2>3. /\ faults' \in 0..MaxFaults /\ disturbed' \in BOOLEAN
        /\ \/ \E n \in left : GoOn(step, left \ {n}) /\ UNCHANGED portIndex
           \/ Ends /\ portIndex' = [portIndex EXCEPT ![vol] = NoPort]
    <3> USE <1>10 DEF DetachBack
    <3>1. CASE \E n \in left : /\ TakeDisk(n, vol)
                               /\ GoOn(step, left \ {n})
                               /\ UNCHANGED <<portIndex, faults, disturbed>>
      BY <3>1
    <3>2. CASE \E n \in left : /\ IF CanDetach(n, vol) THEN Fault ELSE NoFault
                               /\ disturbed' = TRUE
                               /\ GoOn(step, left \ {n}) /\ UNCHANGED portIndex
      BY <3>2
    <3>3. CASE /\ Ends /\ portIndex' = [portIndex EXCEPT ![vol] = NoPort]
               /\ UNCHANGED <<faults, disturbed>>
      BY <3>3
    <3> QED
      BY <3>1, <3>2, <3>3
  <2>4. CASE \E n \in left : GoOn(step, left \ {n}) /\ UNCHANGED portIndex
    BY <2>1, <2>2, <2>3, <2>4
  <2>5. CASE Ends /\ portIndex' = [portIndex EXCEPT ![vol] = NoPort]
    BY <2>1, <2>2, <2>3, <2>5, EndsType DEF PortOrNone
  <2> QED
    BY <2>3, <2>4, <2>5
<1>11. ASSUME NEW n \in Nodes, UnmountVolume(n) PROVE TypeOK'
  <2>1. fstab' \in [Nodes -> [Volumes -> PortOrNone]]
    BY <1>11, MountType DEF UnmountVolume, Releasing
  <2> QED
    BY <1>11, <2>1 DEF UnmountVolume, Releasing
<1>12. ASSUME NEW n \in Nodes, UnmountFails(n) PROVE TypeOK'
  <2>1. fstab' \in [Nodes -> [Volumes -> PortOrNone]]
    BY <1>12, MountType DEF UnmountFails, Releasing
  <2>2. Ends /\ UNCHANGED <<slot, rows>> /\ faults' \in 0..MaxFaults /\ disturbed' \in BOOLEAN
    BY <1>12 DEF UnmountFails
  <2>3. /\ op' \in Ops /\ step' \in Steps
        /\ vol' \in Volumes \cup {NoVolume} /\ newNode' \in Nodes \cup {NoNode}
        /\ left' = {} /\ attached' = {} /\ mounted' = {}
        /\ cached' \in [Volumes -> PortOrNone]
    BY <2>2, EndsType
  <2>4. /\ nodes' \subseteq Nodes /\ bound' \subseteq Volumes
        /\ row' \in [Volumes -> {"none", "present", "removed"}]
    BY <2>2
  <2>5. /\ portIndex' \in [Volumes -> PortOrNone]
        /\ slot' \in [Nodes -> [Ports -> Volumes \cup {NoVolume}]]
    BY <2>2
  <2>6. left' \subseteq IF op' = "grow" THEN Volumes ELSE Nodes
    BY <2>3
  <2> QED
    BY <2>1, <2>2, <2>3, <2>4, <2>5, <2>6
<1>13. ASSUME NEW n \in Nodes, DetachVolume(n) PROVE TypeOK'
  BY <1>13, TakeDiskType DEF DetachVolume, Releasing, AfterRelease, PortOrNone
<1>14. ASSUME NEW n \in Nodes, DetachFails(n) PROVE TypeOK'
  BY <1>14, TakeDiskType DEF DetachFails, Releasing
<1>15. CASE Reattach
  BY <1>15, PutDiskType, FailToAttachType DEF Reattach, Releasing, AfterRelease
<1>16. CASE RemoveVolumeBinding
  BY <1>16, EndsType DEF RemoveVolumeBinding
<1>17. CASE EraseVolume
  BY <1>17, EndsType DEF EraseVolume
<1>18. ASSUME NEW n \in Nodes, AddWorker(n) PROVE TypeOK'
  BY <1>18 DEF AddWorker
<1>19. ASSUME NEW n \in Nodes, RemoveWorker(n) PROVE TypeOK'
  BY <1>19 DEF RemoveWorker, DropNode, PortOrNone
<1>20. ASSUME NEW v \in Volumes, GrowAttach(v) PROVE TypeOK'
  BY <1>20, PutDiskType DEF GrowAttach, Growing, IsNextVolume
<1>21. ASSUME NEW v \in Volumes, GrowMount(v) PROVE TypeOK'
  BY <1>21, EndsType DEF GrowMount, Growing, IsNextVolume, Mount
<1>22. ASSUME NEW v \in Volumes, GrowFails(v) PROVE TypeOK'
  BY <1>22, FailToAttachType DEF GrowFails, Growing
<1>23. CASE UNCHANGED vars
  BY <1>23 DEF vars
<1>24. ASSUME NEW n \in Nodes, UnmountIgnored(n) PROVE TypeOK'
  BY <1>24 DEF UnmountIgnored, Releasing
<1>25. CASE UndoGrow
  BY <1>25, EndsType DEF UndoGrow, DropNode, PortOrNone
<1>26. CASE UndoGrowFails
  <2>1. slot' \in [Nodes -> [Ports -> Volumes \cup {NoVolume}]]
    BY <1>26, TakeDisksType DEF UndoGrowFails
  <2>2. fstab' \in [Nodes -> [Volumes -> PortOrNone]]
    BY <1>26 DEF UndoGrowFails, PortOrNone
  <2>3. UNCHANGED rows /\ Ends /\ faults' \in 0..MaxFaults /\ disturbed' = TRUE
    BY <1>26 DEF UndoGrowFails
  <2> QED
    BY <2>1, <2>2, <2>3, EndsType
<1>27. ASSUME NEW n \in Nodes, RemoveWorkerFails(n) PROVE TypeOK'
  <2>1. slot' \in [Nodes -> [Ports -> Volumes \cup {NoVolume}]]
    BY <1>27, TakeDisksType DEF RemoveWorkerFails
  <2>2. UNCHANGED <<fstab, rows, task>> /\ faults' \in 0..MaxFaults /\ disturbed' = TRUE
    BY <1>27 DEF RemoveWorkerFails
  <2> QED
    BY <2>1, <2>2
<1> QED
  BY <1>1, <1>2, <1>3, <1>4, <1>5, <1>6, <1>7, <1>8, <1>9, <1>10, <1>11, <1>12, <1>13,
     <1>14, <1>15, <1>16, <1>17, <1>18, <1>19, <1>20, <1>21, <1>22, <1>23, <1>24,
     <1>25, <1>26, <1>27
     DEF Next, BindStep, ReleaseStep

----------------------------------------------------------------------------
(* What each operation on a VM does to every port and folder.              *)

\* Attaching puts the disk on the first free port and writes that port.
LEMMA PutDiskAt ==
  ASSUME TypeOK, NEW n \in Nodes, NEW v \in Volumes, CanAttach(n, v), PutDisk(n, v)
  PROVE  /\ NextPort(n) \in Ports /\ slot[n][NextPort(n)] = NoVolume
         /\ \A m \in Nodes, p \in Ports :
              slot'[m][p] = IF m = n /\ p = NextPort(n) THEN v ELSE slot[m][p]
         /\ \A u \in Volumes : portIndex'[u] = IF u = v THEN NextPort(n) ELSE portIndex[u]
<1>1. NextPort(n) \in FreePorts(n)
  BY FirstFreePort DEF CanAttach
<1> QED
  BY <1>1 DEF FreePorts, TypeOK, PutDisk, PickPort

\* Detaching empties the row's port, and no port if that is null.
LEMMA TakeDiskAt ==
  ASSUME TypeOK, NEW n \in Nodes, NEW v \in Volumes, TakeDisk(n, v)
  PROVE  \A m \in Nodes, p \in Ports :
           slot'[m][p] = IF m = n /\ p = portIndex[v] THEN NoVolume ELSE slot[m][p]
BY PortsAssumption DEF TypeOK, TakeDisk, PortOrNone, NoPort, Ports

\* Detaching several disks empties ports of one node.
LEMMA TakeDisksAt ==
  ASSUME TypeOK, NEW n \in Nodes, NEW vs, TakeDisks(n, vs)
  PROVE  \A m \in Nodes, p \in Ports : slot'[m][p] \in {slot[m][p], NoVolume}
BY DEF TypeOK, TakeDisks

\* Removing a VM removes what is on it.
LEMMA DropNodeAt ==
  ASSUME TypeOK, NEW n \in Nodes, DropNode(n)
  PROVE  /\ nodes' = nodes \ {n}
         /\ \A m \in Nodes, p \in Ports : slot'[m][p] = IF m = n THEN NoVolume ELSE slot[m][p]
         /\ \A m \in Nodes, v \in Volumes : fstab'[m][v] = IF m = n THEN NoPort ELSE fstab[m][v]
BY DEF TypeOK, DropNode

\* Mounting leaves a folder that is mounted as it is.
LEMMA MountAt ==
  ASSUME TypeOK, NEW n \in Nodes, NEW v \in Volumes, NEW p \in PortOrNone, Mount(n, v, p)
  PROVE  \A m \in Nodes, u \in Volumes :
           fstab'[m][u] = IF m = n /\ u = v /\ fstab[n][v] = NoPort THEN p ELSE fstab[m][u]
BY DEF TypeOK, Mount

\* Unmounting touches one folder of one node.
LEMMA UnmountAt ==
  ASSUME TypeOK, NEW n \in Nodes, NEW v \in Volumes, Unmount(n, v)
  PROVE  \A m \in Nodes, u \in Volumes :
           fstab'[m][u] = IF m = n /\ u = v THEN NoPort ELSE fstab[m][u]
BY DEF TypeOK, Unmount

----------------------------------------------------------------------------
(* The parts of the invariant that hold whatever failed before.            *)

\* Every step keeps the shape of the task.
LEMMA TaskShapeStep == TypeOK /\ TaskShape /\ RowsShape /\ [Next]_vars => TaskShape'
<1> SUFFICES ASSUME TypeOK, TaskShape, RowsShape, [Next]_vars PROVE TaskShape'
  OBVIOUS
<1> USE NoValuesAssumption
    DEF TypeOK, TaskShape, RowsShape, Ops, Steps, disks, rows, task, Loop, GoOn, NoFault, Idle
<1>1. ASSUME NEW v \in Volumes, ProvisionVolume(v) PROVE TaskShape'
  BY <1>1 DEF ProvisionVolume
<1>2. ASSUME NEW v \in Volumes, BindVolume(v) \/ UnbindVolume(v) \/ DeprovisionVolume(v)
      PROVE  TaskShape'
  BY <1>2 DEF BindVolume, UnbindVolume, DeprovisionVolume, Start
<1>3. ASSUME NEW n \in Nodes, Attach(n) \/ AttachFails(n) \/ AttachAnswerLost(n)
      PROVE  TaskShape'
  BY <1>3 DEF Attach, AttachFails, AttachAnswerLost, Binding
<1>4. ASSUME NEW n \in Nodes, MountVolume(n) \/ MountFails(n) \/ MountAnswerLost(n)
      PROVE  TaskShape'
  BY <1>4 DEF MountVolume, MountFails, MountAnswerLost, MountNext, Binding
<1>5. CASE AddVolumeBinding \/ RemoveVolumeBinding \/ UnmountBackTimesOut
  BY <1>5 DEF AddVolumeBinding, Ends, RemoveVolumeBinding, UnmountBackTimesOut
<1>6. CASE UnmountBack
  BY <1>6 DEF UnmountBack
<1>7. CASE DetachBack
  BY <1>7 DEF DetachBack, Ends
<1>8. ASSUME NEW n \in Nodes, UnmountVolume(n) \/ UnmountIgnored(n) \/ UnmountFails(n)
      PROVE  TaskShape'
  BY <1>8 DEF UnmountVolume, UnmountIgnored, UnmountFails, Releasing, Ends
<1>9. ASSUME NEW n \in Nodes, DetachVolume(n) \/ DetachFails(n) PROVE TaskShape'
  BY <1>9 DEF DetachVolume, DetachFails, Releasing, AfterRelease
<1>10. CASE Reattach
  BY <1>10 DEF Reattach, Releasing, AfterRelease
<1>11. CASE EraseVolume
  BY <1>11 DEF EraseVolume, Ends
<1>12. ASSUME NEW n \in Nodes, AddWorker(n) PROVE TaskShape'
  BY <1>12 DEF AddWorker
<1>13. ASSUME NEW n \in Nodes, RemoveWorker(n) \/ RemoveWorkerFails(n) PROVE TaskShape'
  BY <1>13 DEF RemoveWorker, RemoveWorkerFails, DropNode
<1>14. ASSUME NEW v \in Volumes, GrowAttach(v) \/ GrowMount(v) \/ GrowFails(v)
       PROVE  TaskShape'
  BY <1>14 DEF GrowAttach, GrowMount, GrowFails, Growing, IsNextVolume, Ends
<1>15. CASE UNCHANGED vars
  BY <1>15 DEF vars
<1>16. CASE UndoGrow \/ UndoGrowFails
  BY <1>16 DEF UndoGrow, UndoGrowFails, Ends
<1> QED
  BY <1>1, <1>2, <1>3, <1>4, <1>5, <1>6, <1>7, <1>8, <1>9, <1>10, <1>11, <1>12, <1>13,
     <1>14, <1>15, <1>16
     DEF Next, BindStep, ReleaseStep

\* What a step may do to the rows of the database.
LEMMA RowsChange ==
  ASSUME TypeOK, TaskShape, [Next]_vars
  PROVE  /\ \A v \in Volumes : \/ row'[v] = row[v]
                               \/ row[v] = "none" /\ row'[v] = "present"
                               \/ /\ row'[v] = "removed" /\ v = vol /\ v \notin bound
                                  /\ step = "erase" /\ left = {} /\ UNCHANGED <<nodes, bound>>
         /\ \/ bound' = bound
            \/ vol \in Volumes /\ row[vol] = "present" /\ bound' = bound \cup {vol}
            \/ bound' = bound \ {vol}
         /\ \/ nodes' = nodes
            \/ \E n \in Nodes : /\ n \notin nodes /\ nodes' = nodes \cup {n}
                               /\ UNCHANGED <<disks, row>>
            \/ \E n \in Nodes \ InitNodes : nodes' = nodes \ {n}
<1> USE DEF rows, task, disks
<1>1. ASSUME NEW v \in Volumes,
             \/ ProvisionVolume(v) \/ BindVolume(v) \/ UnbindVolume(v) \/ DeprovisionVolume(v)
             \/ GrowAttach(v) \/ GrowMount(v) \/ GrowFails(v)
      PROVE  /\ UNCHANGED <<nodes, bound>>
             /\ row' = row \/ (row[v] = "none" /\ row' = [row EXCEPT ![v] = "present"])
  BY <1>1
     DEF ProvisionVolume, BindVolume, UnbindVolume, DeprovisionVolume, Start,
         GrowAttach, GrowMount, GrowFails
<1>2. ASSUME UndoGrow
      PROVE  UNCHANGED <<row, bound>> /\ \E n \in Nodes \ InitNodes : nodes' = nodes \ {n}
  BY <1>2 DEF UndoGrow, DropNode, TypeOK, TaskShape
<1>7. ASSUME UndoGrowFails \/ \E n \in Nodes : RemoveWorkerFails(n)
      PROVE  UNCHANGED <<row, bound, nodes>>
  BY <1>7 DEF UndoGrowFails, RemoveWorkerFails
<1>3. CASE BindStep
  BY <1>3
     DEF BindStep, Attach, AttachFails, AttachAnswerLost, MountVolume, MountFails,
         TaskShape, MountAnswerLost, AddVolumeBinding, UnmountBack,
         UnmountBackTimesOut, DetachBack
<1>4. CASE ReleaseStep
  BY <1>4
     DEF ReleaseStep, UnmountVolume, UnmountIgnored, UnmountFails, DetachVolume,
         DetachFails, Reattach, RemoveVolumeBinding, EraseVolume, TaskShape, TypeOK
<1>5. ASSUME NEW n \in Nodes, AddWorker(n) \/ RemoveWorker(n)
      PROVE  /\ UNCHANGED <<row, bound>>
             /\ \/ n \notin nodes /\ nodes' = nodes \cup {n} /\ UNCHANGED disks
                \/ n \notin InitNodes /\ nodes' = nodes \ {n}
  BY <1>5 DEF AddWorker, RemoveWorker, DropNode
<1>6. CASE UNCHANGED vars
  BY <1>6 DEF vars
<1> QED
  BY <1>1, <1>2, <1>3, <1>4, <1>5, <1>6, <1>7 DEF Next, TypeOK

\* Bound volumes keep their row, and the workspace its first nodes.
LEMMA RowsShapeStep ==
  ASSUME TypeOK, TaskShape, RowsShape, [Next]_vars
  PROVE  RowsShape'
<1>1. \A v \in bound' : row'[v] = "present"
  BY RowsChange DEF TypeOK, RowsShape
<1>2. InitNodes \subseteq nodes'
  BY RowsChange DEF RowsShape
<1>3. IsFiniteSet(bound')
  BY RowsChange, FS_AddElement, FS_RemoveElement DEF RowsShape
<1> QED
  BY <1>1, <1>2, <1>3 DEF RowsShape

\* A step puts disks and mounts only on nodes that stay in the cluster, and only
\* disks of volumes that have a row; a node that leaves loses them all.
LEMMA DisksChange ==
  ASSUME TypeOK, TaskShape, RowsShape, [Next]_vars
  PROVE  \A n \in Nodes :
           /\ \A p \in Ports : \/ slot'[n][p] \in {slot[n][p], NoVolume}
                              \/ /\ n \in nodes \cap nodes' /\ nodes' = nodes
                                 /\ slot'[n][p] \in Volumes /\ row[slot'[n][p]] = "present"
           /\ \A v \in Volumes : \/ fstab'[n][v] \in {fstab[n][v], NoPort}
                                 \/ n \in nodes /\ nodes' = nodes
           /\ n \in nodes \ nodes' => /\ \A p \in Ports : slot'[n][p] = NoVolume
                                     /\ \A v \in Volumes : fstab'[n][v] = NoPort
<1> DEFINE P(n) ==
             /\ \A p \in Ports : \/ slot'[n][p] \in {slot[n][p], NoVolume}
                                \/ /\ n \in nodes /\ nodes' = nodes
                                   /\ slot'[n][p] \in Volumes /\ row[slot'[n][p]] = "present"
             /\ \A v \in Volumes : \/ fstab'[n][v] \in {fstab[n][v], NoPort}
                                   \/ n \in nodes /\ nodes' = nodes
             /\ n \in nodes \ nodes' => /\ \A p \in Ports : slot'[n][p] = NoVolume
                                       /\ \A v \in Volumes : fstab'[n][v] = NoPort
<1> USE DEF rows, task, disks
<1>1. ASSUME UNCHANGED <<slot, fstab>>, nodes \subseteq nodes'
      PROVE  \A n \in Nodes : P(n)
  BY <1>1
<1>2. ASSUME NEW n \in Nodes, Attach(n) \/ AttachAnswerLost(n)
      PROVE  \A m \in Nodes : P(m)
  BY <1>2, PutDiskAt DEF Attach, AttachAnswerLost, Binding, TaskShape
<1>3. ASSUME NEW n \in Nodes,
             AttachFails(n) \/ MountFails(n)
      PROVE  \A m \in Nodes : P(m)
  BY <1>3 DEF AttachFails, MountFails
<1>4. ASSUME NEW n \in Nodes, MountVolume(n) \/ MountAnswerLost(n)
      PROVE  \A m \in Nodes : P(m)
  <2>1. cached[vol] \in PortOrNone /\ n \in nodes /\ vol \in Volumes
    BY <1>4 DEF MountVolume, MountAnswerLost, MountNext, Binding, TaskShape, TypeOK
  <2>2. Mount(n, vol, cached[vol]) /\ UNCHANGED <<nodes, slot>>
    BY <1>4 DEF MountVolume, MountAnswerLost
  <2> QED
    BY <2>1, <2>2, MountAt
<1>5. CASE UnmountBack
  <2>1. vol \in Volumes /\ left \subseteq Nodes
    BY <1>5 DEF UnmountBack, TaskShape, TypeOK
  <2>2. UNCHANGED <<slot, nodes>> /\ (UNCHANGED fstab \/ \E n \in left : Unmount(n, vol))
    BY <1>5 DEF UnmountBack
  <2> QED
    BY <2>1, <2>2, UnmountAt
<1>6. CASE DetachBack
  <2>1. vol \in Volumes /\ left \subseteq Nodes
    BY <1>6 DEF DetachBack, TaskShape, TypeOK
  <2>2. UNCHANGED <<fstab, nodes>> /\ (UNCHANGED slot \/ \E n \in left : TakeDisk(n, vol))
    BY <1>6 DEF DetachBack
  <2> QED
    BY <2>1, <2>2, TakeDiskAt
<1>7. CASE AddVolumeBinding \/ UnmountBackTimesOut \/ RemoveVolumeBinding \/ EraseVolume
  BY <1>7 DEF AddVolumeBinding, UnmountBackTimesOut, RemoveVolumeBinding, EraseVolume
<1>8. ASSUME NEW n \in Nodes, UnmountVolume(n) \/ UnmountIgnored(n) \/ UnmountFails(n)
      PROVE  \A m \in Nodes : P(m)
  BY <1>8, UnmountAt
     DEF UnmountVolume, UnmountIgnored, UnmountFails, Releasing, TaskShape, TypeOK
<1>9. ASSUME NEW n \in Nodes, DetachVolume(n) \/ DetachFails(n)
      PROVE  \A m \in Nodes : P(m)
  BY <1>9, TakeDiskAt DEF DetachVolume, DetachFails, Releasing, TaskShape, TypeOK
<1>10. CASE Reattach
  <2>1. vol \in Volumes /\ row[vol] = "present" /\ left \subseteq nodes /\ nodes \subseteq Nodes
    BY <1>10 DEF Reattach, Releasing, TaskShape, TypeOK
  <2>2. UNCHANGED <<fstab, nodes>>
        /\ (UNCHANGED slot \/ \E n \in left : CanAttach(n, vol) /\ PutDisk(n, vol))
    BY <1>10 DEF Reattach
  <2> QED
    BY <2>1, <2>2, PutDiskAt
<1>11. ASSUME NEW v \in Volumes, GrowAttach(v) PROVE \A m \in Nodes : P(m)
  BY <1>11, PutDiskAt
     DEF GrowAttach, Growing, IsNextVolume, TaskShape, RowsShape, TypeOK
<1>12. ASSUME NEW v \in Volumes, GrowMount(v) PROVE \A m \in Nodes : P(m)
  <2>1. cached[v] \in PortOrNone /\ newNode \in nodes
    BY <1>12 DEF GrowMount, Growing, TaskShape, TypeOK
  <2>2. Mount(newNode, v, cached[v]) /\ UNCHANGED <<nodes, slot>>
    BY <1>12 DEF GrowMount
  <2> QED
    BY <2>1, <2>2, MountAt DEF TypeOK
<1>13. ASSUME NEW n \in Nodes, DropNode(n) PROVE \A m \in Nodes : P(m)
  BY <1>13, DropNodeAt
<1>14. ASSUME NEW v \in Volumes, GrowFails(v) PROVE \A m \in Nodes : P(m)
  BY <1>14 DEF GrowFails
<1>20. CASE UndoGrow
  BY <1>20, <1>13 DEF UndoGrow, TaskShape, TypeOK
<1>21. CASE UndoGrowFails
  <2>1. newNode \in Nodes /\ newNode \in nodes
    BY <1>21 DEF UndoGrowFails, TaskShape, TypeOK
  <2>2. \A m \in Nodes, p \in Ports : slot'[m][p] \in {slot[m][p], NoVolume}
    BY <1>21, <2>1, TakeDisksAt DEF UndoGrowFails
  <2>3. \A m \in Nodes, v \in Volumes : fstab'[m][v] \in {fstab[m][v], NoPort}
    BY <1>21, <2>1 DEF UndoGrowFails, TypeOK
  <2>4. nodes' = nodes
    BY <1>21 DEF UndoGrowFails
  <2> QED
    BY <2>2, <2>3, <2>4
<1>22. ASSUME NEW n \in Nodes, RemoveWorkerFails(n) PROVE \A m \in Nodes : P(m)
  <2>1. \A m \in Nodes, p \in Ports : slot'[m][p] \in {slot[m][p], NoVolume}
    BY <1>22, TakeDisksAt DEF RemoveWorkerFails
  <2> QED
    BY <1>22, <2>1 DEF RemoveWorkerFails
<1>15. ASSUME NEW v \in Volumes,
              ProvisionVolume(v) \/ BindVolume(v) \/ UnbindVolume(v) \/ DeprovisionVolume(v)
       PROVE  \A m \in Nodes : P(m)
  BY <1>15 DEF ProvisionVolume, BindVolume, UnbindVolume, DeprovisionVolume, Start
<1>16. ASSUME NEW n \in Nodes, AddWorker(n) PROVE \A m \in Nodes : P(m)
  BY <1>16 DEF AddWorker
<1>17. ASSUME NEW n \in Nodes, RemoveWorker(n) PROVE \A m \in Nodes : P(m)
  BY <1>17, <1>13 DEF RemoveWorker
<1>18. CASE UNCHANGED vars
  BY <1>18 DEF vars
<1>19. \A n \in Nodes : P(n)
  BY <1>2, <1>3, <1>4, <1>5, <1>6, <1>7, <1>8, <1>9, <1>10, <1>11, <1>12, <1>14, <1>15,
     <1>16, <1>17, <1>18, <1>20, <1>21, <1>22
     DEF Next, BindStep, ReleaseStep
<1> QED
  BY <1>19

\* Nothing is on a VM outside the cluster.
LEMMA OutsideStep ==
  ASSUME TypeOK, TaskShape, RowsShape, OutsideIsEmpty, [Next]_vars
  PROVE  OutsideIsEmpty'
<1> SUFFICES ASSUME NEW n \in Nodes \ nodes'
             PROVE  /\ \A p \in Ports : slot'[n][p] = NoVolume
                    /\ \A v \in Volumes : fstab'[n][v] = NoPort
  BY DEF OutsideIsEmpty
<1>1. CASE n \in nodes
  BY <1>1, DisksChange
<1>2. CASE n \notin nodes
  BY <1>2, DisksChange DEF OutsideIsEmpty
<1> QED
  BY <1>1, <1>2

\* Only EraseVolume is possible while the disk files are removed.
LEMMA OnlyErase ==
  ASSUME TypeOK, TaskShape, [Next]_vars, step = "erase"
  PROVE  EraseVolume \/ UNCHANGED vars
<1>1. op = "delete" /\ ~Idle
  BY DEF TaskShape, TypeOK, Ops, Idle
<1> USE <1>1
<1>2. ~BindStep
  BY DEF BindStep, Attach, AttachFails, AttachAnswerLost, MountVolume, MountFails,
         MountAnswerLost, MountNext, Binding, AddVolumeBinding, UnmountBack,
         UnmountBackTimesOut, DetachBack
<1>3. ReleaseStep => EraseVolume
  BY DEF ReleaseStep, UnmountVolume, UnmountIgnored, UnmountFails, DetachVolume,
         DetachFails, Reattach, Releasing, RemoveVolumeBinding
<1> QED
  BY <1>2, <1>3
     DEF Next, ProvisionVolume, BindVolume, UnbindVolume, DeprovisionVolume, Start,
         GrowAttach, GrowMount, GrowFails, Growing, AddWorker, RemoveWorker,
         UndoGrow, UndoGrowFails, RemoveWorkerFails

\* A row goes only when no VM has the disk, and no disk comes back without a row.
LEMMA RemovedStep ==
  ASSUME TypeOK, TaskShape, RowsShape, OutsideIsEmpty, RemovedIsDetached, [Next]_vars
  PROVE  RemovedIsDetached'
<1>1. ASSUME NEW v \in Volumes, NEW n \in nodes', row'[v] = "removed"
      PROVE  ~IsAttached(n, v)'
  <2>1. n \in Nodes
    BY TypeStep DEF TypeOK
  <2>2. \/ row[v] = "removed"
        \/ v = vol /\ step = "erase" /\ left = {} /\ nodes' = nodes
    BY <1>1, RowsChange
  <2>3. CASE row[v] = "removed"
    <3>1. ~IsAttached(n, v)
      BY <2>1, <2>3, NoValuesAssumption
         DEF RemovedIsDetached, OutsideIsEmpty, IsAttached
    <3> QED
      BY <2>1, <2>3, <3>1, DisksChange, NoValuesAssumption DEF IsAttached
  <2>4. CASE v = vol /\ step = "erase" /\ left = {} /\ nodes' = nodes
    BY <2>4, OnlyErase DEF RemovedIsDetached, IsAttached, EraseVolume, disks, vars
  <2> QED
    BY <2>2, <2>3, <2>4
<1>2. ASSUME step' = "erase", NEW n \in nodes' \ left' PROVE ~IsAttached(n, vol)'
  <2>1. CASE step = "erase"
    <3>1. EraseVolume \/ UNCHANGED vars
      BY <2>1, OnlyErase
    <3>2. UNCHANGED <<slot, vol, nodes>>
            /\ (left' = left \/ \E m \in left : ~IsAttached(m, vol) /\ left' = left \ {m})
      BY <1>2, <3>1 DEF EraseVolume, disks, vars, rows, task, GoOn, Loop, Ends
    <3> QED
      BY <1>2, <2>1, <3>2 DEF RemovedIsDetached, IsAttached
  <2>2. CASE step # "erase"
    <3>1. left' = nodes'
      BY <1>2, <2>2
         DEF Next, BindStep, ReleaseStep, Attach, AttachFails, AttachAnswerLost,
             MountVolume, MountFails, MountAnswerLost, AddVolumeBinding, UnmountBack,
             UnmountBackTimesOut, DetachBack, UnmountVolume, UnmountIgnored, UnmountFails,
             DetachVolume, DetachFails, Reattach, Releasing, RemoveVolumeBinding,
             EraseVolume, ProvisionVolume, BindVolume, UnbindVolume, DeprovisionVolume,
             Start, GrowAttach, GrowMount, GrowFails, Growing, AddWorker, RemoveWorker,
             UndoGrow, UndoGrowFails, RemoveWorkerFails, Idle, vars, task, rows, GoOn, Loop, Ends
    <3> QED
      BY <1>2, <3>1
  <2> QED
    BY <2>1, <2>2
<1> QED
  BY <1>1, <1>2 DEF RemovedIsDetached, IsAttached

----------------------------------------------------------------------------
(* Where the disks are, as long as nothing disturbed them.                 *)

\* What disturbed a workspace is not forgotten.
LEMMA Monotone == ASSUME TypeOK, [Next]_vars, disturbed PROVE disturbed'
BY DEF Next, BindStep, ReleaseStep, Attach, AttachFails, AttachAnswerLost, MountVolume,
       MountFails, MountAnswerLost, AddVolumeBinding, UnmountBack, UnmountBackTimesOut,
       DetachBack, UnmountVolume, UnmountIgnored, UnmountFails, DetachVolume,
       DetachFails, Reattach, UndoGrow, UndoGrowFails, RemoveWorkerFails,
       RemoveVolumeBinding, EraseVolume, ProvisionVolume, BindVolume, UnbindVolume,
       DeprovisionVolume, Start, GrowAttach, GrowMount, GrowFails, AddWorker,
       RemoveWorker, vars

\* On a node that has the disks of exactly B, the free ports are those that no row
\* of B names.
LEMMA FreeAt ==
  ASSUME IInv, Parts, NEW n \in nodes, NEW B \in SUBSET bound,
         \A v \in Volumes : HasDisk(n, v) <=> v \in B
  PROVE  \A p \in Ports : p \in FreePorts(n) <=> \A u \in B : portIndex[u] # p
<1> USE DEF IInv, Parts, TypeOK
<1>1. n \in Nodes
  OBVIOUS
<1>2. \A u \in B : portIndex[u] \in Ports /\ slot[n][portIndex[u]] = u
  BY DEF Placement, On
<1>3. \A u \in Volumes \ B : ~IsAttached(n, u)
  BY DEF Placement
<1> QED
  BY <1>1, <1>2, <1>3, NoValuesAssumption DEF FreePorts, IsAttached, Placement, On

\* A host whose VM has just the bound volumes picks the first free port.
LEMMA NextIsFirst ==
  ASSUME IInv, Parts, NEW n \in nodes, FreePorts(n) # {},
         \A v \in Volumes : HasDisk(n, v) <=> v \in bound
  PROVE  FirstFree(NextPort(n))
<1>1. NextPort(n) \in FreePorts(n) /\ \A q \in FreePorts(n) : NextPort(n) <= q
  BY FirstFreePort
<1>2. \A p \in Ports : p \in FreePorts(n) <=> \A u \in bound : portIndex[u] # p
  BY FreeAt
<1>3. NextPort(n) \in Ports
  BY <1>1 DEF FreePorts
<1> QED
  BY <1>1, <1>2, <1>3, PortsAssumption DEF FirstFree, Ports

\* Two bound volumes have two ports: a master has both disks.
LEMMA DistinctPorts ==
  ASSUME IInv, Parts, op = "grow", NEW u \in bound, NEW v \in bound, portIndex[u] = portIndex[v]
  PROVE  u = v
<1>1. PICK m \in InitNodes : m # newNode /\ m \in nodes
  BY NodesAssumption DEF IInv, TaskShape, RowsShape
<1>2. vol = NoVolume /\ u \in Volumes /\ v \in Volumes
  BY DEF IInv, TaskShape, TypeOK
<1>3. HasDisk(m, u) /\ HasDisk(m, v)
  BY <1>1, <1>2, NoValuesAssumption DEF HasDisk
<1> QED
  BY <1>1, <1>2, <1>3 DEF Parts, Placement, On

\* A worker that joins without a gap gets each disk on the port of its row: the
\* ports below are those of the volumes it has already, and no other.
LEMMA GrowPort ==
  ASSUME IInv, Parts, NEW v \in Volumes, Growing("attach", v)
  PROVE  portIndex[v] \in FreePorts(newNode) /\ NextPort(newNode) = portIndex[v]
<1> USE DEF IInv, Parts
<1>1. /\ op = "grow" /\ step = "attach" /\ v \in left /\ vol = NoVolume
      /\ newNode \in nodes /\ left \subseteq bound /\ v \in bound
  BY DEF Growing, IsNextVolume, TaskShape
<1>2. /\ cached = portIndex
      /\ \A w \in bound, q \in Ports : q < portIndex[w] => \E u \in bound : portIndex[u] = q
      /\ \A u \in bound \ left, w \in left : portIndex[u] < portIndex[w]
  BY <1>1 DEF GrowShape
<1>3. \A u \in bound : portIndex[u] \in Ports
  BY <1>1, NoValuesAssumption DEF RowPorts, TypeOK
<1>4. \A u \in left : portIndex[v] <= portIndex[u]
  BY <1>1, <1>2, <1>3, PortsAssumption DEF Growing, IsNextVolume, Ports, NoPort
<1>5. \A w \in Volumes : HasDisk(newNode, w) <=> w \in bound \ left
  BY <1>1, NoValuesAssumption DEF HasDisk
<1>6. \A p \in Ports : p \in FreePorts(newNode) <=> \A u \in bound \ left : portIndex[u] # p
  BY <1>1, <1>5, FreeAt
<1>7. portIndex[v] \in FreePorts(newNode)
  BY <1>1, <1>2, <1>3, <1>6, PortsAssumption DEF Ports
<1>8. \A q \in FreePorts(newNode) : portIndex[v] <= q
  <2> SUFFICES ASSUME NEW q \in FreePorts(newNode), q < portIndex[v] PROVE FALSE
    BY <1>1, <1>3, PortsAssumption DEF FreePorts, Ports
  <2>1. q \in Ports
    BY DEF FreePorts
  <2>2. PICK u \in bound : portIndex[u] = q
    BY <1>1, <1>2, <2>1
  <2>3. u \notin left
    BY <2>2, <1>4, <2>1, <1>3, <1>1, PortsAssumption DEF Ports
  <2> QED
    BY <1>6, <2>1, <2>2, <2>3
<1>9. /\ NextPort(newNode) \in FreePorts(newNode)
      /\ \A q \in FreePorts(newNode) : NextPort(newNode) <= q
  BY <1>7, FirstFreePort
<1> QED
  BY <1>7, <1>8, <1>9, PortsAssumption DEF FreePorts, Ports


\* The start of a bind, an unbind or a deletion.
LEMMA StartParts ==
  ASSUME IInv, Parts, NEW v \in Volumes,
         BindVolume(v) \/ UnbindVolume(v) \/ DeprovisionVolume(v)
  PROVE  Parts'
<1> USE DEF IInv, Parts, TaskShape
<1>1. /\ op = "none" /\ step = "idle" /\ vol = NoVolume
      /\ vol' = v /\ left' = nodes /\ attached' = {} /\ mounted' = {} /\ cached' = portIndex
      /\ UNCHANGED <<disks, rows, newNode>>
      /\ \/ op' = "bind" /\ step' = "attach" /\ v \notin bound
         \/ op' = "unbind" /\ step' = "unmount" /\ v \in bound
         \/ op' = "delete" /\ step' = "unmount" /\ v \notin bound
  BY NoValuesAssumption
     DEF BindVolume, UnbindVolume, DeprovisionVolume, Start, Idle, TypeOK, Ops
<1>2. \A n \in nodes, u \in Volumes :
        /\ HasDisk(n, u)' <=> u \in bound
        /\ HasMount(n, u)' <=> u \in bound
        /\ HasDisk(n, u) <=> u \in bound
        /\ HasMount(n, u) <=> u \in bound
  <2>1. \A n \in nodes, u \in Volumes :
          (HasDisk(n, u) <=> u \in bound) /\ (HasMount(n, u) <=> u \in bound)
    BY <1>1, NoValuesAssumption DEF HasDisk, HasMount
  <2>2. CASE op' = "bind"
    BY <1>1, <2>1, <2>2 DEF HasDisk, HasMount, rows
  <2>3. CASE op' = "unbind"
    BY <1>1, <2>1, <2>3 DEF HasDisk, HasMount, rows
  <2>4. CASE op' = "delete"
    BY <1>1, <2>1, <2>4 DEF HasDisk, HasMount, rows
  <2> QED
    BY <1>1, <2>2, <2>3, <2>4
<1>3. Placement'
  BY <1>1, <1>2 DEF Placement, On, IsAttached, disks, rows
<1>4. RowPorts'
  BY <1>1, NoValuesAssumption DEF RowPorts, disks, rows
<1>5. BindShape' /\ ReleaseShape' /\ GrowShape'
  <2>1. nodes # {}
    BY NodesAssumption DEF RowsShape
  <2> QED
    BY <1>1, <1>4, <2>1, NoValuesAssumption
       DEF BindShape, ReleaseShape, GrowShape, RowPorts, rows
<1> QED
  BY <1>3, <1>4, <1>5

\* A host attaches the disk: at the same port as those before it.
LEMMA AttachParts ==
  ASSUME IInv, Parts, NEW n \in Nodes, Attach(n)
  PROVE  Parts'
<1> USE DEF IInv, Parts, TaskShape
<1>1. /\ op = "bind" /\ step = "attach" /\ vol \in Volumes \ bound /\ n \in left
      /\ op' = "bind" /\ step' = "mount" /\ vol' = vol /\ left' = left /\ mounted' = mounted
      /\ attached' = attached \cup {n} /\ newNode' = newNode /\ fstab' = fstab
      /\ nodes' = nodes /\ bound' = bound
      /\ cached' = IF attached = {} THEN portIndex' ELSE cached
      /\ n \in nodes
  BY DEF Attach, Binding, Loop
<1>2. /\ attached = mounted /\ mounted = nodes \ left
      /\ IF attached = {} THEN portIndex[vol] = NoPort
                          ELSE cached[vol] = portIndex[vol] /\ FirstFree(portIndex[vol])
  BY <1>1 DEF BindShape
<1>3. \A u \in Volumes : HasDisk(n, u) <=> u \in bound
  BY <1>1, <1>2 DEF HasDisk
<1>4. FirstFree(NextPort(n))
  BY <1>1, <1>3, NextIsFirst DEF Attach, CanAttach
<1>5. /\ \A m \in Nodes, p \in Ports :
           slot'[m][p] = IF m = n /\ p = NextPort(n) THEN vol ELSE slot[m][p]
      /\ \A u \in Volumes : portIndex'[u] = IF u = vol THEN NextPort(n) ELSE portIndex[u]
      /\ NextPort(n) \in Ports /\ slot[n][NextPort(n)] = NoVolume
  BY <1>1, PutDiskAt DEF Attach
<1>6. attached # {} => NextPort(n) = portIndex[vol]
  BY <1>2, <1>4, SameFirst
<1>7. \A m \in nodes, u \in Volumes :
        /\ HasDisk(m, u)' <=> HasDisk(m, u) \/ (m = n /\ u = vol)
        /\ HasMount(m, u)' <=> HasMount(m, u)
        /\ HasDisk(m, vol) <=> m \in attached
        /\ HasMount(m, vol) => m \in attached
  BY <1>1, <1>2 DEF HasDisk, HasMount
<1>8. Placement'
  <2> SUFFICES ASSUME NEW m \in nodes, NEW u \in Volumes
               PROVE  /\ IF HasDisk(m, u)' THEN On(m, u)' ELSE ~IsAttached(m, u)'
                      /\ fstab[m][u] = IF HasMount(m, u)' THEN portIndex'[u] ELSE NoPort
    BY <1>1 DEF Placement
  <2>1. m \in Nodes
    BY DEF TypeOK
  <2>2. CASE u = vol
    BY <1>1, <1>2, <1>5, <1>6, <1>7, <2>1, <2>2, NoValuesAssumption
       DEF Placement, On, IsAttached, Attach, CanAttach
  <2>3. CASE u # vol
    BY <1>1, <1>5, <1>7, <2>1, <2>3, NoValuesAssumption DEF Placement, On, IsAttached
  <2> QED
    BY <2>2, <2>3
<1>9. RowPorts'
  BY <1>1, <1>5 DEF RowPorts, TypeOK
<1>10. BindShape'
  BY <1>1, <1>2, <1>4, <1>5, <1>6 DEF BindShape, FirstFree, TypeOK
<1>11. ReleaseShape' /\ GrowShape'
  BY <1>1 DEF ReleaseShape, GrowShape
<1> QED
  BY <1>8, <1>9, <1>10, <1>11

\* An attachment fails: whatever it wrote to the row is what the row held.
LEMMA AttachFailsParts ==
  ASSUME IInv, Parts, NEW n \in Nodes, AttachFails(n)
  PROVE  Parts'
<1> USE DEF IInv, Parts, TaskShape
<1>1. /\ op = "bind" /\ step = "attach" /\ vol \in Volumes \ bound /\ n \in left
      /\ op' = "bind" /\ step' = "unmountBack" /\ vol' = vol /\ left' = mounted
      /\ UNCHANGED <<mounted, attached, newNode, fstab, slot, nodes, bound, cached>>
      /\ n \in nodes
  BY DEF AttachFails, Binding, GoOn, Loop, disks
<1>2. /\ attached = mounted /\ mounted = nodes \ left
      /\ IF attached = {} THEN portIndex[vol] = NoPort
                          ELSE cached[vol] = portIndex[vol] /\ FirstFree(portIndex[vol])
  BY <1>1 DEF BindShape
<1>3. \A u \in Volumes : HasDisk(n, u) <=> u \in bound
  BY <1>1, <1>2 DEF HasDisk
<1>4. \A u \in Volumes : portIndex'[u] = IF u = vol THEN portIndex'[vol] ELSE portIndex[u]
  BY <1>1 DEF AttachFails, FailToAttach, PickPort, TypeOK
<1>5. attached # {} => portIndex'[vol] = portIndex[vol]
  <2>1. CASE FreePorts(n) # {}
    BY <2>1, <1>1, <1>2, <1>3, NextIsFirst, SameFirst
       DEF AttachFails, FailToAttach, PickPort, TypeOK
  <2>2. CASE FreePorts(n) = {}
    BY <2>2 DEF AttachFails, FailToAttach
  <2> QED
    BY <2>1, <2>2
<1>6. \A m \in nodes, u \in Volumes :
        /\ HasDisk(m, u)' <=> HasDisk(m, u)
        /\ HasMount(m, u)' <=> HasMount(m, u)
        /\ HasDisk(m, vol) <=> m \in attached
        /\ HasMount(m, vol) => m \in attached
  BY <1>1, <1>2 DEF HasDisk, HasMount
<1>7. Placement'
  BY <1>1, <1>4, <1>5, <1>6 DEF Placement, On, IsAttached
<1>8. RowPorts'
  BY <1>1, <1>4 DEF RowPorts, TypeOK
<1>9. BindShape' /\ ReleaseShape' /\ GrowShape'
  BY <1>1, <1>2 DEF BindShape, ReleaseShape, GrowShape
<1> QED
  BY <1>7, <1>8, <1>9

\* The folder is mounted from the port of the task's copy, which is the row's.
LEMMA MountParts ==
  ASSUME IInv, Parts, NEW n \in Nodes, MountVolume(n)
  PROVE  Parts'
<1> USE DEF IInv, Parts, TaskShape
<1>1. /\ op = "bind" /\ step = "mount" /\ vol \in Volumes \ bound /\ n \in left
      /\ op' = "bind" /\ vol' = vol /\ left' = left \ {n}
      /\ step' = IF left' = {} THEN "finish" ELSE "attach"
      /\ mounted' = mounted \cup {n} /\ n \in attached /\ n \notin mounted
      /\ UNCHANGED <<attached, newNode, slot, nodes, bound, cached, portIndex>>
      /\ n \in nodes
  BY DEF MountVolume, MountNext, Binding, Loop, rows
<1>2. /\ attached = mounted \cup {n} /\ mounted = nodes \ left
      /\ cached[vol] = portIndex[vol] /\ FirstFree(portIndex[vol])
  BY <1>1 DEF BindShape
<1>3. \A m \in nodes, u \in Volumes :
        /\ HasDisk(m, u)' <=> HasDisk(m, u)
        /\ HasMount(m, u)' <=> HasMount(m, u) \/ (m = n /\ u = vol)
        /\ ~HasMount(n, vol)
  BY <1>1, <1>2 DEF HasDisk, HasMount
<1>4. \A m \in Nodes, u \in Volumes :
        fstab'[m][u] = IF m = n /\ u = vol THEN portIndex[vol] ELSE fstab[m][u]
  <2>1. fstab[n][vol] = NoPort
    BY <1>1, <1>3 DEF Placement
  <2> QED
    BY <1>1, <1>2, <2>1, MountAt DEF MountVolume, TypeOK
<1>5. Placement'
  BY <1>1, <1>3, <1>4 DEF Placement, On, IsAttached, TypeOK
<1>6. RowPorts' /\ FirstFree(portIndex[vol])'
  BY <1>1, <1>2 DEF RowPorts, TypeOK, FirstFree
<1>7. BindShape' /\ ReleaseShape' /\ GrowShape'
  BY <1>1, <1>2, <1>6 DEF BindShape, ReleaseShape, GrowShape
<1> QED
  BY <1>5, <1>6, <1>7

\* A mount fails and the catch block begins.
LEMMA MountFailsParts ==
  ASSUME IInv, Parts, NEW n \in Nodes, MountFails(n)
  PROVE  Parts'
<1> USE DEF IInv, Parts, TaskShape
<1>1. /\ op = "bind" /\ step = "mount" /\ vol \in Volumes \ bound
      /\ op' = "bind" /\ vol' = vol /\ left' = mounted
      /\ step' = "unmountBack"
      /\ UNCHANGED <<mounted, attached, newNode, slot, fstab, nodes, bound, cached, portIndex>>
  BY DEF MountFails, MountNext, Binding, GoOn, Loop, rows, disks
<1>2. \A m \in nodes, u \in Volumes :
        /\ HasDisk(m, u)' <=> HasDisk(m, u)
        /\ HasMount(m, u)' <=> HasMount(m, u)
  BY <1>1 DEF HasDisk, HasMount
<1>3. Placement'
  BY <1>1, <1>2 DEF Placement, On, IsAttached, TypeOK
<1>4. RowPorts'
  BY <1>1 DEF RowPorts, TypeOK
<1>5. BindShape' /\ ReleaseShape' /\ GrowShape'
  BY <1>1 DEF BindShape, ReleaseShape, GrowShape
<1> QED
  BY <1>3, <1>4, <1>5

\* The bind ends with the disk and the folder on every node.
LEMMA BindEndsParts ==
  ASSUME IInv, Parts, AddVolumeBinding
  PROVE  Parts'
<1> USE DEF IInv, Parts, TaskShape
<1>1. /\ op = "bind" /\ step = "finish" /\ vol \in Volumes \ bound
      /\ op' = "none" /\ step' = "idle" /\ vol' = NoVolume /\ bound' = bound \cup {vol}
      /\ UNCHANGED <<slot, fstab, nodes, portIndex>>
  BY DEF AddVolumeBinding, Ends, Loop, disks
<1>2. attached = nodes /\ mounted = nodes /\ nodes # {} /\ FirstFree(portIndex[vol])
  <2>1. mounted = nodes \ left /\ left = {} /\ mounted \subseteq attached /\ attached \subseteq nodes
    BY <1>1 DEF BindShape
  <2>2. nodes # {}
    BY NodesAssumption DEF RowsShape
  <2>3. attached # {} => FirstFree(portIndex[vol])
    BY <1>1 DEF BindShape
  <2> QED
    BY <2>1, <2>2, <2>3
<1>3. \A m \in nodes, u \in Volumes :
        /\ HasDisk(m, u)' <=> HasDisk(m, u)
        /\ HasMount(m, u)' <=> HasMount(m, u)
  BY <1>1, <1>2, NoValuesAssumption DEF HasDisk, HasMount
<1>4. Placement'
  BY <1>1, <1>3 DEF Placement, On, IsAttached, TypeOK
<1>5. RowPorts'
  BY <1>1, <1>2, NoValuesAssumption DEF RowPorts, TypeOK, FirstFree
<1>6. BindShape' /\ ReleaseShape' /\ GrowShape'
  BY <1>1 DEF BindShape, ReleaseShape, GrowShape
<1> QED
  BY <1>4, <1>5, <1>6


\* The catch block unmounts what was mounted.
LEMMA UnmountBackParts ==
  ASSUME IInv, Parts, UnmountBack, ~disturbed'
  PROVE  Parts'
<1> USE DEF IInv, Parts, TaskShape
<1>1. /\ op = "bind" /\ step = "unmountBack" /\ vol \in Volumes \ bound
      /\ op' = "bind" /\ vol' = vol
      /\ UNCHANGED <<mounted, attached, newNode, slot, nodes, bound, cached, portIndex>>
  BY DEF UnmountBack, GoOn, Loop, rows
<1>2. left \subseteq mounted /\ mounted \subseteq attached
  BY <1>1 DEF BindShape
<1>3. RowPorts'
  BY <1>1 DEF RowPorts, TypeOK
<1>4. ReleaseShape' /\ GrowShape'
  BY <1>1 DEF ReleaseShape, GrowShape
<1>5. ASSUME NEW n \in left, Unmount(n, vol), step' = "unmountBack", left' = left \ {n}
      PROVE  Parts'
  <2>1. \A m \in Nodes, u \in Volumes :
           fstab'[m][u] = IF m = n /\ u = vol THEN NoPort ELSE fstab[m][u]
    BY <1>1, <1>5, UnmountAt DEF TypeOK
  <2>2. \A m \in nodes, u \in Volumes :
          /\ HasDisk(m, u)' <=> HasDisk(m, u)
          /\ HasMount(m, u)' <=> HasMount(m, u) /\ ~(m = n /\ u = vol)
    BY <1>1, <1>5 DEF HasDisk, HasMount
  <2>3. Placement'
    BY <1>1, <2>1, <2>2 DEF Placement, On, IsAttached, TypeOK
  <2>4. BindShape'
    BY <1>1, <1>2, <1>5 DEF BindShape
  <2> QED
    BY <1>3, <1>4, <2>3, <2>4
<1>6. ASSUME left = {}, step' = "detachBack", left' = attached, fstab' = fstab
      PROVE  Parts'
  <2>1. \A m \in nodes, u \in Volumes :
          /\ HasDisk(m, u)' <=> HasDisk(m, u)
          /\ HasMount(m, u)' <=> HasMount(m, u)
    BY <1>1, <1>6 DEF HasDisk, HasMount
  <2>2. Placement'
    BY <1>1, <1>6, <2>1 DEF Placement, On, IsAttached
  <2>3. BindShape'
    BY <1>1, <1>2, <1>6 DEF BindShape
  <2> QED
    BY <1>3, <1>4, <2>2, <2>3
<1> QED
  BY <1>1, <1>5, <1>6 DEF UnmountBack, GoOn, Loop

\* It detaches what was attached, by the row's port, and clears that.
LEMMA DetachBackParts ==
  ASSUME IInv, Parts, DetachBack, ~disturbed'
  PROVE  Parts'
<1> USE DEF IInv, Parts, TaskShape
<1>1. /\ op = "bind" /\ step = "detachBack" /\ vol \in Volumes \ bound
      /\ UNCHANGED <<fstab, nodes, bound>>
  BY DEF DetachBack
<1>2. /\ left \subseteq attached /\ mounted \subseteq attached
      /\ left \subseteq nodes /\ nodes \subseteq Nodes
  BY <1>1 DEF BindShape, TypeOK
<1>3. ASSUME NEW n \in left, TakeDisk(n, vol), GoOn(step, left \ {n}),
             UNCHANGED portIndex
      PROVE  Parts'
  <2>1. /\ op' = "bind" /\ step' = "detachBack" /\ vol' = vol /\ left' = left \ {n}
        /\ UNCHANGED <<mounted, attached, newNode, cached>>
    BY <1>1, <1>3 DEF GoOn, Loop
  <2>2. On(n, vol)
    BY <1>1, <1>2 DEF Placement, HasDisk
  <2>3. \A m \in Nodes, p \in Ports :
           slot'[m][p] = IF m = n /\ p = portIndex[vol] THEN NoVolume ELSE slot[m][p]
    BY <1>1, <1>2, <1>3, TakeDiskAt
  <2>4. \A m \in nodes, u \in Volumes :
          /\ HasDisk(m, u)' <=> HasDisk(m, u) /\ ~(m = n /\ u = vol)
          /\ HasMount(m, u)' <=> HasMount(m, u)
    BY <1>1, <2>1 DEF HasDisk, HasMount
  <2>5. Placement'
    BY <1>1, <1>2, <1>3, <2>2, <2>3, <2>4, NoValuesAssumption
       DEF Placement, On, IsAttached
  <2>6. RowPorts'
    BY <1>1, <1>3, <2>1 DEF RowPorts
  <2>7. BindShape' /\ ReleaseShape' /\ GrowShape'
    BY <1>1, <1>2, <2>1 DEF BindShape, ReleaseShape, GrowShape
  <2> QED
    BY <2>5, <2>6, <2>7
<1>4. ASSUME left = {}, portIndex' = [portIndex EXCEPT ![vol] = NoPort], Ends,
             UNCHANGED slot
      PROVE  Parts'
  <2>1. op' = "none" /\ step' = "idle" /\ vol' = NoVolume
    BY <1>4 DEF Ends, Loop
  <2>2. \A m \in nodes, u \in Volumes :
          /\ HasDisk(m, u)' <=> HasDisk(m, u)
          /\ HasMount(m, u)' <=> HasMount(m, u)
          /\ ~HasDisk(m, vol) /\ ~HasMount(m, vol)
    BY <1>1, <1>4, <2>1, NoValuesAssumption DEF HasDisk, HasMount
  <2>3. \A u \in Volumes : portIndex'[u] = IF u = vol THEN NoPort ELSE portIndex[u]
    BY <1>4 DEF TypeOK
  <2>4. Placement'
    BY <1>1, <1>4, <2>2, <2>3 DEF Placement, On, IsAttached
  <2>5. RowPorts'
    BY <1>1, <2>1, <2>3, NoValuesAssumption DEF RowPorts
  <2>6. BindShape' /\ ReleaseShape' /\ GrowShape'
    BY <2>1 DEF BindShape, ReleaseShape, GrowShape
  <2> QED
    BY <2>4, <2>5, <2>6
<1> QED
  BY <1>3, <1>4 DEF DetachBack

\* Releasing: a folder is unmounted.
LEMMA UnmountParts ==
  ASSUME IInv, Parts, NEW n \in Nodes, UnmountVolume(n)
  PROVE  Parts'
<1> USE DEF IInv, Parts, TaskShape
<1>1. /\ op \in {"unbind", "delete"} /\ step = "unmount" /\ vol \in Volumes /\ n \in left
      /\ UNCHANGED <<slot, nodes, bound, portIndex, op, vol, newNode>>
      /\ \/ left = {n} /\ step' = "detach" /\ left' = nodes
         \/ left # {n} /\ step' = "unmount" /\ left' = left \ {n}
      /\ n \in nodes /\ left \subseteq nodes
  BY DEF UnmountVolume, Releasing, GoOn, Loop, rows, TypeOK
<1>2. \A m \in Nodes, u \in Volumes :
         fstab'[m][u] = IF m = n /\ u = vol THEN NoPort ELSE fstab[m][u]
  BY <1>1, UnmountAt DEF UnmountVolume
<1>3. \A m \in nodes, u \in Volumes :
        /\ HasDisk(m, u)' <=> HasDisk(m, u)
        /\ HasMount(m, u)' <=> HasMount(m, u) /\ ~(m = n /\ u = vol)
  BY <1>1 DEF HasDisk, HasMount
<1>4. Placement'
  BY <1>1, <1>2, <1>3 DEF Placement, On, IsAttached, TypeOK
<1>5. RowPorts'
  BY <1>1 DEF RowPorts
<1>6. BindShape' /\ ReleaseShape' /\ GrowShape'
  BY <1>1 DEF BindShape, ReleaseShape, GrowShape
<1> QED
  BY <1>4, <1>5, <1>6

\* Releasing: a disk is detached, and after the last one the port is cleared.
LEMMA DetachParts ==
  ASSUME IInv, Parts, NEW n \in Nodes, DetachVolume(n)
  PROVE  Parts'
<1> USE DEF IInv, Parts, TaskShape
<1>1. /\ op \in {"unbind", "delete"} /\ step = "detach" /\ vol \in Volumes /\ n \in left
      /\ UNCHANGED <<fstab, nodes, bound, op, vol, newNode>>
      /\ \/ /\ left = {n} /\ step' = AfterRelease /\ left' = nodes
            /\ portIndex' = [portIndex EXCEPT ![vol] = NoPort]
         \/ left # {n} /\ step' = "detach" /\ left' = left \ {n} /\ UNCHANGED portIndex
      /\ n \in nodes /\ left \subseteq nodes
  BY DEF DetachVolume, Releasing, Loop, TypeOK
<1>2. \A m \in Nodes, p \in Ports :
         slot'[m][p] = IF m = n /\ p = portIndex[vol] THEN NoVolume ELSE slot[m][p]
  BY <1>1, TakeDiskAt DEF DetachVolume
<1>3. \A u \in Volumes : portIndex'[u] = IF u = vol /\ left = {n} THEN NoPort ELSE portIndex[u]
  BY <1>1 DEF TypeOK
<1>4. CASE op = "unbind"
  <2>1. \A m \in nodes, u \in Volumes :
          /\ HasDisk(m, u)' <=> HasDisk(m, u) /\ ~(m = n /\ u = vol)
          /\ HasMount(m, u)' <=> HasMount(m, u)
          /\ HasDisk(n, vol) /\ ~HasMount(m, vol)
          /\ left = {n} => ~HasDisk(m, u)' \/ u # vol
    BY <1>1, <1>4 DEF HasDisk, HasMount, AfterRelease
  <2>2. Placement'
    <3> SUFFICES ASSUME NEW m \in nodes, NEW u \in Volumes
                 PROVE  /\ IF HasDisk(m, u)' THEN On(m, u)' ELSE ~IsAttached(m, u)'
                        /\ fstab[m][u] = IF HasMount(m, u)' THEN portIndex'[u] ELSE NoPort
      BY <1>1 DEF Placement
    <3>1. m \in Nodes /\ n \in nodes
      BY <1>1 DEF TypeOK
    <3>2. On(n, vol)
      BY <1>1, <2>1 DEF Placement
    <3>3. CASE u = vol
      BY <1>1, <1>2, <1>3, <2>1, <3>1, <3>2, <3>3, NoValuesAssumption
         DEF Placement, On, IsAttached
    <3>4. CASE u # vol
      BY <1>1, <1>2, <1>3, <2>1, <3>1, <3>2, <3>4, NoValuesAssumption
         DEF Placement, On, IsAttached
    <3> QED
      BY <3>3, <3>4
  <2>3. RowPorts'
    BY <1>1, <1>3, <1>4 DEF RowPorts, AfterRelease
  <2> QED
    BY <1>1, <1>4, <2>2, <2>3 DEF BindShape, ReleaseShape, GrowShape, AfterRelease
<1>5. CASE op = "delete"
  <2>1. /\ portIndex[vol] = NoPort /\ slot' = slot
        /\ \A u \in Volumes : portIndex'[u] = portIndex[u]
    BY <1>1, <1>3, <1>5 DEF RowPorts, DetachVolume, TakeDisk
  <2>2. \A m \in nodes, u \in Volumes :
          /\ HasDisk(m, u)' <=> HasDisk(m, u)
          /\ HasMount(m, u)' <=> HasMount(m, u)
    BY <1>1, <1>5 DEF HasDisk, HasMount
  <2>3. Placement'
    BY <1>1, <2>1, <2>2 DEF Placement, On, IsAttached
  <2>4. RowPorts'
    BY <1>1, <1>5, <2>1 DEF RowPorts
  <2> QED
    BY <1>1, <1>5, <2>3, <2>4 DEF BindShape, ReleaseShape, GrowShape, AfterRelease
<1> QED
  BY <1>1, <1>4, <1>5


\* Releasing ends: the binding goes, or the disk files and the row.
LEMMA ReleaseEndsParts ==
  ASSUME IInv, Parts, RemoveVolumeBinding \/ EraseVolume
  PROVE  Parts'
<1> USE DEF IInv, Parts, TaskShape
<1>1. UNCHANGED <<slot, fstab, nodes, portIndex>>
  BY DEF RemoveVolumeBinding, EraseVolume, disks
<1>2. CASE RemoveVolumeBinding
  <2>1. /\ op = "unbind" /\ step = "finish" /\ vol \in bound /\ vol \in Volumes
        /\ op' = "none" /\ step' = "idle" /\ vol' = NoVolume /\ bound' = bound \ {vol}
    BY <1>2 DEF RemoveVolumeBinding, Ends, Loop, TypeOK
  <2>2. \A m \in nodes, u \in Volumes :
          /\ HasDisk(m, u)' <=> HasDisk(m, u)
          /\ HasMount(m, u)' <=> HasMount(m, u)
    BY <2>1, NoValuesAssumption DEF HasDisk, HasMount
  <2>3. Placement'
    BY <1>1, <2>2 DEF Placement, On, IsAttached
  <2>4. RowPorts'
    BY <1>1, <2>1, NoValuesAssumption DEF RowPorts
  <2> QED
    BY <2>1, <2>3, <2>4 DEF BindShape, ReleaseShape, GrowShape
<1>3. CASE EraseVolume
  <2>1. /\ op = "delete" /\ step = "erase" /\ vol \in Volumes \ bound /\ bound' = bound
        /\ \/ op' = "delete" /\ step' = "erase" /\ vol' = vol
           \/ op' = "none" /\ step' = "idle" /\ vol' = NoVolume
    BY <1>3 DEF EraseVolume, Ends, GoOn, Loop
  <2>2. \A m \in nodes, u \in Volumes :
          /\ HasDisk(m, u)' <=> HasDisk(m, u)
          /\ HasMount(m, u)' <=> HasMount(m, u)
    BY <2>1, NoValuesAssumption DEF HasDisk, HasMount
  <2>3. Placement'
    BY <1>1, <2>2 DEF Placement, On, IsAttached
  <2>4. RowPorts'
    BY <1>1, <2>1, NoValuesAssumption DEF RowPorts
  <2> QED
    BY <2>1, <2>3, <2>4 DEF BindShape, ReleaseShape, GrowShape
<1> QED
  BY <1>2, <1>3

\* A worker joins, without a gap in the ports: its VM is empty.
LEMMA AddWorkerParts ==
  ASSUME IInv, Parts, NEW n \in Nodes, AddWorker(n), ~disturbed'
  PROVE  Parts'
<1> USE DEF IInv, Parts, TaskShape
<1>1. /\ op = "none" /\ step = "idle" /\ vol = NoVolume /\ vol' = NoVolume
      /\ n \notin nodes /\ nodes' = nodes \cup {n} /\ ~Gap
      /\ UNCHANGED <<slot, fstab, bound, portIndex>>
      /\ \/ op' = "none" /\ bound = {}
         \/ /\ op' = "grow" /\ bound # {} /\ left' = bound /\ newNode' = n /\ step' = "attach"
            /\ cached' = portIndex
  BY DEF AddWorker, Idle, Loop, disks, task, Ops, TypeOK
<1>2. \A m \in nodes, u \in Volumes :
        /\ HasDisk(m, u)' <=> HasDisk(m, u)
        /\ HasMount(m, u)' <=> HasMount(m, u)
  BY <1>1, NoValuesAssumption DEF HasDisk, HasMount
<1>3. \A u \in Volumes : ~HasDisk(n, u)' /\ ~HasMount(n, u)'
  BY <1>1, NoValuesAssumption DEF HasDisk, HasMount
<1>4. \A u \in Volumes : ~IsAttached(n, u) /\ fstab[n][u] = NoPort
  BY <1>1, NoValuesAssumption DEF OutsideIsEmpty, IsAttached
<1>5. Placement'
  BY <1>1, <1>2, <1>3, <1>4 DEF Placement, On, IsAttached
<1>6. RowPorts'
  BY <1>1, NoValuesAssumption DEF RowPorts
<1>7. GrowShape'
  <2> SUFFICES ASSUME op' = "grow", NEW v \in bound, NEW q \in Ports, q < portIndex[v]
               PROVE  \E u \in bound : portIndex[u] = q
    BY <1>1 DEF GrowShape
  <2>1. Cardinality(bound) \in Nat
    BY FS_CardinalityType DEF RowsShape
  <2>2. portIndex[v] \in 1..Cardinality(bound)
    BY <1>1 DEF Gap
  <2>3. q \in 1..Cardinality(bound)
    BY <2>1, <2>2, PortsAssumption DEF Ports
  <2> QED
    BY <1>1, <2>3 DEF Gap
<1> QED
  BY <1>1, <1>5, <1>6, <1>7 DEF BindShape, ReleaseShape

\* A worker is removed with all that is on its VM.
LEMMA RemoveWorkerParts ==
  ASSUME IInv, Parts, NEW n \in Nodes, RemoveWorker(n)
  PROVE  Parts'
<1> USE DEF IInv, Parts, TaskShape
<1>1. /\ op = "none" /\ vol = NoVolume
      /\ UNCHANGED <<op, vol, newNode, step, bound, portIndex>>
  BY DEF RemoveWorker, Idle, task, Ops, TypeOK
<1>2. /\ nodes' = nodes \ {n}
      /\ \A m \in Nodes, p \in Ports : slot'[m][p] = IF m = n THEN NoVolume ELSE slot[m][p]
      /\ \A m \in Nodes, v \in Volumes : fstab'[m][v] = IF m = n THEN NoPort ELSE fstab[m][v]
  BY DropNodeAt DEF RemoveWorker
<1>3. \A m \in nodes, u \in Volumes :
        /\ HasDisk(m, u)' <=> HasDisk(m, u)
        /\ HasMount(m, u)' <=> HasMount(m, u)
  BY <1>1, NoValuesAssumption DEF HasDisk, HasMount
<1>4. Placement'
  BY <1>1, <1>2, <1>3 DEF Placement, On, IsAttached, TypeOK
<1>5. RowPorts'
  BY <1>1, NoValuesAssumption DEF RowPorts
<1> QED
  BY <1>1, <1>4, <1>5 DEF BindShape, ReleaseShape, GrowShape

\* The next volume is attached to the new worker, at its port.
LEMMA GrowAttachParts ==
  ASSUME IInv, Parts, NEW v \in Volumes, GrowAttach(v)
  PROVE  Parts'
<1> USE DEF IInv, Parts, TaskShape
<1>1. /\ op = "grow" /\ step = "attach" /\ vol = NoVolume /\ v \in left /\ left \subseteq bound
      /\ newNode \in nodes /\ newNode \in Nodes
      /\ op' = "grow" /\ step' = "mount"
      /\ UNCHANGED <<fstab, nodes, bound, vol, newNode, left, cached>>
  BY DEF GrowAttach, Growing, IsNextVolume, GoOn, Loop, TypeOK
<1>2. portIndex[v] \in FreePorts(newNode) /\ NextPort(newNode) = portIndex[v]
  BY GrowPort DEF GrowAttach
<1>3. /\ \A m \in Nodes, p \in Ports :
           slot'[m][p] = IF m = newNode /\ p = portIndex[v] THEN v ELSE slot[m][p]
      /\ slot[newNode][portIndex[v]] = NoVolume /\ portIndex[v] \in Ports
  BY <1>1, <1>2, PutDiskAt DEF GrowAttach, FreePorts
<1>4. portIndex' = portIndex
  BY <1>1, <1>2 DEF GrowAttach, PutDisk, PickPort, TypeOK
<1>5. cached = portIndex /\ \A u \in bound : portIndex[u] \in Ports
  BY <1>1, NoValuesAssumption DEF GrowShape, RowPorts, TypeOK
<1>6. \A u \in left : IsNextVolume(u) => u = v
  <2> SUFFICES ASSUME NEW u \in left, IsNextVolume(u) PROVE u = v
    OBVIOUS
  <2>1. portIndex[u] <= portIndex[v] /\ portIndex[v] <= portIndex[u]
    BY <1>1, <1>5, PortsAssumption DEF IsNextVolume, GrowAttach, Growing, Ports, NoPort
  <2>2. portIndex[u] = portIndex[v]
    BY <1>1, <1>5, <2>1, PortsAssumption DEF Ports
  <2> QED
    BY <1>1, <2>2, DistinctPorts
<1>7. IsNextVolume(v)' /\ \A u \in left : IsNextVolume(u)' => u = v
  BY <1>1, <1>6 DEF IsNextVolume, GrowAttach, Growing
<1>8. \A m \in nodes, u \in Volumes :
        /\ HasDisk(m, u)' <=> HasDisk(m, u) \/ (m = newNode /\ u = v)
        /\ HasMount(m, u)' <=> HasMount(m, u)
        /\ ~HasDisk(newNode, v)
  BY <1>1, <1>7, NoValuesAssumption DEF HasDisk, HasMount
<1>9. Placement'
  <2> SUFFICES ASSUME NEW m \in nodes, NEW u \in Volumes
               PROVE  /\ IF HasDisk(m, u)' THEN On(m, u)' ELSE ~IsAttached(m, u)'
                      /\ fstab[m][u] = IF HasMount(m, u)' THEN portIndex[u] ELSE NoPort
    BY <1>1, <1>4 DEF Placement
  <2>1. m \in Nodes /\ v \in Volumes
    BY DEF TypeOK
  <2>2. CASE u = v
    BY <1>1, <1>3, <1>4, <1>8, <2>1, <2>2, NoValuesAssumption
       DEF Placement, On, IsAttached
  <2>3. CASE u # v
    BY <1>1, <1>3, <1>4, <1>8, <2>1, <2>3, NoValuesAssumption
       DEF Placement, On, IsAttached
  <2> QED
    BY <2>2, <2>3
<1>10. RowPorts' /\ BindShape' /\ ReleaseShape' /\ GrowShape'
  BY <1>1, <1>4 DEF RowPorts, BindShape, ReleaseShape, GrowShape
<1> QED
  BY <1>9, <1>10


\* It is mounted there.
LEMMA GrowMountParts ==
  ASSUME IInv, Parts, NEW v \in Volumes, GrowMount(v)
  PROVE  Parts'
<1> USE DEF IInv, Parts, TaskShape
<1>1. /\ op = "grow" /\ step = "mount" /\ vol = NoVolume /\ vol' = NoVolume
      /\ v \in left /\ left \subseteq bound /\ IsNextVolume(v)
      /\ newNode \in nodes /\ newNode \in Nodes
      /\ UNCHANGED <<slot, nodes, bound, portIndex>>
      /\ \/ left = {v} /\ op' = "none"
         \/ /\ left # {v} /\ op' = "grow" /\ step' = "attach" /\ left' = left \ {v}
            /\ UNCHANGED <<newNode, cached>>
  BY DEF GrowMount, Growing, IsNextVolume, GoOn, Loop, Ends, TypeOK, rows
<1>2. cached = portIndex /\ \A u \in bound : portIndex[u] \in Ports
  BY <1>1, NoValuesAssumption DEF GrowShape, RowPorts, TypeOK
<1>3. \A u \in left : portIndex[v] <= portIndex[u]
  BY <1>1, <1>2, PortsAssumption DEF IsNextVolume, Ports, NoPort
<1>4. \A u \in left \ {v} : portIndex[v] < portIndex[u]
  <2> SUFFICES ASSUME NEW u \in left \ {v} PROVE portIndex[v] < portIndex[u]
    OBVIOUS
  <2>1. portIndex[v] # portIndex[u]
    BY <1>1, DistinctPorts
  <2> QED
    BY <1>1, <1>2, <1>3, <2>1, PortsAssumption DEF Ports
<1>5. \A u \in left : IsNextVolume(u) => u = v
  BY <1>1, <1>2, <1>4, PortsAssumption DEF IsNextVolume, Ports, NoPort
<1>6. \A m \in nodes, u \in Volumes :
        /\ HasDisk(m, u)' <=> HasDisk(m, u)
        /\ HasMount(m, u)' <=> HasMount(m, u) \/ (m = newNode /\ u = v)
        /\ ~HasMount(newNode, v)
  BY <1>1, <1>5, NoValuesAssumption DEF HasDisk, HasMount
<1>7. \A m \in Nodes, u \in Volumes :
        fstab'[m][u] = IF m = newNode /\ u = v THEN portIndex[v] ELSE fstab[m][u]
  <2>1. fstab[newNode][v] = NoPort
    BY <1>1, <1>6 DEF Placement
  <2> QED
    BY <1>1, <1>2, <2>1, MountAt DEF GrowMount, TypeOK
<1>8. Placement'
  BY <1>1, <1>6, <1>7 DEF Placement, On, IsAttached, TypeOK
<1>9. RowPorts' /\ BindShape' /\ ReleaseShape'
  BY <1>1 DEF RowPorts, BindShape, ReleaseShape
<1>10. GrowShape'
  BY <1>1, <1>2, <1>4 DEF GrowShape
<1> QED
  BY <1>8, <1>9, <1>10

\* A scale-up fails: the row it wrote held that port already, and the new worker
\* is left with the disks and folders it got so far.
LEMMA GrowFailsParts ==
  ASSUME IInv, Parts, NEW v \in Volumes, GrowFails(v)
  PROVE  step' = "undo" /\ UndoParts'
<1> USE DEF IInv, Parts, TaskShape
<1>1. /\ op = "grow" /\ vol = NoVolume /\ step' = "undo" /\ newNode' = newNode
      /\ newNode \in nodes /\ UNCHANGED <<slot, fstab, nodes, bound>>
  BY DEF GrowFails, Growing, GoOn, Loop, TypeOK, disks
<1>2. portIndex' = portIndex
  <2>1. CASE Growing("attach", v)
    <3>1. NextPort(newNode) = portIndex[v]
      BY <2>1, GrowPort
    <3> QED
      BY <2>1, <3>1 DEF GrowFails, Growing, FailToAttach, PickPort, TypeOK
  <2>2. CASE Growing("mount", v)
    BY <2>2 DEF GrowFails, Growing
  <2> QED
    BY <2>1, <2>2 DEF GrowFails
<1>3. \A n \in nodes \ {newNode}, u \in Volumes :
        /\ HasDisk(n, u) <=> u \in bound
        /\ HasMount(n, u) <=> u \in bound
  BY <1>1, NoValuesAssumption DEF HasDisk, HasMount
<1>4. \A n \in nodes \ {newNode}, u \in Volumes :
        IF u \in bound THEN On(n, u) /\ fstab[n][u] = portIndex[u]
                       ELSE ~IsAttached(n, u) /\ fstab[n][u] = NoPort
  BY <1>3 DEF Placement
<1>5. ASSUME NEW u \in Volumes, fstab[newNode][u] # NoPort
      PROVE  slot[newNode][fstab[newNode][u]] = u
  <2>1. HasMount(newNode, u) /\ fstab[newNode][u] = portIndex[u]
    BY <1>1, <1>5 DEF Placement
  <2>2. HasDisk(newNode, u)
    BY <1>1, <2>1, NoValuesAssumption DEF HasMount, HasDisk
  <2> QED
    BY <1>1, <2>1, <2>2 DEF Placement, On
<1>6. \A u \in Volumes : IF u \in bound THEN portIndex[u] \in Ports ELSE portIndex[u] = NoPort
  BY <1>1, NoValuesAssumption DEF RowPorts
<1> QED
  BY <1>1, <1>2, <1>4, <1>5, <1>6 DEF UndoParts, On, IsAttached

\* Its rollback removes the new worker with all that is on it.
LEMMA UndoGrowParts ==
  ASSUME IInv, UndoParts, UndoGrow
  PROVE  step' = "idle" /\ Parts'
<1> USE DEF IInv, Parts, TaskShape
<1>1. /\ step' = "idle" /\ vol' = NoVolume /\ op' = "none"
      /\ newNode \in nodes /\ newNode \in Nodes /\ UNCHANGED <<bound, portIndex>>
  BY DEF UndoGrow, Ends, Loop, TypeOK
<1>2. /\ nodes' = nodes \ {newNode}
      /\ \A m \in Nodes, p \in Ports : slot'[m][p] = IF m = newNode THEN NoVolume ELSE slot[m][p]
      /\ \A m \in Nodes, u \in Volumes : fstab'[m][u] = IF m = newNode THEN NoPort ELSE fstab[m][u]
  BY <1>1, DropNodeAt DEF UndoGrow
<1>3. \A m \in nodes', u \in Volumes :
        /\ HasDisk(m, u)' <=> u \in bound
        /\ HasMount(m, u)' <=> u \in bound
  BY <1>1, NoValuesAssumption DEF HasDisk, HasMount
<1>4. Placement'
  BY <1>1, <1>2, <1>3 DEF Placement, UndoParts, On, IsAttached, TypeOK
<1>5. RowPorts'
  BY <1>1, NoValuesAssumption DEF RowPorts, UndoParts
<1> QED
  BY <1>1, <1>4, <1>5 DEF BindShape, ReleaseShape, GrowShape

\* Only its rollback is possible once a scale-up failed.
LEMMA OnlyUndo ==
  ASSUME TypeOK, TaskShape, [Next]_vars, step = "undo"
  PROVE  UndoGrow \/ UndoGrowFails \/ UNCHANGED vars
<1>1. op = "grow" /\ ~Idle
  BY DEF TaskShape, TypeOK, Ops, Idle
<1> USE <1>1
<1>2. ~BindStep
  BY DEF BindStep, Attach, AttachFails, AttachAnswerLost, MountVolume, MountFails,
         MountAnswerLost, MountNext, Binding, AddVolumeBinding, UnmountBack,
         UnmountBackTimesOut, DetachBack
<1>3. ~ReleaseStep
  BY DEF ReleaseStep, UnmountVolume, UnmountIgnored, UnmountFails, DetachVolume,
         DetachFails, Reattach, Releasing, RemoveVolumeBinding, EraseVolume
<1> QED
  BY <1>2, <1>3
     DEF Next, ProvisionVolume, BindVolume, UnbindVolume, DeprovisionVolume, Start,
         GrowAttach, GrowMount, GrowFails, Growing, AddWorker, RemoveWorker,
         RemoveWorkerFails

\* Steps that touch neither disks nor ports.
LEMMA SameParts ==
  ASSUME IInv, Parts, UNCHANGED vars \/ \E v \in Volumes : ProvisionVolume(v)
  PROVE  Parts'
<1>1. UNCHANGED <<disks, nodes, portIndex, bound, task>>
  BY DEF vars, ProvisionVolume, rows
<1> QED
  BY <1>1
     DEF Parts, Placement, RowPorts, BindShape, ReleaseShape, GrowShape, HasDisk,
         HasMount, On, IsAttached, FirstFree, IsNextVolume, disks, task

\* Every other step that disturbs nothing keeps the placement of the disks.
LEMMA PartsStep ==
  ASSUME IInv, [Next]_vars, ~disturbed', step # "undo", Parts,
         ~ \E v \in Volumes : GrowFails(v)
  PROVE  Parts'
<1>1. IInv /\ Parts
  OBVIOUS
<1>2. ASSUME ReleaseStep PROVE Parts'
  <2>1. ASSUME NEW n \in Nodes, UnmountVolume(n) \/ DetachVolume(n) PROVE Parts'
    BY <1>1, <2>1, UnmountParts, DetachParts
  <2>2. ~ \E n \in Nodes : UnmountIgnored(n) \/ UnmountFails(n) \/ DetachFails(n)
    BY DEF UnmountIgnored, UnmountFails, DetachFails
  <2>3. ~Reattach
    BY <1>1 DEF Parts, ReleaseShape, Reattach, Releasing
  <2> QED
    BY <1>1, <1>2, <2>1, <2>2, <2>3, ReleaseEndsParts DEF ReleaseStep
<1>3. ASSUME BindStep PROVE Parts'
  <2>1. ASSUME NEW n \in Nodes, Attach(n) \/ AttachFails(n) \/ MountVolume(n) \/ MountFails(n)
        PROVE  Parts'
    BY <1>1, <2>1, AttachParts, AttachFailsParts, MountParts, MountFailsParts
  <2>2. ~ \E n \in Nodes : AttachAnswerLost(n) \/ MountAnswerLost(n)
    BY DEF AttachAnswerLost, MountAnswerLost
  <2>3. ~UnmountBackTimesOut
    BY DEF UnmountBackTimesOut
  <2> QED
    BY <1>1, <1>3, <2>1, <2>2, <2>3, BindEndsParts, UnmountBackParts, DetachBackParts
       DEF BindStep
<1>4. ASSUME NEW v \in Volumes,
             \/ BindVolume(v) \/ UnbindVolume(v) \/ DeprovisionVolume(v)
             \/ GrowAttach(v) \/ GrowMount(v)
      PROVE  Parts'
  BY <1>1, <1>4, StartParts, GrowAttachParts, GrowMountParts
<1>5. ASSUME NEW n \in Nodes, AddWorker(n) \/ RemoveWorker(n) PROVE Parts'
  BY <1>1, <1>5, AddWorkerParts, RemoveWorkerParts
<1>6. ASSUME UNCHANGED vars \/ \E v \in Volumes : ProvisionVolume(v) PROVE Parts'
  BY <1>1, <1>6, SameParts
<1>7. ~UndoGrow /\ ~UndoGrowFails /\ ~ \E n \in Nodes : RemoveWorkerFails(n)
  BY DEF UndoGrow, UndoGrowFails, RemoveWorkerFails
<1> QED
  BY <1>2, <1>3, <1>4, <1>5, <1>6, <1>7 DEF Next

\* No other step leads to a rollback of a scale-up.
LEMMA StepsNotUndo ==
  ASSUME TypeOK, TaskShape, [Next]_vars, step # "undo", ~ \E v \in Volumes : GrowFails(v)
  PROVE  step' # "undo"
BY DEF Next, BindStep, ReleaseStep, Attach, AttachFails, AttachAnswerLost, MountVolume,
       MountFails, MountAnswerLost, AddVolumeBinding, UnmountBack, UnmountBackTimesOut,
       DetachBack, UnmountVolume, UnmountIgnored, UnmountFails, DetachVolume,
       DetachFails, Reattach, UndoGrow, UndoGrowFails, RemoveWorkerFails, AfterRelease,
       RemoveVolumeBinding, EraseVolume, ProvisionVolume, BindVolume, UnbindVolume,
       DeprovisionVolume, Start, GrowAttach, GrowMount, AddWorker, RemoveWorker,
       Loop, GoOn, Ends, task, vars

\* Every step that disturbs nothing keeps the placement of the disks.
LEMMA PInvStep == IInv /\ [Next]_vars => PInv'
<1> SUFFICES ASSUME IInv, [Next]_vars, ~disturbed'
             PROVE  IF step' = "undo" THEN UndoParts' ELSE Parts'
  BY DEF PInv
<1>0. ~disturbed /\ TypeOK /\ TaskShape
  BY Monotone DEF IInv
<1>7. CASE step = "undo"
  <2>1. UndoParts
    BY <1>0, <1>7 DEF IInv, PInv
  <2>2. UndoGrow \/ UNCHANGED vars
    BY <1>0, <1>7, OnlyUndo DEF UndoGrowFails
  <2>3. CASE UndoGrow
    BY <2>1, <2>3, UndoGrowParts
  <2>4. CASE UNCHANGED vars
    BY <1>7, <2>1, <2>4 DEF vars, disks, rows, task, UndoParts, On, IsAttached
  <2> QED
    BY <2>2, <2>3, <2>4
<1>8. CASE step # "undo" /\ ~ \E v \in Volumes : GrowFails(v)
  <2>1. Parts
    BY <1>0, <1>8 DEF IInv, PInv
  <2>2. step' # "undo"
    BY <1>0, <1>8, StepsNotUndo
  <2>3. Parts'
    BY <1>0, <1>8, <2>1, PartsStep
  <2> QED
    BY <2>2, <2>3
<1>9. ASSUME step # "undo", NEW v \in Volumes, GrowFails(v)
      PROVE  step' = "undo" /\ UndoParts'
  BY <1>0, <1>9, GrowFailsParts DEF IInv, PInv
<1> QED
  BY <1>7, <1>8, <1>9

----------------------------------------------------------------------------
(* The theorems.                                                           *)

\* The invariant holds in the first state.
LEMMA InvInit == Init => IInv
<1> SUFFICES ASSUME Init PROVE IInv
  OBVIOUS
<1>1. TypeOK
  BY TypeInit
<1>2. TaskShape
  BY DEF Init, TaskShape
<1>3. RowsShape
  BY FS_EmptySet DEF Init, RowsShape
<1>4. OutsideIsEmpty
  BY DEF Init, OutsideIsEmpty
<1>5. RemovedIsDetached
  BY DEF Init, RemovedIsDetached
<1>6. Placement
  BY NodesAssumption, NoValuesAssumption
     DEF Init, Placement, HasDisk, HasMount, IsAttached
<1>7. RowPorts /\ BindShape /\ ReleaseShape /\ GrowShape
  BY NoValuesAssumption DEF Init, RowPorts, BindShape, ReleaseShape, GrowShape
<1>8. step # "undo"
  BY DEF Init
<1> QED
  BY <1>1, <1>2, <1>3, <1>4, <1>5, <1>6, <1>7, <1>8 DEF IInv, PInv, Parts

\* The invariant is inductive.
LEMMA InvStep == IInv /\ [Next]_vars => IInv'
BY TypeStep, TaskShapeStep, RowsShapeStep, OutsideStep, RemovedStep, PInvStep DEF IInv

\* Between two tasks every node has the disk and the folder of every bound volume,
\* and during a task every mounted folder shows its own disk.
LEMMA InvUsable == IInv => BoundIsUsable
<1> SUFFICES ASSUME IInv, ~disturbed
             PROVE /\ Idle => \A v \in bound, n \in nodes :
                       /\ portIndex[v] # NoPort
                       /\ slot[n][portIndex[v]] = v
                       /\ fstab[n][v] = portIndex[v]
                   /\ \A n \in nodes, v \in Volumes :
                       fstab[n][v] # NoPort => slot[n][fstab[n][v]] = v
  BY DEF BoundIsUsable
<1>0. CASE step = "undo"
  BY <1>0, NodesAssumption DEF IInv, PInv, UndoParts, On, Idle
<1> SUFFICES ASSUME step # "undo"
             PROVE /\ Idle => \A v \in bound, n \in nodes :
                       /\ portIndex[v] # NoPort
                       /\ slot[n][portIndex[v]] = v
                       /\ fstab[n][v] = portIndex[v]
                   /\ \A n \in nodes, v \in Volumes :
                       fstab[n][v] # NoPort => slot[n][fstab[n][v]] = v
  BY <1>0
<1> USE DEF IInv, PInv, Parts, TypeOK
<1>1. ASSUME Idle, NEW v \in bound, NEW n \in nodes
      PROVE  portIndex[v] # NoPort /\ slot[n][portIndex[v]] = v /\ fstab[n][v] = portIndex[v]
  <2>1. op = "none" /\ vol = NoVolume
    BY <1>1 DEF Idle, TaskShape, Ops
  <2>2. HasDisk(n, v) /\ HasMount(n, v)
    BY <2>1, NoValuesAssumption DEF HasDisk, HasMount
  <2> QED
    BY <2>2, PortsAssumption DEF Placement, On, Ports, NoPort
<1>2. ASSUME NEW n \in nodes, NEW v \in Volumes, fstab[n][v] # NoPort
      PROVE  slot[n][fstab[n][v]] = v
  <2>1. HasMount(n, v) /\ fstab[n][v] = portIndex[v]
    BY <1>2 DEF Placement
  <2>2. HasDisk(n, v)
    BY <2>1 DEF HasMount, HasDisk, BindShape, TaskShape, Ops
  <2> QED
    BY <2>1, <2>2 DEF Placement, On
<1> QED
  BY <1>1, <1>2

\* Between two tasks no node has a volume that is not bound.
LEMMA InvDetached == IInv => UnboundIsDetached
<1> SUFFICES ASSUME IInv PROVE UnboundIsDetached
  OBVIOUS
<1> USE DEF IInv, PInv, Parts, TypeOK
<1>1. ASSUME Idle, ~disturbed, NEW v \in Volumes \ bound, NEW n \in nodes
      PROVE  ~IsAttached(n, v) /\ fstab[n][v] = NoPort
  <2>1. op = "none" /\ vol = NoVolume
    BY <1>1 DEF Idle, TaskShape, Ops
  <2>2. ~HasDisk(n, v) /\ ~HasMount(n, v)
    BY <2>1, NoValuesAssumption DEF HasDisk, HasMount
  <2> QED
    BY <1>1, <2>2 DEF Placement, Idle
<1> QED
  BY <1>1 DEF UnboundIsDetached, RemovedIsDetached

\* Type correctness: no port beyond the last is written to a row or used on a VM
\* (getNextSATAPortIndex, requestAttachLocalVolumeToVM).
THEOREM TypeCorrect == Spec => []TypeOK
<1>1. IInv => TypeOK
  BY DEF IInv
<1> QED
  BY <1>1, InvInit, InvStep, PTL DEF Spec

\* A bound volume is on every node at the row's port and mounted from it, and no
\* folder shows another volume's disk, as long as no answer was lost, no host failed
\* to release a disk, no removal of a worker failed after disks were detached from it
\* (scaleDownK8SClusterNodes) and no worker was added over a gap (attachAndMount- and
\* detatchAndUnmountLocalVolume..., and the scale-up that repeats the bindings).
THEOREM BoundUsable == Spec => []BoundIsUsable
BY InvInit, InvStep, InvUsable, PTL DEF Spec

\* Under the same condition a volume that is not bound is on no node; and, whatever
\* failed, a volume whose row was deleted is on no VM of the cluster
\* (deleteLocalVolumeFromClusterVMs).
THEOREM UnboundDetached == Spec => []UnboundIsDetached
BY InvInit, InvStep, InvDetached, PTL DEF Spec

=============================================================================
