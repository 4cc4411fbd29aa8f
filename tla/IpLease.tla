------------------------------ MODULE IpLease ------------------------------
(***************************************************************************)
(* Addresses of cluster nodes when DHCP_OVERWRITE is set.  The task        *)
(* controller keeps the pool in memory (controllers/dhcp/index.js); a host *)
(* node asks for an address over MQTT while it deploys a VM and gives it   *)
(* back when the deployment fails; the task that deprovisions a workspace  *)
(* gives back the addresses of the nodes in its payload.                   *)
(*                                                                         *)
(* An address handed out is recorded only in the k8s_nodes row written at  *)
(* the end of a deployment, and an address is taken back after one ping.   *)
(***************************************************************************)
EXTENDS Naturals, Sequences, FiniteSets, Functions

CONSTANTS Pool,          \* the addresses init() generates, in that order
          Reserved,      \* DHCP_RESERVED
          UsePing,       \* DHCP_USE_PING
          Nodes,         \* deployments of one VM each
          Deletions,     \* DEPROVISION-WORKSPACE-RESOURCES tasks, per node
          NoIp, NoNode,
          MaxRestarts    \* bound: restarts of the task controller

Ips == {Pool[i] : i \in DOMAIN Pool}

ASSUME PoolAssumption == /\ Pool \in Seq(Ips)
                         /\ \A i, j \in DOMAIN Pool : Pool[i] = Pool[j] => i = j
                         /\ Reserved \subseteq Ips
ASSUME NoValuesAssumption == NoIp \notin Ips /\ NoNode \notin Nodes
ASSUME FlagsAssumption == UsePing \in BOOLEAN /\ MaxRestarts \in Nat

VARIABLES available,     \* DHCPController.available
          ready,         \* init() has filtered the addresses in use
          probes,        \* pings sent and not yet answered: <<purpose, ip, origin>>
          msgs,          \* MQTT messages under way
          phase,         \* how far the deployment of a node is
          ip,            \* leasedIp of the deployment, then k8s_nodes.ip
          vm,            \* the VirtualBox machine of the node
          delNode, delStage,  \* per deletion task: its node, how far it is
          restarts,
          disturbed      \* history: one of the events named below happened

tcVars == <<available, ready, probes>>
hostVars == <<phase, ip, vm>>
delVars == <<delNode, delStage>>
vars == <<tcVars, msgs, hostVars, delVars, restarts, disturbed>>

LeaseRequest(n) == [type |-> "leaseIp", node |-> n]
LeaseAnswer(n, a) == [type |-> "leasedIp", node |-> n, ip |-> a]
ReturnMsg(n, a) == [type |-> "returnLeasedIp", node |-> n, ip |-> a]

MsgSet == {LeaseRequest(n) : n \in Nodes}
          \cup {LeaseAnswer(n, a) : n \in Nodes, a \in Ips \cup {NoIp}}
          \cup {ReturnMsg(n, a) : n \in Nodes, a \in Ips}
ProbeSet == {"init", "return"} \X Ips \X (Nodes \cup Deletions \cup {NoNode})
Phases == {"idle", "asking", "leased", "booted", "up", "failed", "rolledback",
           "abandoned", "deleted"}

TypeOK ==
  /\ available \in Seq(Ips)
  /\ ready \in BOOLEAN
  /\ probes \subseteq ProbeSet
  /\ msgs \subseteq MsgSet
  /\ phase \in [Nodes -> Phases]
  /\ ip \in [Nodes -> Ips \cup {NoIp}]
  /\ vm \in [Nodes -> {"none", "running", "stopped"}]
  /\ delNode \in [Deletions -> Nodes \cup {NoNode}]
  /\ delStage \in [Deletions -> {"none", "scheduled", "returning", "done"}]
  /\ restarts \in 0..MaxRestarts
  /\ disturbed \in BOOLEAN

Init ==
  /\ available = Pool
  /\ ready = FALSE
  /\ probes = {}
  /\ msgs = {}
  /\ phase = [n \in Nodes |-> "idle"]
  /\ ip = [n \in Nodes |-> NoIp]
  /\ vm = [n \in Nodes |-> "none"]
  /\ delNode = [d \in Deletions |-> NoNode]
  /\ delStage = [d \in Deletions |-> "none"]
  /\ restarts = 0
  /\ disturbed = FALSE

HasRow(n) == phase[n] = "up"
IpsInUse == {ip[n] : n \in {m \in Nodes : HasRow(m)}}
Answers(a) == \E n \in Nodes : vm[n] = "running" /\ ip[n] = a

\* The node holds its address: it is being deployed, deployed, or left behind.
Holds(n) == phase[n] \in {"leased", "booted", "up"} \/ vm[n] # "none"

----------------------------------------------------------------------------
(* The pool in the task controller.                                        *)

\* available.filter: the members of S, in their order.
Only(s, S) ==
  LET K == {i \in DOMAIN s : s[i] \in S}
      Rank(i) == Cardinality({k \in K : k <= i})
  IN [j \in 1..Cardinality(K) |-> s[CHOOSE i \in K : Rank(i) = j]]

\* init() after its await: rows and reserved addresses leave the list.
FilterInUse ==
  /\ ~ready
  /\ ready' = TRUE
  /\ available' = Only(available, Ips \ (IpsInUse \cup Reserved))
  /\ probes' = IF UsePing
               THEN probes \cup {<<"init", a, NoNode>> : a \in Range(available')}
               ELSE probes
  /\ UNCHANGED <<msgs, hostVars, delVars, restarts, disturbed>>

\* The ping sent by init() is answered or times out.
InitProbeEnds(p) ==
  /\ p \in probes /\ p[1] = "init"
  /\ probes' = probes \ {p}
  /\ available' = IF Answers(p[2])
                  THEN Only(available, Ips \ {p[2]})
                  ELSE available
  /\ UNCHANGED <<ready, msgs, hostVars, delVars, restarts, disturbed>>

\* Mutant of ServeLease: the address is read and not removed.
ServeLeaseKeeps(n) ==
  /\ LeaseRequest(n) \in msgs
  /\ available # <<>>
  /\ msgs' = (msgs \ {LeaseRequest(n)}) \cup {LeaseAnswer(n, Head(available))}
  /\ UNCHANGED <<tcVars, hostVars, delVars, restarts, disturbed>>

\* leaseIp: the first address, or undefined when the pool is empty.
\* Disturbed: served before init() has removed the addresses in use.
ServeLease(n) ==
  LET a == IF available = <<>> THEN NoIp ELSE Head(available)
  IN /\ LeaseRequest(n) \in msgs
     /\ available' = IF available = <<>> THEN <<>> ELSE Tail(available)
     /\ msgs' = (msgs \ {LeaseRequest(n)}) \cup {LeaseAnswer(n, a)}
     /\ disturbed' = (disturbed \/ (~ready /\ a \in IpsInUse \cup Reserved))
     /\ UNCHANGED <<ready, probes, hostVars, delVars, restarts>>

\* returnLeasedIp received: the address is probed first.
ReceiveReturn(m) ==
  /\ m \in msgs /\ m.type = "returnLeasedIp"
  /\ msgs' = msgs \ {m}
  /\ probes' = probes \cup {<<"return", m.ip, m.node>>}
  /\ UNCHANGED <<available, ready, hostVars, delVars, restarts, disturbed>>

\* Nobody answered: the address joins the end of the list.
ReturnProbeEnds(p) ==
  /\ p \in probes /\ p[1] = "return"
  /\ probes' = probes \ {p}
  /\ available' = IF Answers(p[2]) THEN available ELSE Append(available, p[2])
  /\ UNCHANGED <<ready, msgs, hostVars, delVars, restarts, disturbed>>

\* An address that was handed out and is in no k8s_nodes row.
Unrecorded(n) == \/ Holds(n) /\ ~HasRow(n)
                 \/ \E a \in Ips : {LeaseAnswer(n, a), ReturnMsg(n, a)} \cap msgs # {}

\* The list is generated again; calls and messages to the controller are lost.
\* Disturbed: some address was handed out and not yet recorded in a row.
RestartController ==
  /\ restarts < MaxRestarts
  /\ restarts' = restarts + 1
  /\ available' = Pool
  /\ ready' = FALSE
  /\ probes' = {}
  /\ msgs' = {m \in msgs : m.type = "leasedIp"}
  /\ delStage' = [d \in Deletions |-> IF delStage[d] = "returning" THEN "done" ELSE delStage[d]]
  /\ disturbed' = (disturbed \/ \E n \in Nodes : Unrecorded(n))
  /\ UNCHANGED <<hostVars, delNode>>

LoseMessage(m) ==
  /\ msgs' = msgs \ {m}
  /\ UNCHANGED <<tcVars, hostVars, delVars, restarts, disturbed>>

----------------------------------------------------------------------------
(* Deployments on the host nodes: deployNewCluster and deployWorker.       *)

SetPhase(n, p) == phase' = [phase EXCEPT ![n] = p]
SetVm(n, v) == vm' = [vm EXCEPT ![n] = v]

AskLease(n) ==
  /\ phase[n] = "idle"
  /\ SetPhase(n, "asking")
  /\ msgs' = msgs \cup {LeaseRequest(n)}
  /\ UNCHANGED <<tcVars, ip, vm, delVars, restarts, disturbed>>

\* After 6 s the request is rejected; the deployment fails without an address.
LeaseTimeout(n) ==
  /\ phase[n] = "asking"
  /\ SetPhase(n, "failed")
  /\ UNCHANGED <<tcVars, msgs, ip, vm, delVars, restarts, disturbed>>

\* Mutant of ReceiveLease: an answer without an address is not refused.
ReceiveLeaseUnchecked(n, a) ==
  /\ LeaseAnswer(n, a) \in msgs
  /\ msgs' = msgs \ {LeaseAnswer(n, a)}
  /\ IF phase[n] = "asking"
     THEN SetPhase(n, "leased") /\ ip' = [ip EXCEPT ![n] = a]
     ELSE UNCHANGED <<phase, ip>>
  /\ UNCHANGED <<tcVars, vm, delVars, restarts, disturbed>>

\* An answer nobody waits for any more is dropped, with the address in it.
ReceiveLease(n, a) ==
  /\ LeaseAnswer(n, a) \in msgs
  /\ msgs' = msgs \ {LeaseAnswer(n, a)}
  /\ IF phase[n] = "asking"
     THEN /\ SetPhase(n, IF a = NoIp THEN "failed" ELSE "leased")
          /\ ip' = [ip EXCEPT ![n] = a]
     ELSE UNCHANGED <<phase, ip>>
  /\ UNCHANGED <<tcVars, vm, delVars, restarts, disturbed>>

\* The Vagrant script brings the machine up.
BootVm(n) ==
  /\ phase[n] = "leased"
  /\ SetPhase(n, "booted")
  /\ SetVm(n, "running")
  /\ UNCHANGED <<tcVars, msgs, ip, delVars, restarts, disturbed>>

\* Either catch block: the machine is removed, then the address is sent back.
DeployFails(n) ==
  /\ phase[n] \in {"leased", "booted"}
  /\ SetPhase(n, "failed")
  /\ SetVm(n, "none")
  /\ msgs' = msgs \cup {ReturnMsg(n, ip[n])}
  /\ UNCHANGED <<tcVars, ip, delVars, restarts, disturbed>>

RegisterNode(n) ==
  /\ phase[n] = "booted"
  /\ SetPhase(n, "up")
  /\ UNCHANGED <<tcVars, msgs, ip, vm, delVars, restarts, disturbed>>

\* The row cannot be written: the machine is removed.  The address is read
\* from result.leasedIp, a field the engine's result does not have.
RegisterFails(n) ==
  /\ phase[n] = "booted"
  /\ SetPhase(n, "rolledback")
  /\ SetVm(n, "none")
  /\ UNCHANGED <<tcVars, msgs, ip, delVars, restarts, disturbed>>

\* The host's process dies during a deployment: nobody cleans up.
HostCrash(n) ==
  /\ phase[n] \in {"asking", "leased", "booted"}
  /\ SetPhase(n, "abandoned")
  /\ UNCHANGED <<tcVars, msgs, ip, vm, delVars, restarts, disturbed>>

\* ensureNodesStarted starts machines that are not running.
EnsureNodesStarted(n) ==
  /\ vm[n] = "stopped"
  /\ SetVm(n, "running")
  /\ UNCHANGED <<tcVars, msgs, phase, ip, delVars, restarts, disturbed>>

\* Scale down: machine and row are removed, the address is not returned.
RemoveWorker(n) ==
  /\ phase[n] = "up"
  /\ SetPhase(n, "deleted")
  /\ SetVm(n, "none")
  /\ UNCHANGED <<tcVars, msgs, ip, delVars, restarts, disturbed>>

----------------------------------------------------------------------------
(* Deletion of a workspace: the payload is a snapshot of the node's row.   *)

ScheduleDelete(d, n) ==
  /\ delStage[d] = "none"
  /\ HasRow(n)
  /\ delStage' = [delStage EXCEPT ![d] = "scheduled"]
  /\ delNode' = [delNode EXCEPT ![d] = n]
  /\ UNCHANGED <<tcVars, msgs, hostVars, restarts, disturbed>>

\* Disturbed: the row goes while init() still waits for the rows.
Deprovision(d) ==
  LET n == delNode[d]
  IN /\ delStage[d] = "scheduled"
     /\ phase[n] = "up" /\ vm[n] # "none"
     /\ SetPhase(n, "deleted")
     /\ SetVm(n, "none")
     /\ delStage' = [delStage EXCEPT ![d] = "returning"]
     /\ disturbed' = (disturbed \/ ~ready)
     /\ UNCHANGED <<tcVars, msgs, ip, delNode, restarts>>

\* The machine does not exist (404), or one of the host's steps fails or takes
\* more than 15 minutes.  The task ends in ERROR and returns the address.
DeprovisionFails(d) ==
  LET n == delNode[d]
  IN /\ delStage[d] = "scheduled"
     /\ \E v \in {vm[n]} \cup (IF vm[n] = "running" THEN {"none", "stopped"} ELSE {}) : SetVm(n, v)
     /\ delStage' = [delStage EXCEPT ![d] = "returning"]
     /\ disturbed' = TRUE
     /\ UNCHANGED <<tcVars, msgs, phase, ip, delNode, restarts>>

ReturnCollected(d) ==
  /\ delStage[d] = "returning"
  /\ delStage' = [delStage EXCEPT ![d] = "done"]
  /\ probes' = probes \cup {<<"return", ip[delNode[d]], d>>}
  /\ UNCHANGED <<available, ready, msgs, hostVars, delNode, restarts, disturbed>>

----------------------------------------------------------------------------
ControllerStep ==
  \/ FilterInUse
  \/ \E p \in probes : InitProbeEnds(p) \/ ReturnProbeEnds(p)
  \/ \E n \in Nodes : ServeLease(n)
  \/ \E m \in msgs : ReceiveReturn(m) \/ LoseMessage(m)
  \/ RestartController

HostStep(n) ==
  \/ AskLease(n) \/ LeaseTimeout(n)
  \/ \E a \in Ips \cup {NoIp} : ReceiveLease(n, a)
  \/ BootVm(n) \/ DeployFails(n) \/ RegisterNode(n) \/ RegisterFails(n)
  \/ HostCrash(n) \/ EnsureNodesStarted(n) \/ RemoveWorker(n)

DeletionStep(d) ==
  \/ \E n \in Nodes : ScheduleDelete(d, n)
  \/ Deprovision(d) \/ DeprovisionFails(d) \/ ReturnCollected(d)

Next ==
  \/ ControllerStep
  \/ \E n \in Nodes : HostStep(n)
  \/ \E d \in Deletions : DeletionStep(d)

Spec == Init /\ [][Next]_vars

----------------------------------------------------------------------------
(* Properties.  "disturbed" names the events that defeat the pool: an      *)
(* address in use served, or a node deprovisioned, while init() still      *)
(* waits for the database; a restart while an address is handed out and in *)
(* no row; and a deletion task that fails.                                 *)

\* Without these events an address is in one place: no two nodes hold it, the
\* pool does not offer the address of a node that holds it, nor lists it twice,
\* whatever messages are lost or late and whichever deployments fail or are
\* abandoned.  An address comes back only after its machine is gone.
UniqueIps ==
  ~disturbed =>
    /\ \A n, m \in Nodes : n # m /\ Holds(n) /\ Holds(m) => ip[n] # ip[m]
    /\ ready => \A n \in Nodes : Holds(n) => ip[n] \notin Range(available)
    /\ IsInjective(available)

============================================================================
