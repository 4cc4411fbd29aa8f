---------------------------- MODULE IpLeaseProofs ----------------------------
(***************************************************************************)
(* Proofs about IpLease, for any pool, reserved addresses, deployments,    *)
(* deletion tasks and number of restarts.                                  *)
(*                                                                         *)
(* An address that left the pool has one claimant: the answer that carries *)
(* it, the node that holds it, the message or the deletion task that gives *)
(* it back, the ping that probes it.  A step passes a claim on, drops it,  *)
(* or makes one on an address nobody claims.                               *)
(***************************************************************************)
EXTENDS IpLease, FiniteSetTheorems, TLAPS

(* The inductive invariant.                                                *)

\* A deployment has an address from the answer on, and keeps it in the row.
LeasedHasIp ==
  \A n \in Nodes : phase[n] \in {"leased", "booted", "up", "deleted"} \/ vm[n] # "none"
                     => ip[n] \in Ips

VmPhase == \A n \in Nodes : vm[n] # "none" => phase[n] \in {"booted", "up", "abandoned"}

\* A deletion task has the snapshot of a row.
DelShape ==
  \A d \in Deletions : delStage[d] # "none" =>
    delNode[d] \in Nodes /\ phase[delNode[d]] \in {"up", "deleted"}

Shape == TypeOK /\ LeasedHasIp /\ VmPhase /\ DelShape

Kinds == {"node", "answer", "back", "probe", "del"}
Owners == Nodes \cup Deletions \cup {NoNode}

\* Who may use address a or put it back into the pool.
Claim(k, o, a) ==
  \/ k = "node" /\ o \in Nodes /\ Holds(o) /\ ip[o] = a
  \/ k = "answer" /\ o \in Nodes /\ LeaseAnswer(o, a) \in msgs
  \/ k = "back" /\ o \in Nodes /\ ReturnMsg(o, a) \in msgs
  \/ k = "probe" /\ <<"return", a, o>> \in probes
  \/ k = "del" /\ o \in Deletions /\ delStage[o] = "returning" /\ ip[delNode[o]] = a

OneClaim ==
  \A a \in Ips, k, l \in Kinds, o, p \in Owners :
    Claim(k, o, a) /\ Claim(l, p, a) => k = l /\ o = p

\* The pool offers a claimed address only while init() waits for the rows, and
\* then its claimant is a node with a row: FilterInUse takes it off the list.
OfferedIsFree ==
  \A a \in Range(available), k \in Kinds, o \in Owners :
    Claim(k, o, a) => ~ready /\ k = "node" /\ HasRow(o)

Undisturbed == OneClaim /\ OfferedIsFree /\ IsInjective(available)

IInv == Shape /\ (~disturbed => Undisturbed)

\* What a step does to the claims: it makes none, or the claim of g by q on b
\* becomes one of l by p.
NoNewClaim ==
  \A a \in Ips, k \in Kinds, o \in Owners :
    Claim(k, o, a)' => Claim(k, o, a) /\ (k = "node" /\ HasRow(o) => HasRow(o)')

ClaimPassesOn(b, g, q, l, p) ==
  \A a \in Ips, k \in Kinds, o \in Owners :
    Claim(k, o, a)' => \/ /\ Claim(k, o, a) /\ ~(k = g /\ o = q /\ a = b)
                          /\ k = "node" /\ HasRow(o) => HasRow(o)'
                       \/ a = b /\ k = l /\ o = p

----------------------------------------------------------------------------
(* The filter of the pool.                                                 *)

\* filter keeps addresses of the list that are in S, and repeats none if the list
\* does not: the j-th of them is at the position with j members of K up to it.
LEMMA OnlyKeeps ==
  ASSUME NEW A, NEW s \in Seq(A), NEW S
  PROVE  /\ Only(s, S) \in Seq(A)
         /\ Range(Only(s, S)) \subseteq Range(s) \cap S
         /\ IsInjective(s) => IsInjective(Only(s, S))
<1> DEFINE K == {i \in DOMAIN s : s[i] \in S}
           Below(i) == {k \in K : k <= i}
           n == Cardinality(K)
           At(j) == CHOOSE i \in K : Cardinality(Below(i)) = j
<1>1. K \in SUBSET (1..Len(s)) /\ IsFiniteSet(1..Len(s))
  BY FS_Interval
<1>2. IsFiniteSet(K) /\ n \in Nat
  BY <1>1, FS_Subset, FS_CardinalityType
<1>3. \A i \in K : /\ i \in Below(i) /\ Below(i) \in SUBSET K
                   /\ IsFiniteSet(Below(i))
                   /\ Cardinality(Below(i)) \in 1..n
  <2> TAKE i \in K
  <2>1. i \in Below(i) /\ Below(i) \in SUBSET K
    BY <1>1
  <2>2. IsFiniteSet(Below(i)) /\ Cardinality(Below(i)) <= n
    BY <1>2, <2>1, FS_Subset
  <2>3. Cardinality(Below(i)) \in Nat /\ Cardinality(Below(i)) # 0
    BY <2>1, <2>2, FS_CardinalityType, FS_EmptySet
  <2> QED BY <1>2, <2>1, <2>2, <2>3
<1>4. \A i, j \in K : Cardinality(Below(i)) = Cardinality(Below(j)) => i = j
  <2>1. \A i, j \in K : i < j => Cardinality(Below(i)) # Cardinality(Below(j))
    <3> SUFFICES ASSUME NEW i \in K, NEW j \in K, i < j,
                        Cardinality(Below(i)) = Cardinality(Below(j))
                 PROVE  FALSE
      OBVIOUS
    <3>1. Below(i) \in SUBSET Below(j)
      BY <1>1
    <3>2. Below(i) = Below(j)
      BY <1>3, <3>1, FS_Subset
    <3> QED BY <1>1, <1>3, <3>2
  <2>2. \A i \in K : i \in Int
    BY <1>1
  <2> HIDE DEF K, Below
  <2> QED BY <2>1, <2>2
<1>5. \A j \in 1..n : At(j) \in K /\ Cardinality(Below(At(j))) = j
  <2> DEFINE r == [i \in K |-> Cardinality(Below(i))]
  <2>1. r \in Injection(K, 1..n)
    <3>1. r \in [K -> 1..n]
      BY <1>3
    <3>2. \A i, j \in K : r[i] = r[j] => i = j
      BY <1>4
    <3> HIDE DEF r
    <3> QED BY <3>1, <3>2 DEF Injection, IsInjective
  <2>2. IsFiniteSet(1..n) /\ Cardinality(1..n) = n
    BY <1>2, FS_Interval
  <2>3. r \in Surjection(K, 1..n)
    <3> HIDE DEF r, K
    <3> QED BY <2>1, <2>2, FS_Injection
  <2>4. \A j \in 1..n : \E i \in K : r[i] = j
    BY <2>3 DEF Surjection
  <2>5. \A j \in 1..n : \E i \in K : Cardinality(Below(i)) = j
    BY <2>4
  <2> QED BY <2>5
<1>6. Only(s, S) = [j \in 1..n |-> s[At(j)]]
  BY DEF Only
<1> HIDE DEF n, At
<1>7. \A j \in 1..n : s[At(j)] \in A /\ s[At(j)] \in S /\ At(j) \in DOMAIN s
  <2> TAKE j \in 1..n
  <2>1. At(j) \in K
    BY <1>5
  <2>2. At(j) \in DOMAIN s /\ s[At(j)] \in S
    BY <2>1
  <2> QED BY <2>2
<1>8. Only(s, S) \in Seq(A)
  BY <1>2, <1>6, <1>7
<1>9. Range(Only(s, S)) \subseteq Range(s) \cap S
  BY <1>6, <1>7 DEF Range
<1>10. IsInjective(s) => IsInjective(Only(s, S))
  <2> SUFFICES ASSUME IsInjective(s), NEW i \in 1..n, NEW j \in 1..n, s[At(i)] = s[At(j)]
               PROVE  i = j
    BY <1>6 DEF IsInjective
  <2>1. At(i) = At(j)
    BY <1>7 DEF IsInjective
  <2> QED BY <1>5, <2>1
<1> QED BY <1>8, <1>9, <1>10

----------------------------------------------------------------------------
(* Messages.                                                               *)

\* Messages of different kinds, nodes or addresses differ.
LEMMA MessagesDiffer ==
  ASSUME NEW n, NEW m, NEW a, NEW b
  PROVE  /\ LeaseRequest(n) # LeaseAnswer(m, a)
         /\ LeaseRequest(n) # ReturnMsg(m, a)
         /\ LeaseAnswer(n, a) # ReturnMsg(m, b)
         /\ LeaseAnswer(n, a) = LeaseAnswer(m, b) => n = m /\ a = b
         /\ ReturnMsg(n, a) = ReturnMsg(m, b) => n = m /\ a = b
         /\ LeaseRequest(n).type = "leaseIp"
         /\ LeaseAnswer(n, a).type = "leasedIp"
         /\ ReturnMsg(n, a).type = "returnLeasedIp"
         /\ ReturnMsg(n, a).node = n /\ ReturnMsg(n, a).ip = a
  BY DEF LeaseRequest, LeaseAnswer, ReturnMsg

\* What a message of the network is.
LEMMA MessageOf ==
  ASSUME TypeOK, NEW m \in msgs
  PROVE  /\ m.type = "returnLeasedIp" =>
              \E n \in Nodes, a \in Ips : m = ReturnMsg(n, a)
         /\ \A n, a : m = LeaseAnswer(n, a) => n \in Nodes /\ a \in Ips \cup {NoIp}
<1> DEFINE R == {LeaseRequest(x) : x \in Nodes}
           W == {LeaseAnswer(x, y) : x \in Nodes, y \in Ips \cup {NoIp}}
           B == {ReturnMsg(x, y) : x \in Nodes, y \in Ips}
<1>1. m \in R \/ m \in W \/ m \in B
  BY DEF TypeOK, MsgSet
<1>2. CASE m \in R
  BY <1>2, MessagesDiffer
<1>3. CASE m \in W
  BY <1>3, MessagesDiffer
<1>4. CASE m \in B
  BY <1>4, MessagesDiffer
<1> QED BY <1>1, <1>2, <1>3, <1>4

\* The messages the code sends are in MsgSet.
LEMMA MessageTypes ==
  ASSUME NEW n \in Nodes
  PROVE  /\ LeaseRequest(n) \in MsgSet
         /\ \A a \in Ips \cup {NoIp} : LeaseAnswer(n, a) \in MsgSet
         /\ \A a \in Ips : ReturnMsg(n, a) \in MsgSet
  BY DEF MsgSet

----------------------------------------------------------------------------
(* Types and what holds whatever was disturbed.                            *)

\* The first state has the right types and shape.
LEMMA InitTypes == Init => Shape
<1> SUFFICES ASSUME Init PROVE Shape
  OBVIOUS
<1>1. TypeOK
  <2>1. available \in Seq(Ips)
    BY PoolAssumption DEF Init
  <2>2. ready \in BOOLEAN /\ disturbed \in BOOLEAN
    BY DEF Init
  <2>3. probes \subseteq ProbeSet /\ msgs \subseteq MsgSet
    BY DEF Init
  <2>4. restarts \in 0..MaxRestarts
    BY FlagsAssumption DEF Init
  <2> QED BY <2>1, <2>2, <2>3, <2>4 DEF Init, TypeOK, Phases
<1> QED BY <1>1 DEF Init, Shape, LeasedHasIp, VmPhase, DelShape

\* Every step keeps the types.
LEMMA TypePreserved == Shape /\ [Next]_vars => TypeOK'
<1> SUFFICES ASSUME Shape, [Next]_vars PROVE TypeOK'
  OBVIOUS
<1> USE FlagsAssumption DEF TypeOK, Shape, tcVars, hostVars, delVars, SetPhase, SetVm, Phases
<1>1. CASE FilterInUse
  <2>1. available' \in Seq(Ips)
    BY <1>1, OnlyKeeps DEF FilterInUse
  <2>2. \A a \in Range(available') : a \in Ips
    BY <2>1 DEF Range
  <2>3. \A a \in Ips : <<"init", a, NoNode>> \in ProbeSet
    BY DEF ProbeSet
  <2>4. probes' \subseteq ProbeSet
    BY <1>1, <2>2, <2>3 DEF FilterInUse
  <2> QED BY <1>1, <2>1, <2>4 DEF FilterInUse
<1>2. ASSUME NEW p \in probes, InitProbeEnds(p) PROVE TypeOK'
  <2>1. available' \in Seq(Ips)
    BY <1>2, OnlyKeeps DEF InitProbeEnds
  <2> QED BY <1>2, <2>1 DEF InitProbeEnds
<1>3. ASSUME NEW p \in probes, ReturnProbeEnds(p) PROVE TypeOK'
  <2>1. p[2] \in Ips
    BY DEF ProbeSet
  <2>2. available' \in Seq(Ips)
    BY <1>3, <2>1 DEF ReturnProbeEnds
  <2> QED BY <1>3, <2>2 DEF ReturnProbeEnds
<1>4. ASSUME NEW n \in Nodes, ServeLease(n) PROVE TypeOK'
  <2> DEFINE a == IF available = <<>> THEN NoIp ELSE Head(available)
  <2>1. a \in Ips \cup {NoIp}
    OBVIOUS
  <2>2. msgs' \subseteq MsgSet
    BY <1>4, <2>1, MessageTypes DEF ServeLease
  <2>3. available' \in Seq(Ips)
    BY <1>4 DEF ServeLease
  <2>4. disturbed' \in BOOLEAN
    BY <1>4 DEF ServeLease
  <2> QED BY <1>4, <2>2, <2>3, <2>4 DEF ServeLease
<1>5. ASSUME NEW m \in msgs, ReceiveReturn(m) PROVE TypeOK'
  <2>1. PICK n \in Nodes, a \in Ips : m = ReturnMsg(n, a)
    BY <1>5, MessageOf DEF ReceiveReturn
  <2>2. probes' \subseteq ProbeSet
    BY <1>5, <2>1, MessagesDiffer DEF ReceiveReturn, ProbeSet
  <2> QED BY <1>5, <2>2 DEF ReceiveReturn
<1>6. ASSUME NEW m \in msgs, LoseMessage(m) PROVE TypeOK'
  BY <1>6 DEF LoseMessage
<1>7. CASE RestartController
  <2>1. disturbed' \in BOOLEAN
    BY <1>7 DEF RestartController
  <2>2. available' \in Seq(Ips) /\ msgs' \subseteq MsgSet /\ restarts' \in 0..MaxRestarts
    BY <1>7, PoolAssumption DEF RestartController
  <2>3. delStage' \in [Deletions -> {"none", "scheduled", "returning", "done"}]
    BY <1>7 DEF RestartController
  <2> QED BY <1>7, <2>1, <2>2, <2>3 DEF RestartController
<1>8. ASSUME NEW n \in Nodes, AskLease(n) PROVE TypeOK'
  BY <1>8, MessageTypes DEF AskLease
<1>9. ASSUME NEW n \in Nodes, LeaseTimeout(n) PROVE TypeOK'
  BY <1>9 DEF LeaseTimeout
<1>10. ASSUME NEW n \in Nodes, NEW a \in Ips \cup {NoIp}, ReceiveLease(n, a)
       PROVE  TypeOK'
  BY <1>10 DEF ReceiveLease
<1>11. ASSUME NEW n \in Nodes, BootVm(n) PROVE TypeOK'
  BY <1>11 DEF BootVm
<1>12. ASSUME NEW n \in Nodes, DeployFails(n) PROVE TypeOK'
  BY <1>12, MessageTypes DEF DeployFails, LeasedHasIp, VmPhase
<1>13. ASSUME NEW n \in Nodes, RegisterNode(n) PROVE TypeOK'
  BY <1>13 DEF RegisterNode
<1>14. ASSUME NEW n \in Nodes, RegisterFails(n) PROVE TypeOK'
  BY <1>14 DEF RegisterFails
<1>15. ASSUME NEW n \in Nodes, HostCrash(n) PROVE TypeOK'
  BY <1>15 DEF HostCrash
<1>16. ASSUME NEW n \in Nodes, EnsureNodesStarted(n) PROVE TypeOK'
  BY <1>16 DEF EnsureNodesStarted
<1>17. ASSUME NEW n \in Nodes, RemoveWorker(n) PROVE TypeOK'
  BY <1>17 DEF RemoveWorker
<1>18. ASSUME NEW d \in Deletions, NEW n \in Nodes, ScheduleDelete(d, n) PROVE TypeOK'
  BY <1>18 DEF ScheduleDelete
<1>19. ASSUME NEW d \in Deletions, Deprovision(d) PROVE TypeOK'
  <2>1. disturbed' \in BOOLEAN
    BY <1>19 DEF Deprovision
  <2>2. delNode[d] \in Nodes
    BY <1>19 DEF Deprovision, DelShape
  <2> QED BY <1>19, <2>1, <2>2 DEF Deprovision
<1>20. ASSUME NEW d \in Deletions, DeprovisionFails(d) PROVE TypeOK'
  <2>1. delNode[d] \in Nodes
    BY <1>20 DEF DeprovisionFails, DelShape
  <2> QED BY <1>20, <2>1 DEF DeprovisionFails
<1>21. ASSUME NEW d \in Deletions, ReturnCollected(d) PROVE TypeOK'
  <2>1. ip[delNode[d]] \in Ips
    BY <1>21 DEF ReturnCollected, DelShape, LeasedHasIp
  <2>2. probes' \subseteq ProbeSet
    BY <1>21, <2>1 DEF ReturnCollected, ProbeSet
  <2> QED BY <1>21, <2>2 DEF ReturnCollected
<1>22. CASE UNCHANGED vars
  BY <1>22 DEF vars
<1> QED BY <1>1, <1>2, <1>3, <1>4, <1>5, <1>6, <1>7, <1>8, <1>9, <1>10, <1>11, <1>12, <1>13,
           <1>14, <1>15, <1>16, <1>17, <1>18, <1>19, <1>20, <1>21, <1>22
        DEF Next, ControllerStep, HostStep, DeletionStep

\* Every step keeps addresses and machines where the phases say they are.
LEMMA ShapePreserved == Shape /\ [Next]_vars => Shape'
<1> SUFFICES ASSUME Shape, [Next]_vars PROVE (LeasedHasIp /\ VmPhase /\ DelShape)'
  BY TypePreserved DEF Shape
<1> USE NoValuesAssumption DEF TypeOK, Shape, LeasedHasIp, VmPhase, DelShape,
        hostVars, delVars, SetPhase, SetVm, Phases
<1>1. CASE UNCHANGED <<hostVars, delVars>>
  BY <1>1
<1>2. CASE RestartController
  BY <1>2 DEF RestartController
<1>3. ASSUME NEW n \in Nodes, BootVm(n) PROVE (LeasedHasIp /\ VmPhase /\ DelShape)'
  BY <1>3 DEF BootVm
<1>4. ASSUME NEW n \in Nodes, DeployFails(n) PROVE (LeasedHasIp /\ VmPhase /\ DelShape)'
  BY <1>4 DEF DeployFails
<1>5. ASSUME NEW n \in Nodes, RegisterNode(n)
      PROVE  (LeasedHasIp /\ VmPhase /\ DelShape)'
  BY <1>5 DEF RegisterNode
<1>6. ASSUME NEW n \in Nodes, RegisterFails(n)
      PROVE  (LeasedHasIp /\ VmPhase /\ DelShape)'
  BY <1>6 DEF RegisterFails
<1>7. ASSUME NEW n \in Nodes, HostCrash(n) PROVE (LeasedHasIp /\ VmPhase /\ DelShape)'
  BY <1>7 DEF HostCrash
<1>8. ASSUME NEW n \in Nodes, EnsureNodesStarted(n)
      PROVE  (LeasedHasIp /\ VmPhase /\ DelShape)'
  BY <1>8 DEF EnsureNodesStarted
<1>9. ASSUME NEW n \in Nodes, RemoveWorker(n)
      PROVE  (LeasedHasIp /\ VmPhase /\ DelShape)'
  BY <1>9 DEF RemoveWorker
<1>10. ASSUME NEW n \in Nodes, AskLease(n) PROVE (LeasedHasIp /\ VmPhase /\ DelShape)'
  BY <1>10 DEF AskLease
<1>11. ASSUME NEW n \in Nodes, LeaseTimeout(n)
       PROVE  (LeasedHasIp /\ VmPhase /\ DelShape)'
  BY <1>11 DEF LeaseTimeout
<1>12. ASSUME NEW n \in Nodes, NEW a \in Ips \cup {NoIp}, ReceiveLease(n, a)
       PROVE  (LeasedHasIp /\ VmPhase /\ DelShape)'
  BY <1>12 DEF ReceiveLease
<1>13. ASSUME NEW d \in Deletions, NEW n \in Nodes, ScheduleDelete(d, n)
       PROVE  (LeasedHasIp /\ VmPhase /\ DelShape)'
  BY <1>13 DEF ScheduleDelete, HasRow
<1>14. ASSUME NEW d \in Deletions, Deprovision(d)
       PROVE  (LeasedHasIp /\ VmPhase /\ DelShape)'
  BY <1>14 DEF Deprovision
<1>15. ASSUME NEW d \in Deletions, DeprovisionFails(d)
       PROVE  (LeasedHasIp /\ VmPhase /\ DelShape)'
  BY <1>15 DEF DeprovisionFails
<1>16. ASSUME NEW d \in Deletions, ReturnCollected(d)
       PROVE  (LeasedHasIp /\ VmPhase /\ DelShape)'
  BY <1>16 DEF ReturnCollected
<1>17. CASE ControllerStep
  BY <1>17, <1>1, <1>2
     DEF ControllerStep, FilterInUse, InitProbeEnds, ReturnProbeEnds, ServeLease,
         ReceiveReturn, LoseMessage
<1> QED BY <1>1, <1>2, <1>3, <1>4, <1>5, <1>6, <1>7, <1>8, <1>9, <1>10, <1>11, <1>12, <1>13, <1>14, <1>15, <1>16, <1>17
        DEF Next, HostStep, DeletionStep, vars

----------------------------------------------------------------------------
(* What holds as long as nothing was disturbed.                            *)

\* A step that makes no claim and offers nothing new.
LEMMA ClaimsShrink ==
  ASSUME Undisturbed,
         Range(available') \subseteq Range(available), Range(available) \subseteq Ips,
         IsInjective(available'), ready' = ready,
         NoNewClaim
  PROVE  Undisturbed'
<1>1. OneClaim'
  BY DEF Undisturbed, OneClaim, NoNewClaim
<1>2. OfferedIsFree'
  BY DEF Undisturbed, OfferedIsFree, NoNewClaim
<1> QED BY <1>1, <1>2 DEF Undisturbed

\* A step after which b has at most the claim of l by p and is not offered.
LEMMA ClaimMoves ==
  ASSUME Undisturbed,
         Range(available') \subseteq Range(available), Range(available) \subseteq Ips,
         IsInjective(available'), ready' = ready,
         NEW b \in Ips, NEW l \in Kinds, NEW p \in Owners,
         b \notin Range(available'),
         \A a \in Ips, k \in Kinds, o \in Owners :
           Claim(k, o, a)' => \/ a # b /\ Claim(k, o, a) /\ (k = "node" /\ HasRow(o) => HasRow(o)')
                              \/ a = b /\ k = l /\ o = p
  PROVE  Undisturbed'
<1>1. OneClaim'
  BY DEF Undisturbed, OneClaim
<1>2. OfferedIsFree'
  BY DEF Undisturbed, OfferedIsFree
<1> QED BY <1>1, <1>2 DEF Undisturbed

\* A step that passes a claim on and leaves the pool alone.
LEMMA ClaimPasses ==
  ASSUME Undisturbed, Range(available) \subseteq Ips, UNCHANGED <<available, ready>>,
         NEW b \in Ips, NEW g \in Kinds, NEW q \in Owners, Claim(g, q, b),
         NEW l \in Kinds, NEW p \in Owners,
         ready \/ g # "node" \/ ~HasRow(q),
         ClaimPassesOn(b, g, q, l, p)
  PROVE  Undisturbed'
<1>1. b \notin Range(available)
  BY DEF Undisturbed, OfferedIsFree
<1>2. \A k \in Kinds, o \in Owners : Claim(k, o, b) => k = g /\ o = q
  BY DEF Undisturbed, OneClaim
<1>3. \A a \in Ips, k \in Kinds, o \in Owners :
        Claim(k, o, a)' => \/ a # b /\ Claim(k, o, a) /\ (k = "node" /\ HasRow(o) => HasRow(o)')
                           \/ a = b /\ k = l /\ o = p
  BY <1>2 DEF ClaimPassesOn
<1>4. Range(available') = Range(available) /\ IsInjective(available') /\ ready' = ready
  BY DEF Undisturbed
<1> QED BY <1>1, <1>3, <1>4, ClaimMoves

\* Every step that disturbs nothing keeps the claims apart: ReturnProbeEnds offers an
\* address whose claim ends, ServeLease hands one out that nobody claims, the others
\* drop or pass on a claim.
LEMMA UndisturbedPreserved ==
  Shape /\ Undisturbed /\ [Next]_vars /\ ~disturbed' => Undisturbed'
<1> SUFFICES ASSUME Shape, Undisturbed, [Next]_vars, ~disturbed' PROVE Undisturbed'
  OBVIOUS
<1>1. TypeOK /\ Shape' /\ TypeOK' /\ Range(available) \subseteq Ips /\ Range(available') \subseteq Ips
  <2>1. TypeOK /\ Shape' /\ TypeOK'
    BY ShapePreserved DEF Shape
  <2>2. Range(available) \subseteq Ips /\ Range(available') \subseteq Ips
    BY <2>1 DEF TypeOK, Range
  <2> QED BY <2>1, <2>2
<1> USE <1>1 DEF tcVars, hostVars, delVars, SetPhase, SetVm
<1>2. CASE FilterInUse
  <2>1. /\ Range(available') \subseteq Range(available) \cap (Ips \ (IpsInUse \cup Reserved))
        /\ IsInjective(available')
    BY <1>2, OnlyKeeps DEF FilterInUse, Undisturbed, TypeOK
  <2>2. \A a \in Ips, k \in Kinds, o \in Owners :
          (Claim(k, o, a)' <=> Claim(k, o, a)) /\ (HasRow(o)' <=> HasRow(o))
    BY <1>2 DEF FilterInUse, Claim, Holds, HasRow
  <2>3. OneClaim'
    BY <2>2 DEF Undisturbed, OneClaim
  <2>4. \A a \in Ips, o \in Owners : Claim("node", o, a) /\ HasRow(o) => a \in IpsInUse
    BY DEF Claim, IpsInUse
  <2>5. OfferedIsFree'
    BY <2>1, <2>2, <2>4 DEF Undisturbed, OfferedIsFree
  <2> QED BY <2>1, <2>3, <2>5 DEF Undisturbed
<1>3. ASSUME NEW p \in probes, InitProbeEnds(p) PROVE Undisturbed'
  <2>1. Range(available') \subseteq Range(available) /\ IsInjective(available')
    BY <1>3, OnlyKeeps DEF InitProbeEnds, Undisturbed, TypeOK
  <2>2. NoNewClaim
    BY <1>3 DEF NoNewClaim, InitProbeEnds, Claim, Holds, HasRow
  <2> QED BY <1>3, <2>1, <2>2, ClaimsShrink DEF InitProbeEnds
<1>4. ASSUME NEW p \in probes, ReturnProbeEnds(p) PROVE Undisturbed'
  <2>1. PICK b \in Ips, q \in Owners : p = <<"return", b, q>>
    BY <1>4 DEF ReturnProbeEnds, TypeOK, ProbeSet, Owners
  <2>2. Claim("probe", q, b)
    BY <2>1 DEF Claim
  <2>3. b \notin Range(available)
    BY <2>2 DEF Undisturbed, OfferedIsFree, Kinds
  <2>4. \A k \in Kinds, o \in Owners : Claim(k, o, b) => k = "probe" /\ o = q
    BY <2>2 DEF Undisturbed, OneClaim, Kinds
  <2>5. \A a \in Ips, k \in Kinds, o \in Owners :
          Claim(k, o, a)' => /\ Claim(k, o, a) /\ (k = "node" /\ HasRow(o) => HasRow(o)')
                             /\ ~(k = "probe" /\ o = q /\ a = b)
    BY <1>4, <2>1 DEF ReturnProbeEnds, Claim, Holds, HasRow
  <2>6. \A a \in Ips, k \in Kinds, o \in Owners : Claim(k, o, a)' => a # b
    BY <2>4, <2>5
  <2>7. Range(available') \subseteq Range(available) \cup {b} /\ IsInjective(available')
    <3>1. CASE available' = available
      BY <3>1 DEF Undisturbed
    <3>2. CASE available' = Append(available, b)
      <4>1. \A i \in DOMAIN available : available[i] \in Range(available)
        BY DEF Range
      <4> QED BY <2>3, <3>2, <4>1 DEF Undisturbed, IsInjective, TypeOK, Range
    <3> QED BY <1>4, <2>1, <3>1, <3>2 DEF ReturnProbeEnds
  <2>8. OneClaim'
    BY <2>5 DEF Undisturbed, OneClaim
  <2>9. ready' = ready
    BY <1>4 DEF ReturnProbeEnds
  <2>10. OfferedIsFree'
    BY <2>5, <2>6, <2>7, <2>9 DEF Undisturbed, OfferedIsFree
  <2> QED BY <2>7, <2>8, <2>10 DEF Undisturbed
<1>5. ASSUME NEW n \in Nodes, ServeLease(n) PROVE Undisturbed'
  <2>1. CASE available = <<>>
    <3>1. NoNewClaim
      BY <1>5, <2>1, MessagesDiffer, NoValuesAssumption
         DEF NoNewClaim, ServeLease, Claim, Holds, HasRow
    <3>2. available' = available /\ ready' = ready
      BY <1>5, <2>1 DEF ServeLease
    <3> QED BY <3>1, <3>2, ClaimsShrink DEF Undisturbed
  <2>2. CASE available # <<>>
    <3> DEFINE b == Head(available)
    <3>1. available' = Tail(available) /\ ready' = ready
      BY <1>5, <2>2 DEF ServeLease
    <3>2. b = available[1] /\ 1 \in DOMAIN available /\ b \in Range(available) /\ b \in Ips
      BY <2>2 DEF TypeOK, Range
    <3>3. /\ Range(available') \subseteq Range(available)
          /\ IsInjective(available') /\ b \notin Range(available')
      <4>1. \A i \in DOMAIN available' : /\ i + 1 \in DOMAIN available /\ i \in Nat \ {0}
                                         /\ available'[i] = available[i + 1]
        BY <2>2, <3>1 DEF TypeOK
      <4> QED BY <3>2, <4>1 DEF Undisturbed, IsInjective, Range
    <3>4. ready \/ b \notin IpsInUse
      BY <1>5, <2>2 DEF ServeLease
    <3>5. \A k \in Kinds, o \in Owners : ~Claim(k, o, b)
      BY <3>2, <3>4 DEF Undisturbed, OfferedIsFree, Claim, IpsInUse
    <3>6. \A a \in Ips, k \in Kinds, o \in Owners :
            Claim(k, o, a)' => \/ Claim(k, o, a) /\ (k = "node" /\ HasRow(o) => HasRow(o)')
                               \/ a = b /\ k = "answer" /\ o = n
      BY <1>5, <2>2, MessagesDiffer DEF ServeLease, Claim, Holds, HasRow
    <3> HIDE DEF b
    <3>7. "answer" \in Kinds /\ n \in Owners
      BY DEF Kinds, Owners
    <3>8. \A a \in Ips, k \in Kinds, o \in Owners :
            Claim(k, o, a)' =>
              \/ a # b /\ Claim(k, o, a) /\ (k = "node" /\ HasRow(o) => HasRow(o)')
              \/ a = b /\ k = "answer" /\ o = n
      BY <3>5, <3>6
    <3>9. b \in Ips /\ ready' = ready
      BY <3>1, <3>2
    <3> QED BY <3>3, <3>7, <3>8, <3>9, ClaimMoves
  <2> QED BY <2>1, <2>2
<1>6. ASSUME NEW m \in msgs, ReceiveReturn(m) PROVE Undisturbed'
  <2>1. PICK n \in Nodes, b \in Ips : m = ReturnMsg(n, b)
    BY <1>6, MessageOf DEF ReceiveReturn
  <2>2. Claim("back", n, b) /\ "back" \in Kinds /\ "probe" \in Kinds /\ n \in Owners
    BY <2>1 DEF Claim, Kinds, Owners
  <2>3. ClaimPassesOn(b, "back", n, "probe", n)
    BY <1>6, <2>1, MessagesDiffer DEF ClaimPassesOn, ReceiveReturn, Claim, Holds, HasRow
  <2>4. UNCHANGED <<available, ready>>
    BY <1>6 DEF ReceiveReturn
  <2> QED BY <2>2, <2>3, <2>4, ClaimPasses
<1>7. ASSUME NEW m \in msgs, LoseMessage(m) PROVE Undisturbed'
  <2>1. NoNewClaim
    BY <1>7 DEF NoNewClaim, LoseMessage, Claim, Holds, HasRow
  <2> QED BY <1>7, <2>1, ClaimsShrink DEF LoseMessage, Undisturbed
<1>8. CASE RestartController
  <2>1. \A n \in Nodes : ~Unrecorded(n)
    BY <1>8 DEF RestartController
  <2>2. \A a \in Ips, k \in Kinds, o \in Owners :
          Claim(k, o, a)' => Claim(k, o, a) /\ k = "node" /\ HasRow(o) /\ HasRow(o)'
    BY <1>8, <2>1 DEF RestartController, Unrecorded, Claim, Holds, HasRow, TypeOK
  <2>3. IsInjective(available') /\ ~ready'
    BY <1>8, PoolAssumption DEF RestartController, IsInjective
  <2>4. OneClaim'
    BY <2>2 DEF Undisturbed, OneClaim
  <2>5. OfferedIsFree'
    BY <2>2, <2>3 DEF OfferedIsFree
  <2> QED BY <2>3, <2>4, <2>5 DEF Undisturbed
<1>9. ASSUME NEW n \in Nodes, AskLease(n) PROVE Undisturbed'
  <2>1. \A o \in Nodes, a \in Ips :
          /\ LeaseAnswer(o, a) \in msgs' => LeaseAnswer(o, a) \in msgs
          /\ ReturnMsg(o, a) \in msgs' => ReturnMsg(o, a) \in msgs
    BY <1>9, MessagesDiffer DEF AskLease
  <2>2. \A o \in Nodes : (Holds(o)' => Holds(o)) /\ (HasRow(o) => HasRow(o)')
    BY <1>9 DEF AskLease, Holds, HasRow, TypeOK
  <2>3. UNCHANGED <<ip, probes, delNode, delStage>>
    BY <1>9 DEF AskLease
  <2>4. NoNewClaim
    BY <2>1, <2>2, <2>3 DEF NoNewClaim, Claim
  <2> QED BY <1>9, <2>4, ClaimsShrink DEF AskLease, Undisturbed
<1>10. ASSUME NEW n \in Nodes, LeaseTimeout(n) PROVE Undisturbed'
  <2>1. NoNewClaim
    BY <1>10 DEF NoNewClaim, LeaseTimeout, Claim, Holds, HasRow, TypeOK
  <2> QED BY <1>10, <2>1, ClaimsShrink DEF LeaseTimeout, Undisturbed
<1>11. ASSUME NEW n \in Nodes, NEW b \in Ips \cup {NoIp}, ReceiveLease(n, b)
       PROVE  Undisturbed'
  <2>1. available' = available /\ ready' = ready
    BY <1>11 DEF ReceiveLease
  <2>2. CASE phase[n] # "asking" \/ b = NoIp
    <3>1. NoNewClaim
      BY <1>11, <2>2, NoValuesAssumption
         DEF NoNewClaim, ReceiveLease, Claim, Holds, HasRow, TypeOK, Shape, VmPhase,
             DelShape
    <3> QED BY <2>1, <3>1, ClaimsShrink DEF Undisturbed
  <2>3. CASE phase[n] = "asking" /\ b \in Ips
    <3>1. Claim("answer", n, b) /\ "answer" \in Kinds /\ "node" \in Kinds /\ n \in Owners
      BY <1>11 DEF ReceiveLease, Claim, Kinds, Owners
    <3>2. ClaimPassesOn(b, "answer", n, "node", n)
      <4>1. \A o \in Nodes, a \in Ips :
              /\ LeaseAnswer(o, a) \in msgs' => LeaseAnswer(o, a) \in msgs /\ ~(o = n /\ a = b)
              /\ ReturnMsg(o, a) \in msgs' => ReturnMsg(o, a) \in msgs
        BY <1>11 DEF ReceiveLease
      <4>2. /\ \A o \in Nodes \ {n} :
                  (Holds(o)' => Holds(o)) /\ (HasRow(o) => HasRow(o)') /\ ip'[o] = ip[o]
            /\ ip'[n] = b /\ ~HasRow(n)
        BY <1>11, <2>3 DEF ReceiveLease, Holds, HasRow, TypeOK
      <4>3. \A d \in Deletions : delStage[d] = "returning" => delNode[d] \in Nodes \ {n}
        BY <2>3 DEF Shape, DelShape
      <4>4. UNCHANGED <<probes, delNode, delStage>>
        BY <1>11 DEF ReceiveLease
      <4> QED BY <4>1, <4>2, <4>3, <4>4 DEF ClaimPassesOn, Claim
    <3> QED BY <2>1, <2>3, <3>1, <3>2, ClaimPasses
  <2> QED BY <2>2, <2>3
<1>12. ASSUME NEW n \in Nodes, BootVm(n) PROVE Undisturbed'
  <2>1. NoNewClaim
    BY <1>12 DEF NoNewClaim, BootVm, Claim, Holds, HasRow, TypeOK
  <2> QED BY <1>12, <2>1, ClaimsShrink DEF BootVm, Undisturbed
<1>13. ASSUME NEW n \in Nodes, DeployFails(n) PROVE Undisturbed'
  <2> DEFINE b == ip[n]
  <2>1. b \in Ips /\ Holds(n) /\ ~HasRow(n)
    BY <1>13 DEF DeployFails, Shape, LeasedHasIp, Holds, HasRow
  <2>2. Claim("node", n, b) /\ "node" \in Kinds /\ "back" \in Kinds /\ n \in Owners
    BY <2>1 DEF Claim, Kinds, Owners
  <2>3. ClaimPassesOn(b, "node", n, "back", n)
    BY <1>13, MessagesDiffer, SMTT(20)
       DEF ClaimPassesOn, DeployFails, Claim, Holds, HasRow, TypeOK
  <2>4. UNCHANGED <<available, ready>>
    BY <1>13 DEF DeployFails
  <2> HIDE DEF b
  <2> QED BY <2>1, <2>2, <2>3, <2>4, ClaimPasses
<1>14. ASSUME NEW n \in Nodes, RegisterNode(n) PROVE Undisturbed'
  <2>1. NoNewClaim
    BY <1>14 DEF NoNewClaim, RegisterNode, Claim, Holds, HasRow, TypeOK
  <2> QED BY <1>14, <2>1, ClaimsShrink DEF RegisterNode, Undisturbed
<1>15. ASSUME NEW n \in Nodes, RegisterFails(n) PROVE Undisturbed'
  <2>1. NoNewClaim
    BY <1>15 DEF NoNewClaim, RegisterFails, Claim, Holds, HasRow, TypeOK
  <2> QED BY <1>15, <2>1, ClaimsShrink DEF RegisterFails, Undisturbed
<1>16. ASSUME NEW n \in Nodes, HostCrash(n) PROVE Undisturbed'
  <2>1. NoNewClaim
    BY <1>16 DEF NoNewClaim, HostCrash, Claim, Holds, HasRow, TypeOK
  <2> QED BY <1>16, <2>1, ClaimsShrink DEF HostCrash, Undisturbed
<1>17. ASSUME NEW n \in Nodes, EnsureNodesStarted(n) PROVE Undisturbed'
  <2>1. NoNewClaim
    BY <1>17 DEF NoNewClaim, EnsureNodesStarted, Claim, Holds, HasRow, TypeOK
  <2> QED BY <1>17, <2>1, ClaimsShrink DEF EnsureNodesStarted, Undisturbed
<1>18. ASSUME NEW n \in Nodes, RemoveWorker(n) PROVE Undisturbed'
  <2>1. NoNewClaim
    BY <1>18 DEF NoNewClaim, RemoveWorker, Claim, Holds, HasRow, TypeOK
  <2> QED BY <1>18, <2>1, ClaimsShrink DEF RemoveWorker, Undisturbed
<1>19. ASSUME NEW d \in Deletions, NEW n \in Nodes, ScheduleDelete(d, n)
       PROVE  Undisturbed'
  <2>1. NoNewClaim
    BY <1>19 DEF NoNewClaim, ScheduleDelete, Claim, Holds, HasRow, TypeOK
  <2> QED BY <1>19, <2>1, ClaimsShrink DEF ScheduleDelete, Undisturbed
<1>20. ASSUME NEW d \in Deletions, Deprovision(d) PROVE Undisturbed'
  <2> DEFINE n == delNode[d]
             b == ip[n]
  <2>1. n \in Nodes /\ b \in Ips /\ Holds(n) /\ ready
    BY <1>20 DEF Deprovision, Shape, DelShape, LeasedHasIp, Holds
  <2>2. /\ Claim("node", n, b) /\ "node" \in Kinds /\ "del" \in Kinds
        /\ n \in Owners /\ d \in Owners
    BY <2>1 DEF Claim, Kinds, Owners
  <2>3. ClaimPassesOn(b, "node", n, "del", d)
    BY <1>20 DEF ClaimPassesOn, Deprovision, Claim, Holds, HasRow, TypeOK
  <2>4. UNCHANGED <<available, ready>>
    BY <1>20 DEF Deprovision
  <2> HIDE DEF n, b
  <2> QED BY <2>1, <2>2, <2>3, <2>4, ClaimPasses
<1>21. ASSUME NEW d \in Deletions, DeprovisionFails(d) PROVE Undisturbed'
  BY <1>21 DEF DeprovisionFails
<1>22. ASSUME NEW d \in Deletions, ReturnCollected(d) PROVE Undisturbed'
  <2> DEFINE b == ip[delNode[d]]
  <2>1. b \in Ips
    BY <1>22 DEF ReturnCollected, Shape, DelShape, LeasedHasIp
  <2>2. Claim("del", d, b) /\ "del" \in Kinds /\ "probe" \in Kinds /\ d \in Owners
    BY <1>22 DEF ReturnCollected, Claim, Kinds, Owners
  <2>3. ClaimPassesOn(b, "del", d, "probe", d)
    BY <1>22 DEF ClaimPassesOn, ReturnCollected, Claim, Holds, HasRow, TypeOK
  <2>4. UNCHANGED <<available, ready>>
    BY <1>22 DEF ReturnCollected
  <2> HIDE DEF b
  <2> QED BY <2>1, <2>2, <2>3, <2>4, ClaimPasses
<1>23. CASE UNCHANGED vars
  <2>1. NoNewClaim
    BY <1>23 DEF NoNewClaim, vars, Claim, Holds, HasRow
  <2> QED BY <1>23, <2>1, ClaimsShrink DEF vars, Undisturbed
<1> QED BY <1>2, <1>3, <1>4, <1>5, <1>6, <1>7, <1>8, <1>9, <1>10, <1>11, <1>12, <1>13, <1>14,
           <1>15, <1>16, <1>17, <1>18, <1>19, <1>20, <1>21, <1>22, <1>23
        DEF Next, ControllerStep, HostStep, DeletionStep

----------------------------------------------------------------------------
(* The theorems.                                                           *)

\* The invariant holds in the first state.
LEMMA InitInv == Init => IInv
<1> SUFFICES ASSUME Init PROVE IInv
  OBVIOUS
<1>1. Shape
  BY InitTypes
<1>2. \A a, k, o : ~Claim(k, o, a)
  BY DEF Init, Claim, Holds
<1>3. IsInjective(available)
  BY PoolAssumption DEF Init, IsInjective
<1> QED BY <1>1, <1>2, <1>3 DEF IInv, Undisturbed, OneClaim, OfferedIsFree

\* What disturbed the pool is not forgotten.
LEMMA OnceDisturbed == TypeOK /\ [Next]_vars /\ disturbed => disturbed'
  BY DEF TypeOK, Next, ControllerStep, HostStep, DeletionStep, vars, FilterInUse,
         InitProbeEnds, ReturnProbeEnds, ServeLease, ReceiveReturn, LoseMessage,
         RestartController, AskLease, LeaseTimeout, ReceiveLease, BootVm, DeployFails,
         RegisterNode, RegisterFails, HostCrash, EnsureNodesStarted, RemoveWorker,
         ScheduleDelete, Deprovision, DeprovisionFails, ReturnCollected

\* The invariant is inductive.
LEMMA InvPreserved == IInv /\ [Next]_vars => IInv'
  BY ShapePreserved, UndisturbedPreserved, OnceDisturbed DEF IInv, Shape

\* It holds in every reachable state.
LEMMA InvHolds == Spec => []IInv
  BY InitInv, InvPreserved, PTL DEF Spec

\* Type correctness of the pool, the messages, the deployments and the deletions.
THEOREM TypeCorrect == Spec => []TypeOK
<1>1. IInv => TypeOK
  BY DEF IInv, Shape
<1> QED BY <1>1, InvHolds, PTL

\* As long as no address in use was served and no node deprovisioned before init()
\* had filtered the pool, no restart came while an address was in no row, and no
\* deletion failed: no two nodes hold an address, and the pool has none of theirs
\* and none twice (leaseFreeIp, returnLeasedIp, init).
THEOREM AddressesUnique == Spec => []UniqueIps
<1>1. IInv => UniqueIps
  <2> SUFFICES ASSUME IInv, ~disturbed PROVE UniqueIps
    BY DEF UniqueIps
  <2>1. \A n \in Nodes : Holds(n) => Claim("node", n, ip[n]) /\ ip[n] \in Ips /\ n \in Owners
    BY DEF IInv, Shape, LeasedHasIp, Holds, Claim, Owners
  <2> QED BY <2>1 DEF IInv, Undisturbed, OneClaim, OfferedIsFree, UniqueIps, Kinds
<1> QED BY <1>1, InvHolds, PTL
=============================================================================
