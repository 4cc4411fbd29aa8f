-------------------------- MODULE RequestResponse --------------------------
(***************************************************************************)
(* Requests over MQTT (controllers/mqtt/index.js of the API, the task      *)
(* controller and the host nodes).  A request is an entry of               *)
(* pendingResponses under a fresh id, a timer, and a published query; an   *)
(* answer is matched by the id in its topic.  A "respond" request takes    *)
(* the first answer of one host, a "collect" request gathers the answers   *)
(* of all hosts until its timer fires.                                     *)
(*                                                                         *)
(* Messages have QoS 0: lost, late and reordered, never duplicated.  Host  *)
(* nodes look their own address up before they publish.  All but the task  *)
(* controller clear the timer when the answer arrives.                     *)
(***************************************************************************)
EXTENDS Naturals, FiniteSets

CONSTANTS Requests, Hosts,
          Collect,       \* requests of collectRequestResponse
          AddressFirst,  \* requests made by a host node
          ClearsTimer,   \* requests made by the API or a host node
          MaxCrashes     \* bound: crashes of callers and hosts

ASSUME KindsAssumption == /\ Collect \subseteq Requests
                          /\ AddressFirst \subseteq ClearsTimer
                          /\ ClearsTimer \subseteq Requests \ Collect
ASSUME BoundAssumption == MaxCrashes \in Nat

VARIABLES stage,      \* idle, addressing, sent or dead: the caller's code
          entry,      \* the requests with an entry in pendingResponses
          timer,      \* off, armed, cleared or fired
          payloads,   \* hosts whose answers a collect request has gathered
          settled,    \* how often resolve or reject was called
          outcome, result,   \* of the promise
          wire,       \* messages under way
          working,    \* <<host, request>>: the host's handler runs
          done,       \* per request, the hosts whose handler ended
          crashes

caller == <<stage, entry, timer, payloads, settled, outcome, result>>
vars == <<caller, wire, working, done, crashes>>

Query(r, h) == [type |-> "query", req |-> r, host |-> h]
Answer(r, h) == [type |-> "respond", req |-> r, host |-> h]
Messages == {Query(r, h) : r \in Requests, h \in Hosts}
            \cup {Answer(r, h) : r \in Requests, h \in Hosts}

TypeOK ==
  /\ stage \in [Requests -> {"idle", "addressing", "sent", "dead"}]
  /\ entry \subseteq Requests
  /\ timer \in [Requests -> {"off", "armed", "cleared", "fired"}]
  /\ payloads \in [Requests -> SUBSET Hosts]
  /\ settled \in [Requests -> 0..2]
  /\ outcome \in [Requests -> {"none", "open", "resolved", "rejected", "forgotten"}]
  /\ result \in [Requests -> SUBSET Hosts]
  /\ wire \subseteq Messages
  /\ working \subseteq Hosts \X Requests
  /\ done \in [Requests -> SUBSET Hosts]
  /\ crashes \in 0..MaxCrashes

Init ==
  /\ stage = [r \in Requests |-> "idle"]
  /\ entry = {}
  /\ timer = [r \in Requests |-> "off"]
  /\ payloads = [r \in Requests |-> {}]
  /\ settled = [r \in Requests |-> 0]
  /\ outcome = [r \in Requests |-> "none"]
  /\ result = [r \in Requests |-> {}]
  /\ wire = {} /\ working = {}
  /\ done = [r \in Requests |-> {}]
  /\ crashes = 0

\* A promise keeps its first outcome; calling resolve or reject again is void.
Settle(r, o, answers) ==
  /\ settled' = [settled EXCEPT ![r] = IF @ = 2 THEN 2 ELSE @ + 1]
  /\ outcome' = [outcome EXCEPT ![r] = IF @ = "open" THEN o ELSE @]
  /\ result' = [result EXCEPT ![r] = IF outcome[r] = "open" THEN answers ELSE @]

Unsettled == UNCHANGED <<settled, outcome, result>>

\* The query goes to one host, or to every host when answers are collected.
Publish(r) ==
  IF r \in Collect
  THEN wire' = wire \cup {Query(r, h) : h \in Hosts}
  ELSE \E h \in Hosts : wire' = wire \cup {Query(r, h)}

----------------------------------------------------------------------------
(* The caller.                                                             *)

Request(r) ==
  /\ stage[r] = "idle"
  /\ entry' = entry \cup {r}
  /\ timer' = [timer EXCEPT ![r] = "armed"]
  /\ outcome' = [outcome EXCEPT ![r] = "open"]
  /\ IF r \in AddressFirst
     THEN stage' = [stage EXCEPT ![r] = "addressing"] /\ UNCHANGED wire
     ELSE stage' = [stage EXCEPT ![r] = "sent"] /\ Publish(r)
  /\ UNCHANGED <<payloads, settled, result, working, done, crashes>>

\* getIp resolved: the query is published, even when the timer has fired.
AddressFound(r) ==
  /\ stage[r] = "addressing"
  /\ stage' = [stage EXCEPT ![r] = "sent"]
  /\ Publish(r)
  /\ UNCHANGED <<entry, timer, payloads, settled, outcome, result, working, done, crashes>>

\* getIp rejected.  When the timer has fired there is no entry to clear: the
\* catch block throws, with no effect on the settled promise.
AddressFails(r) ==
  /\ stage[r] = "addressing"
  /\ stage' = [stage EXCEPT ![r] = "dead"]
  /\ entry' = entry \ {r}
  /\ IF r \in entry
     THEN timer' = [timer EXCEPT ![r] = "cleared"] /\ Settle(r, "rejected", {})
     ELSE Unsettled /\ UNCHANGED timer
  /\ UNCHANGED <<payloads, wire, working, done, crashes>>

\* Mutant of Timeout: the gathered messages, not the hosts' data.
TimeoutRaw(r) ==
  /\ timer[r] = "armed"
  /\ timer' = [timer EXCEPT ![r] = "fired"]
  /\ entry' = entry \ {r}
  /\ IF r \notin entry THEN Unsettled
     ELSE IF r \in Collect THEN Settle(r, "resolved", {Answer(r, h) : h \in payloads[r]})
     ELSE Settle(r, "rejected", {})
  /\ UNCHANGED <<stage, payloads, wire, working, done, crashes>>

Timeout(r) ==
  /\ timer[r] = "armed"
  /\ timer' = [timer EXCEPT ![r] = "fired"]
  /\ entry' = entry \ {r}
  /\ IF r \notin entry THEN Unsettled
     ELSE IF r \in Collect THEN Settle(r, "resolved", payloads[r])
     ELSE Settle(r, "rejected", {})
  /\ UNCHANGED <<stage, payloads, wire, working, done, crashes>>

\* Mutant of ReceiveAnswer: the timer is cleared and the answer cannot be read.
ReceiveAnswerUnread(r, h) ==
  /\ Answer(r, h) \in wire
  /\ wire' = wire \ {Answer(r, h)}
  /\ timer' = IF r \in entry THEN [timer EXCEPT ![r] = "cleared"] ELSE timer
  /\ Unsettled
  /\ UNCHANGED <<stage, entry, payloads, working, done, crashes>>

\* An answer without an entry is nobody's: it is dropped.
ReceiveAnswer(r, h) ==
  /\ Answer(r, h) \in wire
  /\ wire' = wire \ {Answer(r, h)}
  /\ \/ r \notin entry /\ UNCHANGED <<entry, timer, payloads>> /\ Unsettled
     \/ /\ r \in entry \cap Collect
        /\ payloads' = [payloads EXCEPT ![r] = @ \cup {h}]
        /\ UNCHANGED <<entry, timer>> /\ Unsettled
     \/ /\ r \in entry \ Collect
        /\ Settle(r, "resolved", {h})
        /\ entry' = entry \ {r}
        /\ timer' = IF r \in ClearsTimer THEN [timer EXCEPT ![r] = "cleared"] ELSE timer
        /\ UNCHANGED payloads
  /\ UNCHANGED <<stage, working, done, crashes>>

\* The caller's process restarts: entries, timers and promises are gone.
CallerCrash ==
  /\ crashes < MaxCrashes
  /\ crashes' = crashes + 1
  /\ stage' = [r \in Requests |-> IF stage[r] = "idle" THEN "idle" ELSE "dead"]
  /\ entry' = {}
  /\ timer' = [r \in Requests |-> IF timer[r] = "armed" THEN "off" ELSE timer[r]]
  /\ outcome' = [r \in Requests |-> IF outcome[r] = "open" THEN "forgotten" ELSE outcome[r]]
  /\ UNCHANGED <<payloads, settled, result, wire, working, done>>

----------------------------------------------------------------------------
(* The hosts and the network.                                              *)

Serve(r, h) ==
  /\ Query(r, h) \in wire
  /\ wire' = wire \ {Query(r, h)}
  /\ working' = working \cup {<<h, r>>}
  /\ UNCHANGED <<caller, done, crashes>>

\* Mutant of FinishWork: the answer is published before the work is done.
AnswerFirst(r, h) ==
  /\ <<h, r>> \in working
  /\ wire' = wire \cup {Answer(r, h)}
  /\ working' = working \ {<<h, r>>}
  /\ UNCHANGED <<caller, done, crashes>>

FinishWork(r, h) ==
  /\ <<h, r>> \in working
  /\ working' = working \ {<<h, r>>}
  /\ done' = [done EXCEPT ![r] = @ \cup {h}]
  /\ wire' = wire \cup {Answer(r, h)}
  /\ UNCHANGED <<caller, crashes>>

HostCrash(h) ==
  /\ crashes < MaxCrashes
  /\ crashes' = crashes + 1
  /\ working' = {w \in working : w[1] # h}
  /\ UNCHANGED <<caller, wire, done>>

LoseMessage(m) ==
  /\ wire' = wire \ {m}
  /\ UNCHANGED <<caller, working, done, crashes>>

----------------------------------------------------------------------------
Next ==
  \/ \E r \in Requests : Request(r) \/ AddressFound(r) \/ AddressFails(r) \/ Timeout(r)
  \/ \E r \in Requests, h \in Hosts : ReceiveAnswer(r, h) \/ Serve(r, h) \/ FinishWork(r, h)
  \/ CallerCrash
  \/ \E h \in Hosts : HostCrash(h)
  \/ \E m \in wire : LoseMessage(m)

Spec == Init /\ [][Next]_vars

(* Only timers are fair: messages may be lost and hosts may never answer.  *)
FairSpec == Spec /\ \A r \in Requests : WF_vars(Timeout(r))

----------------------------------------------------------------------------
(* Properties.                                                             *)

\* Neither a late answer nor a timer that was not cleared calls resolve or
\* reject a second time.
SettledOnce == \A r \in Requests : settled[r] <= 1

\* An id is in pendingResponses exactly while its promise is open: entries do
\* not pile up, and no open promise is out of reach of its answer.
EntryIsOpen == entry = {r \in Requests : outcome[r] = "open"}

\* Requests implement the abstract promise: they resolve with answers of hosts
\* that finished the work, and only while open.
Abstract == INSTANCE Rpc
ImplementsRpc == Abstract!Spec

\* Every request settles, whatever the network and the hosts do, unless the
\* caller's process dies first.
RequestsSettle == \A r \in Requests : outcome[r] = "open" ~> outcome[r] # "open"
============================================================================
