-------------------------------- MODULE Rpc --------------------------------
(***************************************************************************)
(* What a request over MQTT promises its caller: the promise settles at    *)
(* most once; it resolves only with what hosts that did the work answered; *)
(* a rejection says nothing about whether the work was or will be done.    *)
(***************************************************************************)
CONSTANTS Requests, Hosts

VARIABLES outcome,     \* per request: none, open, resolved, rejected, forgotten
          done,        \* per request, the hosts that finished the work
          result       \* per request, the hosts whose answers it resolved with

vars == <<outcome, done, result>>

Init ==
  /\ outcome = [r \in Requests |-> "none"]
  /\ done = [r \in Requests |-> {}]
  /\ result = [r \in Requests |-> {}]

Open(r) ==
  /\ outcome[r] = "none"
  /\ outcome' = [outcome EXCEPT ![r] = "open"]
  /\ UNCHANGED <<done, result>>

\* The work may end before or after the caller's promise settles.
FinishWork(r, h) ==
  /\ outcome[r] # "none"
  /\ done' = [done EXCEPT ![r] = @ \cup {h}]
  /\ UNCHANGED <<outcome, result>>

Resolve(r) ==
  /\ outcome[r] = "open"
  /\ outcome' = [outcome EXCEPT ![r] = "resolved"]
  /\ \E answers \in SUBSET done[r] : result' = [result EXCEPT ![r] = answers]
  /\ UNCHANGED done

Reject(r) ==
  /\ outcome[r] = "open"
  /\ outcome' = [outcome EXCEPT ![r] = "rejected"]
  /\ UNCHANGED <<done, result>>

\* The caller's process dies: its open promises are gone.
Forget ==
  /\ outcome' = [r \in Requests |-> IF outcome[r] = "open" THEN "forgotten" ELSE outcome[r]]
  /\ UNCHANGED <<done, result>>

Next ==
  \/ \E r \in Requests : Open(r) \/ Resolve(r) \/ Reject(r)
  \/ \E r \in Requests, h \in Hosts : FinishWork(r, h)
  \/ Forget

Spec == Init /\ [][Next]_vars
============================================================================
