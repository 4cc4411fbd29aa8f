----------------------- MODULE RequestResponseProofs -----------------------
(***************************************************************************)
(* Proofs about RequestResponse, for any requests of any kind, any hosts   *)
(* and any number of crashes: the caller's bookkeeping is exact and the    *)
(* requests implement Rpc.                                                 *)
(***************************************************************************)
EXTENDS RequestResponse, TLAPS

LEMMA TypeInit == Init => TypeOK
BY BoundAssumption DEF Init, TypeOK

LEMMA MessageTypes ==
  ASSUME NEW r \in Requests, NEW h \in Hosts
  PROVE  Query(r, h) \in Messages /\ Answer(r, h) \in Messages
BY DEF Messages

LEMMA SettleTypes ==
  ASSUME TypeOK, NEW r \in Requests, NEW o \in {"resolved", "rejected"},
         NEW A \in SUBSET Hosts, Settle(r, o, A)
  PROVE  /\ settled' \in [Requests -> 0..2]
         /\ outcome' \in [Requests -> {"none", "open", "resolved", "rejected", "forgotten"}]
         /\ result' \in [Requests -> SUBSET Hosts]
<1>1. settled' \in [Requests -> 0..2]
  BY DEF Settle, TypeOK
<1>2. outcome' \in [Requests -> {"none", "open", "resolved", "rejected", "forgotten"}]
  BY DEF Settle, TypeOK
<1>3. result' \in [Requests -> SUBSET Hosts]
  BY DEF Settle, TypeOK
<1> QED
  BY <1>1, <1>2, <1>3

LEMMA PublishTypes ==
  ASSUME TypeOK, NEW r \in Requests, Publish(r)
  PROVE  wire' \subseteq Messages
BY MessageTypes DEF Publish, TypeOK

LEMMA TypeStep == TypeOK /\ [Next]_vars => TypeOK'
<1> SUFFICES ASSUME TypeOK, [Next]_vars PROVE TypeOK'
  OBVIOUS
<1>1. ASSUME NEW r \in Requests, Request(r) PROVE TypeOK'
  <2>1. wire' \subseteq Messages
    BY <1>1, PublishTypes DEF Request, TypeOK
  <2> QED
    BY <1>1, <2>1 DEF Request, TypeOK
<1>2. ASSUME NEW r \in Requests, AddressFound(r) PROVE TypeOK'
  <2>1. wire' \subseteq Messages
    BY <1>2, PublishTypes DEF AddressFound
  <2> QED
    BY <1>2, <2>1 DEF AddressFound, TypeOK
<1>3. ASSUME NEW r \in Requests, AddressFails(r) PROVE TypeOK'
  <2>1. /\ settled' \in [Requests -> 0..2]
        /\ outcome' \in [Requests -> {"none", "open", "resolved", "rejected", "forgotten"}]
        /\ result' \in [Requests -> SUBSET Hosts]
    BY <1>3, SettleTypes DEF AddressFails, Unsettled, TypeOK
  <2> QED
    BY <1>3, <2>1 DEF AddressFails, TypeOK
<1>4. ASSUME NEW r \in Requests, Timeout(r) PROVE TypeOK'
  <2>0. payloads[r] \in SUBSET Hosts
    BY DEF TypeOK
  <2>1. /\ settled' \in [Requests -> 0..2]
        /\ outcome' \in [Requests -> {"none", "open", "resolved", "rejected", "forgotten"}]
        /\ result' \in [Requests -> SUBSET Hosts]
    BY <1>4, <2>0, SettleTypes DEF Timeout, Unsettled, TypeOK
  <2> QED
    BY <1>4, <2>1 DEF Timeout, TypeOK
<1>5. ASSUME NEW r \in Requests, NEW h \in Hosts, ReceiveAnswer(r, h) PROVE TypeOK'
  <2>1. /\ settled' \in [Requests -> 0..2]
        /\ outcome' \in [Requests -> {"none", "open", "resolved", "rejected", "forgotten"}]
        /\ result' \in [Requests -> SUBSET Hosts]
    BY <1>5, SettleTypes DEF ReceiveAnswer, Unsettled, TypeOK
  <2>2. /\ payloads' \in [Requests -> SUBSET Hosts] /\ entry' \subseteq Requests
        /\ timer' \in [Requests -> {"off", "armed", "cleared", "fired"}]
        /\ wire' \subseteq Messages
    BY <1>5 DEF ReceiveAnswer, TypeOK
  <2> QED
    BY <1>5, <2>1, <2>2 DEF ReceiveAnswer, TypeOK
<1>6. ASSUME NEW r \in Requests, NEW h \in Hosts, Serve(r, h) PROVE TypeOK'
  BY <1>6 DEF Serve, TypeOK, caller
<1>7. ASSUME NEW r \in Requests, NEW h \in Hosts, FinishWork(r, h) PROVE TypeOK'
  BY <1>7, MessageTypes DEF FinishWork, TypeOK, caller
<1>8. CASE CallerCrash
  <2>1. crashes' \in 0..MaxCrashes
    BY <1>8, BoundAssumption DEF CallerCrash, TypeOK
  <2>2. /\ stage' \in [Requests -> {"idle", "addressing", "sent", "dead"}]
        /\ timer' \in [Requests -> {"off", "armed", "cleared", "fired"}]
        /\ outcome' \in [Requests -> {"none", "open", "resolved", "rejected", "forgotten"}]
    BY <1>8 DEF CallerCrash, TypeOK
  <2> QED
    BY <1>8, <2>1, <2>2 DEF CallerCrash, TypeOK
<1>9. ASSUME NEW h \in Hosts, HostCrash(h) PROVE TypeOK'
  BY <1>9, BoundAssumption DEF HostCrash, TypeOK, caller
<1>10. ASSUME NEW m \in wire, LoseMessage(m) PROVE TypeOK'
  BY <1>10 DEF LoseMessage, TypeOK, caller
<1>11. CASE UNCHANGED vars
  BY <1>11 DEF vars, caller, TypeOK
<1> QED
  BY <1>1, <1>2, <1>3, <1>4, <1>5, <1>6, <1>7, <1>8, <1>9, <1>10, <1>11 DEF Next

\* Every reachable state has the types of TypeOK.
THEOREM TypeCorrect == Spec => []TypeOK
BY TypeInit, TypeStep, PTL DEF Spec

----------------------------------------------------------------------------
(* The caller's bookkeeping.  That a promise settles once is inductive only *)
(* with the entries being exact: a settled promise has no entry, and only   *)
(* what finds an entry settles.                                             *)

IdleIsUnasked == \A r \in Requests : stage[r] = "idle" <=> outcome[r] = "none"

OpenIsUnsettled ==
  \A r \in Requests : outcome[r] \in {"none", "open", "forgotten"} => settled[r] = 0

CallerInv == TypeOK /\ EntryIsOpen /\ SettledOnce /\ IdleIsUnasked /\ OpenIsUnsettled

LEMMA CallerInit == Init => CallerInv
BY TypeInit DEF Init, CallerInv, EntryIsOpen, SettledOnce, IdleIsUnasked, OpenIsUnsettled

\* A promise with an entry settles and loses the entry.
LEMMA SettleStep ==
  ASSUME CallerInv, TypeOK', NEW r \in entry, NEW o \in {"resolved", "rejected"},
         NEW A, Settle(r, o, A), entry' = entry \ {r},
         \A q \in Requests : stage'[q] = "idle" <=> stage[q] = "idle"
  PROVE  CallerInv'
<1>1. r \in Requests /\ outcome[r] = "open" /\ settled[r] = 0
  BY DEF CallerInv, EntryIsOpen, OpenIsUnsettled, TypeOK
<1>2. /\ outcome'[r] = o /\ settled'[r] = 1
      /\ \A q \in Requests : q # r => outcome'[q] = outcome[q] /\ settled'[q] = settled[q]
  BY <1>1 DEF Settle, CallerInv, TypeOK
<1>3. EntryIsOpen'
  BY <1>1, <1>2 DEF CallerInv, EntryIsOpen
<1>4. SettledOnce' /\ OpenIsUnsettled'
  BY <1>2 DEF CallerInv, SettledOnce, OpenIsUnsettled
<1>5. IdleIsUnasked'
  BY <1>1, <1>2 DEF CallerInv, IdleIsUnasked
<1> QED
  BY <1>3, <1>4, <1>5 DEF CallerInv

\* A step that settles nothing and touches no entry.
LEMMA KeepStep ==
  ASSUME CallerInv, TypeOK', Unsettled, entry' = entry,
         \A q \in Requests : stage'[q] = "idle" <=> stage[q] = "idle"
  PROVE  CallerInv'
BY DEF CallerInv, Unsettled, EntryIsOpen, SettledOnce, IdleIsUnasked, OpenIsUnsettled

LEMMA CallerStep == CallerInv /\ [Next]_vars => CallerInv'
<1> SUFFICES ASSUME CallerInv, [Next]_vars PROVE CallerInv'
  OBVIOUS
<1>0. TypeOK /\ TypeOK'
  BY TypeStep DEF CallerInv
<1>1. ASSUME NEW r \in Requests, Request(r) PROVE CallerInv'
  <2>1. /\ outcome' = [outcome EXCEPT ![r] = "open"] /\ entry' = entry \cup {r}
        /\ UNCHANGED settled /\ stage[r] = "idle"
        /\ \A q \in Requests : stage'[q] = "idle" <=> stage[q] = "idle" /\ q # r
    BY <1>0, <1>1 DEF Request, TypeOK
  <2>2. outcome[r] = "none" /\ settled[r] = 0
    BY <2>1 DEF CallerInv, IdleIsUnasked, OpenIsUnsettled
  <2>3. EntryIsOpen'
    BY <1>0, <2>1 DEF CallerInv, EntryIsOpen, TypeOK
  <2> QED
    BY <1>0, <2>1, <2>2, <2>3
    DEF CallerInv, SettledOnce, IdleIsUnasked, OpenIsUnsettled, TypeOK
<1>2. ASSUME NEW r \in Requests, AddressFound(r) PROVE CallerInv'
  <2>1. \A q \in Requests : stage'[q] = "idle" <=> stage[q] = "idle"
    BY <1>0, <1>2 DEF AddressFound, TypeOK
  <2> QED
    BY <1>0, <1>2, <2>1, KeepStep DEF AddressFound, Unsettled
<1>3. ASSUME NEW r \in Requests, AddressFails(r) PROVE CallerInv'
  <2>1. \A q \in Requests : stage'[q] = "idle" <=> stage[q] = "idle"
    BY <1>0, <1>3 DEF AddressFails, TypeOK
  <2>2. CASE r \in entry
    BY <1>0, <1>3, <2>1, <2>2, SettleStep DEF AddressFails
  <2>3. CASE r \notin entry
    <3>1. entry' = entry /\ Unsettled
      BY <1>3, <2>3 DEF AddressFails
    <3> QED
      BY <1>0, <2>1, <3>1, KeepStep
  <2> QED
    BY <2>2, <2>3
<1>4. ASSUME NEW r \in Requests, Timeout(r) PROVE CallerInv'
  <2>1. \A q \in Requests : stage'[q] = "idle" <=> stage[q] = "idle"
    BY <1>4 DEF Timeout
  <2>2. CASE r \in entry
    BY <1>0, <1>4, <2>1, <2>2, SettleStep DEF Timeout
  <2>3. CASE r \notin entry
    <3>1. entry' = entry /\ Unsettled
      BY <1>4, <2>3 DEF Timeout
    <3> QED
      BY <1>0, <2>1, <3>1, KeepStep
  <2> QED
    BY <2>2, <2>3
<1>5. ASSUME NEW r \in Requests, NEW h \in Hosts, ReceiveAnswer(r, h) PROVE CallerInv'
  <2>1. \A q \in Requests : stage'[q] = "idle" <=> stage[q] = "idle"
    BY <1>5 DEF ReceiveAnswer
  <2>2. CASE entry' = entry /\ Unsettled
    BY <1>0, <2>1, <2>2, KeepStep
  <2>3. CASE r \in entry /\ Settle(r, "resolved", {h}) /\ entry' = entry \ {r}
    BY <1>0, <2>1, <2>3, SettleStep
  <2> QED
    BY <1>5, <2>2, <2>3 DEF ReceiveAnswer
<1>6. CASE CallerCrash
  <2>1. \A q \in Requests :
          /\ stage'[q] = "idle" <=> stage[q] = "idle"
          /\ outcome'[q] = IF outcome[q] = "open" THEN "forgotten" ELSE outcome[q]
    BY <1>0, <1>6 DEF CallerCrash, TypeOK
  <2>2. entry' = {} /\ settled' = settled
    BY <1>6 DEF CallerCrash
  <2> QED
    BY <1>0, <2>1, <2>2
    DEF CallerInv, EntryIsOpen, SettledOnce, IdleIsUnasked, OpenIsUnsettled
<1>7. ASSUME NEW r \in Requests, NEW h \in Hosts, Serve(r, h) \/ FinishWork(r, h)
      PROVE CallerInv'
  BY <1>0, <1>7, KeepStep DEF Serve, FinishWork, caller, Unsettled
<1>8. ASSUME NEW h \in Hosts, HostCrash(h) PROVE CallerInv'
  BY <1>0, <1>8, KeepStep DEF HostCrash, caller, Unsettled
<1>9. ASSUME NEW m \in wire, LoseMessage(m) PROVE CallerInv'
  BY <1>0, <1>9, KeepStep DEF LoseMessage, caller, Unsettled
<1>10. CASE UNCHANGED vars
  BY <1>0, <1>10, KeepStep DEF vars, caller, Unsettled
<1> QED
  BY <1>1, <1>2, <1>3, <1>4, <1>5, <1>6, <1>7, <1>8, <1>9, <1>10 DEF Next

\* Neither a late answer nor a timer that was left running settles a promise
\* a second time.
THEOREM PromisesSettleOnce == Spec => []SettledOnce
<1>1. CallerInv => SettledOnce
  BY DEF CallerInv
<1> QED
  BY CallerInit, CallerStep, <1>1, PTL DEF Spec

\* pendingResponses holds exactly the ids of the open promises.
THEOREM EntriesAreExact == Spec => []EntryIsOpen
<1>1. CallerInv => EntryIsOpen
  BY DEF CallerInv
<1> QED
  BY CallerInit, CallerStep, <1>1, PTL DEF Spec

----------------------------------------------------------------------------
(* Requests implement Rpc.  The mapping is the identity; what has to be     *)
(* known is that answers come from hosts that ended the work, and that work *)
(* is only under way for what was asked.                                    *)

AnswersAreOfDoneWork ==
  \A r \in Requests : /\ payloads[r] \subseteq done[r]
                      /\ \A h \in Hosts : Answer(r, h) \in wire => h \in done[r]

WorkWasAsked ==
  \A r \in Requests, h \in Hosts :
    Query(r, h) \in wire \/ <<h, r>> \in working => outcome[r] # "none"

OpenHasNoResult ==
  \A r \in Requests : outcome[r] \in {"none", "open"} => result[r] = {}

RefInv == CallerInv /\ AnswersAreOfDoneWork /\ WorkWasAsked /\ OpenHasNoResult

LEMMA RefInit == Init => RefInv /\ Abstract!Init
BY CallerInit DEF Init, RefInv, AnswersAreOfDoneWork, WorkWasAsked, OpenHasNoResult,
                  Abstract!Init

LEMMA QueryIsNoAnswer ==
  ASSUME NEW r \in Requests, NEW h \in Hosts, NEW q \in Requests, NEW g \in Hosts
  PROVE  /\ Query(r, h) # Answer(q, g)
         /\ Query(r, h) = Query(q, g) => r = q /\ h = g
         /\ Answer(r, h) = Answer(q, g) => r = q /\ h = g
BY DEF Query, Answer

\* Publishing adds queries of r and nothing else.
LEMMA PublishStep ==
  ASSUME NEW r \in Requests, Publish(r), NEW q \in Requests, NEW h \in Hosts
  PROVE  /\ Answer(q, h) \in wire' => Answer(q, h) \in wire
         /\ Query(q, h) \in wire' => Query(q, h) \in wire \/ q = r
<1>1. \A m \in wire' : m \in wire \/ \E g \in Hosts : m = Query(r, g)
  BY DEF Publish
<1> QED
  BY <1>1, QueryIsNoAnswer

\* Steps that add no message, no work and no answer, and ask nothing.
LEMMA LessStep ==
  ASSUME RefInv, CallerInv', wire' \subseteq wire, working' \subseteq working,
         payloads' = payloads, done' = done,
         \A r \in Requests : /\ outcome'[r] = "none" => outcome[r] = "none"
                             /\ outcome'[r] \in {"none", "open"} =>
                                  outcome'[r] = outcome[r] /\ result'[r] = result[r]
  PROVE  RefInv'
<1>1. AnswersAreOfDoneWork'
  BY DEF RefInv, AnswersAreOfDoneWork
<1>2. WorkWasAsked'
  BY DEF RefInv, WorkWasAsked
<1>3. OpenHasNoResult'
  BY DEF RefInv, OpenHasNoResult
<1> QED
  BY <1>1, <1>2, <1>3 DEF RefInv

\* An open promise that settles does so as Rpc allows.
LEMMA SettleMaps ==
  ASSUME RefInv, NEW r \in entry, NEW A, UNCHANGED done,
         \/ Settle(r, "resolved", A) /\ A \in SUBSET done[r]
         \/ Settle(r, "rejected", A) /\ A = {}
  PROVE  /\ Abstract!Resolve(r) \/ Abstract!Reject(r)
         /\ \A q \in Requests : /\ outcome'[q] = "none" => outcome[q] = "none"
                                /\ outcome'[q] \in {"none", "open"} =>
                                     outcome'[q] = outcome[q] /\ result'[q] = result[q]
<1>1. /\ r \in Requests /\ outcome[r] = "open" /\ result[r] = {}
      /\ result \in [Requests -> SUBSET Hosts]
      /\ outcome \in [Requests -> {"none", "open", "resolved", "rejected", "forgotten"}]
  BY DEF RefInv, CallerInv, EntryIsOpen, OpenHasNoResult, TypeOK
<1>2. /\ outcome' \in {[outcome EXCEPT ![r] = "resolved"], [outcome EXCEPT ![r] = "rejected"]}
      /\ result' = [result EXCEPT ![r] = A]
  BY <1>1 DEF Settle
<1>3. Abstract!Resolve(r) \/ Abstract!Reject(r)
  <2>1. CASE Settle(r, "resolved", A) /\ A \in SUBSET done[r]
    BY <1>1, <2>1 DEF Settle, Abstract!Resolve
  <2>2. CASE Settle(r, "rejected", A) /\ A = {}
    <3>1. result' = result
      BY <1>1, <1>2, <2>2
    <3> QED
      BY <1>1, <2>2, <3>1 DEF Settle, Abstract!Reject
  <2> QED
    BY <2>1, <2>2
<1> QED
  BY <1>1, <1>2, <1>3

LEMMA RefStep == RefInv /\ [Next]_vars => RefInv' /\ [Abstract!Next]_(Abstract!vars)
<1> SUFFICES ASSUME RefInv, [Next]_vars
             PROVE  RefInv' /\ [Abstract!Next]_(Abstract!vars)
  OBVIOUS
<1>0. CallerInv /\ CallerInv' /\ TypeOK /\ TypeOK'
  BY CallerStep DEF RefInv, CallerInv
<1> DEFINE Goal == RefInv' /\ [Abstract!Next]_(Abstract!vars)
<1>1. ASSUME NEW r \in Requests, Request(r) PROVE Goal
  <2>1. /\ outcome' = [outcome EXCEPT ![r] = "open"] /\ outcome[r] = "none"
        /\ UNCHANGED <<done, result, working, payloads>>
        /\ wire' = wire \/ Publish(r)
    BY <1>0, <1>1 DEF Request, CallerInv, IdleIsUnasked
  <2>2. Abstract!Next
    BY <2>1 DEF Abstract!Open, Abstract!Next
  <2>3. \A q \in Requests, h \in Hosts :
          /\ Answer(q, h) \in wire' => Answer(q, h) \in wire
          /\ Query(q, h) \in wire' => Query(q, h) \in wire \/ q = r
    BY <2>1, PublishStep
  <2>4. \A q \in Requests : outcome'[q] = IF q = r THEN "open" ELSE outcome[q]
    BY <1>0, <2>1 DEF TypeOK
  <2>5. AnswersAreOfDoneWork'
    BY <2>1, <2>3 DEF RefInv, AnswersAreOfDoneWork
  <2>6. WorkWasAsked'
    BY <2>1, <2>3, <2>4 DEF RefInv, WorkWasAsked
  <2>7. OpenHasNoResult'
    BY <2>1, <2>4 DEF RefInv, OpenHasNoResult
  <2> QED
    BY <1>0, <2>2, <2>5, <2>6, <2>7 DEF RefInv
<1>2. ASSUME NEW r \in Requests, AddressFound(r) PROVE Goal
  <2>1. /\ UNCHANGED <<outcome, done, result, working, payloads>> /\ Publish(r)
        /\ outcome[r] # "none"
    BY <1>0, <1>2 DEF AddressFound, CallerInv, IdleIsUnasked
  <2>2. \A q \in Requests, h \in Hosts :
          /\ Answer(q, h) \in wire' => Answer(q, h) \in wire
          /\ Query(q, h) \in wire' => Query(q, h) \in wire \/ q = r
    BY <2>1, PublishStep
  <2>3. AnswersAreOfDoneWork' /\ OpenHasNoResult'
    BY <2>1, <2>2 DEF RefInv, AnswersAreOfDoneWork, OpenHasNoResult
  <2>4. WorkWasAsked'
    BY <2>1, <2>2 DEF RefInv, WorkWasAsked
  <2> QED
    BY <1>0, <2>1, <2>3, <2>4 DEF RefInv, Abstract!vars
<1>3. ASSUME NEW r \in Requests, AddressFails(r) \/ Timeout(r) PROVE Goal
  <2>1. UNCHANGED <<done, payloads, wire, working>>
    BY <1>3 DEF AddressFails, Timeout
  <2>2. CASE r \in entry
    <3>1. payloads[r] \in SUBSET done[r]
      BY DEF RefInv, AnswersAreOfDoneWork
    <3>2. Settle(r, "resolved", payloads[r]) \/ Settle(r, "rejected", {})
      BY <1>3, <2>2 DEF AddressFails, Timeout
    <3>3. /\ Abstract!Resolve(r) \/ Abstract!Reject(r)
          /\ \A q \in Requests : /\ outcome'[q] = "none" => outcome[q] = "none"
                                 /\ outcome'[q] \in {"none", "open"} =>
                                      outcome'[q] = outcome[q] /\ result'[q] = result[q]
      BY <2>1, <2>2, <3>1, <3>2, SettleMaps
    <3> QED
      BY <1>0, <2>1, <3>3, LessStep DEF Abstract!Next
  <2>3. CASE r \notin entry
    <3>1. UNCHANGED <<outcome, result>>
      BY <1>3, <2>3 DEF AddressFails, Timeout, Unsettled
    <3> QED
      BY <1>0, <2>1, <3>1, LessStep DEF Abstract!vars
  <2> QED
    BY <2>2, <2>3
<1>4. ASSUME NEW r \in Requests, NEW h \in Hosts, ReceiveAnswer(r, h) PROVE Goal
  <2>1. /\ h \in done[r] /\ wire' \subseteq wire /\ UNCHANGED <<working, done>>
    BY <1>4 DEF ReceiveAnswer, RefInv, AnswersAreOfDoneWork
  <2>2. CASE r \in entry /\ Settle(r, "resolved", {h}) /\ UNCHANGED payloads
    <3>1. /\ Abstract!Resolve(r) \/ Abstract!Reject(r)
          /\ \A q \in Requests : /\ outcome'[q] = "none" => outcome[q] = "none"
                                 /\ outcome'[q] \in {"none", "open"} =>
                                      outcome'[q] = outcome[q] /\ result'[q] = result[q]
      BY <2>1, <2>2, SettleMaps
    <3> QED
      BY <1>0, <2>1, <2>2, <3>1, LessStep DEF Abstract!Next
  <2>3. CASE Unsettled /\ UNCHANGED payloads
    BY <1>0, <2>1, <2>3, LessStep DEF Unsettled, Abstract!vars
  <2>4. CASE Unsettled /\ payloads' = [payloads EXCEPT ![r] = @ \cup {h}]
    <3>1. \A q \in Requests : payloads'[q] \subseteq done[q]
      BY <1>0, <2>1, <2>4 DEF RefInv, AnswersAreOfDoneWork, TypeOK
    <3>2. AnswersAreOfDoneWork'
      BY <2>1, <3>1 DEF RefInv, AnswersAreOfDoneWork
    <3>3. WorkWasAsked' /\ OpenHasNoResult'
      BY <2>1, <2>4 DEF RefInv, WorkWasAsked, OpenHasNoResult, Unsettled
    <3>4. UNCHANGED Abstract!vars
      BY <2>1, <2>4 DEF Unsettled, Abstract!vars
    <3> QED
      BY <1>0, <3>2, <3>3, <3>4 DEF RefInv
  <2> QED
    BY <1>4, <2>2, <2>3, <2>4 DEF ReceiveAnswer
<1>5. CASE CallerCrash
  <2>1. /\ UNCHANGED <<payloads, wire, working, done, result>>
        /\ outcome' = [r \in Requests |-> IF outcome[r] = "open" THEN "forgotten" ELSE outcome[r]]
    BY <1>5 DEF CallerCrash
  <2>2. \A r \in Requests : /\ outcome'[r] = "none" => outcome[r] = "none"
                            /\ outcome'[r] \in {"none", "open"} => outcome'[r] = outcome[r]
    BY <2>1
  <2>3. Abstract!Next
    BY <2>1 DEF Abstract!Forget, Abstract!Next
  <2> QED
    BY <1>0, <2>1, <2>2, <2>3, LessStep
<1>6. ASSUME NEW r \in Requests, NEW h \in Hosts, Serve(r, h) PROVE Goal
  <2>1. /\ UNCHANGED <<payloads, outcome, done, result>>
        /\ wire' \subseteq wire /\ Query(r, h) \in wire
        /\ working' = working \cup {<<h, r>>}
    BY <1>6 DEF Serve, caller
  <2>2. AnswersAreOfDoneWork' /\ WorkWasAsked' /\ OpenHasNoResult'
    BY <2>1 DEF RefInv, AnswersAreOfDoneWork, WorkWasAsked, OpenHasNoResult
  <2> QED
    BY <1>0, <2>1, <2>2 DEF RefInv, Abstract!vars
<1>7. ASSUME NEW r \in Requests, NEW h \in Hosts, FinishWork(r, h) PROVE Goal
  <2>1. /\ UNCHANGED <<payloads, outcome, result>>
        /\ wire' = wire \cup {Answer(r, h)} /\ working' \subseteq working
        /\ done' = [done EXCEPT ![r] = @ \cup {h}] /\ outcome[r] # "none"
    BY <1>7 DEF FinishWork, caller, RefInv, WorkWasAsked
  <2>2. Abstract!Next
    BY <2>1 DEF Abstract!FinishWork, Abstract!Next
  <2>3. h \in done'[r] /\ \A q \in Requests : done[q] \subseteq done'[q]
    BY <1>0, <2>1 DEF TypeOK
  <2>4. AnswersAreOfDoneWork'
    BY <2>1, <2>3, QueryIsNoAnswer DEF RefInv, AnswersAreOfDoneWork
  <2>5. WorkWasAsked' /\ OpenHasNoResult'
    BY <2>1, QueryIsNoAnswer DEF RefInv, WorkWasAsked, OpenHasNoResult
  <2> QED
    BY <1>0, <2>2, <2>4, <2>5 DEF RefInv
<1>8. CASE (\E h \in Hosts : HostCrash(h)) \/ (\E m \in wire : LoseMessage(m)) \/ UNCHANGED vars
  <2>1. /\ UNCHANGED <<payloads, outcome, result, done>>
        /\ wire' \subseteq wire /\ working' \subseteq working
    BY <1>8 DEF HostCrash, LoseMessage, vars, caller
  <2> QED
    BY <1>0, <2>1, LessStep DEF Abstract!vars
<1> QED
  BY <1>1, <1>2, <1>3, <1>4, <1>5, <1>6, <1>7, <1>8 DEF Next

\* Requests over MQTT implement the abstract promise of Rpc.
THEOREM RequestsImplementRpc == Spec => ImplementsRpc
BY RefInit, RefStep, PTL DEF Spec, ImplementsRpc, Abstract!Spec
=============================================================================
