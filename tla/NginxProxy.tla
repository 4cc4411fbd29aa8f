----------------------------- MODULE NginxProxy -----------------------------
(***************************************************************************)
(* Changes to the load balancer's two files, default.conf and tcp.conf, by *)
(* concurrent task handlers (task-controller/controllers/nginx).  The flag *)
(* bussy, polled every two seconds, lets one call at a time read the       *)
(* files, edit the copies, put them in place and reload nginx.             *)
(*                                                                         *)
(* A file's content is the set of calls whose edit it contains; a deletion *)
(* or an update that finds nothing to edit counts as contained.  The four  *)
(* operations differ in what they prepare first, in what they reload and   *)
(* in what they undo.  default.conf starts as the empty text (`touch` in   *)
(* bootstrap.sh), which a catch block takes for no backup.  Failures: a    *)
(* file that cannot be prepared, a reload that nginx refuses, a crash of   *)
(* the task controller.                                                    *)
(***************************************************************************)
EXTENDS Naturals, FiniteSets

CONSTANTS Calls,        \* calls of the four operations
          Op,           \* the operation of each call
          NoFile,       \* stands for no file: anything but a content
          MaxRejects, MaxHangs, MaxReloadFaults, MaxCrashes   \* bounds on failures

Ops == {"generate", "update", "cleanup", "delete"}

ASSUME OpAssumption == Op \in [Calls -> Ops]
ASSUME NoFileAssumption == NoFile \notin SUBSET Calls
ASSUME BoundsAssumption == {MaxRejects, MaxHangs, MaxReloadFaults, MaxCrashes} \subseteq Nat

VARIABLES bussy,
          pc,           \* what a call awaits
          http, tcp,    \* content of default.conf and tcp.conf
          valide,       \* tcp.valide, if any: the last tcp.conf that was reloaded
          live,         \* what nginx runs: the two contents
          mem,          \* per call, the contents it prepared
          empty,        \* default.conf is the empty text
          backup,       \* per call, default.conf as it was, if it has to be put back
          hasTcp,       \* some route is a TCP stream, so tcp.conf has upstreams
          rejects, hangs, reloadFaults, crashes

files == <<http, tcp, valide, live, empty>>
counters == <<rejects, hangs, reloadFaults, crashes>>
vars == <<bussy, pc, files, mem, backup, hasTcp, counters>>

Content == SUBSET Calls
Critical == {"prepHttp", "prepTcp", "saveHttp", "saveTcp", "undo", "failing", "ending"}
Ended == {"ok", "failed", "swallowed", "stuck", "hung", "crashed"}

TypeOK ==
  /\ bussy \in BOOLEAN
  /\ pc \in [Calls -> {"idle", "waiting"} \cup Critical \cup Ended]
  /\ http \in Content /\ tcp \in Content /\ valide \in Content \cup {NoFile}
  /\ live \in [http : Content, tcp : Content]
  /\ mem \in [Calls -> [http : Content, tcp : Content]]
  /\ empty \in BOOLEAN
  /\ backup \in [Calls -> Content \cup {NoFile}]
  /\ hasTcp \in BOOLEAN
  /\ rejects \in 0..MaxRejects
  /\ hangs \in 0..MaxHangs
  /\ reloadFaults \in 0..MaxReloadFaults
  /\ crashes \in 0..MaxCrashes

Init ==
  /\ bussy = FALSE
  /\ pc = [c \in Calls |-> "idle"]
  /\ http = {} /\ tcp = {} /\ valide = NoFile
  /\ live = [http |-> {}, tcp |-> {}]
  /\ mem = [c \in Calls |-> [http |-> {}, tcp |-> {}]]
  /\ empty \in BOOLEAN
  /\ backup = [c \in Calls |-> NoFile]
  /\ hasTcp \in BOOLEAN
  /\ rejects = 0 /\ hangs = 0 /\ reloadFaults = 0 /\ crashes = 0

GoTo(c, p) == pc' = [pc EXCEPT ![c] = p]

\* updateUpstreamServersForCluster and cleanupLoadbalancerAfterResourceDelete
\* prepare both files first, and outside their try block.
PreparesBothFirst(c) == Op[c] \in {"update", "cleanup"}

\* tcp.conf is left alone by an update that finds no upstream in it.
SkipsTcp(c) == Op[c] = "update" /\ ~hasTcp

----------------------------------------------------------------------------
Call(c) ==
  /\ pc[c] = "idle"
  /\ GoTo(c, "waiting")
  /\ UNCHANGED <<bussy, files, mem, backup, hasTcp, counters>>

\* Mutant of Acquire: the loop on bussy is missing.
AcquireAtOnce(c) ==
  /\ pc[c] = "waiting"
  /\ bussy' = TRUE
  /\ GoTo(c, "prepHttp")
  /\ UNCHANGED <<files, mem, backup, hasTcp, counters>>

\* No await lies between the last test of bussy and its assignment.
Acquire(c) ==
  /\ pc[c] = "waiting"
  /\ ~bussy
  /\ bussy' = TRUE
  /\ GoTo(c, "prepHttp")
  /\ UNCHANGED <<files, mem, backup, hasTcp, counters>>

PrepareHttp(c) ==
  /\ pc[c] = "prepHttp"
  /\ mem' = [mem EXCEPT ![c].http = http]
  /\ GoTo(c, IF PreparesBothFirst(c) THEN "prepTcp" ELSE "saveHttp")
  /\ UNCHANGED <<bussy, files, backup, hasTcp, counters>>

PrepareTcp(c) ==
  /\ pc[c] = "prepTcp"
  /\ mem' = [mem EXCEPT ![c].tcp = tcp]
  /\ GoTo(c, IF PreparesBothFirst(c) THEN "saveHttp" ELSE "saveTcp")
  /\ UNCHANGED <<bussy, files, backup, hasTcp, counters>>

\* The file is missing or nginx-conf cannot parse it: the promise is rejected.
\* Without a try block nobody resets bussy.
PrepareRejects(c) ==
  /\ pc[c] \in {"prepHttp", "prepTcp"}
  /\ rejects < MaxRejects
  /\ rejects' = rejects + 1
  /\ GoTo(c, IF PreparesBothFirst(c) THEN "stuck"
             ELSE IF pc[c] = "prepTcp" THEN "undo" ELSE "failing")
  /\ UNCHANGED <<bussy, files, mem, backup, hasTcp, hangs, reloadFaults, crashes>>

\* copyFileSync throws inside the promise's async function: never settled.
PrepareHangs(c) ==
  /\ pc[c] \in {"prepHttp", "prepTcp"}
  /\ hangs < MaxHangs
  /\ hangs' = hangs + 1
  /\ GoTo(c, "hung")
  /\ UNCHANGED <<bussy, files, mem, backup, hasTcp, rejects, reloadFaults, crashes>>

\* What default.conf is after c saved it: a generate adds an upstream, a cleanup
\* or a delete may remove the last block.
EmptyAfter(c) ==
  IF Op[c] = "generate" THEN {FALSE} ELSE IF Op[c] = "update" THEN {empty} ELSE BOOLEAN

\* What c can put back: nothing when the file was the empty text, and nothing
\* when an update found no upstream and so saved nothing.
Backups(c) ==
  (IF empty THEN {NoFile} ELSE {http}) \cup (IF Op[c] = "update" THEN {NoFile} ELSE {})

\* Mutant of SaveHttp: the file is written anew instead of edited.
SaveHttpAnew(c) ==
  /\ pc[c] = "saveHttp"
  /\ \E b \in Backups(c) : backup' = [backup EXCEPT ![c] = b]
  /\ http' = {c}
  /\ empty' \in EmptyAfter(c)
  /\ GoTo(c, IF ~PreparesBothFirst(c) THEN "prepTcp"
             ELSE IF SkipsTcp(c) THEN "ending" ELSE "saveTcp")
  /\ UNCHANGED <<bussy, tcp, valide, live, mem, hasTcp, counters>>

\* saveAndApplyHttpProxyConfig is always told to skip the reload.
SaveHttp(c) ==
  /\ pc[c] = "saveHttp"
  /\ \E b \in Backups(c) : backup' = [backup EXCEPT ![c] = b]
  /\ http' = mem[c].http \cup {c}
  /\ empty' \in EmptyAfter(c)
  /\ GoTo(c, IF ~PreparesBothFirst(c) THEN "prepTcp"
             ELSE IF SkipsTcp(c) THEN "ending" ELSE "saveTcp")
  /\ UNCHANGED <<bussy, tcp, valide, live, mem, hasTcp, counters>>

\* The delete operation, as the services task calls it, skips the reload.
SaveTcpUnloaded(c) ==
  /\ pc[c] = "saveTcp"
  /\ Op[c] = "delete"
  /\ tcp' = mem[c].tcp \cup {c}
  /\ GoTo(c, "ending")
  /\ UNCHANGED <<bussy, http, valide, live, empty, mem, backup, hasTcp, counters>>

\* Mutant of SaveTcp: the reload is skipped, as for default.conf.
SaveTcpNoReload(c) ==
  /\ pc[c] = "saveTcp"
  /\ Op[c] # "delete"
  /\ tcp' = mem[c].tcp \cup {c}
  /\ GoTo(c, "ending")
  /\ UNCHANGED <<bussy, http, valide, live, empty, mem, backup, hasTcp, counters>>

SaveTcp(c) ==
  /\ pc[c] = "saveTcp"
  /\ Op[c] # "delete"
  /\ tcp' = mem[c].tcp \cup {c}
  /\ live' = [http |-> http, tcp |-> tcp']
  /\ valide' = tcp'
  /\ GoTo(c, "ending")
  /\ UNCHANGED <<bussy, http, empty, mem, backup, hasTcp, counters>>

\* Mutant of SaveTcpRefused: tcp.valide is taken to exist.
SaveTcpRefusedBlind(c) ==
  /\ pc[c] = "saveTcp"
  /\ Op[c] # "delete"
  /\ reloadFaults < MaxReloadFaults
  /\ reloadFaults' = reloadFaults + 1
  /\ tcp' = valide
  /\ GoTo(c, "undo")
  /\ UNCHANGED <<bussy, http, valide, live, empty, mem, backup, hasTcp, rejects, hangs, crashes>>

\* nginx refuses: tcp.conf goes back to tcp.valide, or to what it was when there
\* is no tcp.valide, and nginx is reloaded, which may fail too.
SaveTcpRefused(c) ==
  /\ pc[c] = "saveTcp"
  /\ Op[c] # "delete"
  /\ reloadFaults < MaxReloadFaults
  /\ reloadFaults' = reloadFaults + 1
  /\ tcp' = IF valide = NoFile THEN tcp ELSE valide
  /\ live' \in {live, [http |-> http, tcp |-> tcp']}
  /\ GoTo(c, "undo")
  /\ UNCHANGED <<bussy, http, valide, empty, mem, backup, hasTcp, rejects, hangs, crashes>>

\* Mutant of UndoHttp: the catch block does not restore default.conf.
UndoNothing(c) ==
  /\ pc[c] = "undo"
  /\ GoTo(c, "failing")
  /\ UNCHANGED <<bussy, files, mem, backup, hasTcp, counters>>

\* restoreHttpConfig writes the backup, then reloads: done, or nginx refuses.
\* The catch block tests the backup for truth, so the empty text is not restored.
UndoHttp(c) ==
  /\ pc[c] = "undo"
  /\ IF backup[c] = NoFile
       THEN UNCHANGED <<http, live, empty>>
       ELSE /\ http' = backup[c] /\ empty' = FALSE
            /\ live' \in {live, [http |-> http', tcp |-> tcp]}
  /\ GoTo(c, "failing")
  /\ UNCHANGED <<bussy, tcp, valide, mem, backup, hasTcp, counters>>

\* Mutant of Finish: no finally block, so a failed call keeps bussy.
FinishKeepsBussy(c) ==
  /\ pc[c] \in {"ending", "failing"}
  /\ bussy' = (pc[c] = "failing")
  /\ GoTo(c, IF pc[c] = "ending" THEN "ok" ELSE "failed")
  /\ UNCHANGED <<files, mem, backup, hasTcp, counters>>

\* The finally block.  The catch block of the delete operation does not throw
\* unless restoring throws: its caller may be told that it went well.
Finish(c) ==
  /\ pc[c] \in {"ending", "failing"}
  /\ bussy' = FALSE
  /\ \/ pc[c] = "ending" /\ GoTo(c, "ok")
     \/ pc[c] = "failing" /\ GoTo(c, "failed")
     \/ pc[c] = "failing" /\ Op[c] = "delete" /\ GoTo(c, "swallowed")
  /\ UNCHANGED <<files, mem, backup, hasTcp, counters>>

CrashRestart ==
  /\ crashes < MaxCrashes
  /\ crashes' = crashes + 1
  /\ bussy' = FALSE
  /\ pc' = [c \in Calls |-> IF pc[c] \in {"waiting", "hung"} \cup Critical
                            THEN "crashed" ELSE pc[c]]
  /\ UNCHANGED <<files, mem, backup, hasTcp, rejects, hangs, reloadFaults>>

----------------------------------------------------------------------------
Progress(c) ==
  \/ Acquire(c)
  \/ PrepareHttp(c) \/ PrepareTcp(c) \/ PrepareRejects(c) \/ PrepareHangs(c)
  \/ SaveHttp(c) \/ SaveTcpUnloaded(c) \/ SaveTcp(c) \/ SaveTcpRefused(c)
  \/ UndoHttp(c)
  \/ Finish(c)

Next ==
  \/ \E c \in Calls : Call(c) \/ Progress(c)
  \/ CrashRestart

Spec == Init /\ [][Next]_vars

(* Timers fire: a waiting call polls again, and awaited commands return.   *)
Fairness == \A c \in Calls : WF_vars(Progress(c))

FairSpec == Spec /\ Fairness

----------------------------------------------------------------------------
(* Properties.                                                             *)

InCritical(c) == pc[c] \in Critical

\* Two calls never edit the load balancer's files at the same time.
MutualExclusion ==
  \A c, d \in Calls : InCritical(c) /\ InCritical(d) => c = d

\* bussy without a call at work is always the trace of a failed preparation.
LockIsHeld ==
  bussy => \E c \in Calls : InCritical(c) \/ pc[c] \in {"stuck", "hung"}

\* The edit of a call that succeeded is never lost, whatever other calls do,
\* fail to do and undo.  A delete is not promised that: it saves tcp.conf
\* without a reload, so a later failure reverts tcp.conf past it.
NoLostEdit ==
  \A c \in Calls : pc[c] = "ok" =>
     /\ c \in http
     /\ Op[c] # "delete" /\ ~SkipsTcp(c) => c \in tcp

\* A call that failed leaves no half of its edit behind in either file, unless
\* it had nothing to put back: it found default.conf empty, or is an update
\* that found no upstream there.
FailedLeavesNothing ==
  \A c \in Calls : pc[c] \in {"failed", "swallowed"} =>
     /\ c \notin tcp
     /\ c \in http => backup[c] = NoFile

\* A successful generate or cleanup has reached nginx; so has an update, but
\* only when there are TCP upstreams to update as well.
SuccessIsLive ==
  \A c \in Calls :
    pc[c] = "ok" /\ Op[c] # "delete" /\ ~SkipsTcp(c) => c \in live.http /\ c \in live.tcp

\* Every call ends when both files can be prepared, polling starves nobody: over
\* and over again there is no call that has begun and not ended.
CallsEnd ==
  []<>(rejects = 0 /\ hangs = 0 => \A c \in Calls : pc[c] \in {"idle"} \cup Ended)

\* "If already processing, wait for processing to be done before moving on":
\* a waiting call moves on when nobody is processing any more.
WaitersMoveOn == \A c \in Calls : pc[c] = "waiting" ~> pc[c] # "waiting"
=============================================================================
