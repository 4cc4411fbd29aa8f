-------------------------- MODULE NginxProxyProofs --------------------------
(***************************************************************************)
(* Proofs about NginxProxy, for any set of calls of any operations and any *)
(* bounds on rejected preparations, hanging copies, refused reloads and    *)
(* crashes; and about ClusterScale with GlusterVolume, whose scalings      *)
(* update an upstream of this proxy, for any nodes, hosts and volumes.     *)
(***************************************************************************)
EXTENDS NginxProxy, ClusterScale, FiniteSetTheorems, TLAPS

LEMMA TypeInit == Init => TypeOK
<1> SUFFICES ASSUME Init PROVE TypeOK
  OBVIOUS
<1>1. /\ live \in [http : Content, tcp : Content]
      /\ mem \in [Calls -> [http : Content, tcp : Content]]
  BY DEF Init, Content
<1>2. /\ rejects \in 0..MaxRejects /\ hangs \in 0..MaxHangs
      /\ reloadFaults \in 0..MaxReloadFaults /\ crashes \in 0..MaxCrashes
  BY BoundsAssumption DEF Init
<1> QED
  BY <1>1, <1>2 DEF Init, TypeOK, Content

LEMMA TypeStep == TypeOK /\ [Next]_vars => TypeOK'
<1> SUFFICES ASSUME TypeOK, [Next]_vars PROVE TypeOK'
  OBVIOUS
<1>10. CASE CrashRestart
  <2>1. pc' \in [Calls -> {"idle", "waiting"} \cup Critical \cup Ended]
    <3>1. \A c \in Calls : pc[c] \in {"idle", "waiting"} \cup Critical \cup Ended
      BY DEF TypeOK
    <3>2. "crashed" \in Ended
      BY DEF Ended
    <3>3. \A c \in Calls :
            (IF pc[c] \in {"waiting", "hung"} \cup Critical THEN "crashed" ELSE pc[c])
              \in {"idle", "waiting"} \cup Critical \cup Ended
      BY <3>1, <3>2
    <3> QED
      BY <1>10, <3>3 DEF CrashRestart
  <2>2. bussy' \in BOOLEAN /\ crashes' \in 0..MaxCrashes
    <3>1. MaxCrashes \in Nat
      BY BoundsAssumption
    <3>2. crashes \in 0..MaxCrashes
      BY DEF TypeOK
    <3>3. bussy' = FALSE /\ crashes < MaxCrashes /\ crashes' = crashes + 1
      BY <1>10, Zenon DEF CrashRestart
    <3>4. bussy' \in BOOLEAN
      BY <3>3, Zenon
    <3>5. crashes' \in 0..MaxCrashes
      BY <3>1, <3>2, <3>3
    <3> QED
      BY <3>4, <3>5
  <2>3. /\ http' = http /\ tcp' = tcp /\ valide' = valide /\ live' = live
        /\ mem' = mem /\ backup' = backup /\ hasTcp' = hasTcp /\ empty' = empty
        /\ rejects' = rejects /\ hangs' = hangs /\ reloadFaults' = reloadFaults
    BY <1>10 DEF CrashRestart, files
  <2> QED
    BY <2>1, <2>2, <2>3, Zenon DEF TypeOK, Content
<1>11. CASE UNCHANGED vars
  <2>1. /\ bussy' = bussy /\ pc' = pc /\ http' = http /\ tcp' = tcp
        /\ valide' = valide /\ live' = live /\ mem' = mem /\ backup' = backup
        /\ hasTcp' = hasTcp /\ rejects' = rejects /\ hangs' = hangs
        /\ reloadFaults' = reloadFaults /\ crashes' = crashes /\ empty' = empty
    BY <1>11 DEF vars, files, counters
  <2> QED
    BY <2>1, Zenon DEF TypeOK, Content
<1> USE BoundsAssumption DEF TypeOK, Content, Critical, Ended, GoTo, files, counters
<1>1. ASSUME NEW c \in Calls, Call(c) \/ Acquire(c) PROVE TypeOK'
  BY <1>1 DEF Call, Acquire
<1>2. ASSUME NEW c \in Calls, PrepareHttp(c) PROVE TypeOK'
  BY <1>2 DEF PrepareHttp
<1>3. ASSUME NEW c \in Calls, PrepareTcp(c) PROVE TypeOK'
  BY <1>3 DEF PrepareTcp
<1>4. ASSUME NEW c \in Calls, PrepareRejects(c) PROVE TypeOK'
  BY <1>4 DEF PrepareRejects
<1>5. ASSUME NEW c \in Calls, PrepareHangs(c) PROVE TypeOK'
  BY <1>5 DEF PrepareHangs
<1>6. ASSUME NEW c \in Calls, SaveHttp(c) PROVE TypeOK'
  <2>1. empty' \in BOOLEAN
    <3>1. EmptyAfter(c) \subseteq BOOLEAN
      BY Zenon DEF EmptyAfter
    <3> QED
      BY <1>6, <3>1, Zenon DEF SaveHttp
  <2>2. Backups(c) \subseteq Content \cup {NoFile}
    BY DEF Backups
  <2>3. backup' \in [Calls -> Content \cup {NoFile}]
    BY <1>6, <2>2 DEF SaveHttp
  <2>4. http' \in Content
    BY <1>6 DEF SaveHttp
  <2> QED
    BY <1>6, <2>1, <2>3, <2>4 DEF SaveHttp
<1>7. ASSUME NEW c \in Calls, SaveTcpUnloaded(c) \/ SaveTcp(c) PROVE TypeOK'
  <2>1. CASE SaveTcpUnloaded(c)
    BY <2>1 DEF SaveTcpUnloaded
  <2>2. CASE SaveTcp(c)
    BY <2>2 DEF SaveTcp
  <2> QED
    BY <1>7, <2>1, <2>2
<1>8. ASSUME NEW c \in Calls, SaveTcpRefused(c) PROVE TypeOK'
  BY <1>8 DEF SaveTcpRefused
<1>9. ASSUME NEW c \in Calls, UndoHttp(c) PROVE TypeOK'
  <2>1. CASE backup[c] = NoFile
    BY <1>9, <2>1 DEF UndoHttp
  <2>2. CASE backup[c] # NoFile
    <3>1. http' \in Content /\ empty' \in BOOLEAN
      BY <1>9, <2>2 DEF UndoHttp
    <3>2. live' \in [http : Content, tcp : Content]
      BY <1>9, <2>2, <3>1 DEF UndoHttp
    <3> QED
      BY <1>9, <2>2, <3>1, <3>2 DEF UndoHttp
  <2> QED
    BY <2>1, <2>2
<1>12. ASSUME NEW c \in Calls, Finish(c) PROVE TypeOK'
  BY <1>12 DEF Finish
<1> HIDE DEF TypeOK, Content, Critical, Ended, GoTo, files, counters
<1> QED
  BY <1>1, <1>2, <1>3, <1>4, <1>5, <1>6, <1>7, <1>8, <1>9, <1>10, <1>11, <1>12
  DEF Next, Progress

\* Every reachable state has the types of TypeOK.
THEOREM TypeCorrect == Spec => []TypeOK
BY TypeInit, TypeStep, PTL DEF Spec

----------------------------------------------------------------------------
(* Mutual exclusion.  It is inductive together with the fact that a call   *)
(* at work has bussy set: Finish resets bussy for everybody.               *)

WorkSetsBussy == \A c \in Calls : InCritical(c) => bussy

LockInv == TypeOK /\ MutualExclusion /\ WorkSetsBussy /\ LockIsHeld

LEMMA LockInit == Init => LockInv
BY TypeInit DEF Init, LockInv, MutualExclusion, WorkSetsBussy, LockIsHeld,
                InCritical, Critical

\* A step of a call that stays at work, or gives up with bussy set.
LEMMA WorkStep ==
  ASSUME LockInv, TypeOK', NEW c \in Calls, InCritical(c), UNCHANGED bussy,
         NEW p \in Critical \cup {"stuck", "hung"}, GoTo(c, p)
  PROVE  LockInv'
<1>1. \A d \in Calls : d # c => pc'[d] = pc[d]
  BY DEF GoTo, LockInv, TypeOK
<1>2. pc'[c] = p
  BY DEF GoTo, LockInv, TypeOK
<1>3. MutualExclusion' /\ WorkSetsBussy'
  BY <1>1, <1>2 DEF LockInv, MutualExclusion, WorkSetsBussy, InCritical
<1>4. LockIsHeld'
  BY <1>2 DEF LockIsHeld, InCritical
<1> QED
  BY <1>3, <1>4 DEF LockInv

LEMMA AcquireLock ==
  ASSUME LockInv, TypeOK', NEW c \in Calls, Acquire(c)
  PROVE  LockInv'
<1>1. \A d \in Calls : ~InCritical(d)
  BY DEF LockInv, WorkSetsBussy, Acquire
<1>2. pc' = [pc EXCEPT ![c] = "prepHttp"] /\ bussy'
  BY DEF Acquire, GoTo
<1>3. \A d \in Calls : InCritical(d)' <=> d = c
  BY <1>1, <1>2 DEF InCritical, Critical, LockInv, TypeOK
<1> QED
  BY <1>2, <1>3 DEF LockInv, MutualExclusion, WorkSetsBussy, LockIsHeld

LEMMA FinishLock ==
  ASSUME LockInv, TypeOK', NEW c \in Calls, Finish(c)
  PROVE  LockInv'
<1>1. InCritical(c) /\ ~bussy'
  BY DEF Finish, InCritical, Critical
<1>2. \A d \in Calls : ~InCritical(d)'
  <2>1. \A d \in Calls : d # c => ~InCritical(d)
    BY <1>1 DEF LockInv, MutualExclusion
  <2> QED
    BY <2>1 DEF Finish, GoTo, InCritical, Critical, LockInv, TypeOK
<1> QED
  BY <1>1, <1>2 DEF LockInv, MutualExclusion, WorkSetsBussy, LockIsHeld

LEMMA LockStep == LockInv /\ [Next]_vars => LockInv'
<1> SUFFICES ASSUME LockInv, [Next]_vars PROVE LockInv'
  OBVIOUS
<1>0. TypeOK'
  BY TypeStep DEF LockInv
<1>1. ASSUME NEW c \in Calls, Call(c) PROVE LockInv'
  BY <1>0, <1>1 DEF Call, GoTo, LockInv, TypeOK, MutualExclusion, WorkSetsBussy,
                    LockIsHeld, InCritical, Critical
<1>2. ASSUME NEW c \in Calls,
             \/ PrepareHttp(c) \/ PrepareTcp(c) \/ PrepareRejects(c) \/ PrepareHangs(c)
             \/ SaveHttp(c) \/ SaveTcpUnloaded(c) \/ SaveTcp(c) \/ SaveTcpRefused(c)
             \/ UndoHttp(c)
      PROVE LockInv'
  <2>1. InCritical(c) /\ UNCHANGED bussy
    BY <1>2 DEF InCritical, Critical, PrepareHttp, PrepareTcp, PrepareRejects,
                PrepareHangs, SaveHttp, SaveTcpUnloaded, SaveTcp, SaveTcpRefused,
                UndoHttp
  <2>2. \E p \in Critical \cup {"stuck", "hung"} : GoTo(c, p)
    BY <1>2 DEF Critical, PrepareHttp, PrepareTcp, PrepareRejects,
                PrepareHangs, SaveHttp, SaveTcpUnloaded, SaveTcp, SaveTcpRefused,
                UndoHttp
  <2> QED
    BY <1>0, <2>1, <2>2, WorkStep
<1>3. CASE CrashRestart
  BY <1>0, <1>3 DEF CrashRestart, LockInv, TypeOK, MutualExclusion, WorkSetsBussy,
                    LockIsHeld, InCritical, Critical
<1>4. CASE UNCHANGED vars
  BY <1>0, <1>4 DEF vars, LockInv, MutualExclusion, WorkSetsBussy, LockIsHeld,
                    InCritical
<1> QED
  BY <1>0, <1>1, <1>2, <1>3, <1>4, AcquireLock, FinishLock DEF Next, Progress

\* Two calls never edit the load balancer's files at the same time.
THEOREM CallsExclude == Spec => []MutualExclusion
<1>1. LockInv => MutualExclusion
  BY DEF LockInv
<1> QED
  BY LockInit, LockStep, <1>1, PTL DEF Spec

\* bussy without a call at work is the trace of a failed preparation.
THEOREM BussyIsExplained == Spec => []LockIsHeld
<1>1. LockInv => LockIsHeld
  BY DEF LockInv
<1> QED
  BY LockInit, LockStep, <1>1, PTL DEF Spec

----------------------------------------------------------------------------
(* Edits.  While a call is at work nobody else changes a file, so what it   *)
(* read is what is there, and its backup holds the edits of every call that *)
(* succeeded.  tcp.valide holds those that were promised a reload.          *)

HttpRead(c) == pc[c] = "saveHttp" \/ (pc[c] = "prepTcp" /\ PreparesBothFirst(c))
TcpRead(c) == pc[c] = "saveTcp" \/ (pc[c] = "saveHttp" /\ PreparesBothFirst(c))
HttpSaved(c) == \/ pc[c] \in {"saveTcp", "undo", "ending"}
                \/ pc[c] = "prepTcp" /\ ~PreparesBothFirst(c)

Promised(c) == Op[c] # "delete" /\ ~SkipsTcp(c)
InTcp(c) == c \in tcp /\ valide # NoFile /\ c \in valide

ReadsAreFresh ==
  \A c \in Calls : /\ HttpRead(c) => mem[c].http = http
                   /\ TcpRead(c) => mem[c].tcp = tcp

EditsStay ==
  \A c \in Calls : /\ HttpSaved(c) /\ pc[c] # "undo" => c \in http
                   /\ pc[c] = "ok" => c \in http
                   /\ pc[c] \in {"ok", "ending"} /\ Promised(c) => InTcp(c)

BackupsHoldEdits ==
  \A c, d \in Calls :
    HttpSaved(c) /\ pc[d] = "ok" => backup[c] = NoFile \/ d \in backup[c]

EditInv == LockInv /\ ReadsAreFresh /\ EditsStay /\ BackupsHoldEdits

LEMMA EditInit == Init => EditInv
BY LockInit DEF Init, EditInv, ReadsAreFresh, EditsStay, BackupsHoldEdits,
                HttpRead, TcpRead, HttpSaved

\* Nobody else is at work while c is.
LEMMA Alone ==
  ASSUME LockInv, NEW c \in Calls, InCritical(c), NEW d \in Calls, d # c
  PROVE  ~HttpRead(d) /\ ~TcpRead(d) /\ ~HttpSaved(d)
BY DEF LockInv, MutualExclusion, InCritical, Critical, HttpRead, TcpRead, HttpSaved

\* What a step of a call at work has to say about c itself and about the edits
\* of the calls that succeeded.
LEMMA EditStepOf ==
  ASSUME EditInv, LockInv', hasTcp' = hasTcp,
         NEW c \in Calls, InCritical(c), NEW p, pc' = [pc EXCEPT ![c] = p],
         HttpRead(c)' => mem'[c].http = http',
         TcpRead(c)' => mem'[c].tcp = tcp',
         HttpSaved(c)' /\ p # "undo" => c \in http',
         p = "ok" => c \in http',
         p \in {"ok", "ending"} /\ Promised(c) => InTcp(c)',
         \A d \in Calls : pc[d] = "ok" =>
            /\ d \in http'
            /\ Promised(d) => InTcp(d)'
            /\ HttpSaved(c)' => backup'[c] = NoFile \/ d \in backup'[c],
         HttpSaved(c)' => p # "ok"
  PROVE  EditInv'
<1>1. /\ pc'[c] = p
      /\ \A d \in Calls : d # c => pc'[d] = pc[d]
  BY DEF EditInv, LockInv, TypeOK
<1>2. \A d \in Calls : d # c => ~HttpRead(d) /\ ~TcpRead(d) /\ ~HttpSaved(d)
  BY Alone DEF EditInv
<1>3. \A d \in Calls : d # c => ~HttpRead(d)' /\ ~TcpRead(d)' /\ ~HttpSaved(d)'
  BY <1>1, <1>2 DEF HttpRead, TcpRead, HttpSaved, PreparesBothFirst
<1>4. \A d \in Calls : Promised(d)' <=> Promised(d)
  BY DEF Promised, SkipsTcp
<1>5. ReadsAreFresh'
  BY <1>3 DEF ReadsAreFresh
<1>6. \A d \in Calls : d # c => pc[d] # "ending"
  BY <1>2 DEF HttpSaved
<1>7. EditsStay'
  BY <1>1, <1>3, <1>4, <1>6 DEF EditsStay
<1>8. BackupsHoldEdits'
  BY <1>1, <1>3 DEF BackupsHoldEdits
<1> QED
  BY <1>5, <1>7, <1>8 DEF EditInv

LEMMA EditStep == EditInv /\ [Next]_vars => EditInv'
<1> SUFFICES ASSUME EditInv, [Next]_vars PROVE EditInv'
  OBVIOUS
<1>0. /\ LockInv' /\ TypeOK' /\ TypeOK
      /\ ReadsAreFresh /\ EditsStay /\ BackupsHoldEdits
  BY LockStep DEF EditInv, LockInv
<1>a. ASSUME NEW d \in Calls, pc[d] = "ok"
      PROVE  d \in http /\ (Promised(d) => InTcp(d))
  BY <1>0, <1>a DEF EditsStay
<1> USE DEF GoTo, files, counters
<1>1. ASSUME NEW c \in Calls, Call(c) \/ Acquire(c) PROVE EditInv'
  <2>1. /\ \A d \in Calls : d # c => pc'[d] = pc[d]
        /\ pc'[c] \in {"waiting", "prepHttp"}
        /\ UNCHANGED <<http, tcp, valide, mem, backup, hasTcp>>
    BY <1>0, <1>1 DEF Call, Acquire, TypeOK
  <2> QED
    BY <1>0, <2>1 DEF EditInv, ReadsAreFresh, EditsStay, BackupsHoldEdits, HttpRead,
                      TcpRead, HttpSaved, PreparesBothFirst, Promised, SkipsTcp, InTcp
<1>2. ASSUME NEW c \in Calls, PrepareHttp(c) PROVE EditInv'
  <2>1. InCritical(c)
    BY <1>2 DEF PrepareHttp, InCritical, Critical
  <2>2. mem'[c].http = http' /\ UNCHANGED <<http, tcp, valide, backup, hasTcp>>
    BY <1>0, <1>2 DEF PrepareHttp, TypeOK
  <2>3. /\ ~HttpSaved(c)' /\ ~TcpRead(c)'
        /\ pc'[c] \in {"prepTcp", "saveHttp"}
    BY <1>0, <1>2 DEF PrepareHttp, TypeOK, HttpSaved, TcpRead, PreparesBothFirst
  <2> QED
    BY <1>0, <1>2, <1>a, <2>1, <2>2, <2>3, EditStepOf DEF PrepareHttp, InTcp
<1>3. ASSUME NEW c \in Calls, PrepareTcp(c) PROVE EditInv'
  <2>1. InCritical(c) /\ pc[c] = "prepTcp"
    BY <1>3 DEF PrepareTcp, InCritical, Critical
  <2>2. /\ mem'[c].tcp = tcp' /\ mem'[c].http = mem[c].http
        /\ UNCHANGED <<http, tcp, valide, backup, hasTcp>>
    BY <1>0, <1>3 DEF PrepareTcp, TypeOK
  <2>3. pc'[c] = IF PreparesBothFirst(c) THEN "saveHttp" ELSE "saveTcp"
    BY <1>0, <1>3 DEF PrepareTcp, TypeOK
  <2>4. /\ HttpRead(c)' => HttpRead(c) /\ mem'[c].http = http'
        /\ HttpSaved(c)' => HttpSaved(c) /\ c \in http
    BY <1>0, <2>1, <2>2, <2>3
    DEF HttpRead, HttpSaved, PreparesBothFirst, ReadsAreFresh, EditsStay
  <2>5. \A d \in Calls : pc[d] = "ok" /\ HttpSaved(c)' =>
          backup'[c] = NoFile \/ d \in backup'[c]
    BY <1>0, <2>2, <2>4 DEF BackupsHoldEdits
  <2> QED
    BY <1>0, <1>3, <1>a, <2>1, <2>2, <2>3, <2>4, <2>5, EditStepOf DEF PrepareTcp, InTcp
<1>4. ASSUME NEW c \in Calls, PrepareRejects(c) \/ PrepareHangs(c) PROVE EditInv'
  <2>1. InCritical(c) /\ pc[c] \in {"prepHttp", "prepTcp"}
    BY <1>4 DEF PrepareRejects, PrepareHangs, InCritical, Critical
  <2>2. UNCHANGED <<http, tcp, valide, mem, backup, hasTcp>>
    BY <1>4 DEF PrepareRejects, PrepareHangs
  <2>3. PICK p \in {"stuck", "hung", "failing", "undo"} :
          /\ pc' = [pc EXCEPT ![c] = p]
          /\ p = "undo" => pc[c] = "prepTcp" /\ ~PreparesBothFirst(c)
    BY <1>4 DEF PrepareRejects, PrepareHangs
  <2>4. /\ ~HttpRead(c)' /\ ~TcpRead(c)'
        /\ HttpSaved(c)' => p = "undo" /\ HttpSaved(c)
    BY <1>0, <2>3 DEF HttpRead, TcpRead, HttpSaved, TypeOK
  <2>5. \A d \in Calls : pc[d] = "ok" /\ HttpSaved(c)' =>
          backup'[c] = NoFile \/ d \in backup'[c]
    BY <1>0, <2>2, <2>4 DEF BackupsHoldEdits
  <2> QED
    BY <1>0, <1>a, <2>1, <2>2, <2>3, <2>4, <2>5, EditStepOf DEF InTcp
<1>5. ASSUME NEW c \in Calls, SaveHttp(c) PROVE EditInv'
  <2>1. InCritical(c) /\ HttpRead(c)
    BY <1>5 DEF SaveHttp, InCritical, Critical, HttpRead
  <2>2. /\ http' = http \cup {c} /\ backup'[c] \in {http, NoFile}
        /\ UNCHANGED <<tcp, valide, mem, hasTcp>>
    BY <1>0, <1>5, <2>1 DEF SaveHttp, Backups, ReadsAreFresh, TypeOK
  <2>3. PICK p \in {"prepTcp", "saveTcp", "ending"} :
          /\ pc' = [pc EXCEPT ![c] = p]
          /\ p = "prepTcp" => ~PreparesBothFirst(c)
          /\ p = "saveTcp" => PreparesBothFirst(c)
          /\ p = "ending" => SkipsTcp(c)
    BY <1>5 DEF SaveHttp
  <2>4. /\ ~HttpRead(c)'
        /\ TcpRead(c)' => TcpRead(c)
    BY <1>0, <1>5, <2>3
    DEF SaveHttp, HttpRead, TcpRead, PreparesBothFirst, TypeOK
  <2>5. TcpRead(c)' => mem'[c].tcp = tcp'
    BY <1>0, <2>2, <2>4 DEF ReadsAreFresh
  <2> QED
    BY <1>0, <1>a, <2>1, <2>2, <2>3, <2>4, <2>5, EditStepOf DEF InTcp, Promised
<1>6. ASSUME NEW c \in Calls, SaveTcpUnloaded(c) \/ SaveTcp(c) PROVE EditInv'
  <2>1. InCritical(c) /\ TcpRead(c) /\ HttpSaved(c) /\ pc[c] = "saveTcp"
    BY <1>6 DEF SaveTcpUnloaded, SaveTcp, InCritical, Critical, TcpRead, HttpSaved
  <2>2. /\ tcp' = tcp \cup {c} /\ pc' = [pc EXCEPT ![c] = "ending"]
        /\ UNCHANGED <<http, mem, backup, hasTcp>>
        /\ Op[c] # "delete" => valide' = tcp'
        /\ Op[c] = "delete" => valide' = valide
    BY <1>0, <1>6, <2>1 DEF SaveTcpUnloaded, SaveTcp, ReadsAreFresh
  <2>3. valide' = tcp' => valide' # NoFile
    BY <1>0, NoFileAssumption DEF TypeOK, Content
  <2>4. Promised(c) => InTcp(c)'
    BY <2>2, <2>3 DEF Promised, InTcp
  <2>5. \A d \in Calls : InTcp(d) => InTcp(d)'
    BY <2>2, <2>3 DEF InTcp
  <2>6. pc'[c] = "ending" /\ ~HttpRead(c)' /\ ~TcpRead(c)'
    BY <1>0, <2>2 DEF TypeOK, HttpRead, TcpRead
  <2>7. /\ c \in http
        /\ \A d \in Calls : pc[d] = "ok" => backup[c] = NoFile \/ d \in backup[c]
    BY <1>0, <2>1 DEF EditsStay, BackupsHoldEdits
  <2> QED
    BY <1>0, <1>a, <2>1, <2>2, <2>4, <2>5, <2>6, <2>7, EditStepOf
<1>7. ASSUME NEW c \in Calls, SaveTcpRefused(c) PROVE EditInv'
  <2>1. InCritical(c) /\ HttpSaved(c) /\ pc[c] = "saveTcp"
    BY <1>7 DEF SaveTcpRefused, InCritical, Critical, HttpSaved
  <2>2. /\ tcp' = IF valide = NoFile THEN tcp ELSE valide
        /\ pc' = [pc EXCEPT ![c] = "undo"]
        /\ UNCHANGED <<http, valide, mem, backup, hasTcp>>
    BY <1>7 DEF SaveTcpRefused
  <2>3. \A d \in Calls : InTcp(d) => InTcp(d)'
    BY <2>2 DEF InTcp
  <2>4. pc'[c] = "undo" /\ ~HttpRead(c)' /\ ~TcpRead(c)'
    BY <1>0, <2>2 DEF TypeOK, HttpRead, TcpRead
  <2>5. \A d \in Calls : pc[d] = "ok" => backup[c] = NoFile \/ d \in backup[c]
    BY <1>0, <2>1 DEF BackupsHoldEdits
  <2> QED
    BY <1>0, <1>a, <2>1, <2>2, <2>3, <2>4, <2>5, EditStepOf
<1>8. ASSUME NEW c \in Calls, UndoHttp(c) PROVE EditInv'
  <2>1. InCritical(c) /\ HttpSaved(c)
    BY <1>8 DEF UndoHttp, InCritical, Critical, HttpSaved
  <2>2. /\ http' = IF backup[c] = NoFile THEN http ELSE backup[c]
        /\ pc' = [pc EXCEPT ![c] = "failing"]
        /\ UNCHANGED <<tcp, valide, mem, backup, hasTcp>>
    BY <1>8 DEF UndoHttp
  <2>3. ~HttpRead(c)' /\ ~TcpRead(c)' /\ ~HttpSaved(c)'
    BY <1>0, <2>2 DEF TypeOK, HttpRead, TcpRead, HttpSaved
  <2>4. \A d \in Calls : pc[d] = "ok" => backup[c] = NoFile \/ d \in backup[c]
    BY <1>0, <2>1 DEF BackupsHoldEdits
  <2> QED
    BY <1>0, <1>a, <2>1, <2>2, <2>3, <2>4, EditStepOf DEF InTcp
<1>9. ASSUME NEW c \in Calls, Finish(c) PROVE EditInv'
  <2>1. InCritical(c)
    BY <1>9 DEF Finish, InCritical, Critical
  <2>2. UNCHANGED <<http, tcp, valide, mem, backup, hasTcp>>
    BY <1>9 DEF Finish
  <2>3. PICK p \in {"ok", "failed", "swallowed"} :
          pc' = [pc EXCEPT ![c] = p] /\ (p = "ok" => pc[c] = "ending")
    BY <1>9 DEF Finish
  <2>4. ~HttpRead(c)' /\ ~TcpRead(c)' /\ ~HttpSaved(c)'
    BY <1>0, <2>3 DEF TypeOK, HttpRead, TcpRead, HttpSaved
  <2>5. pc[c] = "ending" => c \in http /\ (Promised(c) => InTcp(c))
    BY <1>0 DEF EditsStay, HttpSaved
  <2> QED
    BY <1>0, <1>a, <2>1, <2>2, <2>3, <2>4, <2>5, EditStepOf DEF InTcp
<1>10. CASE CrashRestart
  <2>1. UNCHANGED <<http, tcp, valide, mem, backup, hasTcp>>
    BY <1>10 DEF CrashRestart
  <2>2. \A c \in Calls : /\ pc'[c] = "ok" => pc[c] = "ok"
                         /\ ~HttpRead(c)' /\ ~TcpRead(c)' /\ ~HttpSaved(c)'
    BY <1>0, <1>10 DEF CrashRestart, TypeOK, Critical, HttpRead, TcpRead, HttpSaved
  <2>3. \A c \in Calls : pc'[c] # "ending"
    BY <2>2 DEF HttpSaved
  <2> QED
    BY <1>0, <2>1, <2>2, <2>3 DEF EditInv, ReadsAreFresh, EditsStay, BackupsHoldEdits,
                                  Promised, SkipsTcp, InTcp
<1>11. CASE UNCHANGED vars
  BY <1>0, <1>11 DEF vars, EditInv, ReadsAreFresh, EditsStay, BackupsHoldEdits, HttpRead,
                     TcpRead, HttpSaved, Promised, SkipsTcp, InTcp
<1> HIDE DEF GoTo, files, counters
<1> QED
  BY <1>1, <1>2, <1>3, <1>4, <1>5, <1>6, <1>7, <1>8, <1>9, <1>10, <1>11
  DEF Next, Progress

\* The edit of a call that succeeded is never lost.
THEOREM EditsAreKept == Spec => []NoLostEdit
<1>1. EditInv => NoLostEdit
  BY DEF EditInv, EditsStay, NoLostEdit, Promised, InTcp
<1> QED
  BY EditInit, EditStep, <1>1, PTL DEF Spec

----------------------------------------------------------------------------
(* Failed calls.  An edit is in a file only while its call is past saving   *)
(* it, or once the call has left without undoing it: it succeeded, hangs or *)
(* crashed, or had no backup to put back.  Backups hold only edits of such  *)
(* calls.                                                                   *)

Left(c) == pc[c] \in {"ok", "crashed", "hung"}
Unrestored(c) == pc[c] \in {"failing", "failed", "swallowed"} /\ backup[c] = NoFile
Stays(c) == Left(c) \/ Unrestored(c)
TcpHolds(c) == c \in tcp \/ (valide # NoFile /\ c \in valide)

OnlyLeftEdits ==
  \A c \in Calls :
    /\ c \in http => Stays(c) \/ HttpSaved(c)
    /\ TcpHolds(c) => Left(c) \/ pc[c] = "ending"
    /\ HttpSaved(c) /\ backup[c] # NoFile => \A d \in Calls : d \in backup[c] => Stays(d)

HalfInv == EditInv /\ OnlyLeftEdits

LEMMA HalfInit == Init => HalfInv
BY EditInit DEF Init, HalfInv, OnlyLeftEdits, HttpSaved, TcpHolds

\* What a step of a call at work has to say about its edit and its backup.
LEMMA HalfStepOf ==
  ASSUME HalfInv, EditInv', NEW c \in Calls, InCritical(c),
         NEW p, pc' = [pc EXCEPT ![c] = p],
         \A d \in Calls : d # c => backup'[d] = backup[d],
         c \in http' => Stays(c)' \/ HttpSaved(c)',
         TcpHolds(c)' => Left(c)' \/ p = "ending",
         HttpSaved(c)' /\ backup'[c] # NoFile =>
           \A d \in Calls : d \in backup'[c] => d # c /\ Stays(d),
         \A d \in Calls : d # c => /\ d \in http' => Stays(d)
                                   /\ TcpHolds(d)' => Left(d)
  PROVE  HalfInv'
<1>1. /\ pc'[c] = p
      /\ \A d \in Calls : d # c => pc'[d] = pc[d]
  BY DEF HalfInv, EditInv, LockInv, TypeOK
<1>2. \A d \in Calls : d # c => ~HttpSaved(d)
  BY Alone DEF HalfInv, EditInv
<1>3. \A d \in Calls : d # c => ~HttpSaved(d)'
  BY <1>1, <1>2 DEF HttpSaved, PreparesBothFirst
<1>4. \A d \in Calls : d # c => (Left(d) => Left(d)') /\ (Stays(d) => Stays(d)')
  BY <1>1 DEF Left, Stays, Unrestored
<1>5. OnlyLeftEdits'
  BY <1>1, <1>3, <1>4 DEF OnlyLeftEdits
<1> QED
  BY <1>5 DEF HalfInv

\* What holds of the files while c is at work.
LEMMA OthersLeft ==
  ASSUME HalfInv, NEW c \in Calls, InCritical(c)
  PROVE  /\ ~Left(c)
         /\ c \in http => HttpSaved(c) \/ Unrestored(c)
         /\ TcpHolds(c) => pc[c] = "ending"
         /\ HttpSaved(c) /\ backup[c] # NoFile =>
              \A d \in Calls : d \in backup[c] => d # c /\ Stays(d)
         /\ \A d \in Calls : d # c => /\ d \in http => Stays(d)
                                      /\ TcpHolds(d) => Left(d)
<1>1. ~Left(c) /\ (HttpSaved(c) => ~Unrestored(c))
  BY DEF InCritical, Critical, Left, HttpSaved, Unrestored
<1>2. \A d \in Calls : d # c => ~HttpSaved(d) /\ pc[d] # "ending"
  BY Alone DEF HalfInv, EditInv, HttpSaved
<1> QED
  BY <1>1, <1>2 DEF HalfInv, OnlyLeftEdits, Stays

LEMMA HalfStep == HalfInv /\ [Next]_vars => HalfInv'
<1> SUFFICES ASSUME HalfInv, [Next]_vars PROVE HalfInv'
  OBVIOUS
<1>0. EditInv' /\ TypeOK /\ ReadsAreFresh /\ OnlyLeftEdits
  BY EditStep DEF HalfInv, EditInv, LockInv
<1> USE DEF GoTo, files, counters
<1>1. ASSUME NEW c \in Calls, Call(c) \/ Acquire(c) PROVE HalfInv'
  <2>1. /\ \A d \in Calls : d # c => pc'[d] = pc[d]
        /\ pc[c] \in {"idle", "waiting"} /\ pc'[c] \in {"waiting", "prepHttp"}
        /\ UNCHANGED <<http, tcp, valide, backup>>
    BY <1>0, <1>1 DEF Call, Acquire, TypeOK
  <2> QED
    BY <1>0, <2>1
    DEF HalfInv, OnlyLeftEdits, Stays, Unrestored, Left, TcpHolds, HttpSaved, PreparesBothFirst
<1>2. ASSUME NEW c \in Calls,
             PrepareHttp(c) \/ PrepareTcp(c) \/ PrepareRejects(c) \/ PrepareHangs(c)
      PROVE HalfInv'
  <2>1. InCritical(c) /\ pc[c] \in {"prepHttp", "prepTcp"}
    BY <1>2 DEF PrepareHttp, PrepareTcp, PrepareRejects, PrepareHangs, InCritical, Critical
  <2>2. UNCHANGED <<http, tcp, valide, backup>>
    BY <1>2 DEF PrepareHttp, PrepareTcp, PrepareRejects, PrepareHangs
  <2>3. PICK p \in {"prepTcp", "saveHttp", "saveTcp", "stuck", "hung", "failing", "undo"} :
          /\ pc' = [pc EXCEPT ![c] = p]
          /\ p \in {"saveTcp", "undo"} => pc[c] = "prepTcp" /\ ~PreparesBothFirst(c)
          /\ p \in {"stuck", "saveHttp"} => pc[c] = "prepHttp" \/ PreparesBothFirst(c)
          /\ p \in {"failing", "prepTcp"} => pc[c] = "prepHttp"
          /\ p = "prepTcp" => PreparesBothFirst(c)
    BY <1>2 DEF PrepareHttp, PrepareTcp, PrepareRejects, PrepareHangs
  <2>4. /\ HttpSaved(c)' => HttpSaved(c)
        /\ HttpSaved(c) => Left(c)' \/ HttpSaved(c)'
    BY <1>0, <2>1, <2>3 DEF HttpSaved, Left, PreparesBothFirst, TypeOK
  <2>5. \A d \in Calls : TcpHolds(d)' <=> TcpHolds(d)
    BY <2>2 DEF TcpHolds
  <2>6. ~TcpHolds(c) /\ (c \in http => HttpSaved(c))
    BY <2>1, OthersLeft DEF Unrestored
  <2>7. Left(c)' => Stays(c)'
    BY DEF Stays
  <2> QED
    BY <1>0, <2>1, <2>2, <2>3, <2>4, <2>5, <2>6, <2>7, OthersLeft, HalfStepOf
<1>3. ASSUME NEW c \in Calls, SaveHttp(c) PROVE HalfInv'
  <2>1. InCritical(c) /\ HttpRead(c) /\ ~HttpSaved(c) /\ pc[c] = "saveHttp"
    BY <1>3 DEF SaveHttp, InCritical, Critical, HttpRead, HttpSaved
  <2>2. /\ http' = http \cup {c}
        /\ \E b \in {http, NoFile} : backup' = [backup EXCEPT ![c] = b]
        /\ UNCHANGED <<tcp, valide>>
    BY <1>0, <1>3, <2>1 DEF SaveHttp, Backups, ReadsAreFresh, TypeOK
  <2>7. /\ backup'[c] \in {http, NoFile}
        /\ \A d \in Calls : d # c => backup'[d] = backup[d]
    BY <1>0, <2>2 DEF TypeOK
  <2>3. PICK p \in {"prepTcp", "saveTcp", "ending"} :
          /\ pc' = [pc EXCEPT ![c] = p]
          /\ p = "prepTcp" => ~PreparesBothFirst(c)
    BY <1>3 DEF SaveHttp
  <2>4. HttpSaved(c)'
    BY <1>0, <2>3 DEF HttpSaved, PreparesBothFirst, TypeOK
  <2>5. \A d \in Calls : TcpHolds(d)' <=> TcpHolds(d)
    BY <2>2 DEF TcpHolds
  <2>6. ~TcpHolds(c) /\ c \notin http
    BY <2>1, OthersLeft DEF Unrestored
  <2> QED
    BY <1>0, <2>1, <2>2, <2>3, <2>4, <2>5, <2>6, <2>7, OthersLeft, HalfStepOf
<1>4. ASSUME NEW c \in Calls, SaveTcpUnloaded(c) \/ SaveTcp(c) PROVE HalfInv'
  <2>1. InCritical(c) /\ TcpRead(c) /\ HttpSaved(c)
    BY <1>4 DEF SaveTcpUnloaded, SaveTcp, InCritical, Critical, TcpRead, HttpSaved
  <2>2. /\ tcp' = tcp \cup {c} /\ valide' \in {valide, tcp'}
        /\ pc' = [pc EXCEPT ![c] = "ending"]
        /\ UNCHANGED <<http, backup>>
    BY <1>0, <1>4, <2>1 DEF SaveTcpUnloaded, SaveTcp, ReadsAreFresh
  <2>3. HttpSaved(c)'
    BY <1>0, <2>2 DEF HttpSaved, TypeOK
  <2>4. \A d \in Calls : d # c /\ TcpHolds(d)' => TcpHolds(d)
    BY <2>2 DEF TcpHolds
  <2> QED
    BY <1>0, <2>1, <2>2, <2>3, <2>4, OthersLeft, HalfStepOf
<1>5. ASSUME NEW c \in Calls, SaveTcpRefused(c) PROVE HalfInv'
  <2>1. InCritical(c) /\ HttpSaved(c) /\ pc[c] = "saveTcp"
    BY <1>5 DEF SaveTcpRefused, InCritical, Critical, HttpSaved
  <2>2. /\ tcp' = IF valide = NoFile THEN tcp ELSE valide
        /\ pc' = [pc EXCEPT ![c] = "undo"]
        /\ UNCHANGED <<http, valide, backup>>
    BY <1>5 DEF SaveTcpRefused
  <2>3. HttpSaved(c)'
    BY <1>0, <2>2 DEF HttpSaved, TypeOK
  <2>4. \A d \in Calls : TcpHolds(d)' => TcpHolds(d)
    BY <2>2 DEF TcpHolds
  <2>5. ~TcpHolds(c)
    BY <2>1, OthersLeft
  <2> QED
    BY <1>0, <2>1, <2>2, <2>3, <2>4, <2>5, OthersLeft, HalfStepOf
<1>6. ASSUME NEW c \in Calls, UndoHttp(c) PROVE HalfInv'
  <2>1. InCritical(c) /\ HttpSaved(c) /\ pc[c] = "undo"
    BY <1>6 DEF UndoHttp, InCritical, Critical, HttpSaved
  <2>2. /\ http' = IF backup[c] = NoFile THEN http ELSE backup[c]
        /\ pc' = [pc EXCEPT ![c] = "failing"]
        /\ UNCHANGED <<tcp, valide, backup>>
    BY <1>6 DEF UndoHttp
  <2>3. ~HttpSaved(c)'
    BY <1>0, <2>2 DEF HttpSaved, TypeOK
  <2>4. \A d \in Calls : TcpHolds(d)' <=> TcpHolds(d)
    BY <2>2 DEF TcpHolds
  <2>5. ~TcpHolds(c)
    BY <2>1, OthersLeft
  <2>6. backup[c] = NoFile => Stays(c)'
    BY <1>0, <2>2 DEF TypeOK, Stays, Unrestored
  <2> QED
    BY <1>0, <2>1, <2>2, <2>3, <2>4, <2>5, <2>6, OthersLeft, HalfStepOf
<1>7. ASSUME NEW c \in Calls, Finish(c) PROVE HalfInv'
  <2>1. InCritical(c) /\ (HttpSaved(c) => pc[c] = "ending")
    BY <1>7 DEF Finish, InCritical, Critical, HttpSaved
  <2>2. UNCHANGED <<http, tcp, valide, backup>>
    BY <1>7 DEF Finish
  <2>3. PICK p \in {"ok", "failed", "swallowed"} :
          /\ pc' = [pc EXCEPT ![c] = p]
          /\ pc[c] = "ending" => p = "ok"
          /\ pc[c] # "ending" => p # "ok"
    BY <1>7 DEF Finish
  <2>4. /\ ~HttpSaved(c)' /\ (pc[c] = "ending" => Left(c)')
        /\ HttpSaved(c) \/ Unrestored(c) => Stays(c)'
    BY <1>0, <2>1, <2>2, <2>3 DEF TypeOK, HttpSaved, Left, Stays, Unrestored
  <2>5. \A d \in Calls : TcpHolds(d)' <=> TcpHolds(d)
    BY <2>2 DEF TcpHolds
  <2> QED
    BY <1>0, <2>1, <2>2, <2>3, <2>4, <2>5, OthersLeft, HalfStepOf
<1>8. CASE CrashRestart
  <2>1. UNCHANGED <<http, tcp, valide, backup>>
    BY <1>8 DEF CrashRestart
  <2>2. \A c \in Calls : /\ Left(c) \/ HttpSaved(c) \/ pc[c] = "ending" => Left(c)'
                         /\ Stays(c) => Stays(c)'
                         /\ ~HttpSaved(c)'
    BY <1>0, <1>8, <2>1
    DEF CrashRestart, TypeOK, Critical, HttpSaved, Left, Stays, Unrestored
  <2>3. \A c \in Calls : Left(c)' => Stays(c)'
    BY DEF Stays
  <2> QED
    BY <1>0, <2>1, <2>2, <2>3 DEF HalfInv, OnlyLeftEdits, TcpHolds
<1>9. CASE UNCHANGED vars
  BY <1>0, <1>9 DEF vars, HalfInv, OnlyLeftEdits, Left, Stays, Unrestored,
                    TcpHolds, HttpSaved
<1> HIDE DEF GoTo, files, counters
<1> QED
  BY <1>1, <1>2, <1>3, <1>4, <1>5, <1>6, <1>7, <1>8, <1>9 DEF Next, Progress

\* A call that failed leaves no half of its edit behind, unless it had nothing to
\* put back: the empty text is no backup (index.js:43), and an update that finds
\* no upstream saves nothing.
THEOREM FailuresAreUndone == Spec => []FailedLeavesNothing
<1>1. HalfInv => FailedLeavesNothing
  BY DEF HalfInv, OnlyLeftEdits, FailedLeavesNothing, Left, Stays, Unrestored,
         TcpHolds, HttpSaved
<1> QED
  BY HalfInit, HalfStep, <1>1, PTL DEF Spec

----------------------------------------------------------------------------
(* What nginx runs.  A reload loads both files as they are, and the files  *)
(* hold every promised edit; a call that ends without a reload promised    *)
(* none.                                                                   *)

PromisedIsLive ==
  \A c \in Calls : pc[c] \in {"ok", "ending"} /\ Promised(c) =>
    c \in live.http /\ c \in live.tcp

\* A step that reloads nginx.
LEMMA ReloadStep ==
  ASSUME EditInv', live' = [http |-> http', tcp |-> tcp']
  PROVE  PromisedIsLive'
BY DEF EditInv, EditsStay, PromisedIsLive, HttpSaved, InTcp

\* A step that does not reload it, and ends no call that promised a reload.
LEMMA NoReloadStep ==
  ASSUME PromisedIsLive, TypeOK, UNCHANGED <<live, hasTcp>>, NEW c \in Calls, NEW p,
         pc' = [pc EXCEPT ![c] = p],
         p \in {"ok", "ending"} /\ Promised(c) => pc[c] \in {"ok", "ending"}
  PROVE  PromisedIsLive'
<1>1. \A d \in Calls : pc'[d] \in {"ok", "ending"} /\ Promised(d) => pc[d] \in {"ok", "ending"}
  BY DEF TypeOK
<1>2. \A d \in Calls : Promised(d)' <=> Promised(d)
  BY DEF Promised, SkipsTcp
<1> QED
  BY <1>1, <1>2 DEF PromisedIsLive

LEMMA LiveStep == EditInv /\ PromisedIsLive /\ [Next]_vars => PromisedIsLive'
<1> SUFFICES ASSUME EditInv, PromisedIsLive, [Next]_vars PROVE PromisedIsLive'
  OBVIOUS
<1>1. EditInv' /\ TypeOK
  BY EditStep DEF EditInv, LockInv
<1> USE DEF GoTo, files
<1>2. ASSUME NEW c \in Calls, Call(c) \/ Acquire(c) PROVE PromisedIsLive'
  <2>1. \E p \in {"waiting", "prepHttp"} : pc' = [pc EXCEPT ![c] = p]
    BY <1>2 DEF Call, Acquire
  <2> QED
    BY <1>1, <1>2, <2>1, NoReloadStep DEF Call, Acquire
<1>3. ASSUME NEW c \in Calls,
             PrepareHttp(c) \/ PrepareTcp(c) \/ PrepareRejects(c) \/ PrepareHangs(c)
      PROVE  PromisedIsLive'
  <2>1. \E p \in {"prepTcp", "saveHttp", "saveTcp", "stuck", "hung", "failing", "undo"} :
          pc' = [pc EXCEPT ![c] = p]
    BY <1>3 DEF PrepareHttp, PrepareTcp, PrepareRejects, PrepareHangs
  <2>2. UNCHANGED <<live, hasTcp>>
    BY <1>3 DEF PrepareHttp, PrepareTcp, PrepareRejects, PrepareHangs
  <2> QED
    BY <1>1, <2>1, <2>2, NoReloadStep
<1>4. ASSUME NEW c \in Calls, SaveHttp(c) PROVE PromisedIsLive'
  <2>1. PICK p \in {"prepTcp", "saveTcp", "ending"} :
          pc' = [pc EXCEPT ![c] = p] /\ (p = "ending" => SkipsTcp(c))
    BY <1>4 DEF SaveHttp
  <2> QED
    BY <1>1, <1>4, <2>1, NoReloadStep DEF SaveHttp, Promised
<1>5. ASSUME NEW c \in Calls, SaveTcpUnloaded(c) PROVE PromisedIsLive'
  BY <1>1, <1>5, NoReloadStep DEF SaveTcpUnloaded, Promised
<1>6. ASSUME NEW c \in Calls, SaveTcp(c) PROVE PromisedIsLive'
  BY <1>1, <1>6, ReloadStep DEF SaveTcp
<1>7. ASSUME NEW c \in Calls, SaveTcpRefused(c) PROVE PromisedIsLive'
  <2>1. CASE live' = live
    BY <1>1, <1>7, <2>1, NoReloadStep DEF SaveTcpRefused
  <2>2. CASE live' # live
    BY <1>1, <1>7, <2>2, ReloadStep DEF SaveTcpRefused
  <2> QED
    BY <2>1, <2>2
<1>8. ASSUME NEW c \in Calls, UndoHttp(c) PROVE PromisedIsLive'
  <2>1. CASE live' = live
    BY <1>1, <1>8, <2>1, NoReloadStep DEF UndoHttp
  <2>2. CASE live' # live
    BY <1>1, <1>8, <2>2, ReloadStep DEF UndoHttp
  <2> QED
    BY <2>1, <2>2
<1>9. ASSUME NEW c \in Calls, Finish(c) PROVE PromisedIsLive'
  <2>1. PICK p \in {"ok", "failed", "swallowed"} :
          pc' = [pc EXCEPT ![c] = p] /\ (p = "ok" => pc[c] = "ending")
    BY <1>9 DEF Finish
  <2> QED
    BY <1>1, <1>9, <2>1, NoReloadStep DEF Finish
<1>10. CASE CrashRestart
  <2>1. \A c \in Calls : pc'[c] \in {"ok", "ending"} => pc[c] \in {"ok", "ending"}
    BY <1>1, <1>10 DEF CrashRestart, TypeOK
  <2> QED
    BY <1>10, <2>1 DEF CrashRestart, PromisedIsLive, Promised, SkipsTcp
<1>11. CASE UNCHANGED vars
  BY <1>11 DEF vars, PromisedIsLive, Promised, SkipsTcp
<1> HIDE DEF GoTo, files
<1> QED
  BY <1>2, <1>3, <1>4, <1>5, <1>6, <1>7, <1>8, <1>9, <1>10, <1>11 DEF Next, Progress

\* A generate, a cleanup, or an update with TCP upstreams that succeeded is in
\* what nginx runs, and no later failure takes it out (saveAndApplyTcpProxyConfig,
\* restoreHttpConfig).
THEOREM SuccessReachesNginx == Spec => []SuccessIsLive
<1>1. Init => PromisedIsLive
  BY DEF Init, PromisedIsLive
<1>2. PromisedIsLive => SuccessIsLive
  BY DEF PromisedIsLive, SuccessIsLive, Promised
<1> QED
  BY EditInit, EditStep, LiveStep, <1>1, <1>2, PTL DEF Spec
----------------------------------------------------------------------------
(* Scaling the cluster, and its replicated volumes: ClusterScale and          *)
(* GlusterVolume, whose scalings end in an update of an upstream of this proxy. *)

\* What a job, a scaling and an upstream are made of.
JobPcs == {"idle", "ok", "failed"} \cup MountSteps \cup UnmountSteps
JobType == [pc : JobPcs,
            vol : Volumes \cup {NoVolume}, targets : SUBSET Nodes, all : BOOLEAN,
            left : SUBSET Nodes, done : SUBSET Nodes]
ScaleType == [mode : {"none", "up", "undo", "down"}, pc : Steps, want : 0..MaxScale,
              unused : SUBSET Hosts, used : SUBSET Hosts, usable : SUBSET Hosts,
              todo : SUBSET Nodes, node : Nodes \cup {NoNode}, vols : SUBSET Volumes,
              got : SUBSET (Volumes \X Nodes), untaint : BOOLEAN]
Servers == Nodes \cup OtherNodes

\* What the two modules assume of their constants, as one fact: the names of no node
\* and no volume are none, the other nodes are others and finitely many, and the bounds
\* are numbers.
Given ==
  /\ Master \in Nodes /\ NoVolume \notin Volumes
  /\ MaxTasks \in Nat /\ MaxFaults \in Nat
  /\ MasterHost \in Hosts /\ NoNode \notin Nodes
  /\ OtherNodes \cap Nodes = {} /\ IsFiniteSet(OtherNodes) /\ MaxScale \in Nat

LEMMA Assumed == Given
BY ClusterAssumption, GlusterAssumption, TasksAssumption DEF Given

Typed ==
  /\ Given
  /\ ScaleTypeOK
  /\ job \in JobType /\ scale \in ScaleType /\ own \in Seq(Servers)
  /\ IsFiniteSet(nodes)

\* The step of a scaling decides what it knows.  A worker is being removed,
Removing == scale.pc \in {"detach", "destroy"}

\* and the steps of scaling up, undoing it, and scaling down.
UpPcs == {"provision", "volumes", "taint", "publish"}
UndoPcs == {"next", "detach", "destroy", "untaint", "unmount", "publish"}
DownPcs == {"next", "detach", "destroy", "untaint", "publish"}

\* While nothing is scaled, there is no scaling.  Scaling up mounts volumes on the last
\* worker it deployed; a removal is of one worker that is not to be removed again.
\* Undoing unmounts from a worker that is still to be removed, is gone, or whose
\* removal failed, which tore the volumes apart from their rows.
ScaleShape ==
  /\ op # "scale" => scale = NoScale
  /\ op = "scale" => /\ scale.mode # "none" /\ vol = NoVolume
                     /\ scale.mode = "up" => scale.pc \in UpPcs
                     /\ scale.mode = "undo" => scale.pc \in UndoPcs
                     /\ scale.mode = "down" => scale.pc \in DownPcs
  /\ scale.mode = "up" /\ scale.pc = "provision" => scale.want > 0
  /\ scale.mode = "up" /\ scale.pc \in {"taint", "publish"} => scale.vols = {}
  /\ scale.mode = "up" /\ scale.pc # "provision" => scale.node \in scale.todo
  /\ Removing => scale.node \in Workers \ scale.todo
  /\ scale.pc = "untaint" => scale.todo = {}
  /\ scale.pc = "publish" /\ scale.mode = "down" => scale.todo = {}
  /\ scale.mode = "undo" /\ scale.pc \in {"publish", "unmount"} =>
       scale.node \in scale.todo \/ scale.node \notin nodes \/ bound \subseteq torn
  /\ \A p \in scale.got : p[1] \in bound

\* What the task of a volume was checked for, and the job it runs: for all nodes when
\* it binds or unbinds, for the scaling's worker when it scales, on a bound volume.
JobShape ==
  /\ op \in {"none", "provision", "deprovision"} => job = NoJob
  /\ op = "none" => vol = NoVolume
  /\ op = "provision" => vol \in Volumes \ row
  /\ op = "deprovision" => vol \in row \ bound
  /\ op = "bind" => /\ vol \in row \ bound
                    /\ job.pc \in MountSteps \cup {"ok", "failed"}
  /\ op = "unbind" => /\ vol \in bound
                      /\ job.pc \in UnmountSteps \cup {"ok", "failed"}
  /\ op \in {"bind", "unbind"} => job.vol = vol /\ job.targets = nodes /\ job.all
  /\ op = "scale" /\ job # NoJob =>
       /\ job.vol \in bound /\ job.targets = {scale.node} /\ ~job.all
       /\ \/ /\ scale.mode = "up" /\ scale.pc = "volumes"
             /\ job.pc \in MountSteps \cup {"ok", "failed"}
             /\ job.vol \in scale.vols
          \/ /\ scale.mode = "undo" /\ scale.pc = "unmount"
             /\ <<job.vol, scale.node>> \in scale.got
             /\ job.pc \in UnmountSteps \cup {"ok", "failed"}
  /\ job.pc = "idle" => job = NoJob
  /\ job.left \cup job.done \subseteq nodes

\* The nodes on which a bound volume may be missing: the new worker until it is mounted
\* there, and the workers an undoing still has to remove.
Owed(v) ==
  CASE scale.mode = "up" /\ scale.pc = "volumes" /\ v \in scale.vols -> {scale.node}
    [] scale.mode = "undo" -> scale.todo \cup (IF Removing THEN {scale.node} ELSE {})
    [] OTHER -> {}

\* The volume is being bound or unbound.
Busy(v) == op \in {"bind", "unbind"} /\ v = vol

\* BindingsHold, at every step: with the nodes the scaling owes, without the volume
\* that is being bound or unbound.
VolumesMounted ==
  /\ \A v \in Volumes : mounted[v] \subseteq nodes
  /\ \A v \in Volumes \ torn :
       /\ v \in gluster <=> v \in row
       /\ v \in bound /\ ~Busy(v) => nodes \ Owed(v) \subseteq mounted[v] \cap allow[v]
       /\ v \notin bound /\ ~Busy(v) => mounted[v] = {}

\* What a binding has mounted and allowed, at each of its steps;
Binding ==
  op = "bind" /\ vol \notin torn =>
    /\ job.pc \in {"authorise", "deny", "failed"} => mounted[vol] = {}
    /\ job.pc = "authorise" => job.done = {}
    /\ job.pc = "mount" => /\ mounted[vol] = job.done /\ job.done \cup job.left = nodes
                           /\ nodes \subseteq allow[vol]
    /\ job.pc = "unmountBack" => mounted[vol] = job.left
    /\ job.pc = "ok" => mounted[vol] = nodes /\ nodes \subseteq allow[vol]

\* what an unbinding has unmounted;
Unbinding ==
  op = "unbind" /\ vol \notin torn =>
    /\ job.pc # "ok" => nodes \subseteq allow[vol]
    /\ job.pc \in {"pvs", "failed"} => mounted[vol] = nodes
    /\ job.pc = "pvs" => job.left = nodes /\ job.done = {}
    /\ job.pc = "unmount" => /\ mounted[vol] = nodes \ job.done
                             /\ job.left = nodes \ job.done
    /\ job.pc = "restrict" => mounted[vol] = {} /\ job.done = nodes
    /\ job.pc = "ok" => mounted[vol] = {}
    /\ job.pc \in {"remount", "remountAll"} => mounted[vol] = nodes \ job.left

\* what was mounted on the new worker.
Mounting ==
  op = "scale" /\ scale.mode = "up" /\ job.pc # "idle" /\ job.vol \notin torn =>
    /\ job.pc \in {"mount", "ok"} => scale.node \in allow[job.vol]
    /\ job.pc = "mount" => job.left = {scale.node}
    /\ job.pc = "ok" => scale.node \in mounted[job.vol]

\* The workers that a scaling has yet to remove.
Leaving == scale.todo \cup (IF Removing THEN {scale.node} ELSE {})

\* ClusterFollowsRows, at every step.  The master is tainted before the first workers
\* are published, and takes workload again only when none is left.
Follows ==
  ~strayed =>
    /\ vms = nodes
    /\ members = Workers \ (IF scale.pc = "destroy" THEN {scale.node} ELSE {})
    /\ scale.mode = "none" => (tainted <=> Workers # {})
    /\ scale.mode = "up" /\ scale.pc # "publish" => (tainted <=> Workers # scale.todo)
    /\ scale.mode = "up" /\ scale.pc = "publish" => tainted
    /\ scale.mode = "undo" => (Workers # Leaving => tainted)
    /\ scale.mode = "undo" /\ scale.pc = "untaint" => Workers = {}
    /\ scale.mode = "down" /\ scale.pc \in {"next", "detach", "destroy"} =>
         tainted /\ (scale.untaint <=> Workers = Leaving)
    /\ scale.mode = "down" /\ scale.pc = "untaint" => Workers = {}
    /\ scale.mode = "down" /\ scale.pc = "publish" => (tainted <=> Workers # {})

\* The servers an upstream is to have if the rows are N.
ActiveOf(N) == IF N \ {Master} = {} THEN N ELSE N \ {Master}

\* UpstreamFollowsRows, at every step: while scaling up the upstream has the servers
\* from before, and undoing writes it after every worker it removed.
Published ==
  ~outdated =>
    /\ scale.mode = "none" => ToSet(own) = Active
    /\ scale.mode = "up" => ToSet(own) = ActiveOf(nodes \ scale.todo)
    /\ scale.mode = "undo" /\ scale.pc \in {"next", "unmount", "untaint"} /\ scale.todo = {} =>
         ToSet(own) = Active

\* The inductive invariant.
IInv == Typed /\ ScaleShape /\ JobShape /\ VolumesMounted /\ Binding /\ Unbinding /\ Mounting
        /\ Follows /\ Published

\* A job goes on.
LEMMA JobGoes ==
  ASSUME Typed, NEW p \in JobPcs, NEW l \in SUBSET Nodes, Go(p, l)
  PROVE  /\ job' \in JobType
         /\ job'.pc = p /\ job'.left = l /\ job'.vol = job.vol /\ job'.targets = job.targets
         /\ job'.all = job.all /\ job'.done = job.done
BY DEF Typed, JobType, Go

LEMMA ScaleGoes ==
  ASSUME Typed, NEW p \in Steps, To(p)
  PROVE  /\ scale' \in ScaleType
         /\ scale'.pc = p /\ scale'.mode = scale.mode /\ scale'.want = scale.want
         /\ scale'.unused = scale.unused /\ scale'.used = scale.used /\ scale'.usable = scale.usable
         /\ scale'.todo = scale.todo /\ scale'.node = scale.node /\ scale'.vols = scale.vols
         /\ scale'.got = scale.got /\ scale'.untaint = scale.untaint
BY DEF Typed, ScaleType, To

\* The steps of jobs.
LEMMA JobPcKinds ==
  /\ JobPcs = {"idle", "ok", "failed", "authorise", "mount", "unmountBack", "deny",
               "pvs", "unmount", "remount", "restrict", "remountAll"}
  /\ MountSteps = {"authorise", "mount", "unmountBack", "deny"}
  /\ UnmountSteps = {"pvs", "unmount", "remount", "restrict", "remountAll"}
BY DEF JobPcs, MountSteps, UnmountSteps

\* A job that is not idle: its volume, its nodes, and whose it is.
LEMMA ActiveJob ==
  ASSUME IInv, job.pc # "idle"
  PROVE  /\ op \in {"bind", "unbind", "scale"} /\ job.vol \in Volumes
         /\ job.left \subseteq job.targets \cap nodes /\ job.done \subseteq job.targets \cap nodes
         /\ op \in {"bind", "unbind"} => job.vol = vol /\ job.targets = nodes /\ job.all
         /\ op = "scale" => /\ job.targets = {scale.node} /\ job.vol \in bound /\ ~job.all
                            /\ job.pc \in MountSteps => scale.mode = "up"
                            /\ job.pc \in UnmountSteps => scale.mode = "undo"
                            /\ job.vol \in torn \/ scale.node \in Owed(job.vol)
                               \/ scale.node \notin nodes
         /\ job.pc \in MountSteps => op # "unbind"
         /\ job.pc \in UnmountSteps => op # "bind"
<1>1. ScaleTypeOK /\ JobShape /\ ScaleShape /\ job \in JobType
  BY DEF IInv, Typed
<1>2. job # NoJob /\ job.left \cup job.done \subseteq nodes
  BY <1>1 DEF JobShape, NoJob
<1>3. job.left \subseteq job.targets /\ job.done \subseteq job.targets /\ bound \subseteq Volumes
      /\ op \in {"none", "provision", "deprovision", "bind", "unbind", "scale"}
  BY <1>1 DEF ScaleTypeOK, GlusterTypeOK
<1>4. op \in {"bind", "unbind", "scale"}
  BY <1>1, <1>2, <1>3 DEF JobShape
<1>5. CASE op \in {"bind", "unbind"}
  <2>1. job.vol = vol /\ job.targets = nodes /\ job.all /\ vol \in Volumes
    BY <1>1, <1>3, <1>5 DEF JobShape, ScaleTypeOK, GlusterTypeOK
  <2>2. /\ job.pc \in MountSteps => op # "unbind"
        /\ job.pc \in UnmountSteps => op # "bind"
    BY <1>1, <1>5, JobPcKinds DEF JobShape
  <2>3. QED  BY <1>2, <1>3, <1>5, <2>1, <2>2
<1>6. CASE op = "scale"
  <2>1. /\ job.vol \in bound /\ job.targets = {scale.node} /\ ~job.all
        /\ \/ /\ scale.mode = "up" /\ scale.pc = "volumes"
              /\ job.pc \in MountSteps \cup {"ok", "failed"}
              /\ job.vol \in scale.vols
           \/ /\ scale.mode = "undo" /\ scale.pc = "unmount"
              /\ job.pc \in UnmountSteps \cup {"ok", "failed"}
    BY <1>1, <1>2, <1>6 DEF JobShape
  <2>2. CASE scale.mode = "up" /\ scale.pc = "volumes" /\ job.vol \in scale.vols
    <3>1. scale.node \in Owed(job.vol)
      BY <2>2 DEF Owed
    <3>2. job.pc \notin UnmountSteps
      BY <2>1, <2>2, JobPcKinds
    <3>3. QED  BY <1>2, <1>3, <1>6, <2>1, <2>2, <3>1, <3>2
  <2>3. CASE scale.mode = "undo" /\ scale.pc = "unmount"
    <3>1. scale.node \in scale.todo \/ scale.node \notin nodes \/ bound \subseteq torn
      BY <1>1, <2>3 DEF ScaleShape
    <3>2. scale.node \in scale.todo => scale.node \in Owed(job.vol)
      BY <2>3 DEF Owed
    <3>3. job.pc \notin MountSteps
      BY <2>1, <2>3, JobPcKinds
    <3>4. QED  BY <1>2, <1>3, <1>6, <2>1, <2>3, <3>1, <3>2, <3>3
  <2>4. QED  BY <2>1, <2>2, <2>3
<1>7. QED  BY <1>4, <1>5, <1>6

\* A step of a job touches nothing but its volume, and of that only the nodes it is
\* for.
JobMoves ==
  /\ UNCHANGED <<nodes, vms, gluster, row, bound, op, vol, tasks>>
  /\ UNCHANGED <<away, members, tainted, own, scale, strayed, outdated>>
  /\ faults' \in 0..MaxFaults
  /\ job' \in JobType /\ job'.vol = job.vol /\ job'.targets = job.targets /\ job'.all = job.all
  /\ \/ job.pc \in MountSteps /\ job'.pc \in MountSteps \cup {"ok", "failed"}
     \/ job.pc \in UnmountSteps /\ job'.pc \in UnmountSteps \cup {"ok", "failed"}
  /\ job'.left \subseteq job.targets \cap nodes /\ job'.done \subseteq job.targets \cap nodes
  /\ allow' \in [Volumes -> SUBSET Nodes] /\ mounted' \in [Volumes -> SUBSET Nodes]
  /\ \A v \in Volumes \ {job.vol} : allow'[v] = allow[v] /\ mounted'[v] = mounted[v]
  /\ mounted'[job.vol] \subseteq nodes
  /\ \A n \in nodes \ job.targets : /\ n \in mounted[job.vol] => n \in mounted'[job.vol]
                                    /\ n \in allow[job.vol] => n \in allow'[job.vol]
  /\ torn \subseteq torn' /\ torn' \subseteq torn \cup {job.vol}

\* Such a step keeps all but what is said of the job itself.
LEMMA JobMovesOn ==
  ASSUME IInv, JobMoves, Binding', Unbinding', Mounting'
  PROVE  IInv'
<1>1. /\ Typed /\ ScaleShape /\ JobShape /\ VolumesMounted /\ Follows /\ Published
      /\ job.pc # "idle" /\ job'.pc # "idle"
  BY JobPcKinds DEF IInv, JobMoves
<1>2. Typed'
  <2>1. GlusterTypeOK'
    BY <1>1, ActiveJob DEF JobMoves, Typed, ScaleTypeOK, GlusterTypeOK, JobType, JobPcs
  <2>2. ScaleTypeOK'
    BY <1>1, <2>1 DEF JobMoves, Typed, ScaleTypeOK, Workers
  <2>3. QED  BY <1>1, <2>2 DEF JobMoves, Typed, Given
<1>3. ScaleShape'
  BY <1>1 DEF JobMoves, ScaleShape, Removing, Workers
<1>4. Follows'
  BY <1>1 DEF JobMoves, Follows, Removing, Workers, Leaving
<1>5. Published'
  BY <1>1 DEF JobMoves, Published, Active, Workers
<1>6. JobShape'
  <2>1. job # NoJob /\ job' # NoJob
    BY <1>1 DEF NoJob
  <2>2. job.pc \in MountSteps => job.pc \notin UnmountSteps \cup {"ok", "failed"}
    BY JobPcKinds
  <2>3. job.pc \in UnmountSteps => job.pc \notin MountSteps \cup {"ok", "failed"}
    BY JobPcKinds
  <2>4. op = "scale" => scale.mode # "up" \/ scale.mode # "undo"
    OBVIOUS
  <2>5. QED  BY <1>1, <2>1, <2>2, <2>3, ActiveJob DEF JobMoves, JobShape
<1>7. VolumesMounted'
  <2>1. \A v : Owed(v)' = Owed(v) /\ Busy(v)' = Busy(v)
    BY DEF JobMoves, Owed, Busy, Removing
  <2>2. ASSUME NEW v \in Volumes, v # job.vol
        PROVE  /\ mounted'[v] = mounted[v] /\ allow'[v] = allow[v] /\ (v \in torn' <=> v \in torn)
    BY <2>2 DEF JobMoves
  <2>3. \A v \in Volumes : mounted'[v] \subseteq nodes
    BY <1>1, <2>2 DEF JobMoves, VolumesMounted
  <2>4. ASSUME NEW v \in Volumes \ torn', v # job.vol
        PROVE  /\ v \in gluster <=> v \in row
               /\ v \in bound /\ ~Busy(v) => nodes \ Owed(v) \subseteq mounted'[v] \cap allow'[v]
               /\ v \notin bound /\ ~Busy(v) => mounted'[v] = {}
    BY <1>1, <2>2, <2>4 DEF VolumesMounted
  <2>5. ASSUME job.vol \notin torn'
        PROVE  /\ job.vol \in gluster <=> job.vol \in row
               /\ job.vol \in bound /\ ~Busy(job.vol) =>
                    nodes \ Owed(job.vol) \subseteq mounted'[job.vol] \cap allow'[job.vol]
               /\ job.vol \notin bound => Busy(job.vol)
    <3>1. job.vol \notin torn
      BY <2>5 DEF JobMoves
    <3>2. job.vol \in Volumes /\ (op \in {"bind", "unbind"} => Busy(job.vol))
      BY <1>1, ActiveJob DEF Busy
    <3>3. ASSUME op = "scale"
          PROVE  /\ job.vol \in bound
                 /\ nodes \ Owed(job.vol) \subseteq mounted'[job.vol] \cap allow'[job.vol]
      <4>1. ~Busy(job.vol)
        BY <3>3 DEF Busy
      <4>2. nodes \ Owed(job.vol) \subseteq nodes \ job.targets /\ job.vol \in bound
        BY <1>1, <3>1, <3>3, ActiveJob
      <4>3. nodes \ Owed(job.vol) \subseteq mounted[job.vol] \cap allow[job.vol]
        BY <1>1, <3>1, <3>2, <4>1, <4>2 DEF VolumesMounted
      <4>4. QED  BY <4>2, <4>3 DEF JobMoves
    <3>4. QED  BY <1>1, <3>1, <3>2, <3>3, ActiveJob DEF VolumesMounted
  <2>6. UNCHANGED <<nodes, gluster, row, bound>>
    BY DEF JobMoves
  <2> HIDE DEF JobMoves
  <2>7. QED  BY <2>1, <2>3, <2>4, <2>5, <2>6 DEF VolumesMounted
<1>8. QED  BY <1>2, <1>3, <1>4, <1>5, <1>6, <1>7 DEF IInv

\* What a job that mounts knows, and one that unmounts.
LEMMA MountJobs ==
  ASSUME IInv, job.pc \in MountSteps
  PROVE  /\ job.targets \subseteq nodes /\ job.vol \in Volumes /\ job.pc # "idle"
         /\ job.targets = nodes \/ job.targets = {scale.node}
         /\ op = "bind" => job.vol = vol /\ job.targets = nodes
         /\ op = "scale" => job.targets = {scale.node}
         /\ op \in {"bind", "scale"}
<1>1. job.pc # "idle" /\ Typed /\ JobShape /\ ScaleShape
  BY JobPcKinds DEF IInv
<1>2. ASSUME op = "scale" PROVE scale.node \in nodes
  <2>1. scale.mode = "up"
    BY <1>1, <1>2, ActiveJob
  <2>2. scale.pc = "volumes"
    BY <1>1, <1>2, <2>1 DEF JobShape, NoJob
  <2>3. scale.node \in scale.todo /\ scale.todo \subseteq Workers
    BY <1>1, <2>1, <2>2 DEF ScaleShape, Typed, ScaleTypeOK
  <2>4. QED  BY <2>3 DEF Workers
<1>3. QED  BY <1>1, <1>2, ActiveJob

LEMMA UnmountJobs ==
  ASSUME IInv, job.pc \in UnmountSteps
  PROVE  /\ job.vol \in Volumes /\ job.pc # "idle"
         /\ op = "unbind" => job.vol = vol /\ job.targets = nodes
         /\ op \in {"unbind", "scale"}
<1>1. job.pc # "idle"
  BY JobPcKinds
<1>2. QED  BY <1>1, ActiveJob

\* It suffices to look at the part that is about such jobs.
LEMMA MountMoves ==
  ASSUME IInv, JobMoves, job.pc \in MountSteps, Binding', Mounting'
  PROVE  IInv'
<1>1. op \in {"bind", "scale"}
  BY MountJobs
<1>2. Unbinding'
  BY <1>1 DEF Unbinding, JobMoves
<1>3. QED  BY <1>2, JobMovesOn

LEMMA UnmountMoves ==
  ASSUME IInv, JobMoves, job.pc \in UnmountSteps, Unbinding'
  PROVE  IInv'
<1>1. op \in {"unbind", "scale"} /\ (op = "scale" => scale.mode = "undo")
  BY UnmountJobs, ActiveJob
<1>2. Binding' /\ Mounting'
  BY <1>1 DEF Binding, Mounting, JobMoves
<1>3. QED  BY <1>2, JobMovesOn

\* Mounting and unmounting one node,
LEMMA Mounts ==
  ASSUME Typed, job.vol \in Volumes, NEW n \in Nodes
  PROVE  /\ Mount(n) => /\ mounted' \in [Volumes -> SUBSET Nodes]
                        /\ mounted'[job.vol] = mounted[job.vol] \cup {n}
                        /\ \A v \in Volumes \ {job.vol} : mounted'[v] = mounted[v]
         /\ Unmount(n) => /\ mounted' \in [Volumes -> SUBSET Nodes]
                          /\ mounted'[job.vol] = mounted[job.vol] \ {n}
                          /\ \A v \in Volumes \ {job.vol} : mounted'[v] = mounted[v]
BY DEF Typed, ScaleTypeOK, GlusterTypeOK, Mount, Unmount

\* what steps of jobs leave alone,
LEMMA Kept ==
  ASSUME Typed
  PROVE  /\ UNCHANGED mounted => mounted' \in [Volumes -> SUBSET Nodes]
         /\ UNCHANGED allow => allow' \in [Volumes -> SUBSET Nodes]
         /\ UNCHANGED faults => faults' \in 0..MaxFaults
         /\ Fault => faults' \in 0..MaxFaults
         /\ nodes \subseteq Nodes
BY DEF Typed, Given, ScaleTypeOK, GlusterTypeOK, Fault

\* and a new list of addresses.
LEMMA Allows ==
  ASSUME Typed, job.vol \in Volumes, NEW S \in SUBSET Nodes, allow' = [allow EXCEPT ![job.vol] = S]
  PROVE  /\ allow' \in [Volumes -> SUBSET Nodes] /\ allow'[job.vol] = S
         /\ \A v \in Volumes \ {job.vol} : allow'[v] = allow[v]
BY DEF Typed, ScaleTypeOK, GlusterTypeOK

\* The steps of mountGlusterVolumeToClusterVMs.
LEMMA AuthorisedFollows ==
  ASSUME IInv, UNCHANGED clusterVars, Authorised
  PROVE  IInv'
<1>1. Typed /\ VolumesMounted /\ Binding /\ Mounting /\ job.pc = "authorise" /\ job.pc \in MountSteps
  BY JobPcKinds DEF IInv, Authorised, Step
<1>2. /\ job.targets \subseteq nodes /\ job.vol \in Volumes /\ nodes \in SUBSET Nodes
      /\ mounted[job.vol] \subseteq nodes /\ job.done \subseteq job.targets \cap nodes
      /\ job.targets \in SUBSET Nodes
      /\ op = "bind" => job.vol = vol /\ job.targets = nodes
      /\ op = "scale" => job.targets = {scale.node}
  BY <1>1, MountJobs, ActiveJob, Kept DEF VolumesMounted
<1>3. /\ UNCHANGED <<nodes, vms, gluster, row, bound, mounted, op, vol, tasks, torn>>
      /\ UNCHANGED <<away, members, tainted, own, scale, strayed, outdated>>
      /\ faults' \in 0..MaxFaults
      /\ mounted' \in [Volumes -> SUBSET Nodes] /\ Go("mount", job.targets)
  BY <1>1, Kept DEF Authorised, clusterVars
<1>4. /\ allow' \in [Volumes -> SUBSET Nodes] /\ allow'[job.vol] = nodes
      /\ \A v \in Volumes \ {job.vol} : allow'[v] = allow[v]
  BY <1>1, <1>2, Allows DEF Authorised, SetAuthorizedIps
<1>5. /\ job' \in JobType
      /\ job'.pc = "mount" /\ job'.left = job.targets /\ job'.vol = job.vol
      /\ job'.targets = job.targets /\ job'.all = job.all /\ job'.done = job.done
  BY <1>1, <1>2, <1>3, JobGoes, JobPcKinds
<1>6. JobMoves
  BY <1>1, <1>2, <1>3, <1>4, <1>5, JobPcKinds DEF JobMoves
<1>7. Binding'
  BY <1>1, <1>2, <1>3, <1>4, <1>5 DEF Binding
<1>8. Mounting'
  BY <1>1, <1>2, <1>3, <1>4, <1>5 DEF Mounting
<1>9. QED  BY <1>1, <1>6, <1>7, <1>8, MountMoves

LEMMA AuthoriseFailsFollows ==
  ASSUME IInv, UNCHANGED clusterVars, AuthoriseFails
  PROVE  IInv'
<1>1. Typed /\ VolumesMounted /\ Binding /\ Mounting /\ job.pc = "authorise" /\ job.pc \in MountSteps
  BY JobPcKinds DEF IInv, AuthoriseFails, Step
<1>2. /\ job.targets \subseteq nodes /\ job.vol \in Volumes /\ nodes \in SUBSET Nodes
      /\ mounted[job.vol] \subseteq nodes /\ job.done \subseteq job.targets \cap nodes
      /\ op = "bind" => job.vol = vol
  BY <1>1, MountJobs, ActiveJob, Kept DEF VolumesMounted
<1>3. /\ UNCHANGED <<nodes, vms, gluster, row, bound, mounted, op, vol, tasks, torn>>
      /\ UNCHANGED <<away, members, tainted, own, scale, strayed, outdated>>
      /\ faults' \in 0..MaxFaults
      /\ mounted' \in [Volumes -> SUBSET Nodes] /\ Go("failed", {})
      /\ SetAuthorizedIps \/ UNCHANGED allow
  BY <1>1, Kept DEF AuthoriseFails, clusterVars
<1>4. /\ allow' \in [Volumes -> SUBSET Nodes]
      /\ \A n \in nodes : n \in allow[job.vol] => n \in allow'[job.vol]
      /\ \A v \in Volumes \ {job.vol} : allow'[v] = allow[v]
  BY <1>1, <1>2, <1>3, Allows, Kept DEF SetAuthorizedIps
<1>5. /\ job' \in JobType
      /\ job'.pc = "failed" /\ job'.left = {} /\ job'.vol = job.vol
      /\ job'.targets = job.targets /\ job'.all = job.all /\ job'.done = job.done
  BY <1>1, <1>2, <1>3, JobGoes, JobPcKinds
<1>6. JobMoves
  BY <1>1, <1>2, <1>3, <1>4, <1>5 DEF JobMoves
<1>7. Binding'
  BY <1>1, <1>2, <1>3, <1>5 DEF Binding
<1>8. Mounting'
  BY <1>5 DEF Mounting
<1>9. QED  BY <1>1, <1>6, <1>7, <1>8, MountMoves

LEMMA MountFollows ==
  ASSUME IInv, UNCHANGED clusterVars, NEW n \in Nodes, MountK8SNodeGlusterVolume(n)
  PROVE  IInv'
<1>1. Typed /\ VolumesMounted /\ Binding /\ Mounting /\ job.pc = "mount" /\ job.pc \in MountSteps
  BY JobPcKinds DEF IInv, MountK8SNodeGlusterVolume, Step
<1>2. /\ job.targets \subseteq nodes /\ job.vol \in Volumes
      /\ mounted[job.vol] \subseteq nodes /\ job.done \subseteq job.targets \cap nodes
      /\ job.left \subseteq job.targets \cap nodes
      /\ op = "bind" => job.vol = vol /\ job.targets = nodes
      /\ op = "scale" => job.targets = {scale.node}
  BY <1>1, MountJobs, ActiveJob, Kept DEF VolumesMounted
<1>3. /\ UNCHANGED <<nodes, vms, gluster, row, bound, allow, op, vol, tasks, torn>>
      /\ UNCHANGED <<away, members, tainted, own, scale, strayed, outdated>>
      /\ faults' \in 0..MaxFaults
      /\ allow' \in [Volumes -> SUBSET Nodes]
      /\ n \in job.left /\ Mount(n)
      /\ job' = [job EXCEPT !.done = job.done \cup {n}, !.left = job.left \ {n},
                            !.pc = IF job.left = {n} THEN "ok" ELSE "mount"]
  BY <1>1, Kept DEF MountK8SNodeGlusterVolume, clusterVars
<1>4. /\ mounted' \in [Volumes -> SUBSET Nodes]
      /\ mounted'[job.vol] = mounted[job.vol] \cup {n}
      /\ \A v \in Volumes \ {job.vol} : mounted'[v] = mounted[v]
  BY <1>1, <1>2, <1>3, Mounts
<1>5. /\ job' \in JobType
      /\ job'.pc = IF job.left = {n} THEN "ok" ELSE "mount"
      /\ job'.left = job.left \ {n} /\ job'.vol = job.vol
      /\ job'.targets = job.targets /\ job'.all = job.all /\ job'.done = job.done \cup {n}
  BY <1>1, <1>3, JobPcKinds DEF Typed, JobType
<1>6. JobMoves
  BY <1>1, <1>2, <1>3, <1>4, <1>5, JobPcKinds DEF JobMoves
<1>7. Binding'
  <2>0. UNCHANGED <<nodes, allow, op, vol>> /\ job'.pc \in {"ok", "mount"}
    BY <1>3, <1>5
  <2>1. SUFFICES ASSUME op = "bind", vol \notin torn'
                 PROVE  /\ mounted'[vol] = job'.done /\ job'.done \cup job'.left = nodes
                        /\ nodes \subseteq allow[vol]
                        /\ job'.pc = "ok" => job'.done = nodes
    BY <2>0 DEF Binding
  <2>2. /\ job.vol = vol /\ mounted[vol] = job.done /\ job.done \cup job.left = nodes
        /\ nodes \subseteq allow[vol]
    BY <1>1, <1>2, <1>3, <2>1 DEF Binding
  <2>3. QED  BY <1>3, <1>4, <1>5, <2>2
<1>8. Mounting'
  BY <1>1, <1>2, <1>3, <1>4, <1>5 DEF Mounting
<1>9. QED  BY <1>1, <1>6, <1>7, <1>8, MountMoves

\* A mount whose answer does not come tears the volume; others are undone first.
LEMMA MountFailsFollows ==
  ASSUME IInv, UNCHANGED clusterVars, NEW n \in Nodes, MountFails(n)
  PROVE  IInv'
<1>1. Typed /\ VolumesMounted /\ Binding /\ Mounting /\ job.pc = "mount" /\ job.pc \in MountSteps
  BY JobPcKinds DEF IInv, MountFails, Step
<1>2. /\ job.targets \subseteq nodes /\ job.vol \in Volumes
      /\ mounted[job.vol] \subseteq nodes /\ job.done \subseteq job.targets \cap nodes
      /\ job.left \subseteq job.targets \cap nodes /\ job.done \in SUBSET Nodes
      /\ op = "bind" => job.vol = vol /\ job.targets = nodes
      /\ op = "scale" => job.targets = {scale.node}
  BY <1>1, MountJobs, ActiveJob, Kept DEF VolumesMounted
<1>3. /\ UNCHANGED <<nodes, vms, gluster, row, bound, allow, op, vol, tasks>>
      /\ UNCHANGED <<away, members, tainted, own, scale, strayed, outdated>>
      /\ faults' \in 0..MaxFaults
      /\ allow' \in [Volumes -> SUBSET Nodes]
      /\ n \in job.left
      /\ \/ UNCHANGED <<mounted, torn>>
         \/ Mount(n) /\ torn' = torn \cup {job.vol}
      /\ IF job.done = {} THEN Go("failed", {}) ELSE Go("unmountBack", job.done)
  BY <1>1, Kept DEF MountFails, Tear, clusterVars
<1>4. /\ mounted' \in [Volumes -> SUBSET Nodes]
      /\ mounted'[job.vol] \subseteq mounted[job.vol] \cup {n}
      /\ mounted[job.vol] \subseteq mounted'[job.vol]
      /\ \A v \in Volumes \ {job.vol} : mounted'[v] = mounted[v]
      /\ job.vol \notin torn' => job.vol \notin torn /\ mounted' = mounted
  BY <1>1, <1>2, <1>3, Mounts, Kept
<1>5. /\ job' \in JobType
      /\ job'.pc = IF job.done = {} THEN "failed" ELSE "unmountBack"
      /\ job'.left = job.done /\ job'.vol = job.vol
      /\ job'.targets = job.targets /\ job'.all = job.all /\ job'.done = job.done
  <2>1. /\ "failed" \in JobPcs /\ "unmountBack" \in JobPcs
        /\ {} \in SUBSET Nodes /\ job.done \in SUBSET Nodes
    BY <1>2, JobPcKinds
  <2>2. CASE job.done = {}
    <3>1. Go("failed", {})
      BY <1>3, <2>2
    <3>2. QED  BY <1>1, <2>1, <2>2, <3>1, JobGoes
  <2>3. CASE job.done # {}
    <3>1. Go("unmountBack", job.done)
      BY <1>3, <2>3
    <3>2. QED  BY <1>1, <2>1, <2>3, <3>1, JobGoes
  <2>4. QED  BY <2>2, <2>3
<1>6. JobMoves
  BY <1>1, <1>2, <1>3, <1>4, <1>5, JobPcKinds DEF JobMoves
<1>7. Binding'
  <2>1. SUFFICES ASSUME op = "bind", vol \notin torn' PROVE mounted'[vol] = job.done
    BY <1>3, <1>5 DEF Binding
  <2>2. QED  BY <1>1, <1>2, <1>4, <2>1 DEF Binding
<1>8. Mounting'
  BY <1>5 DEF Mounting
<1>9. QED  BY <1>1, <1>6, <1>7, <1>8, MountMoves

LEMMA UnmountBackFollows ==
  ASSUME IInv, UNCHANGED clusterVars, UnmountBack
  PROVE  IInv'
<1>1. Typed /\ VolumesMounted /\ Binding /\ job.pc = "unmountBack" /\ job.pc \in MountSteps
  BY JobPcKinds DEF IInv, UnmountBack, Step
<1>2. /\ job.targets \subseteq nodes /\ job.vol \in Volumes
      /\ mounted[job.vol] \subseteq nodes /\ job.done \subseteq job.targets \cap nodes
      /\ job.left \subseteq job.targets \cap nodes /\ job.left \in SUBSET Nodes
      /\ op = "bind" => job.vol = vol /\ job.targets = nodes
  BY <1>1, MountJobs, ActiveJob, Kept DEF VolumesMounted
<1>3. /\ UNCHANGED <<nodes, vms, gluster, row, bound, allow, op, vol, tasks>>
      /\ UNCHANGED <<away, members, tainted, own, scale, strayed, outdated>>
      /\ allow' \in [Volumes -> SUBSET Nodes]
  BY <1>1, Kept DEF UnmountBack, clusterVars
<1>4. PICK n \in job.left \cup {Master} :
        \/ /\ n \in job.left /\ Unmount(n) /\ Go("unmountBack", job.left \ {n})
           /\ UNCHANGED <<faults, torn>>
        \/ /\ n \in job.left /\ Fault /\ torn' = torn \cup {job.vol}
           /\ Go("unmountBack", job.left \ {n}) /\ UNCHANGED mounted
        \/ job.left = {} /\ Go("deny", {}) /\ UNCHANGED <<mounted, faults, torn>>
  BY DEF UnmountBack, Tear
<1>5. n \in Nodes /\ (job.left \ {n}) \in SUBSET Nodes /\ faults' \in 0..MaxFaults
  BY <1>1, <1>2, <1>4, Kept DEF Typed, Given
<1>6. /\ mounted' \in [Volumes -> SUBSET Nodes]
      /\ mounted'[job.vol] \subseteq mounted[job.vol] /\ mounted[job.vol] \ job.left \subseteq mounted'[job.vol]
      /\ \A v \in Volumes \ {job.vol} : mounted'[v] = mounted[v]
      /\ torn \subseteq torn' /\ torn' \subseteq torn \cup {job.vol}
  BY <1>1, <1>2, <1>4, <1>5, Mounts, Kept
<1>7. /\ job' \in JobType
      /\ job'.pc = IF job.left = {} THEN "deny" ELSE "unmountBack"
      /\ job'.left = job.left \ {n} /\ job'.vol = job.vol
      /\ job'.targets = job.targets /\ job'.all = job.all /\ job'.done = job.done
  BY <1>1, <1>2, <1>4, <1>5, JobGoes, JobPcKinds
<1>8. JobMoves
  BY <1>1, <1>2, <1>3, <1>5, <1>6, <1>7, JobPcKinds DEF JobMoves
<1>9. Binding'
  <2>1. SUFFICES ASSUME op = "bind", vol \notin torn'
                 PROVE  mounted'[vol] = job.left \ {n}
    BY <1>3, <1>7 DEF Binding
  <2>2. vol \notin torn /\ mounted[vol] = job.left /\ job.vol = vol
    BY <1>1, <1>2, <1>6, <2>1 DEF Binding
  <2>3. QED  BY <1>1, <1>2, <1>4, <1>5, <2>1, <2>2, Mounts
<1>10. Mounting'
  BY <1>7 DEF Mounting
<1>11. QED  BY <1>1, <1>8, <1>9, <1>10, MountMoves

LEMMA DenyFollows ==
  ASSUME IInv, UNCHANGED clusterVars, Deny
  PROVE  IInv'
<1>1. Typed /\ VolumesMounted /\ Binding /\ job.pc = "deny" /\ job.pc \in MountSteps
  BY JobPcKinds DEF IInv, Deny, Step
<1>2. /\ job.targets \subseteq nodes /\ job.vol \in Volumes /\ nodes \in SUBSET Nodes
      /\ mounted[job.vol] \subseteq nodes /\ job.done \subseteq job.targets \cap nodes
      /\ op = "bind" => job.vol = vol /\ job.targets = nodes
      /\ job.all => job.targets = nodes
  BY <1>1, MountJobs, ActiveJob, Kept DEF VolumesMounted
<1>3. /\ UNCHANGED <<nodes, vms, gluster, row, bound, mounted, op, vol, tasks, torn>>
      /\ UNCHANGED <<away, members, tainted, own, scale, strayed, outdated>>
      /\ faults' \in 0..MaxFaults
      /\ mounted' \in [Volumes -> SUBSET Nodes] /\ Go("failed", {})
      /\ UNCHANGED allow \/ allow' = [allow EXCEPT ![job.vol] = Remaining]
  BY <1>1, Kept DEF Deny, clusterVars
<1>4. /\ allow' \in [Volumes -> SUBSET Nodes]
      /\ \A n \in nodes \ job.targets : n \in allow[job.vol] => n \in allow'[job.vol]
      /\ \A v \in Volumes \ {job.vol} : allow'[v] = allow[v]
  BY <1>1, <1>2, <1>3, Allows, Kept DEF Remaining
<1>5. /\ job' \in JobType
      /\ job'.pc = "failed" /\ job'.left = {} /\ job'.vol = job.vol
      /\ job'.targets = job.targets /\ job'.all = job.all /\ job'.done = job.done
  BY <1>1, <1>2, <1>3, JobGoes, JobPcKinds
<1>6. JobMoves
  BY <1>1, <1>2, <1>3, <1>4, <1>5 DEF JobMoves
<1>7. Binding'
  BY <1>1, <1>2, <1>3, <1>5 DEF Binding
<1>8. Mounting'
  BY <1>5 DEF Mounting
<1>9. QED  BY <1>1, <1>6, <1>7, <1>8, MountMoves

\* The steps of unmountGlusterVolumeFromClusterVMs.
LEMMA RemoveAllPvFollows ==
  ASSUME IInv, UNCHANGED clusterVars, RemoveAllPvForVolume
  PROVE  IInv'
<1>1. /\ Typed /\ VolumesMounted /\ Unbinding /\ job.pc \in UnmountSteps
      /\ job.pc = "pvs"
  BY JobPcKinds DEF IInv, RemoveAllPvForVolume, Step
<1>2. /\ job.vol \in Volumes /\ nodes \in SUBSET Nodes
      /\ mounted[job.vol] \subseteq nodes /\ job.done \subseteq job.targets \cap nodes
      /\ job.left \subseteq job.targets \cap nodes
      /\ job.left \in SUBSET Nodes /\ job.done \in SUBSET Nodes
      /\ op = "unbind" => job.vol = vol /\ job.targets = nodes
      /\ job.all => job.targets = nodes
  BY <1>1, UnmountJobs, ActiveJob, Kept DEF VolumesMounted
<1>3. /\ UNCHANGED <<nodes, vms, gluster, row, bound, allow, mounted, op, vol, tasks, torn>>
      /\ UNCHANGED <<away, members, tainted, own, scale, strayed, outdated>>
      /\ faults' \in 0..MaxFaults
      /\ mounted' \in [Volumes -> SUBSET Nodes] /\ allow' \in [Volumes -> SUBSET Nodes]
      /\ Go("unmount", job.left) \/ Go("failed", {})
  BY <1>1, Kept DEF RemoveAllPvForVolume, clusterVars, volumeVars
<1>4. /\ job' \in JobType /\ job'.vol = job.vol
      /\ job'.targets = job.targets /\ job'.all = job.all /\ job'.done = job.done
      /\ \/ job'.pc = "unmount" /\ job'.left = job.left
         \/ job'.pc = "failed" /\ job'.left = {}
  BY <1>1, <1>2, <1>3, JobGoes, JobPcKinds
<1>5. JobMoves
  BY <1>1, <1>2, <1>3, <1>4, JobPcKinds DEF JobMoves
<1>6. Unbinding'
  BY <1>1, <1>2, <1>3, <1>4 DEF Unbinding
<1>7. QED  BY <1>1, <1>5, <1>6, UnmountMoves

LEMMA UnmountFollows ==
  ASSUME IInv, UNCHANGED clusterVars, UnmountK8SNodeGlusterVolume
  PROVE  IInv'
<1>1. /\ Typed /\ VolumesMounted /\ Unbinding /\ job.pc \in UnmountSteps
      /\ job.pc = "unmount"
  BY JobPcKinds DEF IInv, UnmountK8SNodeGlusterVolume, Step
<1>2. /\ job.vol \in Volumes /\ nodes \in SUBSET Nodes
      /\ mounted[job.vol] \subseteq nodes /\ job.done \subseteq job.targets \cap nodes
      /\ job.left \subseteq job.targets \cap nodes
      /\ job.left \in SUBSET Nodes /\ job.done \in SUBSET Nodes
      /\ op = "unbind" => job.vol = vol /\ job.targets = nodes
      /\ job.all => job.targets = nodes
  BY <1>1, UnmountJobs, ActiveJob, Kept DEF VolumesMounted
<1>3. /\ UNCHANGED <<nodes, vms, gluster, row, bound, allow, op, vol, tasks>>
      /\ UNCHANGED <<away, members, tainted, own, scale, strayed, outdated>>
      /\ faults' \in 0..MaxFaults /\ allow' \in [Volumes -> SUBSET Nodes]
  BY <1>1, Kept DEF UnmountK8SNodeGlusterVolume, clusterVars
<1>4. ASSUME NEW n \in job.left,
             \/ Unmount(n) /\ torn' = torn
             \/ UNCHANGED mounted /\ torn' = torn \cup {job.vol},
             job' = [job EXCEPT !.done = job.done \cup {n}, !.left = job.left \ {n}]
      PROVE  IInv'
  <2>1. /\ mounted' \in [Volumes -> SUBSET Nodes]
        /\ job.vol \notin torn' => mounted'[job.vol] = mounted[job.vol] \ {n}
        /\ mounted'[job.vol] \in {mounted[job.vol], mounted[job.vol] \ {n}}
        /\ \A v \in Volumes \ {job.vol} : mounted'[v] = mounted[v]
        /\ torn \subseteq torn' /\ torn' \subseteq torn \cup {job.vol}
    <3>1. CASE Unmount(n) /\ torn' = torn
      BY <1>1, <1>2, <3>1, Mounts
    <3>2. CASE UNCHANGED mounted /\ torn' = torn \cup {job.vol}
      BY <1>1, <3>2, Kept
    <3>3. QED  BY <1>4, <3>1, <3>2
  <2>2. /\ job' \in JobType
        /\ job'.pc = "unmount" /\ job'.left = job.left \ {n} /\ job'.vol = job.vol
        /\ job'.targets = job.targets /\ job'.all = job.all /\ job'.done = job.done \cup {n}
    BY <1>1, <1>2, <1>4 DEF Typed, JobType
  <2>3. JobMoves
    BY <1>1, <1>2, <1>3, <2>1, <2>2, JobPcKinds DEF JobMoves
  <2>4. Unbinding'
    <3>1. SUFFICES ASSUME op = "unbind", vol \notin torn'
                   PROVE  /\ nodes \subseteq allow[vol]
                          /\ mounted'[vol] = nodes \ job'.done /\ job'.left = nodes \ job'.done
      BY <1>3, <2>2 DEF Unbinding
    <3>2. /\ nodes \subseteq allow[vol] /\ job.vol = vol
          /\ mounted[vol] = nodes \ job.done /\ job.left = nodes \ job.done
      BY <1>1, <1>2, <2>1, <3>1 DEF Unbinding
    <3>3. QED  BY <2>1, <2>2, <3>1, <3>2
  <2>5. QED  BY <1>1, <2>3, <2>4, UnmountMoves
<1>5. ASSUME job.left = {}, Go("restrict", {}), UNCHANGED <<mounted, torn>> PROVE IInv'
  <2>1. /\ job' \in JobType
        /\ job'.pc = "restrict" /\ job'.left = {} /\ job'.vol = job.vol
        /\ job'.targets = job.targets /\ job'.all = job.all /\ job'.done = job.done
    BY <1>1, <1>5, JobGoes, JobPcKinds
  <2>2. JobMoves
    BY <1>1, <1>2, <1>3, <1>5, <2>1, Kept, JobPcKinds DEF JobMoves
  <2>3. Unbinding'
    <3>1. SUFFICES ASSUME op = "unbind", vol \notin torn
                   PROVE  /\ nodes \subseteq allow[vol]
                          /\ mounted[vol] = {} /\ job.done = nodes
      BY <1>3, <1>5, <2>1 DEF Unbinding
    <3>2. /\ nodes \subseteq allow[vol] /\ job.vol = vol
          /\ mounted[vol] = nodes \ job.done /\ job.left = nodes \ job.done
      BY <1>1, <1>2, <3>1 DEF Unbinding
    <3>3. QED  BY <1>2, <1>5, <3>2
  <2>4. QED  BY <1>1, <2>2, <2>3, UnmountMoves
<1>6. QED  BY <1>4, <1>5 DEF UnmountK8SNodeGlusterVolume, Tear

LEMMA UnmountFailsFollows ==
  ASSUME IInv, UNCHANGED clusterVars, NEW n \in Nodes, UnmountFails(n)
  PROVE  IInv'
<1>1. /\ Typed /\ VolumesMounted /\ Unbinding /\ job.pc \in UnmountSteps
      /\ job.pc = "unmount"
  BY JobPcKinds DEF IInv, UnmountFails, Step
<1>2. /\ job.vol \in Volumes /\ nodes \in SUBSET Nodes
      /\ mounted[job.vol] \subseteq nodes /\ job.done \subseteq job.targets \cap nodes
      /\ job.left \subseteq job.targets \cap nodes
      /\ job.left \in SUBSET Nodes /\ job.done \in SUBSET Nodes
      /\ op = "unbind" => job.vol = vol /\ job.targets = nodes
      /\ job.all => job.targets = nodes
  BY <1>1, UnmountJobs, ActiveJob, Kept DEF VolumesMounted
<1>3. /\ UNCHANGED <<nodes, vms, gluster, row, bound, allow, op, vol, tasks>>
      /\ UNCHANGED <<away, members, tainted, own, scale, strayed, outdated>>
      /\ faults' \in 0..MaxFaults /\ allow' \in [Volumes -> SUBSET Nodes]
      /\ n \in job.left
      /\ \/ UNCHANGED <<mounted, torn>>
         \/ Unmount(n) /\ torn' = torn \cup {job.vol}
      /\ Go("remount", job.done)
  BY <1>1, Kept DEF UnmountFails, Tear, clusterVars
<1>4. /\ mounted' \in [Volumes -> SUBSET Nodes]
      /\ mounted'[job.vol] \subseteq mounted[job.vol]
      /\ mounted[job.vol] \ {n} \subseteq mounted'[job.vol]
      /\ \A v \in Volumes \ {job.vol} : mounted'[v] = mounted[v]
      /\ job.vol \notin torn' => job.vol \notin torn /\ mounted' = mounted
  BY <1>1, <1>2, <1>3, Mounts, Kept
<1>5. /\ job' \in JobType
      /\ job'.pc = "remount" /\ job'.left = job.done /\ job'.vol = job.vol
      /\ job'.targets = job.targets /\ job'.all = job.all /\ job'.done = job.done
  BY <1>1, <1>2, <1>3, JobGoes, JobPcKinds
<1>6. JobMoves
  BY <1>1, <1>2, <1>3, <1>4, <1>5, JobPcKinds DEF JobMoves
<1>7. Unbinding'
  <2>1. SUFFICES ASSUME op = "unbind", vol \notin torn'
                 PROVE  nodes \subseteq allow[vol] /\ mounted'[vol] = nodes \ job.done
    BY <1>3, <1>5 DEF Unbinding
  <2>2. QED  BY <1>1, <1>2, <1>4, <2>1 DEF Unbinding
<1>8. QED  BY <1>1, <1>6, <1>7, UnmountMoves

LEMMA RestrictedFollows ==
  ASSUME IInv, UNCHANGED clusterVars, Restricted
  PROVE  IInv'
<1>1. /\ Typed /\ VolumesMounted /\ Unbinding /\ job.pc \in UnmountSteps
      /\ job.pc = "restrict"
  BY JobPcKinds DEF IInv, Restricted, Step
<1>2. /\ job.vol \in Volumes /\ nodes \in SUBSET Nodes
      /\ mounted[job.vol] \subseteq nodes /\ job.done \subseteq job.targets \cap nodes
      /\ job.left \subseteq job.targets \cap nodes
      /\ job.left \in SUBSET Nodes /\ job.done \in SUBSET Nodes
      /\ op = "unbind" => job.vol = vol /\ job.targets = nodes
      /\ job.all => job.targets = nodes
  BY <1>1, UnmountJobs, ActiveJob, Kept DEF VolumesMounted
<1>3. /\ UNCHANGED <<nodes, vms, gluster, row, bound, mounted, op, vol, tasks, torn>>
      /\ UNCHANGED <<away, members, tainted, own, scale, strayed, outdated>>
      /\ faults' \in 0..MaxFaults /\ mounted' \in [Volumes -> SUBSET Nodes]
      /\ allow' = [allow EXCEPT ![job.vol] = Remaining] /\ Go("ok", {})
  BY <1>1, Kept DEF Restricted, SetRemainingIps, clusterVars
<1>4. /\ allow' \in [Volumes -> SUBSET Nodes]
      /\ \A n \in nodes \ job.targets : n \in allow[job.vol] => n \in allow'[job.vol]
      /\ \A v \in Volumes \ {job.vol} : allow'[v] = allow[v]
  <2>1. Remaining \in SUBSET Nodes /\ nodes \ job.targets \subseteq Remaining
    BY <1>2 DEF Remaining
  <2>2. QED  BY <1>1, <1>2, <1>3, <2>1, Allows
<1>5. /\ job' \in JobType
      /\ job'.pc = "ok" /\ job'.left = {} /\ job'.vol = job.vol
      /\ job'.targets = job.targets /\ job'.all = job.all /\ job'.done = job.done
  BY <1>1, <1>3, JobGoes, JobPcKinds
<1>6. JobMoves
  BY <1>1, <1>2, <1>3, <1>4, <1>5, JobPcKinds DEF JobMoves
<1>7. Unbinding'
  BY <1>1, <1>2, <1>3, <1>5 DEF Unbinding
<1>8. QED  BY <1>1, <1>6, <1>7, UnmountMoves

LEMMA RestrictFailsFollows ==
  ASSUME IInv, UNCHANGED clusterVars, RestrictFails
  PROVE  IInv'
<1>1. /\ Typed /\ VolumesMounted /\ Unbinding /\ job.pc \in UnmountSteps
      /\ job.pc = "restrict"
  BY JobPcKinds DEF IInv, RestrictFails, Step
<1>2. /\ job.vol \in Volumes /\ nodes \in SUBSET Nodes
      /\ mounted[job.vol] \subseteq nodes /\ job.done \subseteq job.targets \cap nodes
      /\ job.left \subseteq job.targets \cap nodes
      /\ job.left \in SUBSET Nodes /\ job.done \in SUBSET Nodes
      /\ op = "unbind" => job.vol = vol /\ job.targets = nodes
      /\ job.all => job.targets = nodes
  BY <1>1, UnmountJobs, ActiveJob, Kept DEF VolumesMounted
<1>3. /\ UNCHANGED <<nodes, vms, gluster, row, bound, mounted, op, vol, tasks>>
      /\ UNCHANGED <<away, members, tainted, own, scale, strayed, outdated>>
      /\ faults' \in 0..MaxFaults /\ mounted' \in [Volumes -> SUBSET Nodes]
      /\ \/ UNCHANGED <<allow, torn>>
         \/ allow' = [allow EXCEPT ![job.vol] = Remaining] /\ torn' = torn \cup {job.vol}
      /\ Go("remountAll", job.done)
  BY <1>1, Kept DEF RestrictFails, SetRemainingIps, Tear, clusterVars
<1>4. /\ allow' \in [Volumes -> SUBSET Nodes]
      /\ \A n \in nodes \ job.targets : n \in allow[job.vol] => n \in allow'[job.vol]
      /\ \A v \in Volumes \ {job.vol} : allow'[v] = allow[v]
      /\ job.vol \notin torn' => job.vol \notin torn /\ allow' = allow
  <2>1. Remaining \in SUBSET Nodes /\ nodes \ job.targets \subseteq Remaining
    BY <1>2 DEF Remaining
  <2>2. CASE UNCHANGED <<allow, torn>>
    BY <1>1, <2>2, Kept
  <2>3. CASE allow' = [allow EXCEPT ![job.vol] = Remaining] /\ torn' = torn \cup {job.vol}
    BY <1>1, <1>2, <2>1, <2>3, Allows
  <2>4. QED  BY <1>3, <2>2, <2>3
<1>5. /\ job' \in JobType
      /\ job'.pc = "remountAll" /\ job'.left = job.done /\ job'.vol = job.vol
      /\ job'.targets = job.targets /\ job'.all = job.all /\ job'.done = job.done
  BY <1>1, <1>2, <1>3, JobGoes, JobPcKinds
<1>6. JobMoves
  BY <1>1, <1>2, <1>3, <1>4, <1>5, JobPcKinds DEF JobMoves
<1>7. Unbinding'
  <2>1. SUFFICES ASSUME op = "unbind", vol \notin torn'
                 PROVE  nodes \subseteq allow'[vol] /\ mounted[vol] = nodes \ job.done
    BY <1>3, <1>5 DEF Unbinding
  <2>2. QED  BY <1>1, <1>2, <1>4, <2>1 DEF Unbinding
<1>8. QED  BY <1>1, <1>6, <1>7, UnmountMoves

\* A mount that fails here is not tried again, and tears the volume.
LEMMA RemountFollows ==
  ASSUME IInv, UNCHANGED clusterVars, Remount
  PROVE  IInv'
<1>1. /\ Typed /\ VolumesMounted /\ Unbinding /\ job.pc \in UnmountSteps
      /\ job.pc \in {"remount", "remountAll"}
  BY JobPcKinds DEF IInv, Remount, Step
<1>2. /\ job.vol \in Volumes /\ nodes \in SUBSET Nodes
      /\ mounted[job.vol] \subseteq nodes /\ job.done \subseteq job.targets \cap nodes
      /\ job.left \subseteq job.targets \cap nodes
      /\ job.left \in SUBSET Nodes /\ job.done \in SUBSET Nodes
      /\ op = "unbind" => job.vol = vol /\ job.targets = nodes
      /\ job.all => job.targets = nodes
  BY <1>1, UnmountJobs, ActiveJob, Kept DEF VolumesMounted
<1>3. /\ UNCHANGED <<nodes, vms, gluster, row, bound, allow, op, vol, tasks>>
      /\ UNCHANGED <<away, members, tainted, own, scale, strayed, outdated>>
      /\ allow' \in [Volumes -> SUBSET Nodes]
  BY <1>1, Kept DEF Remount, clusterVars
<1>4. PICK n \in job.left \cup {Master} :
        \/ /\ n \in job.left /\ Mount(n) /\ Go(job.pc, job.left \ {n})
           /\ UNCHANGED <<faults, torn>>
        \/ /\ n \in job.left /\ (Fault \/ UNCHANGED faults)
           /\ Go("failed", {}) \/ Go(job.pc, job.left \ {n})
           /\ torn' = torn \cup {job.vol} /\ UNCHANGED mounted
        \/ job.left = {} /\ Go("failed", {}) /\ UNCHANGED <<mounted, faults, torn>>
  BY DEF Remount, Tear
<1>5. n \in Nodes /\ (job.left \ {n}) \in SUBSET Nodes /\ faults' \in 0..MaxFaults
  BY <1>1, <1>2, <1>4, Kept DEF Typed, Given
<1>6. /\ mounted' \in [Volumes -> SUBSET Nodes]
      /\ mounted[job.vol] \subseteq mounted'[job.vol]
      /\ mounted'[job.vol] \subseteq mounted[job.vol] \cup job.left
      /\ \A v \in Volumes \ {job.vol} : mounted'[v] = mounted[v]
      /\ torn \subseteq torn' /\ torn' \subseteq torn \cup {job.vol}
  BY <1>1, <1>2, <1>4, <1>5, Mounts, Kept
<1>7. /\ job' \in JobType /\ job'.vol = job.vol
      /\ job'.targets = job.targets /\ job'.all = job.all /\ job'.done = job.done
      /\ job'.pc \in {job.pc, "failed"} /\ job'.left \subseteq job.left
  BY <1>1, <1>2, <1>4, <1>5, JobGoes, JobPcKinds
<1>8. JobMoves
  BY <1>1, <1>2, <1>3, <1>5, <1>6, <1>7, JobPcKinds DEF JobMoves
<1>9. Unbinding'
  <2>1. SUFFICES ASSUME op = "unbind", vol \notin torn'
                 PROVE  /\ nodes \subseteq allow[vol]
                        /\ job'.pc \in {"remount", "remountAll", "failed"}
                        /\ job'.pc = "failed" => mounted'[vol] = nodes
                        /\ job'.pc \in {"remount", "remountAll"} => mounted'[vol] = nodes \ job'.left
    BY <1>3 DEF Unbinding
  <2>2. /\ vol \notin torn /\ mounted[vol] = nodes \ job.left /\ job.vol = vol
        /\ nodes \subseteq allow[vol]
    BY <1>1, <1>2, <1>6, <2>1 DEF Unbinding
  <2>3. CASE n \in job.left /\ Mount(n) /\ Go(job.pc, job.left \ {n})
    <3>1. mounted'[vol] = mounted[vol] \cup {n} /\ job'.pc = job.pc /\ job'.left = job.left \ {n}
      BY <1>1, <1>2, <1>5, <2>2, <2>3, Mounts, JobGoes, JobPcKinds
    <3>2. QED  BY <1>1, <1>2, <2>2, <2>3, <3>1
  <2>4. CASE job.left = {} /\ Go("failed", {}) /\ UNCHANGED mounted
    <3>1. job'.pc = "failed"
      BY <1>1, <2>4, JobGoes, JobPcKinds
    <3>2. QED  BY <1>1, <2>2, <2>4, <3>1
  <2>5. QED  BY <1>4, <2>1, <2>2, <2>3, <2>4
<1>10. QED  BY <1>1, <1>8, <1>9, UnmountMoves

\* Every step of a job.
LEMMA JobStepFollows ==
  ASSUME IInv, UNCHANGED clusterVars, JobStep
  PROVE  IInv'
BY AuthorisedFollows, AuthoriseFailsFollows, MountFollows, MountFailsFollows, UnmountBackFollows,
   DenyFollows, RemoveAllPvFollows, UnmountFollows, UnmountFailsFollows, RestrictedFollows,
   RestrictFailsFollows, RemountFollows DEF JobStep

\* A task on a volume starts or ends: no node is mounted or allowed, and nothing of
\* the cluster changes.
TaskMoves ==
  /\ UNCHANGED <<nodes, vms, allow, mounted>>
  /\ UNCHANGED <<away, members, tainted, own, scale, strayed, outdated>>
  /\ op # "scale" /\ op' \in {"none", "provision", "deprovision", "bind", "unbind"}
  /\ gluster' \subseteq Volumes /\ row' \subseteq Volumes /\ bound' \subseteq row'
  /\ vol' \in Volumes \cup {NoVolume}
  /\ job' \in JobType /\ job'.left \subseteq job'.targets /\ job'.done \subseteq job'.targets
  /\ tasks' \in 0..MaxTasks /\ faults' \in 0..MaxFaults /\ torn' \subseteq Volumes

\* While nothing is scaled, no node is owed.
LEMMA NotScaling ==
  ASSUME IInv, op # "scale"
  PROVE  scale = NoScale /\ scale.mode = "none" /\ \A v : Owed(v) = {}
BY DEF IInv, ScaleShape, NoScale, Owed

\* Such a step keeps what is said of the scaling.
LEMMA TaskMovesOn ==
  ASSUME IInv, TaskMoves, JobShape', VolumesMounted', Binding', Unbinding'
  PROVE  IInv'
<1>1. /\ Typed /\ ScaleShape /\ Follows /\ Published
      /\ scale = NoScale /\ scale' = NoScale
  BY NotScaling DEF IInv, TaskMoves
<1>2. Typed'
  <2>1. GlusterTypeOK'
    BY <1>1 DEF TaskMoves, Typed, ScaleTypeOK, GlusterTypeOK, JobType, JobPcs
  <2>2. ScaleTypeOK'
    BY <1>1, <2>1 DEF TaskMoves, Typed, ScaleTypeOK, Workers, NoScale
  <2>3. QED  BY <1>1, <2>2 DEF TaskMoves, Typed, Given
<1>3. ScaleShape'
  BY <1>1 DEF TaskMoves, ScaleShape, NoScale, Removing
<1>4. Follows'
  BY <1>1 DEF TaskMoves, Follows, Workers, Removing, Leaving
<1>5. Published'
  BY <1>1 DEF TaskMoves, Published, Active, Workers
<1>6. Mounting'
  BY <1>1 DEF TaskMoves, Mounting
<1>7. QED  BY <1>2, <1>3, <1>4, <1>5, <1>6 DEF IInv

\* Volumes while no cluster is scaled.
VolumesAre(gl, ro, bo, to, busy) ==
  \A v \in Volumes \ to :
    /\ v \in gl <=> v \in ro
    /\ v \in bo /\ v \notin busy => nodes \subseteq mounted[v] \cap allow[v]
    /\ v \notin bo /\ v \notin busy => mounted[v] = {}

LEMMA VolumesIdle ==
  ASSUME IInv, op # "scale"
  PROVE  /\ \A v \in Volumes : mounted[v] \subseteq nodes
         /\ VolumesAre(gluster, row, bound, torn, IF op \in {"bind", "unbind"} THEN {vol} ELSE {})
BY NotScaling DEF IInv, VolumesMounted, VolumesAre, Busy

LEMMA VolumesNext ==
  ASSUME IInv, TaskMoves,
         VolumesAre(gluster', row', bound', torn', IF op' \in {"bind", "unbind"} THEN {vol'} ELSE {})
  PROVE  VolumesMounted'
<1>1. op # "scale" /\ UNCHANGED <<scale, nodes, allow, mounted>>
  BY DEF TaskMoves
<1>2. \A v : Owed(v)' = {}
  BY <1>1, NotScaling DEF Owed, Removing
<1>3. QED  BY <1>1, <1>2, VolumesIdle DEF VolumesMounted, VolumesAre, Busy

LEMMA NoJobType ==
  NoJob \in JobType /\ NoJob.left = {} /\ NoJob.done = {} /\ NoJob.targets = {}
BY DEF NoJob, JobType, JobPcs

\* The parts a task can start from, and the types it keeps.
LEMMA IdleParts ==
  ASSUME IInv
  PROVE  /\ gluster \subseteq Volumes /\ row \subseteq Volumes /\ bound \subseteq row
         /\ vol \in Volumes \cup {NoVolume} /\ job \in JobType
         /\ job.left \subseteq job.targets /\ job.done \subseteq job.targets
         /\ tasks \in 0..MaxTasks /\ faults \in 0..MaxFaults /\ torn \subseteq Volumes
         /\ nodes \in SUBSET Nodes
         /\ \A v \in Volumes : v # NoVolume
         /\ op \in {"none", "provision", "deprovision", "bind", "unbind", "scale"}
         /\ \A o : Starts(o) => tasks' \in 0..MaxTasks /\ op' = o /\ op = "none"
         /\ Fault => faults' \in 0..MaxFaults
         /\ Ends => op' = "none" /\ vol' = NoVolume /\ job' = NoJob
BY DEF IInv, Typed, Given, ScaleTypeOK, GlusterTypeOK, Starts, Idle, Fault, Ends

\* The requests,
LEMMA RequestFollows ==
  ASSUME IInv, UNCHANGED clusterVars, NEW v \in Volumes, CreateVolume(v) \/ DeleteVolume(v)
  PROVE  IInv'
<1>1. /\ op = "none" /\ op' \in {"provision", "deprovision"} /\ vol' = v /\ tasks' \in 0..MaxTasks
      /\ op' = "provision" => v \notin row
      /\ op' = "deprovision" => v \in row \ bound
      /\ UNCHANGED <<nodes, vms, gluster, row, bound, allow, mounted, job, faults, torn>>
      /\ UNCHANGED <<away, members, tainted, own, scale, strayed, outdated>>
  BY IdleParts DEF CreateVolume, DeleteVolume, volumeVars, clusterVars
<1>2. TaskMoves
  BY <1>1, IdleParts DEF TaskMoves
<1>3. job = NoJob
  BY <1>1 DEF IInv, JobShape
<1>4. JobShape'
  BY <1>1, <1>3, NoJobType DEF JobShape
<1>5. VolumesMounted'
  BY <1>1, <1>2, VolumesIdle, VolumesNext
<1>6. Binding' /\ Unbinding'
  BY <1>1 DEF Binding, Unbinding
<1>7. QED  BY <1>2, <1>4, <1>5, <1>6, TaskMovesOn

LEMMA BindVolumeFollows ==
  ASSUME IInv, UNCHANGED clusterVars, NEW v \in Volumes, BindVolume(v)
  PROVE  IInv'
<1>1. /\ op = "none" /\ op' = "bind" /\ vol' = v /\ tasks' \in 0..MaxTasks /\ v \in row \ bound
      /\ UNCHANGED <<nodes, vms, gluster, row, bound, allow, mounted, faults, torn>>
      /\ UNCHANGED <<away, members, tainted, own, scale, strayed, outdated>>
      /\ job' = [NoJob EXCEPT !.pc = "authorise", !.vol = v, !.targets = nodes, !.all = TRUE]
  BY IdleParts DEF BindVolume, MountJob, volumeVars, clusterVars
<1>2. /\ job' \in JobType /\ job'.pc = "authorise" /\ job'.vol = v /\ job'.targets = nodes
      /\ job'.all /\ job'.left = {} /\ job'.done = {}
  BY <1>1, IdleParts, JobPcKinds DEF NoJob, JobType
<1>3. TaskMoves
  BY <1>1, <1>2, IdleParts DEF TaskMoves
<1>4. JobShape'
  BY <1>1, <1>2, JobPcKinds DEF JobShape
<1>5. VolumesMounted'
  <2>1. VolumesAre(gluster, row, bound, torn, {v})
    BY <1>1, VolumesIdle DEF VolumesAre
  <2>2. QED  BY <1>1, <1>3, <2>1, VolumesNext
<1>6. Binding' /\ Unbinding'
  BY <1>1, <1>2, VolumesIdle DEF Binding, Unbinding, VolumesAre
<1>7. QED  BY <1>3, <1>4, <1>5, <1>6, TaskMovesOn

LEMMA UnbindVolumeFollows ==
  ASSUME IInv, UNCHANGED clusterVars, NEW v \in Volumes, UnbindVolume(v)
  PROVE  IInv'
<1>1. /\ op = "none" /\ op' = "unbind" /\ vol' = v /\ tasks' \in 0..MaxTasks /\ v \in bound
      /\ UNCHANGED <<nodes, vms, gluster, row, bound, allow, mounted, faults, torn>>
      /\ UNCHANGED <<away, members, tainted, own, scale, strayed, outdated>>
      /\ job' = [NoJob EXCEPT !.pc = "pvs", !.vol = v, !.targets = nodes, !.all = TRUE,
                              !.left = nodes]
  BY IdleParts DEF UnbindVolume, UnmountJob, volumeVars, clusterVars
<1>2. /\ job' \in JobType /\ job'.pc = "pvs" /\ job'.vol = v /\ job'.targets = nodes
      /\ job'.all /\ job'.left = nodes /\ job'.done = {}
  BY <1>1, IdleParts, JobPcKinds DEF NoJob, JobType
<1>3. TaskMoves
  BY <1>1, <1>2, IdleParts DEF TaskMoves
<1>4. JobShape'
  BY <1>1, <1>2, JobPcKinds DEF JobShape
<1>5. VolumesMounted'
  <2>1. VolumesAre(gluster, row, bound, torn, {v})
    BY <1>1, VolumesIdle DEF VolumesAre
  <2>2. QED  BY <1>1, <1>3, <2>1, VolumesNext
<1>6. v \notin torn => mounted[v] = nodes /\ nodes \subseteq allow[v]
  BY <1>1, VolumesIdle DEF VolumesAre
<1>7. Binding' /\ Unbinding'
  BY <1>1, <1>2, <1>6 DEF Binding, Unbinding
<1>8. QED  BY <1>3, <1>4, <1>5, <1>7, TaskMovesOn

\* and the ends of the tasks.
LEMMA ProvisioningFollows ==
  ASSUME IInv, UNCHANGED clusterVars, ProvisionGlusterVolume \/ ProvisionFails
  PROVE  IInv'
<1>1. /\ op = "provision" /\ vol \in Volumes \ row /\ job = NoJob /\ bound \subseteq row
  BY IdleParts DEF IInv, JobShape, ProvisionGlusterVolume, ProvisionFails
<1>2. /\ op' = "none" /\ vol' = NoVolume /\ job' = NoJob
      /\ UNCHANGED <<nodes, vms, bound, allow, mounted, tasks>> /\ faults' \in 0..MaxFaults
      /\ UNCHANGED <<away, members, tainted, own, scale, strayed, outdated>>
      /\ \/ gluster' = gluster \cup {vol} /\ row' = row \cup {vol} /\ torn' = torn
         \/ gluster' = gluster /\ row' = row /\ torn' = torn
         \/ gluster' = gluster \cup {vol} /\ row' = row /\ torn' = torn \cup {vol}
  BY IdleParts DEF ProvisionGlusterVolume, ProvisionFails, CreateRows, clusterVars
<1>3. TaskMoves
  BY <1>1, <1>2, IdleParts, NoJobType DEF TaskMoves
<1>4. JobShape'
  BY <1>2, NoJobType DEF JobShape
<1>5. VolumesMounted'
  <2>1. VolumesAre(gluster, row, bound, torn, {})
    BY <1>1, VolumesIdle
  <2>2. VolumesAre(gluster', row', bound', torn', {})
    BY <1>1, <1>2, <2>1 DEF VolumesAre
  <2>3. QED  BY <1>2, <1>3, <2>2, VolumesNext
<1>6. Binding' /\ Unbinding'
  BY <1>2 DEF Binding, Unbinding
<1>7. QED  BY <1>3, <1>4, <1>5, <1>6, TaskMovesOn

LEMMA DeprovisioningFollows ==
  ASSUME IInv, UNCHANGED clusterVars, DeprovisionGlusterVolume \/ DeprovisionFails
  PROVE  IInv'
<1>1. /\ op = "deprovision" /\ vol \in row \ bound /\ job = NoJob /\ vol \in Volumes
  BY IdleParts DEF IInv, JobShape, DeprovisionGlusterVolume, DeprovisionFails
<1>2. /\ op' = "none" /\ vol' = NoVolume /\ job' = NoJob
      /\ UNCHANGED <<nodes, vms, bound, allow, mounted, tasks>> /\ faults' \in 0..MaxFaults
      /\ UNCHANGED <<away, members, tainted, own, scale, strayed, outdated>>
      /\ \/ gluster' = gluster \ {vol} /\ row' = row \ {vol} /\ torn' = torn
         \/ gluster' = gluster /\ row' = row /\ torn' = torn
         \/ gluster' = gluster \ {vol} /\ row' = row /\ torn' = torn \cup {vol}
  BY IdleParts DEF DeprovisionGlusterVolume, DeprovisionFails, DeleteRows, clusterVars
<1>3. TaskMoves
  BY <1>1, <1>2, IdleParts, NoJobType DEF TaskMoves
<1>4. JobShape'
  BY <1>2, NoJobType DEF JobShape
<1>5. VolumesMounted'
  <2>1. VolumesAre(gluster, row, bound, torn, {})
    BY <1>1, VolumesIdle
  <2>2. VolumesAre(gluster', row', bound', torn', {})
    BY <1>1, <1>2, <2>1 DEF VolumesAre
  <2>3. QED  BY <1>2, <1>3, <2>2, VolumesNext
<1>6. Binding' /\ Unbinding'
  BY <1>2 DEF Binding, Unbinding
<1>7. QED  BY <1>3, <1>4, <1>5, <1>6, TaskMovesOn

\* A binding or unbinding ends.
LEMMA BindingEndsFollows ==
  ASSUME IInv, UNCHANGED clusterVars, BoundOrUnbound \/ BindingFails \/ JobFailed
  PROVE  IInv'
<1>1. /\ op \in {"bind", "unbind"} /\ job.pc \in {"ok", "failed"} /\ job.vol = vol
      /\ op = "bind" => vol \in row \ bound
      /\ op = "unbind" => vol \in bound
      /\ vol \in Volumes
  BY IdleParts DEF IInv, JobShape, BoundOrUnbound, BindingFails, JobFailed, Step
<1>2. /\ op' = "none" /\ vol' = NoVolume /\ job' = NoJob
      /\ UNCHANGED <<nodes, vms, gluster, row, allow, mounted, tasks>> /\ faults' \in 0..MaxFaults
      /\ UNCHANGED <<away, members, tainted, own, scale, strayed, outdated>>
      /\ \/ /\ bound' = (IF op = "bind" THEN bound \cup {vol} ELSE bound \ {vol})
            /\ job.pc = "ok" /\ torn' = torn
         \/ bound' = bound /\ torn' = torn \cup {vol}
         \/ bound' = bound /\ torn' = torn /\ job.pc = "failed"
  BY <1>1, IdleParts DEF BoundOrUnbound, BindingFails, JobFailed, Step, Tear, AddVolumeBinding,
     RemoveVolumeBinding, volumeVars, clusterVars
<1>3. TaskMoves
  BY <1>1, <1>2, IdleParts, NoJobType DEF TaskMoves
<1>4. JobShape'
  BY <1>2, NoJobType DEF JobShape
<1>5. VolumesMounted'
  <2>1. VolumesAre(gluster, row, bound, torn, {vol})
    BY <1>1, VolumesIdle
  <2>2. vol \notin torn =>
          /\ op = "bind" /\ job.pc = "ok" => nodes \subseteq mounted[vol] \cap allow[vol]
          /\ op = "bind" /\ job.pc = "failed" => mounted[vol] = {}
          /\ op = "unbind" /\ job.pc = "ok" => mounted[vol] = {}
          /\ op = "unbind" /\ job.pc = "failed" => nodes \subseteq mounted[vol] \cap allow[vol]
    BY DEF IInv, Binding, Unbinding
  <2>3. VolumesAre(gluster', row', bound', torn', {})
    BY <1>1, <1>2, <2>1, <2>2 DEF VolumesAre
  <2>4. QED  BY <1>2, <1>3, <2>3, VolumesNext
<1>6. Binding' /\ Unbinding'
  BY <1>2 DEF Binding, Unbinding
<1>7. QED  BY <1>3, <1>4, <1>5, <1>6, TaskMovesOn

\* The tasks on volumes keep the invariant.
LEMMA VolumeTaskFollows ==
  ASSUME IInv, UNCHANGED clusterVars, VolumeTask
  PROVE  IInv'
BY RequestFollows, BindVolumeFollows, UnbindVolumeFollows, ProvisioningFollows,
   DeprovisioningFollows, BindingEndsFollows DEF VolumeTask

\* The items at the indices in K are those of the new list: its j-th is at the index
\* with j members of K up to it, and there is one for every j up to their number.
LEMMA ItemsKept ==
  ASSUME NEW A, NEW s \in Seq(A), NEW K \in SUBSET DOMAIN s
  PROVE  ItemsAt(s, K) \in Seq(A) /\ ToSet(ItemsAt(s, K)) = {s[i] : i \in K}
<1> DEFINE Below(i) == {k \in K : k <= i}
           n == Cardinality(K)
           index(j) == CHOOSE i \in K : Cardinality({k \in K : k <= i}) = j
           rank == [i \in K |-> Cardinality(Below(i))]
<1>1. K \in SUBSET (1..Len(s)) /\ IsFiniteSet(1..Len(s))
  BY FS_Interval
<1>2. IsFiniteSet(K) /\ n \in Nat
  BY <1>1, FS_Subset, FS_CardinalityType
<1>3. ASSUME NEW i \in K
      PROVE  i \in Below(i) /\ Below(i) \in SUBSET K /\ IsFiniteSet(Below(i))
             /\ Cardinality(Below(i)) \in 1..n
  <2>1. i \in Below(i) /\ Below(i) \in SUBSET K
    BY <1>1
  <2>2. IsFiniteSet(Below(i)) /\ Cardinality(Below(i)) <= n
    BY <1>2, <2>1, FS_Subset
  <2>3. Cardinality(Below(i)) \in Nat /\ Cardinality(Below(i)) # 0
    BY <2>1, <2>2, FS_CardinalityType, FS_EmptySet
  <2>4. QED  BY <1>2, <2>1, <2>2, <2>3
<1>4. \A i, j \in K : Cardinality(Below(i)) = Cardinality(Below(j)) => i = j
  <2>1. ASSUME NEW i \in K, NEW j \in K, i < j
        PROVE  Cardinality(Below(i)) # Cardinality(Below(j))
    <3>1. Below(i) \in SUBSET Below(j) /\ j \notin Below(i) /\ j \in Below(j)
      BY <1>1, <2>1
    <3>2. Below(i) # Below(j)
      BY <3>1
    <3>3. QED  BY <1>3, <3>1, <3>2, FS_Subset
  <2>2. \A i \in K : i \in Int
    BY <1>1
  <2> HIDE DEF Below
  <2>3. QED  BY <2>1, <2>2
<1>5. rank \in Surjection(K, 1..n)
  <2>1. rank \in [K -> 1..n] /\ \A i, j \in K : rank[i] = rank[j] => i = j
    BY <1>3, <1>4
  <2> HIDE DEF rank
  <2>2. rank \in Injection(K, 1..n)
    BY <2>1 DEF Injection, IsInjective
  <2>3. IsFiniteSet(1..n) /\ Cardinality(1..n) = n
    BY <1>2, FS_Interval
  <2>4. QED  BY <1>2, <2>2, <2>3, FS_Injection
<1>6. \A j \in 1..n : \E i \in K : Cardinality(Below(i)) = j
  <2>1. \A j \in 1..n : \E i \in K : rank[i] = j
    <3> HIDE DEF rank
    <3>1. QED  BY <1>5 DEF Surjection
  <2>2. QED  BY <2>1
<1>7. \A j \in 1..n : index(j) \in K /\ Cardinality(Below(index(j))) = j
  BY <1>6
<1>8. \A i \in K : \E j \in 1..n : index(j) = i
  <2>1. ASSUME NEW i \in K PROVE index(Cardinality(Below(i))) = i
    <3> DEFINE j == Cardinality(Below(i))
    <3>1. j \in 1..n
      BY <1>3
    <3>2. index(j) \in K /\ Cardinality(Below(index(j))) = j
      BY <1>7, <3>1
    <3> HIDE DEF index, Below
    <3>3. QED  BY <1>4, <3>2
  <2>2. QED  BY <1>3, <2>1
<1>9. ItemsAt(s, K) = [j \in 1..n |-> s[index(j)]]
  BY DEF ItemsAt, Cardinality, Cardinality
<1> HIDE DEF n, index, rank
<1>10. ItemsAt(s, K) \in Seq(A)
  <2>1. \A k \in K : s[k] \in A
    OBVIOUS
  <2>2. \A j \in 1..n : index(j) \in K
    BY <1>7
  <2>3. \A j \in 1..n : s[index(j)] \in A
    BY <2>1, <2>2
  <2>4. QED  BY <1>2, <1>9, <2>3
<1>11. ToSet(ItemsAt(s, K)) = {s[i] : i \in K}
  <2>1. ToSet(ItemsAt(s, K)) = {s[index(j)] : j \in 1..n}
    BY <1>9 DEF ToSet
  <2>2. QED  BY <1>7, <1>8, <2>1
<1>12. QED  BY <1>10, <1>11

\* The orders of a finite set.
LEMMA Orders ==
  ASSUME NEW S, IsFiniteSet(S), NEW q \in SetToSeqs(S)
  PROVE  q \in Seq(S) /\ ToSet(q) = S
<1> DEFINE n == Cardinality(S)
<1>1. n \in Nat /\ q \in [1..n -> S] /\ \A i, j \in 1..n : i # j => q[i] # q[j]
  BY FS_CardinalityType DEF SetToSeqs
<1>2. q \in Injection(1..n, S)
  BY <1>1 DEF Injection, IsInjective
<1>3. IsFiniteSet(1..n) /\ Cardinality(1..n) = n
  BY <1>1, FS_Interval
<1>4. q \in Surjection(1..n, S)
  BY <1>2, <1>3, FS_Injection
<1>5. q \in Seq(S)
  BY <1>1
<1>6. \A x \in S : \E i \in 1..n : q[i] = x
  BY <1>4 DEF Surjection
<1> HIDE DEF n
<1>7. ToSet(q) = S
  BY <1>1, <1>6 DEF ToSet
<1>8. QED  BY <1>5, <1>7

\* Two sequences one after the other.
LEMMA Joined ==
  ASSUME NEW A, NEW p \in Seq(A), NEW q \in Seq(A)
  PROVE  p \o q \in Seq(A) /\ ToSet(p \o q) = ToSet(p) \cup ToSet(q)
<1>1. p \o q \in Seq(A) /\ Len(p \o q) = Len(p) + Len(q) /\ Len(p) \in Nat /\ Len(q) \in Nat
  OBVIOUS
<1>2. ASSUME NEW i \in 1..Len(p) PROVE (p \o q)[i] = p[i] /\ i \in 1..Len(p \o q)
  BY <1>1
<1>3. ASSUME NEW i \in 1..Len(q)
      PROVE  (p \o q)[Len(p) + i] = q[i] /\ Len(p) + i \in 1..Len(p \o q)
  BY <1>1
<1>4. ASSUME NEW i \in 1..Len(p \o q), i \notin 1..Len(p)
      PROVE  i - Len(p) \in 1..Len(q) /\ (p \o q)[i] = q[i - Len(p)]
  BY <1>1, <1>4
<1>5. DOMAIN p = 1..Len(p) /\ DOMAIN q = 1..Len(q) /\ DOMAIN (p \o q) = 1..Len(p \o q)
  BY <1>1
<1>6. ToSet(p) \cup ToSet(q) \subseteq ToSet(p \o q)
  BY <1>2, <1>3, <1>5 DEF ToSet
<1>7. ToSet(p \o q) \subseteq ToSet(p) \cup ToSet(q)
  BY <1>2, <1>4, <1>5 DEF ToSet
<1>8. QED  BY <1>1, <1>6, <1>7

\* What the pass of Updated over a list skips, leaves, sees and keeps.
Skipped(s, S) == CHOOSE f : f = [i \in 0..Len(s) |-> i > 0 /\ ~f[i - 1] /\ s[i] \notin S]
LeftIn(s, S) == {i \in 1..Len(s) : ~Skipped(s, S)[i]}
AloneIn(s, S) == Cardinality(LeftIn(s, S)) = 1
Seen(s, S) ==
  {i \in 1..Len(s) : ~Skipped(s, S)[i - 1]}
    \cup (IF AloneIn(s, S) THEN LeftIn(s, S) ELSE {})
Unseen(s, S) == S \ {s[i] : i \in Seen(s, S)}
KeptBy(s, S) == {i \in LeftIn(s, S) : AloneIn(s, S) => s[i] \in S}

\* A new list has the servers that were kept, then those that were not seen.
LEMMA UpdatedParts ==
  ASSUME NEW A, NEW s \in Seq(A), NEW S \in SUBSET A, IsFiniteSet(S), NEW o \in Updated(s, S)
  PROVE  /\ o \in Seq(A)
         /\ ToSet(o) = {s[i] : i \in KeptBy(s, S)} \cup (S \ {s[i] : i \in Seen(s, S)})
<1>1. PICK q \in SetToSeqs(Unseen(s, S)) : o = ItemsAt(s, KeptBy(s, S)) \o q
  <2> DEFINE passed == CHOOSE f : f = [i \in 0..Len(s) |-> i > 0 /\ ~f[i - 1] /\ s[i] \notin S]
             left == {i \in DOMAIN s : ~passed[i]}
             alone == Cardinality(left) = 1
             seen == {i \in DOMAIN s : ~passed[i - 1]} \cup (IF alone THEN left ELSE {})
             kept == {i \in left : alone => s[i] \in S}
  <2>1. o \in {ItemsAt(s, kept) \o q : q \in SetToSeqs(S \ {s[i] : i \in seen})}
    BY DEF Updated, Cardinality, Cardinality
  <2>2. DOMAIN s = 1..Len(s)
    OBVIOUS
  <2>3. passed = Skipped(s, S)
    BY DEF Skipped
  <2> HIDE DEF passed
  <2>4. left = LeftIn(s, S)
    BY <2>2, <2>3 DEF LeftIn
  <2> HIDE DEF left
  <2>5. alone = AloneIn(s, S)
    BY <2>4 DEF AloneIn
  <2> HIDE DEF alone
  <2>6. seen = Seen(s, S) /\ kept = KeptBy(s, S)
    BY <2>2, <2>3, <2>4, <2>5 DEF Seen, KeptBy
  <2> HIDE DEF seen, kept
  <2>7. QED  BY <2>1, <2>6 DEF Unseen
<1>2. KeptBy(s, S) \in SUBSET DOMAIN s
  BY DEF KeptBy, LeftIn
<1>3. IsFiniteSet(Unseen(s, S)) /\ Unseen(s, S) \subseteq A
  BY FS_Subset DEF Unseen
<1>4. ItemsAt(s, KeptBy(s, S)) \in Seq(A)
      /\ ToSet(ItemsAt(s, KeptBy(s, S))) = {s[i] : i \in KeptBy(s, S)}
  BY <1>2, ItemsKept
<1>5. q \in Seq(Unseen(s, S)) /\ ToSet(q) = Unseen(s, S)
  BY <1>3, Orders
<1>6. q \in Seq(A)
  BY <1>3, <1>5
<1>7. o \in Seq(A) /\ ToSet(o) = ToSet(ItemsAt(s, KeptBy(s, S))) \cup ToSet(q)
  BY <1>1, <1>4, <1>6, Joined
<1>8. QED  BY <1>4, <1>5, <1>7 DEF Unseen

\* A function that is what Skipped says is the one it is.
LEMMA SkippedIs ==
  ASSUME NEW A, NEW s \in Seq(A), NEW S, NEW f,
         f = [i \in 0..Len(s) |-> i > 0 /\ ~f[i - 1] /\ s[i] \notin S]
  PROVE  /\ Skipped(s, S) = [i \in 0..Len(s) |-> i > 0 /\ ~Skipped(s, S)[i - 1] /\ s[i] \notin S]
         /\ ~Skipped(s, S)[0]
         /\ \A i \in 1..Len(s) : Skipped(s, S)[i] <=> ~Skipped(s, S)[i - 1] /\ s[i] \notin S
<1> DEFINE Is(g) == g = [i \in 0..Len(s) |-> i > 0 /\ ~g[i - 1] /\ s[i] \notin S]
<1>1. Is(f)
  OBVIOUS
<1>2. Skipped(s, S) = CHOOSE g : Is(g)
  BY DEF Skipped
<1>3. Is(Skipped(s, S))
  <2> HIDE DEF Is
  <2>1. \E g : Is(g)
    BY <1>1
  <2>2. Is(CHOOSE g : Is(g))
    BY <2>1
  <2>3. QED  BY <1>2, <2>2
<1> DEFINE g == Skipped(s, S)
<1> HIDE DEF g
<1>4. g = [i \in 0..Len(s) |-> i > 0 /\ ~g[i - 1] /\ s[i] \notin S]
  BY <1>3 DEF g
<1>5. Len(s) \in Nat
  OBVIOUS
<1>6. ~g[0] /\ \A i \in 1..Len(s) : g[i] <=> ~g[i - 1] /\ s[i] \notin S
  <2>1. \A i \in 0..Len(s) : g[i] = (i > 0 /\ ~g[i - 1] /\ s[i] \notin S)
    BY <1>4, Zenon
  <2>2. 0 \in 0..Len(s) /\ ~(0 > 0)
    BY <1>5
  <2>3. \A i \in 1..Len(s) : i \in 0..Len(s) /\ i > 0
    BY <1>5
  <2>4. ~g[0]
    BY <2>1, <2>2, Zenon
  <2>5. QED  BY <2>1, <2>3, <2>4, Zenon
<1>7. QED  BY <1>4, <1>6 DEF g

LEMMA AtMostOne ==
  ASSUME NEW T, IsFiniteSet(T), Cardinality(T) <= 1
  PROVE  \A x, y \in T : x = y
<1> SUFFICES ASSUME NEW x \in T, NEW y \in T PROVE x = y
  OBVIOUS
<1>1. {x} \in SUBSET T /\ IsFiniteSet({x}) /\ Cardinality({x}) = 1
  BY FS_Singleton
<1>2. Cardinality({x}) <= Cardinality(T) /\ (Cardinality(T) = Cardinality({x}) => T = {x})
  BY <1>1, FS_Subset
<1>3. Cardinality(T) \in Nat
  BY FS_CardinalityType
<1>4. Cardinality(T) = 1
  BY <1>1, <1>2, <1>3
<1>5. T = {x}
  BY <1>1, <1>2, <1>4
<1>6. QED  BY <1>5

\* An orderly update leaves the servers it is to leave.
LEMMA UpdatedOrderly ==
  ASSUME own \in Seq(Servers), NEW S \in SUBSET Servers, IsFiniteSet(S), Orderly(S),
         NEW o \in Updated(own, S)
  PROVE  ToSet(o) = S
<1> DEFINE n == Len(own)
           leaving == ToSet(own) \ S
           P == Skipped(own, S)
<1>1. n \in Nat /\ DOMAIN own = 1..n /\ ToSet(own) = {own[i] : i \in 1..n}
  BY DEF ToSet
<1>1a. own \in Surjection(1..n, ToSet(own)) /\ IsFiniteSet(1..n) /\ IsFiniteSet(leaving)
  <2>1. own \in Surjection(1..n, ToSet(own))
    BY <1>1 DEF Surjection, ToSet
  <2>2. IsFiniteSet(1..n)
    BY <1>1, FS_Interval, SMTT(30)
  <2>3. IsFiniteSet(ToSet(own))
    BY <2>1, <2>2, FS_Surjection
  <2>4. QED  BY <2>1, <2>2, <2>3, FS_Subset
<1>2. ToSet(o) = {own[i] : i \in KeptBy(own, S)} \cup (S \ {own[i] : i \in Seen(own, S)})
  BY UpdatedParts
<1>3. \A i, j \in 1..n : own[i] = own[j] => i = j
  <2>1. Cardinality(ToSet(own)) = Cardinality(1..n)
    <3>1. Cardinality(ToSet(own)) = n
      BY DEF Orderly
    <3>2. Cardinality(1..n) = n
      BY <1>1, FS_Interval, SMTT(30)
    <3>3. QED  BY <3>1, <3>2
  <2>2. own \in Injection(1..n, ToSet(own))
    BY <1>1a, <2>1, FS_Surjection
  <2>3. QED  BY <2>2 DEF Injection, IsInjective
<1>4. /\ ~P[0]
      /\ \A i \in 1..n : P[i] <=> ~P[i - 1] /\ own[i] \notin S
  <2>1. CASE Cardinality(leaving) <= 1
    <3>1. \A x, y \in leaving : x = y
      <4> HIDE DEF leaving
      <4>1. QED  BY <1>1a, <2>1, AtMostOne
    <3>2. CASE \A i \in 1..n : own[i] \in S
      <4> DEFINE f == [i \in 0..n |-> FALSE]
      <4>1. f = [i \in 0..n |-> i > 0 /\ ~f[i - 1] /\ own[i] \notin S]
        BY <1>1, <3>2
      <4> HIDE DEF f
      <4>2. QED  BY <4>1, SkippedIs
    <3>3. ASSUME NEW k \in 1..n, own[k] \notin S
          PROVE  /\ ~P[0]
                 /\ \A i \in 1..n : P[i] <=> ~P[i - 1] /\ own[i] \notin S
      <4> DEFINE f == [i \in 0..n |-> i = k]
      <4>1. \A i \in 1..n : own[i] \notin S => i = k
        BY <1>1, <1>3, <3>1, <3>3
      <4>2. f = [i \in 0..n |-> i > 0 /\ ~f[i - 1] /\ own[i] \notin S]
        BY <1>1, <3>3, <4>1
      <4> HIDE DEF f
      <4>3. QED  BY <4>2, SkippedIs
    <3>4. QED  BY <3>2, <3>3
  <2>2. CASE leaving = ToSet(own) /\ n <= 3
    <3> DEFINE f == [i \in 0..n |-> i = 1 \/ i = 3]
    <3>1. \A i \in 1..n : own[i] \notin S
      BY <1>1, <2>2
    <3>2. f = [i \in 0..n |-> i > 0 /\ ~f[i - 1] /\ own[i] \notin S]
      BY <1>1, <2>2, <3>1
    <3> HIDE DEF f
    <3>3. QED  BY <3>2, SkippedIs
  <2>3. QED  BY <2>1, <2>2 DEF Orderly
<1>5. ASSUME NEW x \in S PROVE x \in ToSet(o)
  <2>1. ASSUME NEW i \in Seen(own, S), own[i] = x PROVE i \in KeptBy(own, S)
    BY <1>1, <1>4, <2>1 DEF Seen, KeptBy, LeftIn
  <2>2. QED  BY <1>2, <2>1
<1>6. ASSUME NEW i \in KeptBy(own, S) PROVE own[i] \in S
  <2>1. i \in 1..n /\ ~P[i] /\ (AloneIn(own, S) => own[i] \in S)
    BY DEF KeptBy, LeftIn
  <2>2. SUFFICES ASSUME own[i] \notin S PROVE AloneIn(own, S)
    BY <2>1
  <2>3. P[i - 1] /\ i - 1 \in 1..n /\ own[i - 1] \notin S
    BY <1>1, <1>4, <2>1, <2>2
  <2>4. own[i] # own[i - 1] /\ own[i] \in leaving /\ own[i - 1] \in leaving
    BY <1>1, <1>3, <2>1, <2>2, <2>3
  <2>5. ~(Cardinality(leaving) <= 1)
    <3> HIDE DEF leaving
    <3>1. QED  BY <1>1a, <2>4, AtMostOne
  <2>6. leaving = ToSet(own) /\ n <= 3
    BY <2>5 DEF Orderly
  <2>7. LeftIn(own, S) = {2}
    BY <1>1, <1>4, <2>1, <2>2, <2>3, <2>6 DEF LeftIn
  <2>8. QED  BY <2>7, FS_Singleton DEF AloneIn
<1>7. QED  BY <1>2, <1>5, <1>6

\* The steps of scalings.
LEMMA StepKinds ==
  /\ Steps = {"none", "provision", "volumes", "taint", "publish", "next", "detach", "destroy",
              "untaint", "unmount"}
  /\ UpPcs = {"provision", "volumes", "taint", "publish"}
  /\ UndoPcs = {"next", "detach", "destroy", "untaint", "unmount", "publish"}
  /\ DownPcs = {"next", "detach", "destroy", "untaint", "publish"}
BY DEF Steps, UpPcs, UndoPcs, DownPcs

LEMMA NoScaleIs ==
  ASSUME Given
  PROVE  /\ NoScale \in ScaleType /\ NoScale.mode = "none" /\ NoScale.pc = "none"
         /\ NoScale.todo = {} /\ NoScale.vols = {} /\ NoScale.got = {} /\ NoScale.node = NoNode
         /\ NoScale.used = {} /\ NoScale.unused = {}
BY DEF Given, NoScale, ScaleType, Steps

\* Where a scaling is.
LEMMA Scaling ==
  ASSUME IInv, op = "scale"
  PROVE  /\ Typed /\ vol = NoVolume /\ scale \in ScaleType
         /\ scale.mode \in {"up", "undo", "down"}
         /\ scale.mode = "up" => scale.pc \in UpPcs
         /\ scale.mode = "undo" => scale.pc \in UndoPcs
         /\ scale.mode = "down" => scale.pc \in DownPcs
         /\ scale.todo \subseteq Workers /\ scale.vols \subseteq bound
         /\ scale.unused \cup scale.used \subseteq scale.usable
         /\ scale.pc \notin {"volumes", "unmount"} => job = NoJob
<1>1. Typed /\ ScaleTypeOK /\ GlusterTypeOK /\ ScaleShape /\ JobShape
  BY DEF IInv, Typed, ScaleTypeOK
<1>2. /\ scale.mode \in {"up", "undo", "down"} /\ vol = NoVolume
      /\ scale.mode = "up" => scale.pc \in UpPcs
      /\ scale.mode = "undo" => scale.pc \in UndoPcs
      /\ scale.mode = "down" => scale.pc \in DownPcs
  BY <1>1 DEF ScaleTypeOK, ScaleShape
<1>3. scale.pc \notin {"volumes", "unmount"} => job = NoJob
  BY <1>1 DEF JobShape
<1>4. scale \in ScaleType
  BY <1>1 DEF Typed
<1>5. /\ scale.todo \subseteq Workers /\ scale.vols \subseteq bound
      /\ scale.unused \cup scale.used \subseteq scale.usable
  BY <1>1 DEF ScaleTypeOK
<1>6. QED  BY <1>1, <1>2, <1>3, <1>4, <1>5

\* Types that a step keeps.
LEMMA Bounds ==
  ASSUME IInv
  PROVE  /\ Fault => faults' \in 0..MaxFaults
         /\ tasks \in 0..MaxTasks /\ faults \in 0..MaxFaults
         /\ \A o : Starts(o) => tasks' \in 0..MaxTasks /\ op' = o /\ op = "none"
         /\ tasks < MaxTasks => tasks + 1 \in 0..MaxTasks
         /\ Master \in nodes /\ Master \in vms /\ nodes \in SUBSET Nodes /\ vms \in SUBSET Nodes
         /\ IsFiniteSet(nodes) /\ bound \subseteq Volumes
         /\ away \subseteq vms /\ members \subseteq Nodes \ {Master} /\ tainted \in BOOLEAN
         /\ own \in Seq(Servers) /\ strayed \in BOOLEAN /\ outdated \in BOOLEAN
         /\ mounted \in [Volumes -> SUBSET Nodes] /\ Given
         /\ op = "none" => vol = NoVolume /\ job = NoJob
BY DEF IInv, Typed, Given, ScaleTypeOK, GlusterTypeOK, Starts, Idle, Fault, JobShape

\* A step of a scaling, after which no job is running.
ScaleMoves ==
  /\ op \in {"none", "scale"}
  /\ UNCHANGED <<gluster, row, bound, allow>>
  /\ nodes' \in SUBSET Nodes /\ Master \in nodes' /\ IsFiniteSet(nodes')
  /\ vms' \in SUBSET Nodes /\ Master \in vms' /\ away' \subseteq vms'
  /\ op' \in {"none", "scale"} /\ vol' = NoVolume /\ job' = NoJob
  /\ tasks' \in 0..MaxTasks /\ faults' \in 0..MaxFaults
  /\ torn' \in {torn, torn \cup bound}
  /\ mounted' \in [Volumes -> SUBSET Nodes]
  /\ members' \subseteq Nodes \ {Master} /\ tainted' \in BOOLEAN /\ own' \in Seq(Servers)
  /\ scale' \in ScaleType /\ (scale'.mode = "none" <=> op' # "scale")
  /\ scale'.todo \subseteq nodes' \ {Master} /\ scale'.vols \subseteq bound
  /\ scale'.unused \cup scale'.used \subseteq scale'.usable
  /\ strayed' \in BOOLEAN /\ outdated' \in BOOLEAN

\* It suffices to look at the scaling, and at what is still mounted.
LEMMA ScaleMovesOn ==
  ASSUME IInv, ScaleMoves, ScaleShape', Follows', Published',
         \A v \in Volumes : mounted'[v] \subseteq mounted[v] \cap nodes',
         \A v \in bound \ torn' : nodes' \ Owed(v)' \subseteq mounted'[v] \cap allow[v]
  PROVE  IInv'
<1>1. Typed'
  <2>1. GlusterTypeOK'
    <3>1. GlusterTypeOK
      BY DEF IInv, Typed, ScaleTypeOK
    <3>2. /\ NoJob.pc = "idle" /\ NoJob.vol = NoVolume /\ NoJob.all \in BOOLEAN
          /\ NoJob.targets = {} /\ NoJob.left = {} /\ NoJob.done = {}
      BY DEF NoJob
    <3>3. QED  BY <3>1, <3>2 DEF ScaleMoves, GlusterTypeOK
  <2>2. ToSet(own') \subseteq Nodes \cup OtherNodes
    <3>1. own' \in Seq(Nodes \cup OtherNodes)
      BY DEF ScaleMoves, Servers
    <3>2. QED  BY <3>1 DEF ToSet
  <2>3. /\ scale'.mode \in {"none", "up", "undo", "down"} /\ scale'.pc \in Steps
        /\ scale'.want \in 0..MaxScale /\ scale'.usable \subseteq Hosts
        /\ scale'.node \in Nodes \cup {NoNode} /\ scale'.untaint \in BOOLEAN
        /\ scale'.got \subseteq Volumes \X Nodes
    BY DEF ScaleMoves, ScaleType
  <2>4. \A p \in scale'.got : p[1] \in Volumes /\ p[2] \in Nodes
    BY <2>3
  <2>5. ScaleTypeOK'
    BY <2>1, <2>2, <2>3, <2>4 DEF ScaleMoves, ScaleTypeOK, Workers
  <2>6. Given
    BY Bounds
  <2>7. QED  BY <2>5, <2>6, NoJobType DEF ScaleMoves, Typed, Given
<1>2. JobShape' /\ Binding' /\ Unbinding' /\ Mounting'
  <2>1. NoJob.pc = "idle" /\ NoJob.left = {} /\ NoJob.done = {}
    BY DEF NoJob
  <2>2. /\ op' \in {"none", "scale"} /\ vol' = NoVolume /\ job' = NoJob
    BY DEF ScaleMoves
  <2>3. JobShape'
    BY <2>1, <2>2 DEF JobShape
  <2>4. QED  BY <2>1, <2>2, <2>3 DEF Binding, Unbinding, Mounting
<1>3. VolumesMounted'
  <2>1. /\ op \in {"none", "scale"} /\ op' \in {"none", "scale"} /\ torn \subseteq torn'
        /\ UNCHANGED <<gluster, row, bound, allow>>
    BY DEF ScaleMoves
  <2>2. \A v \in Volumes \ torn : (v \in gluster <=> v \in row) /\ (v \notin bound => mounted[v] = {})
    BY <2>1 DEF IInv, VolumesMounted, Busy
  <2>3. QED  BY <2>1, <2>2 DEF VolumesMounted
<1>4. QED  BY <1>1, <1>2, <1>3 DEF IInv

\* What a scaling's volumes are.
LEMMA VolumesScaled ==
  ASSUME IInv, op \in {"none", "scale"}
  PROVE  /\ \A v \in Volumes : mounted[v] \subseteq nodes
         /\ \A v \in bound \ torn : nodes \ Owed(v) \subseteq mounted[v] \cap allow[v]
BY Bounds DEF IInv, VolumesMounted, Busy

\* Steps that leave the VMs, the rows and the volumes alone.
Turns ==
  /\ op \in {"none", "scale"}
  /\ UNCHANGED <<nodes, vms, gluster, row, bound, allow, mounted, away>>
  /\ op' \in {"none", "scale"} /\ vol' = NoVolume /\ job' = NoJob
  /\ tasks' \in 0..MaxTasks /\ faults' \in 0..MaxFaults
  /\ torn' \in {torn, torn \cup bound}
  /\ members' \subseteq Nodes \ {Master} /\ tainted' \in BOOLEAN /\ own' \in Seq(Servers)
  /\ scale' \in ScaleType /\ (scale'.mode = "none" <=> op' # "scale")
  /\ scale'.todo \subseteq Workers /\ scale'.vols \subseteq bound
  /\ scale'.unused \cup scale'.used \subseteq scale'.usable
  /\ strayed' \in BOOLEAN /\ outdated' \in BOOLEAN

LEMMA TurnsOn ==
  ASSUME IInv, Turns, ScaleShape', Follows', Published',
         \A v \in bound \ torn' : Owed(v) \subseteq Owed(v)'
  PROVE  IInv'
<1>1. ScaleMoves
  BY Bounds DEF Turns, ScaleMoves, Workers
<1>2. /\ \A v \in Volumes : mounted[v] \subseteq nodes
      /\ \A v \in bound \ torn : nodes \ Owed(v) \subseteq mounted[v] \cap allow[v]
      /\ UNCHANGED <<nodes, mounted>> /\ torn \subseteq torn'
  BY VolumesScaled DEF Turns
<1>3. \A v \in bound \ torn' : nodes' \ Owed(v)' \subseteq mounted'[v] \cap allow[v]
  BY <1>2
<1>4. QED  BY <1>1, <1>2, <1>3, ScaleMovesOn

\* Undoing a scaling up.
LEMMA Undoes ==
  ASSUME Typed, NEW p \in Steps, Undo(p)
  PROVE  /\ scale' \in ScaleType
         /\ scale'.pc = p /\ scale'.mode = "undo" /\ scale'.vols = {} /\ scale'.want = scale.want
         /\ scale'.unused = scale.unused /\ scale'.used = scale.used /\ scale'.usable = scale.usable
         /\ scale'.todo = scale.todo /\ scale'.node = scale.node
         /\ scale'.got = scale.got /\ scale'.untaint = scale.untaint
BY DEF Typed, ScaleType, Undo

\* What the volumes lack, by the scaling's step.
LEMMA OwedIs ==
  /\ \A v : scale.mode = "up" /\ scale.pc = "volumes" /\ v \in scale.vols => Owed(v) = {scale.node}
  /\ \A v : scale.mode = "up" /\ ~(scale.pc = "volumes" /\ v \in scale.vols) => Owed(v) = {}
  /\ \A v : scale.mode = "undo" /\ Removing => Owed(v) = scale.todo \cup {scale.node}
  /\ \A v : scale.mode = "undo" /\ ~Removing => Owed(v) = scale.todo
  /\ \A v : scale.mode \in {"none", "down"} => Owed(v) = {}
BY DEF Owed

\* Another workspace's scaling, which only writes the upstream; and a new list.
LEMMA OtherScalesFollows ==
  ASSUME IInv, OtherScales
  PROVE  IInv'
<1>1. PICK S \in SUBSET OtherNodes : own' \in Updated(own, S)
  BY DEF OtherScales
<1>2. /\ outdated' = TRUE /\ tasks' \in 0..MaxTasks
      /\ UNCHANGED <<nodes, vms, gluster, row, bound, allow, mounted, op, vol, job, faults, torn>>
      /\ UNCHANGED <<away, members, tainted, scale, strayed>>
  BY Bounds DEF OtherScales, volumeVars, taskVars
<1>3. own' \in Seq(Servers)
  <2>1. IsFiniteSet(S) /\ S \in SUBSET Servers /\ own \in Seq(Servers)
    BY FS_Subset, Bounds DEF Given, Servers
  <2>2. QED  BY <1>1, <2>1, UpdatedParts
<1>4. Typed'
  <2>1. ToSet(own') \subseteq Nodes \cup OtherNodes
    BY <1>3 DEF ToSet, Servers
  <2>2. ScaleTypeOK'
    BY <1>2, <2>1 DEF IInv, Typed, ScaleTypeOK, GlusterTypeOK, Workers
  <2>3. QED  BY <1>2, <1>3, <2>2 DEF IInv, Typed, Given
<1>5. ScaleShape' /\ JobShape'
  BY <1>2 DEF IInv, ScaleShape, JobShape, Removing, Workers
<1>6. \A v : (Owed(v)' = Owed(v)) /\ (Busy(v)' = Busy(v))
  BY <1>2 DEF Owed, Removing, Busy
<1>7. VolumesMounted'
  BY <1>2, <1>6 DEF IInv, VolumesMounted
<1>8. Binding' /\ Unbinding' /\ Mounting'
  BY <1>2 DEF IInv, Binding, Unbinding, Mounting
<1>9. Follows' /\ Published'
  BY <1>2 DEF IInv, Follows, Published, Workers, Removing, Leaving
<1>10. QED  BY <1>4, <1>5, <1>7, <1>8, <1>9 DEF IInv

LEMMA ActiveFinite ==
  ASSUME IInv
  PROVE  IsFiniteSet(Active) /\ Active \in SUBSET Servers /\ IsFiniteSet(Workers)
<1>1. IsFiniteSet(nodes) /\ nodes \in SUBSET Nodes
  BY Bounds
<1>2. IsFiniteSet(Workers)
  BY <1>1, FS_Subset DEF Workers
<1>3. QED  BY <1>1, <1>2 DEF Active, Workers, Servers

LEMMA RepublishFollows ==
  ASSUME IInv, Republish
  PROVE  IInv'
<1>1. /\ op = "none" /\ op' = "none" /\ tasks' \in 0..MaxTasks /\ own' \in SetToSeqs(Active)
      /\ outdated' = FALSE
      /\ UNCHANGED <<nodes, vms, gluster, row, bound, allow, mounted, vol, job, faults, torn>>
      /\ UNCHANGED <<away, members, tainted, scale, strayed>>
  BY Bounds DEF Republish, volumeVars
<1>2. own' \in Seq(Servers) /\ ToSet(own') = Active
  <2>1. own' \in Seq(Active) /\ ToSet(own') = Active
    BY <1>1, ActiveFinite, Orders
  <2>2. QED  BY <2>1, ActiveFinite
<1>3. scale = NoScale /\ scale.mode = "none" /\ NoScale \in ScaleType /\ NoScale.todo = {}
      /\ NoScale.vols = {} /\ NoScale.used = {} /\ NoScale.unused = {}
  BY <1>1, NotScaling, NoScaleIs, Bounds
<1>4. Turns
  BY <1>1, <1>2, <1>3, Bounds DEF Turns
<1>5. ScaleShape'
  BY <1>1 DEF IInv, ScaleShape, Removing, Workers
<1>6. Follows'
  BY <1>1 DEF IInv, Follows, Workers, Removing, Leaving
<1>7. Published'
  BY <1>1, <1>2, <1>3 DEF Published, Active, Workers
<1>8. \A v : Owed(v) \subseteq Owed(v)'
  BY <1>1, <1>3, NotScaling
<1>9. QED  BY <1>4, <1>5, <1>6, <1>7, <1>8, TurnsOn

\* A scaling starts; to scale down it leaves the master tainted, unless all workers
\* are to go.
LEMMA ScaleUpFollows ==
  ASSUME IInv, ScaleUp
  PROVE  IInv'
<1>1. PICK k \in 2..MaxScale, usable \in SUBSET Hosts :
        /\ k > Cardinality(Workers)
        /\ scale' = [NoScale EXCEPT !.mode = "up", !.pc = "provision",
                                    !.want = k - Cardinality(Workers), !.usable = usable,
                                    !.unused = usable \ ({RowHost : n \in nodes} \cap usable),
                                    !.used = {RowHost : n \in nodes} \cap usable]
  BY DEF ScaleUp
<1>2. /\ op = "none" /\ op' = "scale" /\ tasks' \in 0..MaxTasks
      /\ UNCHANGED <<nodes, vms, gluster, row, bound, allow, mounted, vol, job, faults, torn>>
      /\ UNCHANGED <<away, members, tainted, own, strayed, outdated>>
  BY Bounds DEF ScaleUp, volumeVars
<1>3. k - Cardinality(Workers) \in 1..MaxScale /\ k - Cardinality(Workers) > 0
  <2>1. Cardinality(Workers) \in Nat /\ MaxScale \in Nat
    BY ActiveFinite, FS_CardinalityType, Bounds DEF Given
  <2>2. QED  BY <1>1, <2>1
<1> DEFINE want == k - Cardinality(Workers)
           used == {RowHost : n \in nodes} \cap usable
<1>4. used \in SUBSET usable /\ usable \ used \in SUBSET usable
  OBVIOUS
<1>5. scale' = [NoScale EXCEPT !.mode = "up", !.pc = "provision", !.want = want,
                               !.usable = usable, !.unused = usable \ used, !.used = used]
  BY <1>1
<1>6. want \in 1..MaxScale /\ want > 0 /\ want \in 0..MaxScale
  BY <1>3, Bounds DEF Given
<1> HIDE DEF want, used
<1>7. /\ scale' \in ScaleType /\ scale'.mode = "up" /\ scale'.pc = "provision" /\ scale'.want > 0
      /\ scale'.todo = {} /\ scale'.vols = {} /\ scale'.got = {}
      /\ scale'.unused \cup scale'.used \subseteq scale'.usable
  <2>1. /\ scale'.mode = "up" /\ scale'.pc = "provision" /\ scale'.want = want
        /\ scale'.todo = {} /\ scale'.vols = {} /\ scale'.got = {}
        /\ scale'.unused = usable \ used /\ scale'.used = used /\ scale'.usable = usable
    BY <1>5 DEF NoScale
  <2>2. scale' \in ScaleType
    BY <1>4, <1>5, <1>6, StepKinds, Bounds DEF NoScale, ScaleType, Given
  <2>3. QED  BY <1>4, <1>6, <2>1, <2>2
<1>8. scale.mode = "none" /\ scale = NoScale /\ scale.pc = "none"
  BY <1>2, NotScaling, NoScaleIs, Bounds
<1>9. Turns
  BY <1>2, <1>7, Bounds DEF Turns
<1>10. ScaleShape'
  BY <1>2, <1>7, Bounds, StepKinds DEF ScaleShape, Removing
<1>11. Follows'
  <2>1. SUFFICES ASSUME ~strayed
                 PROVE  vms = nodes /\ members = Workers /\ (tainted <=> Workers # {})
    BY <1>2, <1>7 DEF Follows, Workers
  <2>2. QED  BY <1>8, <2>1 DEF IInv, Follows
<1>12. Published'
  <2>1. ~outdated => ToSet(own) = Active
    BY <1>8 DEF IInv, Published
  <2>2. ActiveOf(nodes \ {}) = Active
    BY DEF ActiveOf, Active, Workers
  <2>3. QED  BY <1>2, <1>7, <2>1, <2>2 DEF Published, ActiveOf
<1>13. \A v : Owed(v) \subseteq Owed(v)'
  BY <1>2, NotScaling
<1>14. QED  BY <1>9, <1>10, <1>11, <1>12, <1>13, TurnsOn

LEMMA ScaleDownFollows ==
  ASSUME IInv, ScaleDown
  PROVE  IInv'
<1>1. PICK S \in SUBSET Workers :
        scale' = [NoScale EXCEPT !.mode = "down", !.pc = "next", !.todo = S,
                                 !.untaint = (S = Workers)]
        /\ S # {}
  BY DEF ScaleDown
<1>2. /\ op = "none" /\ op' = "scale" /\ tasks' \in 0..MaxTasks
      /\ UNCHANGED <<nodes, vms, gluster, row, bound, allow, mounted, vol, job, faults, torn>>
      /\ UNCHANGED <<away, members, tainted, own, strayed, outdated>>
  BY Bounds DEF ScaleDown, volumeVars
<1>3. /\ scale' \in ScaleType /\ scale'.mode = "down" /\ scale'.pc = "next"
      /\ scale'.todo = S /\ scale'.vols = {} /\ scale'.got = {}
      /\ scale'.unused \cup scale'.used \subseteq scale'.usable
      /\ scale'.untaint <=> S = Workers
  <2>1. /\ scale'.mode = "down" /\ scale'.pc = "next" /\ scale'.untaint = (S = Workers)
        /\ scale'.todo = S /\ scale'.vols = {} /\ scale'.got = {}
        /\ scale'.unused = {} /\ scale'.used = {}
    BY <1>1 DEF NoScale
  <2>2. S \in SUBSET Nodes
    BY <1>1, Bounds DEF Workers
  <2>3. (S = Workers) \in BOOLEAN
    OBVIOUS
  <2>4. scale' \in ScaleType
    <3> DEFINE all == S = Workers
    <3>1. all \in BOOLEAN /\ scale' = [NoScale EXCEPT !.mode = "down", !.pc = "next",
                                                       !.todo = S, !.untaint = all]
      BY <1>1
    <3> HIDE DEF all
    <3>2. NoScale \in ScaleType /\ "next" \in Steps
      BY NoScaleIs, StepKinds, Bounds
    <3>3. QED  BY <2>2, <3>1, <3>2 DEF ScaleType
  <2>5. QED  BY <2>1, <2>4
<1>4. scale.mode = "none" /\ scale = NoScale /\ scale.pc = "none"
  BY <1>2, NotScaling, NoScaleIs, Bounds
<1>5. Turns
  BY <1>2, <1>3, Bounds DEF Turns
<1>6. ScaleShape'
  BY <1>2, <1>3, Bounds, StepKinds DEF ScaleShape, Removing
<1>7. Follows'
  <2>1. SUFFICES ASSUME ~strayed
                 PROVE  vms = nodes /\ members = Workers /\ tainted
    BY <1>2, <1>3 DEF Follows, Workers, Removing, Leaving
  <2>2. QED  BY <1>1, <1>4, <2>1 DEF IInv, Follows
<1>8. Published'
  BY <1>2, <1>3 DEF Published
<1>9. \A v : Owed(v) \subseteq Owed(v)'
  BY <1>2, NotScaling
<1>10. QED  BY <1>5, <1>6, <1>7, <1>8, <1>9, TurnsOn

\* A scaling goes to another step, is undone, or ends.
LEMMA Goes ==
  ASSUME IInv, op = "scale", NEW p \in Steps, To(p)
  PROVE  /\ scale' \in ScaleType
         /\ scale'.pc = p /\ scale'.mode = scale.mode /\ scale'.want = scale.want
         /\ scale'.todo = scale.todo /\ scale'.node = scale.node /\ scale'.vols = scale.vols
         /\ scale'.got = scale.got /\ scale'.untaint = scale.untaint
         /\ scale'.mode # "none" /\ scale'.todo \subseteq Workers /\ scale'.vols \subseteq bound
         /\ scale'.unused \cup scale'.used \subseteq scale'.usable
BY Scaling, ScaleGoes

LEMMA Undone ==
  ASSUME IInv, op = "scale", NEW p \in Steps, Undo(p)
  PROVE  /\ scale' \in ScaleType
         /\ scale'.pc = p /\ scale'.mode = "undo" /\ scale'.vols = {}
         /\ scale'.todo = scale.todo /\ scale'.node = scale.node /\ scale'.got = scale.got
         /\ scale'.mode # "none" /\ scale'.todo \subseteq Workers /\ scale'.vols \subseteq bound
         /\ scale'.unused \cup scale'.used \subseteq scale'.usable
BY Scaling, Undoes

LEMMA ScaleEnded ==
  ASSUME IInv, ScaleEnds
  PROVE  /\ op' = "none" /\ vol' = NoVolume /\ job' = NoJob
         /\ scale' = NoScale /\ scale' \in ScaleType /\ scale'.mode = "none" /\ scale'.pc = "none"
         /\ scale'.todo = {} /\ scale'.vols = {} /\ scale'.got = {}
         /\ scale'.unused \cup scale'.used \subseteq scale'.usable
         /\ ScaleShape'
<1>1. /\ op' = "none" /\ vol' = NoVolume /\ job' = NoJob /\ scale' = NoScale
  BY DEF ScaleEnds, Ends
<1>2. /\ NoScale \in ScaleType /\ NoScale.mode = "none" /\ NoScale.pc = "none"
      /\ NoScale.todo = {} /\ NoScale.vols = {} /\ NoScale.got = {}
      /\ NoScale.used = {} /\ NoScale.unused = {}
  BY NoScaleIs, Bounds
<1>3. ScaleShape'
  BY <1>1, <1>2 DEF ScaleShape, Removing
<1>4. QED  BY <1>1, <1>2, <1>3

\* A worker is deployed, and its volumes are still to be mounted.
LEMMA ProvisionFollows ==
  ASSUME IInv, ProvisionK8SWorker
  PROVE  IInv'
<1>1. PICK n \in Nodes, h \in Favoured :
        /\ Deployed(n, h)
        /\ scale' = [scale EXCEPT !.pc = "volumes", !.want = @ - 1, !.todo = @ \cup {n}, !.node = n,
                                  !.vols = bound, !.unused = @ \ {h}, !.used = @ \ {h}]
  BY DEF ProvisionK8SWorker
<1>2. /\ op = "scale" /\ scale.pc = "provision"
      /\ UNCHANGED <<gluster, row, bound, allow, mounted, op, vol, job, tasks, faults, torn>>
      /\ UNCHANGED <<tainted, own, strayed, outdated>>
  BY DEF ProvisionK8SWorker, At, volumeVars, taskVars
<1>3. /\ n \notin nodes /\ n \notin vms /\ n \notin members
      /\ nodes' = nodes \cup {n} /\ vms' = vms \cup {n} /\ members' = members \cup {n}
      /\ away' \subseteq away \cup {n}
  BY <1>1 DEF Deployed, Joins
<1>4. /\ scale.mode = "up" /\ vol = NoVolume /\ job = NoJob /\ scale \in ScaleType
      /\ scale.todo \subseteq Workers /\ scale.unused \cup scale.used \subseteq scale.usable
  BY <1>2, Scaling, StepKinds
<1>5. scale.want > 0 /\ scale.want \in 0..MaxScale /\ MaxScale \in Nat
  BY <1>2, <1>4, Bounds DEF IInv, ScaleShape, ScaleType, Given
<1>6. /\ scale' \in ScaleType /\ scale'.mode = "up" /\ scale'.pc = "volumes"
      /\ scale'.todo = scale.todo \cup {n} /\ scale'.node = n /\ scale'.vols = bound
      /\ scale'.got = scale.got
      /\ scale'.unused \cup scale'.used \subseteq scale'.usable
  <2>1. scale.want - 1 \in 0..MaxScale
    BY <1>5
  <2>2. scale.todo \cup {n} \in SUBSET Nodes /\ bound \in SUBSET Volumes
    BY <1>4, Bounds DEF Workers
  <2>3. QED  BY <1>1, <1>4, <2>1, <2>2, StepKinds DEF ScaleType
<1>7. n # Master /\ IsFiniteSet(nodes') /\ scale'.todo \subseteq nodes' \ {Master}
  BY <1>3, <1>4, <1>6, Bounds, FS_AddElement DEF Workers
<1>8. ScaleMoves
  BY <1>2, <1>3, <1>4, <1>6, <1>7, Bounds DEF ScaleMoves
<1>9. ScaleShape'
  <2>1. \A p \in scale.got : p[1] \in bound
    BY DEF IInv, ScaleShape
  <2>2. QED  BY <1>2, <1>4, <1>6, <2>1, StepKinds DEF ScaleShape, Removing
<1>10. Follows'
  <2>1. Workers' = Workers \cup {n} /\ n \notin Workers /\ n \notin scale.todo
    BY <1>3, <1>4, <1>7 DEF Workers
  <2>2. SUFFICES ASSUME ~strayed
                 PROVE  vms' = nodes' /\ members' = Workers' /\ (tainted <=> Workers' # scale'.todo)
    BY <1>2, <1>6 DEF Follows, Removing
  <2>3. vms = nodes /\ members = Workers /\ (tainted <=> Workers # scale.todo)
    BY <1>2, <1>4, <2>2 DEF IInv, Follows
  <2>4. QED  BY <1>3, <1>6, <2>1, <2>3
<1>11. Published'
  <2>1. nodes' \ scale'.todo = nodes \ scale.todo
    BY <1>3, <1>4, <1>6 DEF Workers
  <2>2. ~outdated => ToSet(own) = ActiveOf(nodes \ scale.todo)
    BY <1>4 DEF IInv, Published
  <2>3. QED  BY <1>2, <1>6, <2>1, <2>2 DEF Published
<1>12. /\ \A v \in Volumes : mounted[v] \subseteq nodes
       /\ \A v \in bound \ torn : nodes \ Owed(v) \subseteq mounted[v] \cap allow[v]
  BY <1>2, VolumesScaled
<1>13. \A v : v \in bound => Owed(v)' = {n} /\ Owed(v) = {}
  BY <1>2, <1>4, <1>6 DEF Owed
<1>14. \A v \in bound \ torn' : nodes' \ Owed(v)' \subseteq mounted'[v] \cap allow[v]
  BY <1>2, <1>3, <1>12, <1>13
<1>15. \A v \in Volumes : mounted'[v] \subseteq mounted[v] \cap nodes'
  BY <1>2, <1>3, <1>12
<1>16. QED  BY <1>8, <1>9, <1>10, <1>11, <1>14, <1>15, ScaleMovesOn

\* Deploying fails: nothing is there, or what is there is recorded as strayed.
LEMMA ProvisionFailsFollows ==
  ASSUME IInv, ProvisionK8SWorkerFails
  PROVE  IInv'
<1>1. /\ op = "scale" /\ scale.pc = "provision" /\ faults' \in 0..MaxFaults /\ Undo("next")
      /\ UNCHANGED <<gluster, row, bound, allow, mounted, op, vol, job, tasks, tainted, own>>
  BY Bounds DEF ProvisionK8SWorkerFails, At, volumeVars, taskVars
<1>2. /\ scale.mode = "up" /\ vol = NoVolume /\ job = NoJob
      /\ scale.todo \subseteq Workers
  BY <1>1, Scaling, StepKinds
<1>3. /\ scale' \in ScaleType /\ scale'.mode = "undo" /\ scale'.pc = "next"
      /\ scale'.todo = scale.todo /\ scale'.vols = {} /\ scale'.got = scale.got
      /\ scale'.unused \cup scale'.used \subseteq scale'.usable
  BY <1>1, StepKinds, Undone
<1>4. ScaleShape'
  <2>1. \A p \in scale.got : p[1] \in bound
    BY DEF IInv, ScaleShape
  <2>2. QED  BY <1>1, <1>2, <1>3, <2>1, StepKinds DEF ScaleShape, Removing
<1>5. \A v : Owed(v)' = scale.todo /\ (v \in bound => Owed(v) = {})
  BY <1>1, <1>2, <1>3 DEF Owed, Removing
<1>6. CASE UNCHANGED <<nodes, vms, members, away, strayed, outdated, torn>>
  <2>1. Turns
    BY <1>1, <1>2, <1>3, <1>6, Bounds DEF Turns
  <2>2. Follows'
    BY <1>1, <1>2, <1>3, <1>6 DEF IInv, Follows, Workers, Removing, Leaving
  <2>3. Published'
    <3>1. ~outdated => ToSet(own) = ActiveOf(nodes \ scale.todo)
      BY <1>2 DEF IInv, Published
    <3>2. ActiveOf(nodes \ {}) = Active
      BY DEF ActiveOf, Active, Workers
    <3>3. Active' = Active
      BY <1>6 DEF Active, Workers
    <3>4. QED  BY <1>1, <1>3, <1>6, <3>1, <3>2, <3>3 DEF Published
  <2>4. QED  BY <1>4, <1>5, <2>1, <2>2, <2>3, TurnsOn
<1>7. CASE /\ \E n \in Nodes, h \in Favoured : Deployed(n, h)
           /\ strayed' = TRUE /\ outdated' = TRUE /\ torn' = torn \cup bound
  <2>1. PICK n \in Nodes : /\ n \notin nodes /\ n \notin vms /\ n \notin members
                           /\ nodes' = nodes \cup {n} /\ vms' = vms \cup {n}
                           /\ members' = members \cup {n} /\ away' \subseteq away \cup {n}
    BY <1>7 DEF Deployed, Joins
  <2>2. n # Master /\ IsFiniteSet(nodes') /\ scale'.todo \subseteq nodes' \ {Master}
    BY <1>2, <1>3, <2>1, Bounds, FS_AddElement DEF Workers
  <2>3. ScaleMoves
    BY <1>1, <1>2, <1>3, <1>7, <2>1, <2>2, Bounds DEF ScaleMoves
  <2>4. Follows' /\ Published'
    BY <1>7 DEF Follows, Published
  <2>5. \A v \in bound \ torn' : FALSE
    BY <1>7
  <2>6. \A v \in Volumes : mounted[v] \subseteq nodes
    BY <1>1, VolumesScaled
  <2>7. \A v \in Volumes : mounted'[v] \subseteq mounted[v] \cap nodes'
    BY <1>1, <2>1, <2>6
  <2>8. QED  BY <1>4, <2>3, <2>4, <2>5, <2>7, ScaleMovesOn
<1>8. CASE /\ \E n \in Nodes : Joins(n) /\ vms' \in {vms, vms \cup {n}}
           /\ strayed' = TRUE /\ UNCHANGED <<nodes, away, outdated, torn>>
  <2>1. PICK n \in Nodes : /\ n \notin nodes /\ members' = members \cup {n}
                           /\ vms' \in {vms, vms \cup {n}}
    BY <1>8 DEF Joins
  <2>2. scale'.todo \subseteq nodes' \ {Master} /\ n # Master
    BY <1>2, <1>3, <1>8, <2>1, Bounds DEF Workers
  <2>3. ScaleMoves
    BY <1>1, <1>2, <1>3, <1>8, <2>1, <2>2, Bounds DEF ScaleMoves
  <2>4. Follows'
    BY <1>8 DEF Follows
  <2>5. Published'
    <3>1. ~outdated => ToSet(own) = ActiveOf(nodes \ scale.todo)
      BY <1>2 DEF IInv, Published
    <3>2. ActiveOf(nodes \ {}) = Active /\ Active' = Active
      BY <1>8 DEF ActiveOf, Active, Workers
    <3>3. QED  BY <1>1, <1>3, <1>8, <3>1, <3>2 DEF Published
  <2>6. /\ \A v \in Volumes : mounted[v] \subseteq nodes
        /\ \A v \in bound \ torn : nodes \ Owed(v) \subseteq mounted[v] \cap allow[v]
    BY <1>1, VolumesScaled
  <2>7. \A v \in bound \ torn' : nodes' \ Owed(v)' \subseteq mounted'[v] \cap allow[v]
    BY <1>1, <1>5, <1>8, <2>6
  <2>8. \A v \in Volumes : mounted'[v] \subseteq mounted[v] \cap nodes'
    BY <1>1, <1>8, <2>6
  <2>9. QED  BY <1>4, <2>3, <2>4, <2>5, <2>7, <2>8, ScaleMovesOn
<1>9. QED  BY <1>6, <1>7, <1>8 DEF ProvisionK8SWorkerFails

\* The mounting of a volume on a new worker, or its unmounting, starts.
JobStarts ==
  /\ UNCHANGED <<nodes, vms, gluster, row, bound, allow, mounted, op, vol, tasks, faults, torn>>
  /\ UNCHANGED <<away, members, tainted, own, scale, strayed, outdated>>
  /\ op = "scale" /\ job' \in JobType /\ job'.vol \in bound /\ job'.targets = {scale.node} /\ ~job'.all
  /\ job'.left \subseteq {scale.node} \cap nodes /\ job'.done = {}
  /\ \/ /\ scale.mode = "up" /\ scale.pc = "volumes" /\ job'.pc = "authorise"
        /\ job'.vol \in scale.vols
     \/ /\ scale.mode = "undo" /\ scale.pc = "unmount" /\ job'.pc = "unmount"
        /\ <<job'.vol, scale.node>> \in scale.got

LEMMA JobStartsOn ==
  ASSUME IInv, JobStarts
  PROVE  IInv'
<1>1. Typed'
  <2>1. ScaleTypeOK'
    BY DEF IInv, JobStarts, Typed, ScaleTypeOK, GlusterTypeOK, Workers, JobType, JobPcs
  <2>2. QED  BY <2>1 DEF IInv, JobStarts, Typed, Given
<1>2. ScaleShape'
  BY DEF IInv, JobStarts, ScaleShape, Removing, Workers
<1>3. JobShape'
  <2>1. /\ "authorise" \in MountSteps /\ "unmount" \in UnmountSteps
    BY JobPcKinds
  <2>2. job'.pc # "idle" /\ job'.left \cup job'.done \subseteq nodes'
    BY DEF JobStarts
  <2>3. op' = "scale"
    BY DEF JobStarts
  <2>4. QED  BY <2>1, <2>2, <2>3 DEF JobStarts, JobShape
<1>4. VolumesMounted'
  <2>1. \A v : (Owed(v)' = Owed(v)) /\ (Busy(v)' = Busy(v))
    BY DEF JobStarts, Owed, Removing, Busy
  <2>2. QED  BY <2>1 DEF IInv, JobStarts, VolumesMounted
<1>5. Binding' /\ Unbinding'
  BY DEF JobStarts, Binding, Unbinding
<1>6. Mounting'
  BY DEF JobStarts, Mounting
<1>7. Follows' /\ Published'
  BY DEF IInv, JobStarts, Follows, Published, Workers, Removing, Leaving, Active
<1>8. QED  BY <1>1, <1>2, <1>3, <1>4, <1>5, <1>6, <1>7 DEF IInv

LEMMA MountVolumeFollows ==
  ASSUME IInv, MountVolume
  PROVE  IInv'
<1>1. PICK v \in scale.vols : MountJob(v, {scale.node}, FALSE)
  BY DEF MountVolume
<1>2. /\ UNCHANGED <<nodes, vms, gluster, row, bound, allow, mounted, op, vol, tasks, faults, torn>>
      /\ UNCHANGED <<away, members, tainted, own, scale, strayed, outdated>>
      /\ op = "scale" /\ scale.pc = "volumes"
  BY DEF MountVolume, At, volumeVars, clusterVars
<1>3. scale.mode = "up" /\ scale.vols \subseteq bound
  BY <1>2, Scaling, StepKinds
<1>4. scale.node \in Nodes
  BY <1>2, <1>3, Bounds, Scaling DEF IInv, ScaleShape, Workers
<1>5. /\ job' \in JobType /\ job'.pc = "authorise" /\ job'.vol = v /\ job'.targets = {scale.node}
      /\ ~job'.all /\ job'.left = {} /\ job'.done = {}
  BY <1>1, <1>3, <1>4, Bounds, JobPcKinds DEF MountJob, NoJob, JobType
<1>6. JobStarts
  BY <1>2, <1>3, <1>5 DEF JobStarts
<1>7. QED  BY <1>6, JobStartsOn

LEMMA RollbackVolumeFollows ==
  ASSUME IInv, RollbackVolume
  PROVE  IInv'
<1>1. PICK p \in OfNode : UnmountJob(p[1], {scale.node}, FALSE)
  BY DEF RollbackVolume
<1>2. /\ UNCHANGED <<nodes, vms, gluster, row, bound, allow, mounted, op, vol, tasks, faults, torn>>
      /\ UNCHANGED <<away, members, tainted, own, scale, strayed, outdated>>
      /\ op = "scale" /\ scale.pc = "unmount"
  BY DEF RollbackVolume, At, volumeVars, clusterVars
<1>3. scale.mode = "undo" /\ scale.got \subseteq Volumes \X Nodes
  BY <1>2, Scaling, StepKinds DEF ScaleType
<1>4. p \in scale.got /\ p = <<p[1], p[2]>> /\ p[2] = scale.node /\ p[2] \in Nodes
  BY <1>1, <1>3 DEF OfNode
<1>5. p[1] \in bound
  BY <1>4 DEF IInv, ScaleShape
<1> DEFINE v == p[1]
           n == scale.node
<1>6. v \in bound /\ n \in Nodes /\ <<v, n>> \in scale.got
  BY <1>4, <1>5
<1>7. job' = [NoJob EXCEPT !.pc = "unmount", !.vol = v, !.targets = {n}, !.all = FALSE,
                           !.left = {n} \cap nodes]
  BY <1>1 DEF UnmountJob
<1> HIDE DEF v
<1>8. /\ job' \in JobType /\ job'.pc = "unmount" /\ job'.vol = v /\ job'.targets = {scale.node}
      /\ ~job'.all /\ job'.left = {scale.node} \cap nodes /\ job'.done = {}
  BY <1>6, <1>7, Bounds, JobPcKinds DEF NoJob, JobType
<1>9. JobStarts
  BY <1>2, <1>3, <1>6, <1>8 DEF JobStarts
<1>10. QED  BY <1>9, JobStartsOn

\* Steps that only move a scaling on: what they need of it.
LEMMA Moving ==
  ASSUME IInv, op = "scale", NEW p \in Steps, To(p),
         UNCHANGED <<nodes, vms, volumeVars, tasks, faults, torn>>,
         UNCHANGED <<away, members, tainted, own, strayed, outdated>>,
         op' = "scale", job' = NoJob, vol' = NoVolume
  PROVE  /\ Turns
         /\ UNCHANGED <<nodes, vms, gluster, row, bound, allow, mounted, torn>>
         /\ UNCHANGED <<away, members, tainted, own, strayed, outdated>>
         /\ scale' \in ScaleType
         /\ scale'.pc = p /\ scale'.mode = scale.mode /\ scale'.want = scale.want
         /\ scale'.todo = scale.todo /\ scale'.node = scale.node /\ scale'.vols = scale.vols
         /\ scale'.got = scale.got /\ scale'.untaint = scale.untaint
<1>1. UNCHANGED <<nodes, vms, gluster, row, bound, allow, mounted, torn>>
  BY DEF volumeVars
<1>2. QED  BY <1>1, Goes, Bounds DEF Turns

\* A volume is mounted on the new worker, which owes it no more.
LEMMA VolumeMountedFollows ==
  ASSUME IInv, VolumeMounted
  PROVE  IInv'
<1>1. /\ op = "scale" /\ scale.pc = "volumes" /\ job.pc = "ok" /\ job' = NoJob
      /\ scale' = [scale EXCEPT !.vols = @ \ {job.vol}, !.got = @ \cup {<<job.vol, scale.node>>}]
      /\ UNCHANGED <<nodes, vms, gluster, row, bound, allow, mounted, op, vol, tasks, faults, torn>>
      /\ UNCHANGED <<away, members, tainted, own, strayed, outdated>>
  BY DEF VolumeMounted, At, Step, volumeVars
<1>2. /\ scale.mode = "up" /\ scale \in ScaleType /\ vol = NoVolume
      /\ scale.todo \subseteq Workers /\ scale.vols \subseteq bound
      /\ scale.unused \cup scale.used \subseteq scale.usable
  BY <1>1, Scaling, StepKinds
<1>3. scale.node \in scale.todo /\ (\A p \in scale.got : p[1] \in bound) /\ scale.node \in Nodes
  BY <1>1, <1>2, Bounds DEF IInv, ScaleShape, Workers
<1>4. job.vol \in bound /\ job.vol \in Volumes
  BY <1>1, ActiveJob, Bounds
<1>5. /\ scale' \in ScaleType /\ scale'.mode = "up" /\ scale'.pc = "volumes"
      /\ scale'.todo = scale.todo /\ scale'.node = scale.node /\ scale'.vols = scale.vols \ {job.vol}
      /\ scale'.got = scale.got \cup {<<job.vol, scale.node>>}
      /\ scale'.unused = scale.unused /\ scale'.used = scale.used /\ scale'.usable = scale.usable
  <2>1. scale.got \cup {<<job.vol, scale.node>>} \in SUBSET (Volumes \X Nodes)
    BY <1>2, <1>3, <1>4 DEF ScaleType
  <2>2. scale.vols \ {job.vol} \in SUBSET Volumes
    BY <1>2, Bounds
  <2>3. QED  BY <1>1, <1>2, <2>1, <2>2 DEF ScaleType
<1>6. ScaleMoves
  <2>1. scale'.todo \subseteq nodes' \ {Master} /\ scale'.vols \subseteq bound
    BY <1>1, <1>2, <1>5 DEF Workers
  <2>2. QED  BY <1>1, <1>2, <1>5, <2>1, Bounds DEF ScaleMoves
<1>7. ScaleShape'
  <2>1. \A p \in scale'.got : p[1] \in bound
    BY <1>3, <1>4, <1>5
  <2>2. QED  BY <1>1, <1>2, <1>3, <1>5, <2>1, StepKinds DEF ScaleShape, Removing
<1>8. Follows'
  BY <1>1, <1>2, <1>5 DEF IInv, Follows, Workers
<1>9. Published'
  BY <1>1, <1>2, <1>5 DEF IInv, Published
<1>10. /\ \A v \in Volumes : mounted[v] \subseteq nodes
       /\ \A v \in bound \ torn : nodes \ Owed(v) \subseteq mounted[v] \cap allow[v]
  BY <1>1, VolumesScaled
<1>11. \A v \in bound \ torn' : nodes' \ Owed(v)' \subseteq mounted'[v] \cap allow[v]
  <2>1. ASSUME NEW v \in bound \ torn PROVE nodes \ Owed(v)' \subseteq mounted[v] \cap allow[v]
    <3>1. CASE v = job.vol
      <4>1. scale.node \in mounted[v] \cap allow[v]
        BY <1>1, <1>2, <2>1, <3>1 DEF IInv, Mounting
      <4>2. Owed(v) \subseteq {scale.node}
        BY <1>2, OwedIs
      <4>3. QED  BY <1>10, <2>1, <4>1, <4>2
    <3>2. CASE v # job.vol
      <4>1. Owed(v)' = Owed(v)
        BY <1>1, <1>2, <1>5, <3>2 DEF Owed
      <4>2. QED  BY <1>10, <2>1, <4>1
    <3>3. QED  BY <3>1, <3>2
  <2>2. QED  BY <1>1, <2>1
<1>12. \A v \in Volumes : mounted'[v] \subseteq mounted[v] \cap nodes'
  BY <1>1, <1>10
<1>13. QED  BY <1>6, <1>7, <1>8, <1>9, <1>11, <1>12, ScaleMovesOn

\* It is not: all workers of this scaling are owed from here on.
LEMMA VolumeFailsFollows ==
  ASSUME IInv, VolumeFails
  PROVE  IInv'
<1>1. /\ op = "scale" /\ scale.pc = "volumes" /\ job' = NoJob /\ Undo("unmount")
      /\ UNCHANGED <<nodes, vms, gluster, row, bound, allow, mounted, op, vol, tasks, faults, torn>>
      /\ UNCHANGED <<away, members, tainted, own, strayed, outdated>>
  BY DEF VolumeFails, At, Step, volumeVars
<1>2. scale.mode = "up" /\ vol = NoVolume /\ scale.todo \subseteq Workers
  BY <1>1, Scaling, StepKinds
<1>3. scale.node \in scale.todo /\ (\A p \in scale.got : p[1] \in bound)
  BY <1>1, <1>2 DEF IInv, ScaleShape
<1>4. /\ scale' \in ScaleType /\ scale'.pc = "unmount" /\ scale'.mode = "undo" /\ scale'.vols = {}
      /\ scale'.todo = scale.todo /\ scale'.node = scale.node /\ scale'.got = scale.got
      /\ scale'.todo \subseteq Workers /\ scale'.vols \subseteq bound
      /\ scale'.unused \cup scale'.used \subseteq scale'.usable
  BY <1>1, StepKinds, Undone
<1>5. Turns
  BY <1>1, <1>2, <1>4, Bounds DEF Turns
<1>6. ScaleShape'
  BY <1>1, <1>2, <1>3, <1>4, StepKinds DEF ScaleShape, Removing
<1>7. Follows'
  BY <1>1, <1>2, <1>4 DEF IInv, Follows, Workers, Removing, Leaving
<1>8. Published'
  BY <1>1, <1>3, <1>4 DEF Published
<1>9. \A v : Owed(v) \subseteq scale.todo /\ Owed(v)' = scale.todo
  <2>1. \A v : Owed(v) \subseteq {scale.node}
    BY <1>2, OwedIs
  <2>2. \A v : Owed(v)' = scale.todo
    BY <1>4 DEF Owed, Removing
  <2>3. QED  BY <1>3, <2>1, <2>2
<1>10. QED  BY <1>5, <1>6, <1>7, <1>8, <1>9, TurnsOn

LEMMA WorkerReadyFollows ==
  ASSUME IInv, WorkerReady
  PROVE  IInv'
<1> DEFINE next == IF scale.want > 0 THEN "provision" ELSE "taint"
<1>1. /\ op = "scale" /\ scale.pc = "volumes" /\ scale.vols = {} /\ To(next)
      /\ UNCHANGED <<nodes, vms, volumeVars, taskVars, tasks, faults, torn>>
      /\ UNCHANGED <<away, members, tainted, own, strayed, outdated>>
  BY DEF WorkerReady, At
<1>2. scale.mode = "up" /\ vol = NoVolume
  BY <1>1, Scaling, StepKinds
<1>3. scale.node \in scale.todo /\ (\A p \in scale.got : p[1] \in bound)
  BY <1>1, <1>2 DEF IInv, ScaleShape
<1>4. job = NoJob
  BY <1>1, <1>2 DEF IInv, JobShape
<1>5. next \in Steps /\ (next = "provision" => scale.want > 0) /\ next \in {"provision", "taint"}
  BY StepKinds
<1>6. op' = "scale" /\ vol' = NoVolume /\ job' = NoJob
  BY <1>1, <1>2, <1>4 DEF taskVars
<1> HIDE DEF next
<1>7. /\ Turns
      /\ UNCHANGED <<nodes, vms, gluster, row, bound, allow, mounted, torn>>
      /\ UNCHANGED <<away, members, tainted, own, strayed, outdated>>
      /\ scale' \in ScaleType
      /\ scale'.pc = next /\ scale'.mode = scale.mode /\ scale'.want = scale.want
      /\ scale'.todo = scale.todo /\ scale'.node = scale.node /\ scale'.vols = scale.vols
      /\ scale'.got = scale.got /\ scale'.untaint = scale.untaint
  BY <1>1, <1>5, <1>6, Moving
<1>8. ScaleShape'
  BY <1>1, <1>2, <1>3, <1>5, <1>6, <1>7, StepKinds DEF ScaleShape, Removing
<1>9. Follows'
  BY <1>1, <1>2, <1>5, <1>7 DEF IInv, Follows, Workers
<1>10. Published'
  BY <1>2, <1>7 DEF IInv, Published
<1>11. \A v : Owed(v) = {}
  BY <1>1, <1>2, OwedIs
<1>12. QED  BY <1>7, <1>8, <1>9, <1>10, <1>11, TurnsOn

LEMMA TaintFollows ==
  ASSUME IInv, TaintK8SMaster
  PROVE  IInv'
<1>1. /\ op = "scale" /\ scale.pc = "taint"
      /\ UNCHANGED <<nodes, vms, gluster, row, bound, allow, mounted, op, vol, job, tasks, torn>>
      /\ UNCHANGED <<away, members, own, outdated>>
      /\ \/ tainted' = TRUE /\ To("publish") /\ UNCHANGED <<faults, strayed>>
         \/ Fault /\ strayed' = TRUE /\ To("publish") /\ UNCHANGED tainted
         \/ Fault /\ tainted' \in {tainted, TRUE} /\ Undo("next") /\ UNCHANGED strayed
  BY DEF TaintK8SMaster, TaintMaster, At, volumeVars, taskVars
<1>2. scale.mode = "up" /\ vol = NoVolume /\ job = NoJob
  BY <1>1, Scaling, StepKinds
<1>3. scale.node \in scale.todo /\ (\A p \in scale.got : p[1] \in bound) /\ scale.vols = {}
  BY <1>1, <1>2 DEF IInv, ScaleShape
<1>4. \A v : Owed(v) = {}
  BY <1>1, <1>2, OwedIs
<1>5. CASE /\ To("publish") /\ faults' \in 0..MaxFaults
           /\ strayed' \in BOOLEAN /\ tainted' \in BOOLEAN
           /\ ~strayed' => ~strayed /\ tainted'
  <2>1. /\ scale' \in ScaleType
        /\ scale'.pc = "publish" /\ scale'.mode = "up" /\ scale'.want = scale.want
        /\ scale'.todo = scale.todo /\ scale'.node = scale.node /\ scale'.vols = scale.vols
        /\ scale'.got = scale.got
        /\ scale'.mode # "none" /\ scale'.todo \subseteq Workers /\ scale'.vols \subseteq bound
        /\ scale'.unused \cup scale'.used \subseteq scale'.usable
    BY <1>1, <1>2, <1>5, StepKinds, Goes
  <2>2. Turns
    BY <1>1, <1>2, <1>5, <2>1, Bounds DEF Turns
  <2>3. ScaleShape'
    BY <1>1, <1>2, <1>3, <2>1, StepKinds DEF ScaleShape, Removing
  <2>4. Follows'
    BY <1>1, <1>2, <1>5, <2>1 DEF IInv, Follows, Workers
  <2>5. Published'
    BY <1>1, <1>2, <2>1 DEF IInv, Published
  <2>6. QED  BY <1>4, <2>2, <2>3, <2>4, <2>5, TurnsOn
<1>6. CASE Fault /\ tainted' \in {tainted, TRUE} /\ Undo("next") /\ UNCHANGED strayed
  <2>1. /\ scale' \in ScaleType
        /\ scale'.pc = "next" /\ scale'.mode = "undo" /\ scale'.vols = {}
        /\ scale'.todo = scale.todo /\ scale'.node = scale.node /\ scale'.got = scale.got
        /\ scale'.mode # "none" /\ scale'.todo \subseteq Workers /\ scale'.vols \subseteq bound
        /\ scale'.unused \cup scale'.used \subseteq scale'.usable
    BY <1>1, <1>6, StepKinds, Undone
  <2>2. Turns
    BY <1>1, <1>2, <1>6, <2>1, Bounds DEF Turns
  <2>3. ScaleShape'
    BY <1>1, <1>2, <1>3, <2>1, StepKinds DEF ScaleShape, Removing
  <2>4. Follows'
    <3>1. Workers' = Workers /\ Leaving' = scale.todo
      BY <1>1, <2>1 DEF Workers, Removing, Leaving
    <3>2. SUFFICES ASSUME ~strayed
                   PROVE  vms = nodes /\ members = Workers /\ (Workers # scale.todo => tainted')
      BY <1>1, <1>6, <2>1, <3>1 DEF Follows
    <3>3. vms = nodes /\ members = Workers /\ (tainted <=> Workers # scale.todo)
      BY <1>1, <1>2, <3>2 DEF IInv, Follows
    <3>4. QED  BY <1>6, <3>3
  <2>5. Published'
    BY <1>1, <1>3, <2>1 DEF Published
  <2>6. QED  BY <1>4, <2>2, <2>3, <2>4, <2>5, TurnsOn
<1>7. CASE tainted' = TRUE /\ To("publish") /\ UNCHANGED <<faults, strayed>>
  BY <1>5, <1>7, Bounds
<1>8. CASE Fault /\ strayed' = TRUE /\ To("publish") /\ UNCHANGED tainted
  BY <1>5, <1>8, Bounds
<1>9. QED  BY <1>1, <1>6, <1>7, <1>8

\* The workers are removed one after another, until none is left.
LEMMA NextWorkerFollows ==
  ASSUME IInv, NextWorker
  PROVE  IInv'
<1>1. PICK n \in scale.todo :
        scale' = [scale EXCEPT !.pc = "detach", !.node = n, !.todo = @ \ {n}]
  BY DEF NextWorker
<1>2. /\ op = "scale" /\ scale.pc = "next"
      /\ UNCHANGED <<nodes, vms, gluster, row, bound, allow, mounted, op, vol, job, tasks, faults, torn>>
      /\ UNCHANGED <<away, members, tainted, own, strayed, outdated>>
  BY DEF NextWorker, At, volumeVars, taskVars
<1>3. /\ scale.mode \in {"undo", "down"} /\ vol = NoVolume /\ job = NoJob /\ scale \in ScaleType
      /\ scale.todo \subseteq Workers /\ scale.vols \subseteq bound
      /\ scale.unused \cup scale.used \subseteq scale.usable
  BY <1>2, Scaling, StepKinds
<1>4. n \in Workers /\ n \in Nodes
  BY <1>3, Bounds DEF Workers
<1>5. /\ scale' \in ScaleType
      /\ scale'.pc = "detach" /\ scale'.mode = scale.mode
      /\ scale'.todo = scale.todo \ {n} /\ scale'.node = n /\ scale'.vols = scale.vols
      /\ scale'.got = scale.got /\ scale'.untaint = scale.untaint
      /\ scale'.unused = scale.unused /\ scale'.used = scale.used /\ scale'.usable = scale.usable
  BY <1>1, <1>3, <1>4, StepKinds DEF ScaleType
<1>6. Turns
  BY <1>2, <1>3, <1>5, Bounds DEF Turns
<1>7. Workers' = Workers /\ n \in Workers \ scale'.todo
  BY <1>2, <1>4, <1>5 DEF Workers
<1>8. ScaleShape'
  <2>1. \A p \in scale.got : p[1] \in bound
    BY DEF IInv, ScaleShape
  <2>2. QED  BY <1>2, <1>3, <1>5, <1>7, <2>1, StepKinds DEF ScaleShape, Removing
<1>9. Leaving' = Leaving
  BY <1>1, <1>2, <1>5 DEF Leaving, Removing
<1>10. Follows'
  BY <1>2, <1>3, <1>5, <1>7, <1>9 DEF IInv, Follows
<1>11. Published'
  BY <1>2, <1>3, <1>5 DEF Published
<1>12. \A v : Owed(v) \subseteq Owed(v)'
  <2>1. \A v : scale.mode = "undo" => Owed(v) = scale.todo /\ Owed(v)' = (scale.todo \ {n}) \cup {n}
    BY <1>2, <1>5 DEF Owed, Removing
  <2>2. \A v : scale.mode = "down" => Owed(v) = {}
    BY OwedIs
  <2>3. QED  BY <1>1, <1>3, <2>1, <2>2
<1>13. QED  BY <1>6, <1>8, <1>10, <1>11, <1>12, TurnsOn

LEMMA NoMoreWorkersFollows ==
  ASSUME IInv, NoMoreWorkers
  PROVE  IInv'
<1> DEFINE ends == scale.mode = "undo" /\ Workers # {}
           next == IF scale.mode = "undo" \/ scale.untaint THEN "untaint" ELSE "publish"
<1>1. /\ op = "scale" /\ scale.pc = "next" /\ scale.todo = {}
      /\ UNCHANGED <<nodes, vms, volumeVars, tasks, faults, torn>>
      /\ UNCHANGED <<away, members, tainted, own, strayed, outdated>>
      /\ ends => ScaleEnds
      /\ ~ends => To(next) /\ UNCHANGED <<op, vol, job>>
  BY DEF NoMoreWorkers, At, taskVars
<1>2. scale.mode \in {"undo", "down"} /\ vol = NoVolume /\ job = NoJob
  BY <1>1, Scaling, StepKinds
<1>3. \A v : Owed(v) = {}
  BY <1>1, <1>2, OwedIs DEF Removing
<1>4. UNCHANGED <<nodes, vms, gluster, row, bound, allow, mounted>> /\ Workers' = Workers
  BY <1>1 DEF volumeVars, Workers
<1>5. CASE ends
  <2>1. /\ op' = "none" /\ vol' = NoVolume /\ job' = NoJob
        /\ scale' \in ScaleType /\ scale'.mode = "none" /\ scale'.pc = "none"
        /\ scale'.todo = {} /\ scale'.vols = {} /\ scale'.got = {}
        /\ scale'.unused \cup scale'.used \subseteq scale'.usable
        /\ ScaleShape'
    BY <1>1, <1>5, ScaleEnded
  <2>2. Turns
    BY <1>1, <1>4, <2>1, Bounds DEF Turns
  <2>3. Follows'
    BY <1>1, <1>4, <1>5, <2>1 DEF IInv, Follows, Removing, Leaving
  <2>4. Published'
    BY <1>1, <1>4, <1>5, <2>1 DEF IInv, Published, Active
  <2>5. QED  BY <1>3, <2>1, <2>2, <2>3, <2>4, TurnsOn
<1>6. CASE ~ends
  <2>1. next \in Steps /\ next \in {"untaint", "publish"}
        /\ (next = "publish" <=> scale.mode = "down" /\ ~scale.untaint)
        /\ (scale.mode = "undo" => next = "untaint" /\ Workers = {})
    BY <1>2, <1>6, StepKinds
  <2>2. op' = "scale" /\ vol' = NoVolume /\ job' = NoJob
    BY <1>1, <1>2, <1>6
  <2>3. To(next)
    BY <1>1, <1>6
  <2> HIDE DEF next, ends
  <2>4. /\ Turns
        /\ UNCHANGED <<nodes, vms, gluster, row, bound, allow, mounted, torn>>
        /\ UNCHANGED <<away, members, tainted, own, strayed, outdated>>
        /\ scale' \in ScaleType
        /\ scale'.pc = next /\ scale'.mode = scale.mode /\ scale'.want = scale.want
        /\ scale'.todo = scale.todo /\ scale'.node = scale.node /\ scale'.vols = scale.vols
        /\ scale'.got = scale.got /\ scale'.untaint = scale.untaint
    BY <1>1, <2>1, <2>2, <2>3, Moving
  <2>5. ScaleShape'
    <3>1. \A p \in scale.got : p[1] \in bound
      BY DEF IInv, ScaleShape
    <3>2. QED  BY <1>1, <1>2, <1>4, <2>1, <2>2, <2>4, <3>1, StepKinds DEF ScaleShape, Removing
  <2>6. Follows'
    <3>1. Leaving = {} /\ Leaving' = {}
      BY <1>1, <2>1, <2>4 DEF Leaving, Removing
    <3>2. SUFFICES ASSUME ~strayed PROVE Follows'
      BY <2>4 DEF Follows
    <3>3. /\ vms = nodes /\ members = Workers
          /\ scale.mode = "down" => tainted /\ (scale.untaint <=> Workers = {})
      BY <1>1, <1>2, <3>1, <3>2 DEF IInv, Follows
    <3>4. QED  BY <1>2, <1>4, <2>1, <2>4, <3>1, <3>3 DEF Follows
  <2>7. Published'
    BY <1>1, <1>2, <1>4, <2>1, <2>4 DEF IInv, Published, Active
  <2>8. QED  BY <1>3, <2>4, <2>5, <2>6, <2>7, TurnsOn
<1>7. QED  BY <1>5, <1>6

\* A removal fails: the task ends, or the undoing goes on with the mounts.
LEMMA FailsOn ==
  ASSUME IInv, op = "scale", RemovalFails, Removing, vol = NoVolume, job = NoJob,
         scale.todo \subseteq nodes' \ {Master}, UNCHANGED bound,
         scale.mode = "undo" => bound \subseteq torn',
         scale.mode \in {"undo", "down"}
  PROVE  /\ outdated' = TRUE /\ op' \in {"none", "scale"} /\ vol' = NoVolume /\ job' = NoJob
         /\ scale' \in ScaleType /\ (scale'.mode = "none" <=> op' # "scale")
         /\ scale'.todo \subseteq nodes' \ {Master} /\ scale'.vols \subseteq bound
         /\ scale'.unused \cup scale'.used \subseteq scale'.usable
         /\ ScaleShape'
         /\ scale.mode = "down" => \A v : Owed(v)' = {}
<1>1. CASE scale.mode = "down"
  <2>1. ScaleEnds /\ outdated' = TRUE
    BY <1>1 DEF RemovalFails
  <2>2. /\ op' = "none" /\ vol' = NoVolume /\ job' = NoJob
        /\ scale' = NoScale /\ scale' \in ScaleType /\ scale'.mode = "none" /\ scale'.pc = "none"
        /\ scale'.todo = {} /\ scale'.vols = {} /\ scale'.got = {}
        /\ scale'.unused \cup scale'.used \subseteq scale'.usable
        /\ ScaleShape'
    BY <2>1, ScaleEnded
  <2>3. \A v : Owed(v)' = {}
    BY <2>2 DEF Owed
  <2>4. QED  BY <2>1, <2>2, <2>3
<1>2. CASE scale.mode = "undo"
  <2>1. To("unmount") /\ UNCHANGED <<op, vol, job>> /\ outdated' = TRUE
    BY <1>2 DEF RemovalFails, taskVars
  <2>2. /\ scale' \in ScaleType
        /\ scale'.pc = "unmount" /\ scale'.mode = scale.mode
        /\ scale'.todo = scale.todo /\ scale'.node = scale.node /\ scale'.vols = scale.vols
        /\ scale'.got = scale.got
        /\ scale'.mode # "none" /\ scale'.vols \subseteq bound
        /\ scale'.unused \cup scale'.used \subseteq scale'.usable
    BY <2>1, StepKinds, Goes
  <2>3. \A p \in scale.got : p[1] \in bound
    BY DEF IInv, ScaleShape
  <2>4. ScaleShape'
    BY <1>2, <2>1, <2>2, <2>3, StepKinds DEF ScaleShape, Removing
  <2>5. QED  BY <1>2, <2>1, <2>2, <2>4
<1>3. QED  BY <1>1, <1>2

LEMMA DetatchFollows ==
  ASSUME IInv, DetatchK8SWorker
  PROVE  IInv'
<1>1. /\ op = "scale" /\ scale.pc = "detach"
      /\ UNCHANGED <<nodes, vms, gluster, row, bound, allow, mounted, tasks, away, tainted, own>>
      /\ \/ /\ members' = members \ {scale.node} /\ To("destroy")
            /\ UNCHANGED <<op, vol, job, faults, torn, strayed, outdated>>
         \/ /\ Fault /\ strayed' = TRUE /\ To("destroy")
            /\ UNCHANGED <<members, op, vol, job, torn, outdated>>
         \/ /\ Fault /\ members' \in {members, members \ {scale.node}} /\ strayed' = TRUE
            /\ torn' = IF scale.mode = "undo" THEN torn \cup bound ELSE torn
            /\ RemovalFails
  BY DEF DetatchK8SWorker, DetatchWorker, At, volumeVars, taskVars
<1>2. /\ scale.mode \in {"undo", "down"} /\ vol = NoVolume /\ job = NoJob
      /\ scale.todo \subseteq Workers
  BY <1>1, Scaling, StepKinds
<1>3. Removing /\ scale.node \in Workers \ scale.todo /\ (\A p \in scale.got : p[1] \in bound)
  BY <1>1 DEF IInv, ScaleShape, Removing
<1>4. CASE /\ members' \in {members, members \ {scale.node}} /\ To("destroy")
           /\ UNCHANGED <<op, vol, job, torn, outdated>> /\ faults' \in 0..MaxFaults
           /\ strayed' \in BOOLEAN
           /\ ~strayed' => ~strayed /\ members' = members \ {scale.node}
  <2>1. /\ scale' \in ScaleType
        /\ scale'.pc = "destroy" /\ scale'.mode = scale.mode
        /\ scale'.todo = scale.todo /\ scale'.node = scale.node /\ scale'.vols = scale.vols
        /\ scale'.got = scale.got /\ scale'.untaint = scale.untaint
        /\ scale'.mode # "none" /\ scale'.todo \subseteq Workers /\ scale'.vols \subseteq bound
        /\ scale'.unused \cup scale'.used \subseteq scale'.usable
    BY <1>1, <1>4, StepKinds, Goes
  <2>2. Turns
    BY <1>1, <1>2, <1>4, <2>1, Bounds DEF Turns
  <2>3. Workers' = Workers
    BY <1>1 DEF Workers
  <2>4. ScaleShape'
    BY <1>1, <1>2, <1>3, <1>4, <2>1, <2>3, StepKinds DEF ScaleShape, Removing
  <2>5. Follows'
    <3>1. Leaving' = Leaving
      BY <1>1, <1>3, <2>1 DEF Leaving, Removing
    <3>2. SUFFICES ASSUME ~strayed, members' = members \ {scale.node} PROVE Follows'
      BY <1>4 DEF Follows
    <3>3. /\ vms = nodes /\ members = Workers
          /\ scale.mode = "undo" => (Workers # Leaving => tainted)
          /\ scale.mode = "down" => tainted /\ (scale.untaint <=> Workers = Leaving)
      BY <1>1, <1>2, <3>2 DEF IInv, Follows
    <3>4. QED  BY <1>1, <1>2, <1>4, <2>1, <2>3, <3>1, <3>3 DEF Follows
  <2>6. Published'
    BY <1>2, <2>1 DEF Published
  <2>7. \A v : Owed(v)' = Owed(v)
    BY <1>1, <2>1 DEF Owed, Removing
  <2>8. QED  BY <2>2, <2>4, <2>5, <2>6, <2>7, TurnsOn
<1>5. CASE /\ Fault /\ members' \in {members, members \ {scale.node}} /\ strayed' = TRUE
           /\ torn' = IF scale.mode = "undo" THEN torn \cup bound ELSE torn
           /\ RemovalFails
  <2>1. scale.todo \subseteq nodes' \ {Master} /\ (scale.mode = "undo" => bound \subseteq torn')
    BY <1>1, <1>2, <1>5 DEF Workers
  <2>2. UNCHANGED bound
    BY <1>1
  <2>3. /\ outdated' = TRUE /\ op' \in {"none", "scale"} /\ vol' = NoVolume /\ job' = NoJob
        /\ scale' \in ScaleType /\ (scale'.mode = "none" <=> op' # "scale")
        /\ scale'.todo \subseteq nodes' \ {Master} /\ scale'.vols \subseteq bound
        /\ scale'.unused \cup scale'.used \subseteq scale'.usable
        /\ ScaleShape'
    BY <1>1, <1>2, <1>3, <1>5, <2>1, <2>2, FailsOn
  <2>4. Turns
    BY <1>1, <1>5, <2>3, Bounds DEF Turns, Workers
  <2>5. Follows' /\ Published'
    BY <1>5, <2>3 DEF Follows, Published
  <2>6. \A v \in bound \ torn' : Owed(v) \subseteq Owed(v)'
    <3>1. CASE scale.mode = "undo"
      BY <2>1, <3>1
    <3>2. CASE scale.mode = "down"
      BY <3>2, OwedIs
    <3>3. QED  BY <1>2, <3>1, <3>2
  <2>7. QED  BY <2>3, <2>4, <2>5, <2>6, TurnsOn
<1>6. CASE /\ members' = members \ {scale.node} /\ To("destroy")
           /\ UNCHANGED <<op, vol, job, faults, torn, strayed, outdated>>
  BY <1>4, <1>6, Bounds
<1>7. CASE /\ Fault /\ strayed' = TRUE /\ To("destroy")
           /\ UNCHANGED <<members, op, vol, job, torn, outdated>>
  BY <1>4, <1>7, Bounds
<1>8. QED  BY <1>1, <1>5, <1>6, <1>7

\* The VM of a worker is gone, and its mounts with it.
LEMMA Gone ==
  ASSUME IInv, op = "scale", Removing, VmGone
  PROVE  /\ vms' = vms \ {scale.node} /\ scale.node # Master
         /\ mounted' \in [Volumes -> SUBSET Nodes]
         /\ \A v \in Volumes : mounted'[v] = mounted[v] \ {scale.node}
         /\ \A v \in Volumes : mounted[v] \subseteq nodes
BY Bounds, VolumesScaled DEF VmGone, IInv, ScaleShape, Workers

\* A worker goes with its row, its VM and its mounts,
LEMMA DeprovisionFollows ==
  ASSUME IInv, DeprovisionK8SWorker
  PROVE  IInv'
<1> DEFINE next == IF scale.mode = "undo" THEN "publish" ELSE "next"
           n == scale.node
<1>1. /\ op = "scale" /\ scale.pc = "destroy" /\ n \in vms \ away /\ VmGone
      /\ nodes' = nodes \ {n} /\ To(next)
      /\ UNCHANGED <<gluster, row, bound, allow, op, vol, job, tasks, faults, torn>>
      /\ UNCHANGED <<away, members, tainted, own, strayed, outdated>>
  BY DEF DeprovisionK8SWorker, DeleteK8SNode, At, taskVars
<1>2. /\ scale.mode \in {"undo", "down"} /\ vol = NoVolume /\ job = NoJob
      /\ scale.todo \subseteq Workers
  BY <1>1, Scaling, StepKinds
<1>3. Removing /\ n \in Workers \ scale.todo /\ (\A p \in scale.got : p[1] \in bound)
  BY <1>1 DEF IInv, ScaleShape, Removing
<1>4. next \in Steps /\ (scale.mode = "undo" => next = "publish") /\ (scale.mode = "down" => next = "next")
  BY <1>2, StepKinds
<1> HIDE DEF next
<1>5. /\ scale' \in ScaleType
      /\ scale'.pc = next /\ scale'.mode = scale.mode
      /\ scale'.todo = scale.todo /\ scale'.node = n /\ scale'.vols = scale.vols
      /\ scale'.got = scale.got /\ scale'.untaint = scale.untaint
      /\ scale'.mode # "none" /\ scale'.todo \subseteq Workers /\ scale'.vols \subseteq bound
      /\ scale'.unused \cup scale'.used \subseteq scale'.usable
  BY <1>1, <1>4, Goes
<1>6. /\ vms' = vms \ {n} /\ n # Master
      /\ mounted' \in [Volumes -> SUBSET Nodes]
      /\ \A v \in Volumes : mounted'[v] = mounted[v] \ {n}
      /\ \A v \in Volumes : mounted[v] \subseteq nodes
  BY <1>1, <1>3, Gone
<1>7. Workers' = Workers \ {n} /\ scale'.todo \subseteq nodes' \ {Master} /\ IsFiniteSet(nodes')
  BY <1>1, <1>3, <1>5, Bounds, FS_RemoveElement DEF Workers
<1>8. ScaleMoves
  BY <1>1, <1>2, <1>5, <1>6, <1>7, Bounds DEF ScaleMoves
<1>9. ScaleShape'
  BY <1>1, <1>2, <1>3, <1>4, <1>5, StepKinds DEF ScaleShape, Removing
<1>10. Follows'
  <2>1. Leaving = scale.todo \cup {n} /\ Leaving' = scale.todo
    BY <1>2, <1>3, <1>4, <1>5 DEF Leaving, Removing
  <2>2. Workers = Leaving <=> Workers' = Leaving'
    BY <1>3, <1>7, <2>1
  <2>3. SUFFICES ASSUME ~strayed PROVE Follows'
    BY <1>1 DEF Follows
  <2>4. /\ vms = nodes /\ members = Workers \ {n}
        /\ scale.mode = "undo" => (Workers # Leaving => tainted)
        /\ scale.mode = "down" => tainted /\ (scale.untaint <=> Workers = Leaving)
    BY <1>1, <1>2, <2>3 DEF IInv, Follows
  <2>5. QED  BY <1>1, <1>2, <1>4, <1>5, <1>6, <1>7, <2>2, <2>4 DEF Follows
<1>11. Published'
  BY <1>2, <1>4, <1>5 DEF Published
<1>12. \A v : Owed(v) \subseteq Owed(v)' \cup {n}
  <2>1. \A v : scale.mode = "undo" => Owed(v) = scale.todo \cup {n} /\ Owed(v)' = scale.todo
    BY <1>3, <1>4, <1>5 DEF Owed, Removing
  <2>2. \A v : scale.mode = "down" => Owed(v) = {}
    BY OwedIs
  <2>3. QED  BY <1>2, <2>1, <2>2
<1>13. \A v \in bound \ torn' : nodes' \ Owed(v)' \subseteq mounted'[v] \cap allow[v]
  <2>1. ASSUME NEW v \in bound \ torn PROVE nodes' \ Owed(v)' \subseteq mounted'[v] \cap allow[v]
    <3>1. nodes \ Owed(v) \subseteq mounted[v] \cap allow[v]
      BY <1>1, VolumesScaled
    <3>2. v \in Volumes
      BY Bounds
    <3>3. QED  BY <1>1, <1>6, <1>12, <3>1, <3>2
  <2>2. QED  BY <1>1, <2>1
<1>14. \A v \in Volumes : mounted'[v] \subseteq mounted[v] \cap nodes'
  BY <1>1, <1>6
<1>15. QED  BY <1>8, <1>9, <1>10, <1>11, <1>13, <1>14, ScaleMovesOn

\* or stays with some of them, and the volumes are torn if it was undone.
LEMMA DeprovisionFailsFollows ==
  ASSUME IInv, DeprovisionK8SWorkerFails
  PROVE  IInv'
<1> DEFINE n == scale.node
<1>1. /\ op = "scale" /\ scale.pc = "destroy" /\ strayed' = TRUE /\ RemovalFails
      /\ UNCHANGED <<gluster, row, bound, allow, tasks, away, members, tainted, own>>
      /\ torn' = IF scale.mode = "undo" \/ vms' # vms THEN torn \cup bound ELSE torn
      /\ faults' \in 0..MaxFaults
  BY Bounds DEF DeprovisionK8SWorkerFails, At
<1>2. /\ scale.mode \in {"undo", "down"} /\ vol = NoVolume /\ job = NoJob
      /\ scale.todo \subseteq Workers
  BY <1>1, Scaling, StepKinds
<1>3. Removing /\ n \in Workers \ scale.todo
  BY <1>1 DEF IInv, ScaleShape, Removing
<1>4. /\ \A v \in Volumes : mounted[v] \subseteq nodes
      /\ \A v \in bound \ torn : nodes \ Owed(v) \subseteq mounted[v] \cap allow[v]
  BY <1>1, VolumesScaled
<1>5. \/ UNCHANGED <<vms, mounted, nodes>>
      \/ n \in vms \ away /\ VmGone /\ (nodes' = nodes \ {n} \/ nodes' = nodes)
  BY DEF DeprovisionK8SWorkerFails, DeleteK8SNode
<1>6. /\ nodes' \in {nodes, nodes \ {n}} /\ vms' \in {vms, vms \ {n}} /\ away' \subseteq vms'
      /\ n # Master
      /\ mounted' \in [Volumes -> SUBSET Nodes]
      /\ \A v \in Volumes : mounted'[v] \subseteq mounted[v] \cap nodes'
      /\ UNCHANGED <<vms, mounted, nodes>> \/ vms' # vms
  <2>1. n # Master
    BY <1>3 DEF Workers
  <2>2. CASE UNCHANGED <<vms, mounted, nodes>>
    BY <1>1, <1>4, <2>1, <2>2, Bounds
  <2>3. CASE n \in vms \ away /\ VmGone /\ (nodes' = nodes \ {n} \/ nodes' = nodes)
    <3>1. /\ vms' = vms \ {n}
          /\ mounted' \in [Volumes -> SUBSET Nodes]
          /\ \A v \in Volumes : mounted'[v] = mounted[v] \ {n}
      BY <1>1, <1>3, <2>3, Gone
    <3>2. QED  BY <1>1, <1>4, <2>1, <2>3, <3>1, Bounds
  <2>4. QED  BY <1>5, <2>2, <2>3
<1>7. scale.todo \subseteq nodes' \ {Master} /\ (scale.mode = "undo" => bound \subseteq torn')
  BY <1>1, <1>2, <1>3, <1>6 DEF Workers
<1>8. UNCHANGED bound
  BY <1>1
<1>9. /\ outdated' = TRUE /\ op' \in {"none", "scale"} /\ vol' = NoVolume /\ job' = NoJob
      /\ scale' \in ScaleType /\ (scale'.mode = "none" <=> op' # "scale")
      /\ scale'.todo \subseteq nodes' \ {Master} /\ scale'.vols \subseteq bound
      /\ scale'.unused \cup scale'.used \subseteq scale'.usable
      /\ ScaleShape'
      /\ scale.mode = "down" => \A v : Owed(v)' = {}
  BY <1>1, <1>2, <1>3, <1>7, <1>8, FailsOn
<1>10. IsFiniteSet(nodes') /\ Master \in nodes' /\ Master \in vms' /\ nodes' \in SUBSET Nodes
       /\ vms' \in SUBSET Nodes
  <2>1. /\ IsFiniteSet(nodes) /\ Master \in nodes \cap vms
        /\ nodes \in SUBSET Nodes /\ vms \in SUBSET Nodes
    BY Bounds
  <2>2. IsFiniteSet(nodes \ {n})
    BY <2>1, FS_RemoveElement
  <2>3. QED  BY <1>6, <2>1, <2>2
<1>11. torn' \in {torn, torn \cup bound}
  BY <1>1
<1>12. ScaleMoves
  BY <1>1, <1>6, <1>9, <1>10, <1>11, Bounds DEF ScaleMoves
<1>13. Follows' /\ Published'
  BY <1>1, <1>9 DEF Follows, Published
<1>14. \A v \in bound \ torn' : nodes' \ Owed(v)' \subseteq mounted'[v] \cap allow[v]
  <2>1. CASE scale.mode = "undo" \/ vms' # vms
    BY <1>1, <2>1
  <2>2. CASE scale.mode = "down" /\ vms' = vms
    <3>1. UNCHANGED <<mounted, nodes>> /\ torn' = torn
      BY <1>1, <1>6, <2>2
    <3>2. \A v : Owed(v) = {}
      BY <2>2, OwedIs
    <3>3. QED  BY <1>4, <3>1, <3>2
  <2>3. QED  BY <1>2, <2>1, <2>2
<1>15. \A v \in Volumes : mounted'[v] \subseteq mounted[v] \cap nodes'
  BY <1>6
<1>16. QED  BY <1>9, <1>12, <1>13, <1>14, <1>15, ScaleMovesOn

\* With no worker left the master takes workload again.
LEMMA UntaintFollows ==
  ASSUME IInv, UntaintK8SMaster
  PROVE  IInv'
<1>1. /\ op = "scale" /\ scale.pc = "untaint"
      /\ UNCHANGED <<nodes, vms, gluster, row, bound, allow, mounted, tasks, torn, away, members, own>>
      /\ \/ /\ \/ tainted' = FALSE /\ UNCHANGED <<faults, strayed>>
               \/ Fault /\ strayed' = TRUE /\ UNCHANGED tainted
            /\ UNCHANGED outdated
            /\ scale.mode = "down" => To("publish") /\ UNCHANGED <<op, vol, job>>
            /\ scale.mode # "down" => ScaleEnds
         \/ /\ Fault /\ tainted' \in {tainted, FALSE} /\ strayed' = TRUE
            /\ outdated' = (outdated \/ scale.mode = "down") /\ ScaleEnds
  BY DEF UntaintK8SMaster, UntaintMaster, At, volumeVars, taskVars
<1>2. scale.mode \in {"undo", "down"} /\ vol = NoVolume /\ job = NoJob
  BY <1>1, Scaling, StepKinds
<1>3. scale.todo = {} /\ (\A p \in scale.got : p[1] \in bound)
  BY <1>1 DEF IInv, ScaleShape
<1>4. \A v : Owed(v) = {}
  BY <1>1, <1>2, <1>3, OwedIs DEF Removing
<1>5. Workers' = Workers /\ Active' = Active
  BY <1>1 DEF Workers, Active
<1>6. ~strayed => vms = nodes /\ members = Workers /\ Workers = {}
  BY <1>1, <1>2 DEF IInv, Follows
<1>7. ~outdated /\ scale.mode = "undo" => ToSet(own) = Active
  BY <1>1, <1>3 DEF IInv, Published
<1>8. CASE /\ tainted' \in {tainted, FALSE} /\ faults' \in 0..MaxFaults /\ UNCHANGED outdated
           /\ strayed' \in BOOLEAN /\ (strayed' \/ (tainted' = FALSE /\ strayed' = strayed))
           /\ scale.mode = "down" /\ To("publish") /\ UNCHANGED <<op, vol, job>>
  <2>1. /\ scale' \in ScaleType
        /\ scale'.pc = "publish" /\ scale'.mode = scale.mode
        /\ scale'.todo = scale.todo /\ scale'.node = scale.node /\ scale'.vols = scale.vols
        /\ scale'.got = scale.got /\ scale'.untaint = scale.untaint
        /\ scale'.mode # "none" /\ scale'.todo \subseteq Workers /\ scale'.vols \subseteq bound
        /\ scale'.unused \cup scale'.used \subseteq scale'.usable
    BY <1>1, <1>8, StepKinds, Goes
  <2>2. Turns
    BY <1>1, <1>2, <1>8, <2>1, Bounds DEF Turns
  <2>3. ScaleShape'
    BY <1>1, <1>2, <1>3, <1>8, <2>1, StepKinds DEF ScaleShape, Removing
  <2>4. Follows'
    BY <1>1, <1>5, <1>6, <1>8, <2>1 DEF Follows
  <2>5. Published'
    BY <1>8, <2>1 DEF Published
  <2>6. QED  BY <1>4, <2>2, <2>3, <2>4, <2>5, TurnsOn
<1>9. CASE /\ ScaleEnds /\ tainted' \in {tainted, FALSE} /\ faults' \in 0..MaxFaults
           /\ strayed' \in BOOLEAN /\ outdated' \in BOOLEAN
           /\ strayed' \/ (tainted' = FALSE /\ strayed' = strayed)
           /\ outdated' \/ (outdated' = outdated /\ scale.mode = "undo")
  <2>1. /\ op' = "none" /\ vol' = NoVolume /\ job' = NoJob
        /\ scale' \in ScaleType /\ scale'.mode = "none" /\ scale'.pc = "none"
        /\ scale'.todo = {} /\ scale'.vols = {} /\ scale'.got = {}
        /\ scale'.unused \cup scale'.used \subseteq scale'.usable
        /\ ScaleShape'
    BY <1>9, ScaleEnded
  <2>2. Turns
    BY <1>1, <1>9, <2>1, Bounds DEF Turns
  <2>3. Follows'
    <3>1. SUFFICES ASSUME ~strayed' PROVE Follows'
      BY DEF Follows
    <3>2. ~strayed /\ tainted' = FALSE
      BY <1>9, <3>1
    <3>3. QED  BY <1>1, <1>5, <1>6, <2>1, <3>2 DEF Follows
  <2>4. Published'
    <3>1. ~outdated' => ~outdated /\ scale.mode = "undo"
      BY <1>9
    <3>2. QED  BY <1>1, <1>5, <1>7, <2>1, <3>1 DEF Published
  <2>5. QED  BY <1>4, <2>1, <2>2, <2>3, <2>4, TurnsOn
<1>10. CASE /\ \/ tainted' = FALSE /\ UNCHANGED <<faults, strayed>>
               \/ Fault /\ strayed' = TRUE /\ UNCHANGED tainted
            /\ UNCHANGED outdated
            /\ scale.mode = "down" => To("publish") /\ UNCHANGED <<op, vol, job>>
            /\ scale.mode # "down" => ScaleEnds
  BY <1>2, <1>8, <1>9, <1>10, Bounds
<1>11. CASE /\ Fault /\ tainted' \in {tainted, FALSE} /\ strayed' = TRUE
            /\ outdated' = (outdated \/ scale.mode = "down") /\ ScaleEnds
  BY <1>2, <1>9, <1>11, Bounds
<1>12. QED  BY <1>1, <1>10, <1>11

\* The upstream is written, or nginx rejects it, and the scaling goes on.
LEMMA PublishesOn ==
  ASSUME IInv, op = "scale", scale.pc = "publish",
         UNCHANGED <<nodes, vms, gluster, row, bound, allow, mounted, tasks, torn>>,
         UNCHANGED <<away, members, tainted, strayed>>,
         faults' \in 0..MaxFaults, own' \in Seq(Servers), outdated' \in BOOLEAN,
         ~outdated' => ToSet(own') = Active,
         AfterPublishing
  PROVE  IInv'
<1>1. scale.mode \in {"up", "undo", "down"} /\ vol = NoVolume /\ job = NoJob
      /\ scale.todo \subseteq Workers
  BY Scaling, StepKinds
<1>2. Workers' = Workers /\ Active' = Active
  BY DEF Workers, Active
<1>3. CASE scale.mode = "undo"
  <2>1. To("unmount") /\ UNCHANGED <<op, vol, job>>
    BY <1>3 DEF AfterPublishing, taskVars
  <2>2. /\ scale' \in ScaleType
        /\ scale'.pc = "unmount" /\ scale'.mode = scale.mode
        /\ scale'.todo = scale.todo /\ scale'.node = scale.node /\ scale'.vols = scale.vols
        /\ scale'.got = scale.got
        /\ scale'.mode # "none" /\ scale'.todo \subseteq Workers /\ scale'.vols \subseteq bound
        /\ scale'.unused \cup scale'.used \subseteq scale'.usable
    BY <2>1, StepKinds, Goes
  <2>3. Turns
    BY <1>1, <2>1, <2>2, Bounds DEF Turns
  <2>4. ScaleShape'
    <3>1. /\ \A p \in scale.got : p[1] \in bound
          /\ scale.node \in scale.todo \/ scale.node \notin nodes \/ bound \subseteq torn
      BY <1>3 DEF IInv, ScaleShape
    <3>2. QED  BY <1>1, <1>3, <2>1, <2>2, <3>1, StepKinds DEF ScaleShape, Removing
  <2>5. Follows'
    BY <1>2, <1>3, <2>2 DEF IInv, Follows, Removing, Leaving
  <2>6. Published'
    BY <1>2, <1>3, <2>2 DEF Published
  <2>7. \A v : Owed(v)' = Owed(v)
    BY <1>3, <2>2 DEF Owed, Removing
  <2>8. QED  BY <2>3, <2>4, <2>5, <2>6, <2>7, TurnsOn
<1>4. CASE scale.mode # "undo"
  <2>1. ScaleEnds
    BY <1>4 DEF AfterPublishing
  <2>2. /\ op' = "none" /\ vol' = NoVolume /\ job' = NoJob
        /\ scale' \in ScaleType /\ scale'.mode = "none" /\ scale'.pc = "none"
        /\ scale'.todo = {} /\ scale'.vols = {} /\ scale'.got = {}
        /\ scale'.unused \cup scale'.used \subseteq scale'.usable
        /\ ScaleShape'
    BY <2>1, ScaleEnded
  <2>3. Turns
    BY <2>2, Bounds DEF Turns
  <2>4. Follows'
    <3>1. SUFFICES ASSUME ~strayed
                   PROVE  vms = nodes /\ members = Workers /\ (tainted <=> Workers # {})
      BY <1>2, <2>2 DEF Follows
    <3>2. scale.mode = "up" => Workers # {}
      BY <1>1 DEF IInv, ScaleShape
    <3>3. QED  BY <1>1, <1>4, <3>1, <3>2 DEF IInv, Follows
  <2>5. Published'
    BY <1>2, <2>2 DEF Published
  <2>6. \A v : Owed(v) = {}
    BY <1>1, <1>4, OwedIs
  <2>7. QED  BY <2>2, <2>3, <2>4, <2>5, <2>6, TurnsOn
<1>5. QED  BY <1>3, <1>4

LEMMA UpdateFollows ==
  ASSUME IInv, RequestUpdateUpstreamServers
  PROVE  IInv'
<1>1. /\ op = "scale" /\ scale.pc = "publish" /\ AfterPublishing
      /\ UNCHANGED <<nodes, vms, gluster, row, bound, allow, mounted, tasks, faults, torn>>
      /\ UNCHANGED <<away, members, tainted, strayed>>
      /\ own' \in Updated(own, Active) /\ outdated' = ~Orderly(Active)
  BY DEF RequestUpdateUpstreamServers, UpstreamUpdated, At, volumeVars
<1>2. own \in Seq(Servers) /\ IsFiniteSet(Active) /\ Active \in SUBSET Servers
  BY Bounds, ActiveFinite
<1>3. own' \in Seq(Servers)
  BY <1>1, <1>2, UpdatedParts
<1>4. Orderly(Active) => ToSet(own') = Active
  BY <1>1, <1>2, UpdatedOrderly
<1>5. outdated' \in BOOLEAN /\ (~outdated' => ToSet(own') = Active)
  BY <1>1, <1>4, Zenon
<1>6. faults' \in 0..MaxFaults
  BY <1>1, Bounds
<1>7. QED  BY <1>1, <1>3, <1>5, <1>6, PublishesOn

LEMMA UpdateFailsFollows ==
  ASSUME IInv, UpdateUpstreamServersFails
  PROVE  IInv'
<1>1. /\ op = "scale" /\ scale.pc = "publish" /\ outdated' = TRUE /\ faults' \in 0..MaxFaults
      /\ UNCHANGED <<nodes, vms, gluster, row, bound, allow, mounted, tasks, torn>>
      /\ UNCHANGED <<away, members, tainted, own, strayed>>
      /\ scale.mode = "up" => Undo("next") /\ UNCHANGED <<op, vol, job>>
      /\ scale.mode # "up" => AfterPublishing
  BY Bounds DEF UpdateUpstreamServersFails, At, volumeVars, taskVars
<1>2. vol = NoVolume /\ job = NoJob
  BY <1>1, Scaling
<1>3. CASE scale.mode = "up"
  <2>1. /\ scale' \in ScaleType
        /\ scale'.pc = "next" /\ scale'.mode = "undo" /\ scale'.vols = {}
        /\ scale'.todo = scale.todo /\ scale'.node = scale.node /\ scale'.got = scale.got
        /\ scale'.mode # "none" /\ scale'.todo \subseteq Workers /\ scale'.vols \subseteq bound
        /\ scale'.unused \cup scale'.used \subseteq scale'.usable
    BY <1>1, <1>3, StepKinds, Undone
  <2>2. op' = "scale" /\ vol' = NoVolume /\ job' = NoJob
    BY <1>1, <1>2, <1>3
  <2>3. Turns
    BY <1>1, <2>1, <2>2, Bounds DEF Turns
  <2>4. ScaleShape'
    <3>1. \A p \in scale.got : p[1] \in bound
      BY DEF IInv, ScaleShape
    <3>2. QED  BY <1>1, <2>1, <2>2, <3>1, StepKinds DEF ScaleShape, Removing
  <2>5. Follows'
    <3>1. ~strayed => vms = nodes /\ members = Workers /\ tainted
      BY <1>1, <1>3 DEF IInv, Follows
    <3>2. Workers' = Workers
      BY <1>1 DEF Workers
    <3>3. QED  BY <1>1, <2>1, <3>1, <3>2 DEF Follows
  <2>6. Published'
    BY <1>1 DEF Published
  <2>7. \A v : Owed(v) = {}
    BY <1>1, <1>3, OwedIs
  <2>8. QED  BY <2>3, <2>4, <2>5, <2>6, <2>7, TurnsOn
<1>4. CASE scale.mode # "up"
  <2>1. own' \in Seq(Servers) /\ outdated' \in BOOLEAN /\ outdated'
    BY <1>1, Bounds
  <2>2. AfterPublishing
    BY <1>1, <1>4
  <2>3. QED  BY <1>1, <2>1, <2>2, PublishesOn
<1>5. QED  BY <1>3, <1>4

\* The mounts of an undone worker are taken back, whatever comes of it.
LEMMA VolumeRolledBackFollows ==
  ASSUME IInv, VolumeRolledBack
  PROVE  IInv'
<1>1. /\ op = "scale" /\ scale.pc = "unmount" /\ job' = NoJob
      /\ scale' = [scale EXCEPT !.got = @ \ {<<job.vol, scale.node>>}]
      /\ UNCHANGED <<nodes, vms, gluster, row, bound, allow, mounted, op, vol, tasks, faults, torn>>
      /\ UNCHANGED <<away, members, tainted, own, strayed, outdated>>
  BY DEF VolumeRolledBack, At, volumeVars
<1>2. /\ scale.mode = "undo" /\ scale \in ScaleType /\ vol = NoVolume
      /\ scale.todo \subseteq Workers /\ scale.vols \subseteq bound
      /\ scale.unused \cup scale.used \subseteq scale.usable
  BY <1>1, Scaling, StepKinds
<1>3. /\ scale' \in ScaleType
      /\ scale'.pc = "unmount" /\ scale'.mode = "undo"
      /\ scale'.todo = scale.todo /\ scale'.node = scale.node /\ scale'.vols = scale.vols
      /\ scale'.got \subseteq scale.got
      /\ scale'.unused = scale.unused /\ scale'.used = scale.used /\ scale'.usable = scale.usable
  BY <1>1, <1>2 DEF ScaleType
<1>4. Turns
  BY <1>1, <1>2, <1>3, Bounds DEF Turns
<1>5. ScaleShape'
  <2>1. /\ \A p \in scale.got : p[1] \in bound
        /\ scale.node \in scale.todo \/ scale.node \notin nodes \/ bound \subseteq torn
    BY <1>1, <1>2 DEF IInv, ScaleShape
  <2>2. QED  BY <1>1, <1>2, <1>3, <2>1, StepKinds DEF ScaleShape, Removing
<1>6. Follows'
  BY <1>1, <1>2, <1>3 DEF IInv, Follows, Workers, Removing, Leaving
<1>7. Published'
  BY <1>1, <1>2, <1>3 DEF IInv, Published, Active, Workers
<1>8. \A v : Owed(v)' = Owed(v)
  BY <1>1, <1>2, <1>3 DEF Owed, Removing
<1>9. QED  BY <1>4, <1>5, <1>6, <1>7, <1>8, TurnsOn

LEMMA VolumesRolledBackFollows ==
  ASSUME IInv, VolumesRolledBack
  PROVE  IInv'
<1>1. /\ op = "scale" /\ scale.pc = "unmount" /\ OfNode = {} /\ To("next")
      /\ UNCHANGED <<nodes, vms, volumeVars, taskVars, tasks, faults, torn>>
      /\ UNCHANGED <<away, members, tainted, own, strayed, outdated>>
  BY DEF VolumesRolledBack, At
<1>2. scale.mode = "undo" /\ vol = NoVolume
  BY <1>1, Scaling, StepKinds
<1>3. job = NoJob
  <2>1. SUFFICES ASSUME job # NoJob PROVE FALSE
    OBVIOUS
  <2>2. <<job.vol, scale.node>> \in scale.got
    BY <1>1, <1>2, <2>1 DEF IInv, JobShape
  <2>3. <<job.vol, scale.node>> \in OfNode
    BY <2>2 DEF OfNode
  <2>4. QED  BY <1>1, <2>3
<1>4. op' = "scale" /\ vol' = NoVolume /\ job' = NoJob
  BY <1>1, <1>2, <1>3 DEF taskVars
<1>5. /\ Turns
      /\ UNCHANGED <<nodes, vms, gluster, row, bound, allow, mounted, torn>>
      /\ UNCHANGED <<away, members, tainted, own, strayed, outdated>>
      /\ scale' \in ScaleType
      /\ scale'.pc = "next" /\ scale'.mode = scale.mode /\ scale'.want = scale.want
      /\ scale'.todo = scale.todo /\ scale'.node = scale.node /\ scale'.vols = scale.vols
      /\ scale'.got = scale.got /\ scale'.untaint = scale.untaint
  BY <1>1, <1>4, StepKinds, Moving
<1>6. ScaleShape'
  <2>1. \A p \in scale.got : p[1] \in bound
    BY DEF IInv, ScaleShape
  <2>2. QED  BY <1>2, <1>4, <1>5, <2>1, StepKinds DEF ScaleShape, Removing
<1>7. Follows'
  BY <1>1, <1>2, <1>5 DEF IInv, Follows, Workers, Removing, Leaving
<1>8. Published'
  BY <1>1, <1>2, <1>5 DEF IInv, Published, Active, Workers
<1>9. \A v : Owed(v)' = Owed(v)
  BY <1>1, <1>2, <1>5 DEF Owed, Removing
<1>10. QED  BY <1>5, <1>6, <1>7, <1>8, <1>9, TurnsOn

----------------------------------------------------------------------------

\* The invariant holds at first, is kept, and holds always.
LEMMA Initially ==
  ASSUME Given, ScaleInit
  PROVE  IInv
<1>1. /\ nodes = {Master} /\ vms = {Master} /\ gluster = {} /\ row = {} /\ bound = {}
      /\ allow = [v \in Volumes |-> Nodes] /\ mounted = [v \in Volumes |-> {}]
      /\ op = "none" /\ vol = NoVolume /\ job = NoJob
      /\ tasks = 0 /\ faults = 0 /\ torn = {}
      /\ away = {} /\ members = {} /\ tainted = FALSE /\ own = <<Master>>
      /\ scale = NoScale /\ strayed = FALSE /\ outdated = FALSE
  BY DEF ScaleInit, GlusterInit
<1>2. Workers = {} /\ Active = {Master}
  BY <1>1 DEF Workers, Active
<1>3. own \in Seq(Servers) /\ ToSet(own) = {Master} /\ Master \in Nodes
  BY <1>1 DEF Given, Servers, ToSet
<1>4. /\ NoScale \in ScaleType /\ NoScale.mode = "none" /\ NoScale.pc = "none"
      /\ NoScale.todo = {} /\ NoScale.vols = {} /\ NoScale.got = {} /\ NoScale.node = NoNode
      /\ NoScale.used = {} /\ NoScale.unused = {} /\ NoScale.want = 0 /\ NoScale.usable = {}
      /\ NoScale.untaint = FALSE
  BY NoScaleIs DEF NoScale
<1>5. NoJob.pc = "idle" /\ NoJob.vol = NoVolume /\ NoJob.all = FALSE /\ NoJob.targets = {}
      /\ NoJob.left = {} /\ NoJob.done = {}
  BY DEF NoJob
<1>6. Typed
  <2>1. GlusterTypeOK
    <3>1. tasks \in 0..MaxTasks /\ faults \in 0..MaxFaults
      BY <1>1 DEF Given
    <3>2. allow \in [Volumes -> SUBSET Nodes] /\ mounted \in [Volumes -> SUBSET Nodes]
      BY <1>1
    <3>3. job.vol \in Volumes \cup {NoVolume} /\ job.pc = "idle" /\ job.all \in BOOLEAN
          /\ job.targets = {} /\ job.left = {} /\ job.done = {}
      BY <1>1, <1>5
    <3>4. nodes \subseteq Nodes /\ vms \subseteq Nodes /\ Master \in nodes \cap vms
      BY <1>1, <1>3
    <3>5. gluster \subseteq Volumes /\ row \subseteq Volumes /\ bound \subseteq row
          /\ vol \in Volumes \cup {NoVolume} /\ torn \subseteq Volumes
      BY <1>1
    <3>6. op = "none"
      BY <1>1
    <3>7. QED  BY <3>1, <3>2, <3>3, <3>4, <3>5, <3>6 DEF GlusterTypeOK
  <2>2. ScaleTypeOK
    <3>1. /\ scale.mode = "none" /\ scale.pc = "none" /\ scale.todo = {} /\ scale.vols = {}
          /\ scale.got = {} /\ scale.used = {} /\ scale.unused = {} /\ scale.usable = {}
          /\ scale.untaint \in BOOLEAN /\ scale.node \in Nodes \cup {NoNode}
          /\ scale.want \in 0..MaxScale /\ op = "none"
      <4>1. scale = NoScale /\ op = "none" /\ MaxScale \in Nat
        BY <1>1 DEF Given
      <4>2. NoScale.want \in 0..MaxScale
        BY <1>4, <4>1
      <4>3. NoScale.untaint \in BOOLEAN
        BY <1>4
      <4>4. QED  BY <1>4, <4>1, <4>2, <4>3
    <3>2. /\ away \subseteq vms /\ members \subseteq Nodes \ {Master} /\ tainted \in BOOLEAN
          /\ strayed \in BOOLEAN /\ outdated \in BOOLEAN
          /\ ToSet(own) \subseteq Nodes \cup OtherNodes
      BY <1>1, <1>3
    <3>3. QED  BY <2>1, <3>1, <3>2, StepKinds DEF ScaleTypeOK
  <2>3. QED  BY <1>1, <1>3, <1>4, <2>2, NoJobType, FS_Singleton DEF Typed
<1>7. ScaleShape
  BY <1>1, <1>4 DEF ScaleShape, Removing
<1>8. JobShape
  BY <1>1, <1>5 DEF JobShape
<1>9. VolumesMounted
  BY <1>1 DEF VolumesMounted
<1>10. Binding /\ Unbinding /\ Mounting
  BY <1>1, <1>5 DEF Binding, Unbinding, Mounting
<1>11. Follows /\ Published
  BY <1>1, <1>2, <1>3, <1>4 DEF Follows, Published
<1>12. QED  BY <1>6, <1>7, <1>8, <1>9, <1>10, <1>11 DEF IInv

LEMMA Keeps ==
  ASSUME IInv, [ScaleNext]_scaleVars
  PROVE  IInv'
<1>1. CASE ScaleNext
  BY <1>1, VolumeTaskFollows, JobStepFollows, OtherScalesFollows, RepublishFollows, ScaleUpFollows,
     ScaleDownFollows, ProvisionFollows, ProvisionFailsFollows, MountVolumeFollows,
     VolumeMountedFollows, VolumeFailsFollows, WorkerReadyFollows, TaintFollows,
     NextWorkerFollows, NoMoreWorkersFollows, DetatchFollows, DeprovisionFollows,
     DeprovisionFailsFollows, UntaintFollows, UpdateFollows, UpdateFailsFollows,
     RollbackVolumeFollows, VolumeRolledBackFollows, VolumesRolledBackFollows
  DEF ScaleNext
<1>2. CASE UNCHANGED scaleVars
  <2>1. UNCHANGED <<nodes, vms, gluster, row, bound, allow, mounted, op, vol, job, tasks, faults, torn>>
        /\ UNCHANGED <<away, members, tainted, own, scale, strayed, outdated>>
    BY <1>2 DEF scaleVars, volumeVars, taskVars, clusterVars
  <2>2. Typed'
    BY <2>1 DEF IInv, Typed, Given, ScaleTypeOK, GlusterTypeOK, Workers
  <2>3. ScaleShape' /\ JobShape'
    BY <2>1 DEF IInv, ScaleShape, JobShape, Removing, Workers
  <2>4. \A v : (Owed(v)' = Owed(v)) /\ (Busy(v)' = Busy(v))
    BY <2>1 DEF Owed, Removing, Busy
  <2>5. VolumesMounted'
    BY <2>1, <2>4 DEF IInv, VolumesMounted
  <2>6. Binding' /\ Unbinding' /\ Mounting'
    BY <2>1 DEF IInv, Binding, Unbinding, Mounting
  <2>7. Follows' /\ Published'
    BY <2>1 DEF IInv, Follows, Published, Workers, Removing, Leaving, Active
  <2>8. QED  BY <2>2, <2>3, <2>5, <2>6, <2>7 DEF IInv
<1>3. QED  BY <1>1, <1>2

LEMMA Always == ScaleSpec => []IInv
<1>1. ScaleInit => IInv
  BY Initially, Assumed
<1>2. IInv /\ [ScaleNext]_scaleVars => IInv'
  BY Keeps
<1>3. QED  BY <1>1, <1>2, PTL DEF ScaleSpec

\* Type correctness of rows, VMs, volumes, jobs, scalings and the upstream.
THEOREM ScaleTypeCorrect == ScaleSpec => []ScaleTypeOK
<1>1. IInv => ScaleTypeOK
  BY DEF IInv, Typed
<1>2. QED  BY <1>1, Always, PTL

\* Between tasks a bound volume is mounted and allowed on every node of the cluster
\* (mountGlusterVolumeToClusterVMs), also on workers that joined later
\* (scaleUpK8SCluster) and after rollbacks, another one is mounted nowhere, and volumes
\* have their rows; except those whose task was interrupted where torn is set.
THEOREM Holding == ScaleSpec => []BindingsHold
<1>1. IInv => BindingsHold
  <2>1. SUFFICES ASSUME IInv, op = "none", NEW v \in Volumes \ torn
                 PROVE  /\ v \in gluster <=> v \in row
                        /\ v \in bound => nodes \subseteq mounted[v] \cap allow[v]
                        /\ v \notin bound => mounted[v] = {}
    BY DEF BindingsHold, Idle
  <2>2. Owed(v) = {} /\ ~Busy(v)
    BY <2>1, NotScaling DEF Busy
  <2>3. QED  BY <2>1, <2>2 DEF IInv, VolumesMounted
<1>2. QED  BY <1>1, Always, PTL

\* Between tasks the worker VMs, the nodes kubernetes knows and the rows are the same,
\* and the master is tainted exactly while there are workers (scaleUpK8SCluster,
\* scaleDownK8SClusterNodes), unless a removal or a deployment was interrupted.
THEOREM RowsFollowed == ScaleSpec => []ClusterFollowsRows
<1>1. IInv => ClusterFollowsRows
  <2>1. SUFFICES ASSUME IInv, op = "none", ~strayed
                 PROVE  members = Workers /\ vms = nodes /\ (tainted <=> Workers # {})
    BY DEF ClusterFollowsRows, Idle
  <2>2. scale.mode = "none" /\ scale.pc = "none"
    BY <2>1, NotScaling, NoScaleIs, Bounds
  <2>3. QED  BY <2>1, <2>2 DEF IInv, Follows
<1>2. QED  BY <1>1, Always, PTL

\* Between tasks the upstream names exactly the workspace's workers, or its master
\* (updateUpstreamServersForCluster), if the last update was this workspace's, went
\* through and was orderly.
THEOREM UpstreamFollowed == ScaleSpec => []UpstreamFollowsRows
<1>1. IInv => UpstreamFollowsRows
  <2>1. SUFFICES ASSUME IInv, op = "none", ~outdated PROVE ToSet(own) = Active
    BY DEF UpstreamFollowsRows, Idle
  <2>2. scale.mode = "none"
    BY <2>1, NotScaling
  <2>3. QED  BY <2>1, <2>2 DEF IInv, Published
<1>2. QED  BY <1>1, Always, PTL
=============================================================================
