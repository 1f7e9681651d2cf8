------------------------- MODULE RunRecovery_proofs -------------------------
(***************************************************************************)
(* For any sessions, any number of retries and any crashes: one fetch for  *)
(* a request, evidence behind every "completed", and a granted session     *)
(* behind the evidence.                                                    *)
(***************************************************************************)
EXTENDS RunRecovery, TLAPS

LEMMA InitTypeOK == Init => TypeOK
<1> SUFFICES ASSUME Init PROVE TypeOK
  OBVIOUS
<1> USE DEF Init
<1>1. A!AuthTypeOK
  BY DEF A!AuthInit, A!AuthTypeOK
<1>2. version \in 0..MaxVersion /\ fetches \in Nat
  BY RunAssumption
<1>3. /\ terminal \in [Session -> {"none"} \cup Success \cup Failure]
      /\ mutex \in [Session -> Call \cup {NoCall}]
      /\ pc \in [Call -> Locations]
      /\ verdict \in [Call -> Failure]
      /\ answer \in [Call -> {"none", "refused", "in progress", "error", "lost"}
                               \cup Success \cup Failure]
  BY DEF Locations, Failure
<1>4. QED
  BY <1>1, <1>2, <1>3 DEF TypeOK

LEMMA CallsHaveSessions ==
  ASSUME NEW c \in Call PROVE SessionOf(c) \in Session
  BY RunAssumption DEF SessionOf

\* What a call's answer and place may be after the three ways to give one.
LEMMA ReplyTyped ==
  ASSUME TypeOK, NEW c \in Call,
         NEW kind \in {"refused", "in progress", "error", "lost"}
                        \cup Success \cup Failure,
         Reply(c, kind)
  PROVE  /\ pc' \in [Call -> Locations]
         /\ answer' \in [Call -> {"none", "refused", "in progress", "error", "lost"}
                                   \cup Success \cup Failure]
  BY DEF TypeOK, Reply, Go, Locations

LEMMA RaiseTyped ==
  ASSUME TypeOK, NEW c \in Call, NEW kind \in Failure, Raise(c, kind)
  PROVE  /\ pc' \in [Call -> Locations]
         /\ answer' \in [Call -> {"none", "refused", "in progress", "error", "lost"}
                                   \cup Success \cup Failure]
         /\ verdict' \in [Call -> Failure]
         /\ recovering' \subseteq Call
<1>1. /\ recovering \subseteq Call /\ verdict \in [Call -> Failure] /\ pc \in [Call -> Locations]
      /\ answer \in [Call -> {"none", "refused", "in progress", "error", "lost"}
                                \cup Success \cup Failure]
  BY DEF TypeOK
<1>2. recovering' \subseteq Call
  BY <1>1 DEF Raise
<1>3. CASE c \in recovering
  <2>1. Reply(c, "error") /\ verdict' = verdict
    BY <1>3 DEF Raise
  <2>2. QED
    BY <1>1, <1>2, <2>1, ReplyTyped
<1>4. CASE c \notin recovering
  <2>1. /\ verdict' = [verdict EXCEPT ![c] = kind]
        /\ pc' = [pc EXCEPT ![c] = "record"] /\ answer' = answer
    BY <1>4 DEF Raise, Go
  <2>2. "record" \in Locations
    BY DEF Locations
  <2>3. QED
    BY <1>1, <1>2, <2>1, <2>2
<1>5. QED
  BY <1>3, <1>4

LEMMA CompleteTyped ==
  ASSUME TypeOK, NEW c \in Call, NEW result \in Success, Complete(c, result)
  PROVE  /\ pc' \in [Call -> Locations]
         /\ answer' \in [Call -> {"none", "refused", "in progress", "error", "lost"}
                                   \cup Success \cup Failure]
         /\ verdict' \in [Call -> Failure]
         /\ recovering' \subseteq Call
         /\ terminal' \in [Session -> {"none"} \cup Success \cup Failure]
<1> DEFINE s == SessionOf(c)
<1>1. s \in Session
  BY CallsHaveSessions
<1>2. terminal[s] \in {"none"} \cup Success \cup Failure
  BY <1>1 DEF TypeOK
<1>3. CASE terminal[s] = "none"
  <2>1. Reply(c, result) /\ terminal' = [terminal EXCEPT ![s] = result]
        /\ recovering' = recovering \ {c} /\ UNCHANGED verdict
    BY <1>3 DEF Complete
  <2>2. QED
    BY <1>1, <2>1, ReplyTyped DEF TypeOK
<1>4. CASE terminal[s] # "none" /\ (terminal[s] \in Success \/ c \in recovering)
  <2>1. Reply(c, terminal[s]) /\ UNCHANGED <<terminal, verdict>>
        /\ recovering' = recovering \ {c}
    BY <1>4 DEF Complete
  <2>2. QED
    BY <1>2, <1>4, <2>1, ReplyTyped DEF TypeOK
<1>5. CASE terminal[s] # "none" /\ ~(terminal[s] \in Success \/ c \in recovering)
  <2>1. Raise(c, "failed") /\ UNCHANGED terminal
    BY <1>5 DEF Complete
  <2>2. QED
    BY <2>1, RaiseTyped DEF TypeOK, Failure
<1>6. QED
  BY <1>3, <1>4, <1>5

LEMMA ScanResultTyped == ScanResult \in Success
  BY DEF ScanResult, Success

\* Entering and leaving SCAN_WRITE_LOCK keeps mutex a function of the session.
LEMMA MutexTyped ==
  ASSUME TypeOK, NEW c \in Call, EnterMutex(c) \/ ExitMutex(c)
  PROVE  mutex' \in [Session -> Call \cup {NoCall}]
  BY CallsHaveSessions DEF TypeOK, EnterMutex, ExitMutex

LEMMA ExecutorTypeOK ==
  ASSUME TypeOK, NEW c \in Call,
         \/ Start(c) \/ Retry(c) \/ Reserve(c) \/ Domain(c) \/ Record(c)
  PROVE  TypeOK'
<1> USE DEF sessions, ledger, project, locks, progress
<1>0. SessionOf(c) \in Session
  BY CallsHaveSessions
<1>1. CASE Start(c) \/ Retry(c)
  BY <1>1 DEF Start, Retry, Go, TypeOK, Locations, A!AuthTypeOK
<1>2. CASE Reserve(c)
  <2>1. UNCHANGED <<auth, up, terminal, version, scan, runner, evidence, fetches,
                    unreported,
                    lock, mutex, recovering, verdict>>
    BY <1>2 DEF Reserve
  <2>2. /\ reserved' \subseteq Session
        /\ pc' \in [Call -> Locations]
        /\ answer' \in [Call -> {"none", "refused", "in progress", "error", "lost"}
                                  \cup Success \cup Failure]
    <3>1. CASE Reply(c, "refused") /\ UNCHANGED reserved
      BY <3>1, ReplyTyped DEF TypeOK
    <3>2. CASE /\ terminal[SessionOf(c)] # "none"
               /\ Reply(c, terminal[SessionOf(c)]) /\ UNCHANGED reserved
      <4>1. terminal[SessionOf(c)] \in Success \cup Failure
        BY <1>0, <3>2 DEF TypeOK
      <4>2. QED
        BY <3>2, <4>1, ReplyTyped DEF TypeOK
    <3>3. CASE /\ Go(c, "domain") \/ Go(c, "recover")
               /\ reserved' \in {reserved, reserved \cup {SessionOf(c)}}
               /\ UNCHANGED answer
      BY <1>0, <3>3 DEF TypeOK, Go, Locations
    <3>4. QED
      BY <1>2, <3>1, <3>2, <3>3 DEF Reserve
  <2>3. QED
    BY <2>1, <2>2 DEF TypeOK, A!AuthTypeOK
<1>3. CASE Domain(c)
  <2>1. UNCHANGED <<auth, up, reserved, version, scan, runner, evidence, fetches,
                    unreported, mutex>>
    BY <1>3 DEF Domain
  <2>2. /\ terminal' \in [Session -> {"none"} \cup Success \cup Failure]
        /\ lock' \in Call \cup {NoCall}
        /\ pc' \in [Call -> Locations]
        /\ answer' \in [Call -> {"none", "refused", "in progress", "error", "lost"}
                                  \cup Success \cup Failure]
        /\ verdict' \in [Call -> Failure]
        /\ recovering' \subseteq Call
    <3>1. CASE /\ Raise(c, "denied") \/ Raise(c, "failed")
               /\ UNCHANGED <<terminal, lock>>
      BY <3>1, RaiseTyped DEF TypeOK, Failure
    <3>2. CASE Complete(c, ScanResult) /\ UNCHANGED lock
      BY <3>2, CompleteTyped, ScanResultTyped DEF TypeOK
    <3>3. CASE /\ Go(c, "recover") \/ Go(c, "run")
               /\ lock' \in {lock, c}
               /\ UNCHANGED <<terminal, recovering, verdict, answer>>
      BY <3>3 DEF TypeOK, Go, Locations
    <3>4. QED
      BY <1>3, <3>1, <3>2, <3>3 DEF Domain, PrepareScan
  <2>3. QED
    BY <2>1, <2>2 DEF TypeOK, A!AuthTypeOK
<1>4. CASE Record(c)
  <2>1. verdict[c] \in Failure
    BY DEF TypeOK
  <2>2. /\ pc' \in [Call -> Locations]
        /\ answer' \in [Call -> {"none", "refused", "in progress", "error", "lost"}
                                  \cup Success \cup Failure]
    BY <1>4, <2>1, ReplyTyped DEF Record
  <2>3. terminal' \in [Session -> {"none"} \cup Success \cup Failure]
    BY <1>0, <1>4, <2>1 DEF Record, TypeOK
  <2>4. QED
    BY <1>4, <2>2, <2>3 DEF Record, TypeOK, A!AuthTypeOK
<1>5. QED
  BY <1>1, <1>2, <1>3, <1>4

LEMMA PipelineTypeOK ==
  ASSUME TypeOK, NEW c \in Call,
         \/ EnterReserve(c) \/ Claim(c) \/ EnterStart(c) \/ MarkRunning(c)
         \/ Fetch(c) \/ EnterPersist(c) \/ Persist(c) \/ EnterFail(c)
         \/ MarkFailed(c) \/ CommitUnreported(c) \/ Settle(c)
  PROVE  TypeOK'
<1> USE DEF sessions, ledger, project, locks, progress
<1>1. CASE EnterReserve(c) \/ EnterStart(c) \/ EnterPersist(c) \/ EnterFail(c)
  <2>1. mutex' \in [Session -> Call \cup {NoCall}]
    BY <1>1, MutexTyped DEF EnterReserve, EnterStart, EnterPersist, EnterFail
  <2>2. QED
    BY <1>1, <2>1 DEF EnterReserve, EnterStart, EnterPersist, EnterFail, Go,
       TypeOK, Locations, A!AuthTypeOK
<1>2. CASE Claim(c)
  <2>1. mutex' \in [Session -> Call \cup {NoCall}]
    BY <1>2, MutexTyped DEF Claim
  <2>2. UNCHANGED <<auth, up, reserved, terminal, evidence, fetches,
                    unreported, lock>>
    BY <1>2 DEF Claim
  <2>3. CASE /\ version = 0 /\ scan' = "queued" /\ runner' = c
             /\ version' = version + 1
             /\ Go(c, "start") /\ UNCHANGED <<recovering, verdict, answer>>
    <3>1. version' \in 0..MaxVersion
      BY <2>3, RunAssumption
    <3>2. QED
      BY <2>1, <2>2, <2>3, <3>1 DEF Go, TypeOK, Locations, A!AuthTypeOK
  <2>4. CASE Raise(c, "failed") /\ UNCHANGED <<scan, runner, version>>
    BY <2>1, <2>2, <2>4, RaiseTyped DEF TypeOK, A!AuthTypeOK, Failure
  <2>5. QED
    BY <1>2, <2>3, <2>4 DEF Claim, MayClaim
<1>3. CASE MarkRunning(c) \/ Persist(c) \/ MarkFailed(c)
  <2>1. mutex' \in [Session -> Call \cup {NoCall}]
    BY <1>3, MutexTyped DEF MarkRunning, Persist, MarkFailed
  <2>2. QED
    BY <1>3, <2>1 DEF MarkRunning, Persist, MarkFailed, Go, TypeOK, Locations,
       A!AuthTypeOK
<1>4. CASE Fetch(c)
  <2>1. fetches' \in Nat
    <3>1. fetches \in Nat /\ fetches' = fetches + 1
      BY <1>4 DEF Fetch, TypeOK
    <3>2. QED
      BY <3>1
  <2>2. pc' \in [Call -> Locations]
    BY <1>4 DEF Fetch, Go, TypeOK, Locations
  <2>3. QED
    BY <1>4, <2>1, <2>2 DEF Fetch, TypeOK, A!AuthTypeOK
<1>5. CASE Settle(c)
  <2>1. UNCHANGED <<auth, up, reserved, version, scan, runner, evidence, fetches,
                    unreported,
                    lock, mutex>>
    BY <1>5 DEF Settle
  <2>2. CASE Complete(c, ScanResult)
    BY <2>1, <2>2, CompleteTyped, ScanResultTyped DEF TypeOK, A!AuthTypeOK
  <2>3. CASE Raise(c, "denied") /\ UNCHANGED terminal
    BY <2>1, <2>3, RaiseTyped DEF TypeOK, A!AuthTypeOK, Failure
  <2>4. QED
    BY <1>5, <2>2, <2>3 DEF Settle
<1>6. CASE CommitUnreported(c)
  <2>1. mutex' \in [Session -> Call \cup {NoCall}]
    BY <1>6, MutexTyped DEF CommitUnreported
  <2>2. UNCHANGED <<auth, up, reserved, terminal, fetches, lock>>
    BY <1>6 DEF CommitUnreported
  <2>3. CASE /\ version = 0 /\ scan' = "queued" /\ runner' = c
             /\ version' = version + 1
             /\ unreported' = unreported \cup {"claim"}
             /\ Raise(c, "failed") /\ UNCHANGED evidence
    <3>1. version' \in 0..MaxVersion
      BY <2>3, RunAssumption
    <3>2. QED
      BY <2>1, <2>2, <2>3, <3>1, RaiseTyped DEF TypeOK, A!AuthTypeOK, Failure
  <2>4. CASE /\ evidence' = TRUE /\ scan' = "completed"
             /\ unreported' = unreported \cup {"evidence"}
             /\ Go(c, "fail")
             /\ UNCHANGED <<version, runner, recovering, verdict, answer>>
    BY <2>1, <2>2, <2>4 DEF Go, TypeOK, Locations, A!AuthTypeOK
  <2>5. QED
    BY <1>6, <2>3, <2>4 DEF CommitUnreported, MayClaim
<1>7. QED
  BY <1>1, <1>2, <1>3, <1>4, <1>5, <1>6

LEMMA RecoveryTypeOK ==
  ASSUME TypeOK, NEW c \in Call, Recover(c) \/ Reconcile(c) \/ LockTimeout(c),
         At(c, "reconcile") => answer[c] \in Success
  PROVE  TypeOK'
<1> USE DEF sessions, ledger, project, locks, progress
<1>0. SessionOf(c) \in Session
  BY CallsHaveSessions
<1>1. CASE Recover(c)
  <2>1. UNCHANGED <<auth, up, reserved, version, runner, evidence, fetches,
                    unreported, mutex, verdict>>
    BY <1>1 DEF Recover, RecoverOpenScan
  <2>2. MyTerminal(c) # "none" => MyTerminal(c) \in Success \cup Failure
    BY <1>0 DEF MyTerminal, TypeOK
  <2>3. /\ pc' \in [Call -> Locations]
        /\ answer' \in [Call -> {"none", "refused", "in progress", "error", "lost"}
                                  \cup Success \cup Failure]
    <3>1. ASSUME NEW kind \in {"error", "in progress"} \cup Success \cup Failure,
                 Reply(c, kind)
          PROVE  <2>3!1 /\ <2>3!2
      BY <3>1, ReplyTyped
    <3>2. CASE Go(c, "run") /\ UNCHANGED answer
      BY <3>2 DEF Go, TypeOK, Locations
    <3>3. QED
      BY <1>1, <2>2, <3>1, <3>2, ScanResultTyped DEF Recover, RecoverOpenScan, Success
  <2>4. terminal' \in [Session -> {"none"} \cup Success \cup Failure]
    BY <1>0, <1>1, ScanResultTyped DEF Recover, RecoverOpenScan, Success, TypeOK
  <2>5. scan' \in {"none", "queued", "running", "completed", "failed"}
    BY <1>1 DEF Recover, RecoverOpenScan, TypeOK
  <2>6. lock' \in Call \cup {NoCall} /\ recovering' \subseteq Call
    BY <1>1 DEF Recover, RecoverOpenScan, TypeOK
  <2>7. QED
    BY <2>1, <2>3, <2>4, <2>5, <2>6 DEF TypeOK, A!AuthTypeOK
<1>2. CASE Reconcile(c)
  <2>1. answer[c] \in Success
    BY <1>2 DEF Reconcile
  <2>2. terminal' \in [Session -> {"none"} \cup Success \cup Failure]
    BY <1>2, <2>1 DEF Reconcile, TypeOK
  <2>3. QED
    BY <1>2, <2>2 DEF Reconcile, Go, TypeOK, Locations, A!AuthTypeOK
<1>3. CASE LockTimeout(c)
  <2>1. UNCHANGED <<auth, up, reserved, terminal, version, scan, runner, evidence,
                    fetches, unreported, lock>>
    BY <1>3 DEF LockTimeout
  <2>2. mutex' \in [Session -> Call \cup {NoCall}]
    BY <1>0, <1>3 DEF LockTimeout, TypeOK
  <2>3. CASE Raise(c, "failed")
    BY <2>1, <2>2, <2>3, RaiseTyped DEF TypeOK, A!AuthTypeOK, Failure
  <2>4. CASE ~Raise(c, "failed")
    BY <1>3, <2>1, <2>2, <2>4 DEF LockTimeout, Go, TypeOK, Locations, A!AuthTypeOK
  <2>5. QED
    BY <2>3, <2>4
<1>4. QED
  BY <1>1, <1>2, <1>3

LEMMA EnvironmentTypeOK ==
  ASSUME TypeOK,
         \/ \E s \in Session :
              Register(s) \/ Approve(s) \/ Close(s) \/ Lapse(s) \/ Crash(s)
         \/ Edit
         \/ UNCHANGED vars
  PROVE  TypeOK'
<1> USE DEF sessions, ledger, project, locks, progress
<1>1. ASSUME NEW s \in Session, Register(s) \/ Approve(s) \/ Close(s) \/ Lapse(s)
      PROVE  TypeOK'
  <2>1. A!AuthTypeOK'
    BY <1>1 DEF Register, Approve, Close, Lapse, A!Register, A!Approve, A!Close,
       A!Lapse, A!AuthTypeOK, A!Active, A!Ended, A!Granted, TypeOK
  <2>2. QED
    BY <1>1, <2>1 DEF Register, Approve, Close, Lapse, TypeOK
<1>2. ASSUME NEW s \in Session, Crash(s) PROVE TypeOK'
  BY <1>2 DEF Crash, TypeOK, Locations, A!AuthTypeOK
<1>3. CASE Edit
  <2>1. version' \in 0..MaxVersion
    <3>1. version \in 0..MaxVersion /\ version < MaxVersion /\ version' = version + 1
      BY <1>3 DEF Edit, TypeOK
    <3>2. QED
      BY <3>1, RunAssumption
  <2>2. QED
    BY <1>3, <2>1 DEF Edit, TypeOK, A!AuthTypeOK
<1>4. CASE UNCHANGED vars
  BY <1>4 DEF vars, TypeOK, A!AuthTypeOK
<1>5. QED
  BY <1>1, <1>2, <1>3, <1>4

-----------------------------------------------------------------------------
\* The inductive invariant: the version guards the scan, its runner alone moves
\* it on, and "completed" is only said of committed evidence.
Inv == TypeOK /\ OneFetch /\ ScanInv /\ RunnerInv /\ ToldInv

LEMMA InitInv == Init => Inv
<1> SUFFICES ASSUME Init PROVE Inv
  OBVIOUS
<1>1. TypeOK
  BY InitTypeOK
<1>2. QED
  BY <1>1 DEF Init, Inv, OneFetch, ScanInv, RunnerInv, ToldInv, Unsaved, Before,
     Working, At

\* Nothing but process_scan and the recovery touches the scan.
scanVars == <<version, scan, runner, evidence, fetches, unreported>>

\* A step that leaves the scan alone, says completed of evidence only, and moves one call to a
\* place outside process_scan, or further inside it, keeps the invariant.
LEMMA MoveKeepsInv ==
  ASSUME Inv, TypeOK', NEW c \in Call,
         UNCHANGED scanVars,
         \A s \in Session : terminal'[s] = "completed" => evidence,
         reserved \subseteq reserved',
         \A d \in Call : d # c => pc'[d] = pc[d] /\ answer'[d] = answer[d],
         pc'[c] \in Unsaved => pc[c] \in Unsaved,
         pc'[c] \in Before => pc[c] \in Before,
         pc'[c] \in {"start", "starting", "fetch"}
           => pc[c] \in {"start", "starting", "fetch"},
         pc'[c] \in Working => SessionOf(c) \in reserved',
         answer'[c] = "completed" => evidence,
         pc'[c] = "reconcile" => answer'[c] \in Success
  PROVE  Inv'
<1>1. OneFetch' /\ ScanInv'
  BY DEF Inv, OneFetch, ScanInv, scanVars
<1>2. RunnerInv'
  BY DEF Inv, RunnerInv, scanVars, Unsaved, Before
<1>3. ToldInv'
  BY DEF Inv, ToldInv, At, scanVars
<1>4. QED
  BY <1>1, <1>2, <1>3 DEF Inv

Others(c) == \A d \in Call : d # c => pc'[d] = pc[d] /\ answer'[d] = answer[d]

LEMMA GoMoves ==
  ASSUME TypeOK, NEW c \in Call, NEW where, Go(c, where), UNCHANGED answer
  PROVE  pc'[c] = where /\ answer'[c] = answer[c] /\ Others(c)
  BY DEF TypeOK, Go, Others

LEMMA ReplyMoves ==
  ASSUME TypeOK, NEW c \in Call, NEW kind, Reply(c, kind)
  PROVE  /\ pc'[c] = IF kind \in Success THEN "reconcile" ELSE "done"
         /\ answer'[c] = kind
         /\ Others(c)
  BY DEF TypeOK, Reply, Go, Others

LEMMA RaiseMoves ==
  ASSUME TypeOK, NEW c \in Call, NEW kind, Raise(c, kind)
  PROVE  /\ pc'[c] \in {"record", "done"}
         /\ answer'[c] \in {answer[c], "error"}
         /\ Others(c)
<1>1. CASE c \in recovering
  <2>1. Reply(c, "error")
    BY <1>1 DEF Raise
  <2>2. QED
    BY <2>1, ReplyMoves DEF Success
<1>2. CASE c \notin recovering
  <2>1. Go(c, "record") /\ UNCHANGED answer
    BY <1>2 DEF Raise
  <2>2. QED
    BY <2>1, GoMoves
<1>3. QED
  BY <1>1, <1>2

LEMMA CompleteMoves ==
  ASSUME Inv, NEW c \in Call, NEW result \in Success, Complete(c, result),
         result = "completed" => evidence
  PROVE  /\ pc'[c] \in {"reconcile", "record", "done"}
         /\ pc'[c] = "reconcile" => answer'[c] \in Success
         /\ answer'[c] = "completed" => evidence
         /\ Others(c)
         /\ \A s \in Session : terminal'[s] = "completed" => evidence
<1> DEFINE s == SessionOf(c)
<1>0. TypeOK /\ s \in Session /\ (terminal[s] = "completed" => evidence)
      /\ (answer[c] = "completed" => evidence)
  BY CallsHaveSessions DEF Inv, ToldInv
<1>1. CASE terminal[s] = "none"
  <2>1. Reply(c, result) /\ terminal' = [terminal EXCEPT ![s] = result]
    BY <1>1 DEF Complete
  <2>2. \A r \in Session : terminal'[r] = "completed" => evidence
    BY <1>0, <2>1 DEF Inv, ToldInv, TypeOK
  <2>3. QED
    BY <1>0, <2>1, <2>2, ReplyMoves
<1>2. CASE terminal[s] # "none"
  <2>1. UNCHANGED terminal /\ (Reply(c, terminal[s]) \/ Raise(c, "failed"))
    BY <1>2 DEF Complete
  <2>2. \A r \in Session : terminal'[r] = "completed" => evidence
    BY <2>1 DEF Inv, ToldInv
  <2>3. CASE Reply(c, terminal[s])
    BY <1>0, <2>2, <2>3, ReplyMoves
  <2>4. CASE Raise(c, "failed")
    BY <1>0, <2>2, <2>4, RaiseMoves
  <2>5. QED
    BY <2>1, <2>3, <2>4
<1>3. QED
  BY <1>1, <1>2

LEMMA ScanResultTrue ==
  ASSUME Inv PROVE ScanResult \in Success /\ (ScanResult = "completed" => evidence)
  BY DEF Inv, ScanInv, ScanResult, Success

LEMMA ExecutorInv ==
  ASSUME Inv, NEW c \in Call,
         \/ Start(c) \/ Retry(c) \/ Reserve(c) \/ Domain(c) \/ Record(c)
  PROVE  Inv'
<1> USE DEF ledger, project
<1>0. /\ TypeOK /\ TypeOK' /\ SessionOf(c) \in Session
      /\ answer[c] = "completed" => evidence
      /\ \A s \in Session : terminal[s] = "completed" => evidence
      /\ pc[c] \in Working => SessionOf(c) \in reserved
  BY ExecutorTypeOK, CallsHaveSessions DEF Inv, ToldInv, RunnerInv
<1>1. CASE Start(c) \/ Retry(c)
  <2>1. /\ pc'[c] = "reserve" /\ answer'[c] = answer[c] /\ Others(c)
        /\ UNCHANGED <<scanVars, terminal, reserved>>
    BY <1>0, <1>1, GoMoves DEF Start, Retry, scanVars, progress
  <2>2. QED
    BY <1>0, <2>1, MoveKeepsInv DEF Others, Unsaved, Before, Working
<1>2. CASE Reserve(c)
  <2>1. UNCHANGED <<scanVars, terminal>> /\ reserved \subseteq reserved'
    BY <1>2 DEF Reserve, scanVars
  <2>2. /\ pc'[c] \in {"domain", "recover", "reconcile", "done"}
        /\ pc'[c] \in {"domain", "recover"} => SessionOf(c) \in reserved'
        /\ pc'[c] = "reconcile" => answer'[c] \in Success
        /\ answer'[c] = "completed" => evidence
        /\ Others(c)
    <3>1. CASE Reply(c, "refused")
      BY <1>0, <3>1, ReplyMoves DEF Success
    <3>2. CASE Reply(c, terminal[SessionOf(c)])
      BY <1>0, <3>2, ReplyMoves
    <3>3. CASE /\ Go(c, "domain") \/ Go(c, "recover")
               /\ SessionOf(c) \in reserved' /\ UNCHANGED answer
      BY <1>0, <3>3, GoMoves
    <3>4. QED
      BY <1>2, <3>1, <3>2, <3>3 DEF Reserve
  <2>3. QED
    BY <1>0, <2>1, <2>2, MoveKeepsInv DEF Others, Unsaved, Before, Working
<1>3. CASE Domain(c)
  <2>1. UNCHANGED <<scanVars, reserved>> /\ SessionOf(c) \in reserved
    BY <1>0, <1>3 DEF Domain, scanVars, At, Working
  <2>2. /\ pc'[c] \in {"recover", "run", "record", "reconcile", "done"}
        /\ pc'[c] = "reconcile" => answer'[c] \in Success
        /\ answer'[c] = "completed" => evidence
        /\ Others(c)
        /\ \A s \in Session : terminal'[s] = "completed" => evidence
    <3>1. CASE (Raise(c, "denied") \/ Raise(c, "failed")) /\ UNCHANGED terminal
      BY <1>0, <3>1, RaiseMoves
    <3>2. CASE Complete(c, ScanResult)
      BY <3>2, CompleteMoves, ScanResultTrue
    <3>3. CASE /\ Go(c, "recover") \/ Go(c, "run")
               /\ UNCHANGED <<terminal, answer>>
      BY <1>0, <3>3, GoMoves
    <3>4. QED
      BY <1>3, <3>1, <3>2, <3>3 DEF Domain, PrepareScan
  <2>3. QED
    BY <1>0, <2>1, <2>2, MoveKeepsInv DEF Others, Unsaved, Before, Working
<1>4. CASE Record(c)
  <2>1. UNCHANGED <<scanVars, reserved>>
    BY <1>4 DEF Record, scanVars
  <2>2. verdict[c] \in Failure
    BY <1>0 DEF TypeOK
  <2>3. /\ pc'[c] \in {"reconcile", "done"}
        /\ pc'[c] = "reconcile" => answer'[c] \in Success
        /\ answer'[c] # "completed"
        /\ Others(c)
    BY <1>0, <1>4, <2>2, ReplyMoves DEF Record, Success, Failure
  <2>4. \A s \in Session : terminal'[s] = "completed" => evidence
    BY <1>0, <1>4, <2>2 DEF Record, Failure, TypeOK
  <2>5. QED
    BY <1>0, <2>1, <2>3, <2>4, MoveKeepsInv DEF Others, Unsaved, Before, Working
<1>5. QED
  BY <1>1, <1>2, <1>3, <1>4

\* Inside process_scan the call is the runner, its operation is reserved and
\* nothing is committed yet, unless a commit raised although it took effect.
LEMMA InsideProcessScan ==
  ASSUME Inv, NEW c \in Call, pc[c] \in Unsaved
  PROVE  /\ runner = c /\ SessionOf(c) \in reserved
         /\ pc[c] \in Before => ~evidence /\ scan # "completed"
         /\ evidence => "evidence" \in unreported
         /\ scan # "none"
         /\ version # 0
         /\ \A d \in Call : d # c => pc[d] \notin Unsaved
  BY RunAssumption DEF Inv, RunnerInv, ScanInv, Unsaved, Before, Working

\* A step of the runner that sets the scan, and leaves the ledger alone.
LEMMA RunnerKeepsInv ==
  ASSUME Inv, TypeOK', NEW c \in Call, pc[c] \in Unsaved,
         UNCHANGED <<version, runner, reserved, terminal, answer>>,
         Others(c),
         scan' \in {"queued", "running", "completed", "failed"},
         scan' = "completed" => evidence',
         evidence => evidence',
         evidence' => scan' = "completed" \/ "evidence" \in unreported',
         pc'[c] \in Unsaved \cup {"settle"},
         pc'[c] \in Before => ~evidence',
         pc'[c] \in {"fail", "failing"} => (evidence' => "evidence" \in unreported'),
         fetches' <= 1,
         pc'[c] \in {"start", "starting", "fetch"} => fetches' = 0
  PROVE  Inv'
<1>1. /\ runner = c /\ SessionOf(c) \in reserved /\ version # 0
      /\ \A d \in Call : d # c => pc[d] \notin Unsaved
  BY InsideProcessScan
<1>2. runner # NoCall
  BY <1>1, RunAssumption
<1>3. OneFetch'
  BY <1>1, <1>2 DEF OneFetch
<1>4. ScanInv'
  BY <1>1, <1>2 DEF ScanInv
<1>5. RunnerInv'
  BY <1>1 DEF Inv, RunnerInv, Others, Unsaved, Before, Working
<1>6. ToldInv'
  BY <1>1 DEF Inv, ToldInv, At, Others, Unsaved
<1>7. QED
  BY <1>3, <1>4, <1>5, <1>6 DEF Inv

LEMMA PipelineInv ==
  ASSUME Inv, NEW c \in Call,
         \/ EnterReserve(c) \/ Claim(c) \/ EnterStart(c) \/ MarkRunning(c)
         \/ Fetch(c) \/ EnterPersist(c) \/ Persist(c) \/ EnterFail(c)
         \/ MarkFailed(c) \/ CommitUnreported(c) \/ Settle(c)
  PROVE  Inv'
<1> USE DEF ledger, project, progress
<1>0. /\ TypeOK /\ TypeOK' /\ SessionOf(c) \in Session
      /\ answer[c] = "completed" => evidence
      /\ \A s \in Session : terminal[s] = "completed" => evidence
      /\ pc[c] \in Working => SessionOf(c) \in reserved
  BY PipelineTypeOK, CallsHaveSessions DEF Inv, ToldInv, RunnerInv
<1>1. CASE EnterReserve(c)
  <2>1. /\ pc'[c] = "claim" /\ answer'[c] = answer[c] /\ Others(c)
        /\ UNCHANGED <<scanVars, terminal, reserved>>
        /\ SessionOf(c) \in reserved
    BY <1>0, <1>1, GoMoves DEF EnterReserve, scanVars, At, Working
  <2>2. QED
    BY <1>0, <2>1, MoveKeepsInv DEF Others, Unsaved, Before
<1>2. CASE Claim(c)
  <2>1. SessionOf(c) \in reserved /\ UNCHANGED <<reserved, terminal, evidence, fetches,
                                                 unreported>>
    BY <1>0, <1>2 DEF Claim, At, Working
  <2>2. CASE /\ version = 0 /\ scan' = "queued" /\ runner' = c
             /\ version' = version + 1
             /\ Go(c, "start") /\ UNCHANGED answer
    <3>1. /\ runner = NoCall /\ scan = "none" /\ fetches = 0 /\ ~evidence
          /\ version' # 0 /\ c # NoCall
      BY <2>2, RunAssumption DEF Inv, ScanInv
    <3>2. pc'[c] = "start" /\ Others(c)
      BY <1>0, <2>2, GoMoves
    <3>3. \A d \in Call : pc[d] \notin Unsaved
      BY <3>1, RunAssumption DEF Inv, RunnerInv
    <3>4. OneFetch' /\ ScanInv'
      BY <2>1, <2>2, <3>1 DEF OneFetch, ScanInv
    <3>5. RunnerInv'
      BY <2>1, <2>2, <3>1, <3>2, <3>3 DEF Inv, RunnerInv, Others, Unsaved, Before, Working
    <3>6. ToldInv'
      BY <2>1, <2>2, <3>1, <3>2 DEF Inv, ToldInv, At, Others
    <3>7. QED
      BY <1>0, <3>4, <3>5, <3>6 DEF Inv
  <2>3. CASE Raise(c, "failed") /\ UNCHANGED <<scan, runner, version>>
    <3>1. /\ pc'[c] \in {"record", "done"} /\ answer'[c] \in {answer[c], "error"}
          /\ Others(c)
      BY <1>0, <2>3, RaiseMoves
    <3>2. UNCHANGED scanVars
      BY <2>1, <2>3 DEF scanVars
    <3>3. QED
      BY <1>0, <2>1, <3>1, <3>2, MoveKeepsInv DEF Others, Unsaved, Before
  <2>4. QED
    BY <1>2, <2>2, <2>3 DEF Claim, MayClaim
<1>3. CASE EnterStart(c) \/ EnterPersist(c) \/ EnterFail(c)
  <2>1. /\ UNCHANGED <<scanVars, terminal, reserved, answer>>
        /\ pc[c] \in {"start", "save", "fail"}
        /\ \/ pc[c] = "start" /\ Go(c, "starting")
           \/ pc[c] = "save" /\ Go(c, "persist")
           \/ pc[c] = "fail" /\ Go(c, "failing")
    BY <1>3 DEF EnterStart, EnterPersist, EnterFail, scanVars, At
  <2>2. /\ \/ pc[c] = "start" /\ pc'[c] = "starting"
           \/ pc[c] = "save" /\ pc'[c] = "persist"
           \/ pc[c] = "fail" /\ pc'[c] = "failing"
        /\ answer'[c] = answer[c] /\ Others(c)
    BY <1>0, <2>1, GoMoves
  <2>3. QED
    BY <1>0, <2>1, <2>2, MoveKeepsInv DEF Others, Unsaved, Before, Working
<1>4. CASE MarkRunning(c) \/ Fetch(c) \/ Persist(c) \/ MarkFailed(c)
  <2>1. /\ pc[c] \in Unsaved
        /\ MarkFailed(c) \/ pc[c] \in Before
        /\ UNCHANGED <<version, runner, reserved, terminal, answer, unreported>>
    BY <1>4 DEF MarkRunning, Fetch, Persist, MarkFailed, At, Unsaved, Before
  <2>2. /\ pc[c] \in Before => ~evidence /\ scan # "completed"
        /\ evidence => "evidence" \in unreported
        /\ scan # "none"
    BY <2>1, InsideProcessScan
  <2>3. /\ pc'[c] \in Unsaved \cup {"settle"}
        /\ pc'[c] \in {"start", "starting", "fetch"} => MarkRunning(c)
        /\ MarkFailed(c) => pc'[c] = "settle"
        /\ Persist(c) => pc'[c] \in {"settle", "fail"}
        /\ Others(c)
    BY <1>0, <1>4, <2>1, GoMoves DEF MarkRunning, Fetch, Persist, MarkFailed, Unsaved
  <2>4. /\ scan' \in {"queued", "running", "completed", "failed"}
        /\ scan' = "completed" => evidence'
        /\ evidence => evidence'
        /\ evidence' => scan' = "completed" \/ "evidence" \in unreported'
    <3>1. CASE MarkFailed(c)
      BY <2>2, <3>1 DEF MarkFailed
    <3>2. CASE pc[c] \in Before
      BY <1>0, <1>4, <2>2, <3>2 DEF MarkRunning, Fetch, Persist, MarkFailed, TypeOK
    <3>3. QED
      BY <2>1, <3>1, <3>2
  <2>5. pc'[c] \in Unsaved => ~evidence'
    <3>1. CASE MarkFailed(c)
      BY <2>3, <3>1 DEF Unsaved
    <3>2. CASE MarkRunning(c) \/ Fetch(c)
      BY <2>1, <2>2, <3>2 DEF MarkRunning, Fetch, At, Before, Unsaved
    <3>3. CASE Persist(c)
      <4>1. pc[c] \in Before /\ ~evidence
        BY <2>2, <3>3 DEF Persist, At, Before, Unsaved
      <4>2. CASE Go(c, "settle")
        BY <1>0, <3>3, <4>2, GoMoves DEF Persist, Unsaved, progress
      <4>3. CASE UNCHANGED evidence
        BY <4>1, <4>3
      <4>4. QED
        BY <3>3, <4>2, <4>3 DEF Persist
    <3>4. QED
      BY <1>4, <3>1, <3>2, <3>3
  <2>6. fetches' <= 1 /\ (MarkRunning(c) => fetches' = 0)
    <3>1. CASE Fetch(c)
      <4>1. fetches = 0 /\ fetches' = fetches + 1 /\ ~MarkRunning(c)
        BY <3>1 DEF Fetch, MarkRunning, At, Inv, RunnerInv
      <4>2. QED
        BY <4>1
    <3>2. CASE ~Fetch(c)
      <4>1. UNCHANGED fetches
        BY <1>4, <3>2 DEF MarkRunning, Persist, MarkFailed
      <4>2. MarkRunning(c) => fetches = 0
        BY DEF MarkRunning, At, Inv, RunnerInv
      <4>3. fetches <= 1
        BY DEF Inv, OneFetch
      <4>4. QED
        BY <4>1, <4>2, <4>3
    <3>3. QED
      BY <3>1, <3>2
  <2>7. QED
    BY <1>0, <2>1, <2>3, <2>4, <2>5, <2>6, RunnerKeepsInv DEF Unsaved, Before
<1>5. CASE Settle(c)
  <2>1. UNCHANGED <<scanVars, reserved>> /\ SessionOf(c) \in reserved
    BY <1>0, <1>5 DEF Settle, scanVars, At, Working
  <2>2. /\ pc'[c] \in {"record", "reconcile", "done"}
        /\ pc'[c] = "reconcile" => answer'[c] \in Success
        /\ answer'[c] = "completed" => evidence
        /\ Others(c)
        /\ \A s \in Session : terminal'[s] = "completed" => evidence
    <3>1. CASE Raise(c, "denied") /\ UNCHANGED terminal
      BY <1>0, <3>1, RaiseMoves
    <3>2. CASE Complete(c, ScanResult)
      BY <3>2, CompleteMoves, ScanResultTrue
    <3>3. QED
      BY <1>5, <3>1, <3>2 DEF Settle
  <2>3. QED
    BY <1>0, <2>1, <2>2, MoveKeepsInv DEF Others, Unsaved, Before, Working
<1>6. CASE CommitUnreported(c)
  <2>1. UNCHANGED <<reserved, terminal, fetches>>
    BY <1>6 DEF CommitUnreported
  <2>2. CASE /\ At(c, "claim") /\ version = 0 /\ scan' = "queued" /\ runner' = c
             /\ version' = version + 1 /\ unreported' = unreported \cup {"claim"}
             /\ Raise(c, "failed") /\ UNCHANGED evidence
    <3>1. /\ runner = NoCall /\ scan = "none" /\ fetches = 0
          /\ version' # 0 /\ c # NoCall /\ SessionOf(c) \in reserved
          /\ evidence => "evidence" \in unreported
      BY <1>0, <2>2, RunAssumption DEF Inv, ScanInv, At, Working
    <3>2. /\ pc'[c] \in {"record", "done"} /\ answer'[c] \in {answer[c], "error"}
          /\ Others(c)
      BY <1>0, <2>2, RaiseMoves
    <3>3. \A d \in Call : pc[d] \notin Unsaved
      BY <3>1, RunAssumption DEF Inv, RunnerInv
    <3>4. OneFetch' /\ ScanInv'
      BY <2>1, <2>2, <3>1 DEF OneFetch, ScanInv
    <3>5. RunnerInv'
      BY <2>1, <2>2, <3>1, <3>2, <3>3 DEF Inv, RunnerInv, Others, Unsaved, Before, Working
    <3>6. ToldInv'
      BY <1>0, <2>1, <2>2, <3>1, <3>2 DEF Inv, ToldInv, At, Others
    <3>7. QED
      BY <1>0, <3>4, <3>5, <3>6 DEF Inv
  <2>3. CASE /\ At(c, "persist") /\ evidence' = TRUE /\ scan' = "completed"
             /\ unreported' = unreported \cup {"evidence"} /\ Go(c, "fail")
             /\ UNCHANGED <<version, runner, progress, answer>>
    <3>1. pc[c] \in Unsaved /\ pc'[c] = "fail" /\ Others(c)
      BY <1>0, <2>3, GoMoves DEF At, Unsaved
    <3>2. fetches' <= 1
      BY <2>1 DEF Inv, OneFetch
    <3>3. QED
      BY <1>0, <2>1, <2>3, <3>1, <3>2, RunnerKeepsInv DEF Unsaved, Before
  <2>4. QED
    BY <1>6, <2>2, <2>3 DEF CommitUnreported, MayClaim
<1>7. QED
  BY <1>1, <1>2, <1>3, <1>4, <1>5, <1>6

LEMMA RecoveryInv ==
  ASSUME Inv, NEW c \in Call, Recover(c) \/ Reconcile(c) \/ LockTimeout(c)
  PROVE  Inv'
<1> USE DEF ledger, project, progress
<1>0. /\ TypeOK /\ SessionOf(c) \in Session
      /\ answer[c] = "completed" => evidence
      /\ \A s \in Session : terminal[s] = "completed" => evidence
      /\ pc[c] \in Working => SessionOf(c) \in reserved
      /\ At(c, "reconcile") => answer[c] \in Success
  BY CallsHaveSessions DEF Inv, ToldInv, RunnerInv
<1>t. TypeOK'
  BY <1>0, RecoveryTypeOK
<1>1. CASE Recover(c)
  <2>1. UNCHANGED <<version, runner, evidence, fetches, unreported, reserved>>
        /\ SessionOf(c) \in reserved
    BY <1>0, <1>1 DEF Recover, At, Working
  <2>2. /\ pc'[c] \in {"run", "reconcile", "done"}
        /\ pc'[c] = "reconcile" => answer'[c] \in Success
        /\ answer'[c] = "completed" => evidence
        /\ Others(c)
    <3>1. CASE Reply(c, "error") \/ Reply(c, "in progress") \/ Reply(c, "scan failed")
      <4>1. CASE Reply(c, "error")
        BY <1>0, <4>1, ReplyMoves DEF Success
      <4>2. CASE Reply(c, "in progress")
        BY <1>0, <4>2, ReplyMoves DEF Success
      <4>3. CASE Reply(c, "scan failed")
        <5>1. pc'[c] = "reconcile" /\ answer'[c] = "scan failed" /\ Others(c)
          BY <1>0, <4>3, ReplyMoves DEF Success
        <5>2. QED
          BY <5>1 DEF Success
      <4>4. QED
        BY <3>1, <4>1, <4>2, <4>3
    <3>2. CASE Reply(c, MyTerminal(c)) \/ Reply(c, ScanResult)
      BY <1>0, <3>2, ReplyMoves, ScanResultTrue DEF MyTerminal
    <3>3. CASE Go(c, "run") /\ UNCHANGED answer
      BY <1>0, <3>3, GoMoves
    <3>4. QED
      BY <1>1, <3>1, <3>2, <3>3 DEF Recover, RecoverOpenScan
  <2>3. \A s \in Session : terminal'[s] = "completed" => evidence
    BY <1>0, <1>1, ScanResultTrue DEF Recover, RecoverOpenScan, TypeOK
  <2>4. CASE UNCHANGED scan
    BY <1>t, <2>1, <2>2, <2>3, <2>4, MoveKeepsInv DEF scanVars, Others, Unsaved, Before
  <2>5. CASE scan' # scan
    <3>1. ScanOpen /\ scan' = "failed"
      BY <1>1, <2>5 DEF Recover, RecoverOpenScan
    <3>2. /\ scan \notin {"none", "completed"}
          /\ evidence => "evidence" \in unreported
      BY <3>1 DEF ScanOpen, Inv, ScanInv
    <3>3. OneFetch' /\ ScanInv'
      BY <2>1, <3>1, <3>2 DEF Inv, OneFetch, ScanInv
    <3>4. RunnerInv'
      BY <2>1, <2>2 DEF Inv, RunnerInv, Others, Unsaved, Before, Working
    <3>5. ToldInv'
      BY <2>1, <2>2, <2>3 DEF Inv, ToldInv, At, Others
    <3>6. QED
      BY <1>t, <3>3, <3>4, <3>5 DEF Inv
  <2>6. QED
    BY <2>4, <2>5
<1>2. CASE Reconcile(c)
  <2>1. UNCHANGED <<scanVars, reserved, answer>> /\ Go(c, "done")
    BY <1>2 DEF Reconcile, scanVars
  <2>2. pc'[c] = "done" /\ answer'[c] = answer[c] /\ Others(c)
    BY <1>0, <2>1, GoMoves
  <2>3. \A s \in Session : terminal'[s] = "completed" => evidence
    BY <1>0, <1>2 DEF Reconcile, TypeOK
  <2>4. QED
    BY <1>0, <1>t, <2>1, <2>2, <2>3, MoveKeepsInv DEF Others, Unsaved, Before, Working
<1>3. CASE LockTimeout(c)
  <2>1. UNCHANGED <<scanVars, reserved, terminal>>
    BY <1>3 DEF LockTimeout, scanVars
  <2>2. /\ pc'[c] \in {"record", "fail", "done"}
        /\ pc'[c] = "fail" => pc[c] \in Unsaved
        /\ pc'[c] = "record" => SessionOf(c) \in reserved
        /\ answer'[c] \in {answer[c], "error"}
        /\ Others(c)
    <3>1. CASE /\ answer' = [answer EXCEPT ![c] = "error"]
               /\ Go(c, "done")
      BY <1>0, <3>1 DEF TypeOK, Go, Others
    <3>2. CASE pc[c] \in {"domain", "claim", "settle", "failing"} /\ Raise(c, "failed")
      BY <1>0, <3>2, RaiseMoves DEF Working, Unsaved
    <3>3. CASE pc[c] \in {"starting", "persist"} /\ Go(c, "fail") /\ UNCHANGED answer
      BY <1>0, <3>3, GoMoves DEF Unsaved
    <3>4. QED
      BY <1>3, <3>1, <3>2, <3>3 DEF LockTimeout, At
  <2>3. QED
    BY <1>0, <1>t, <2>1, <2>2, MoveKeepsInv DEF Others, Unsaved, Before, Working
<1>4. QED
  BY <1>1, <1>2, <1>3

LEMMA EnvironmentInv ==
  ASSUME Inv,
         \/ \E s \in Session :
              Register(s) \/ Approve(s) \/ Close(s) \/ Lapse(s) \/ Crash(s)
         \/ Edit
         \/ UNCHANGED vars
  PROVE  Inv'
<1> USE DEF ledger, project, progress
<1>0. TypeOK /\ TypeOK'
  BY EnvironmentTypeOK DEF Inv
<1>1. ASSUME NEW s \in Session, Crash(s) PROVE Inv'
  <2>1. UNCHANGED <<scanVars, terminal, reserved>>
    BY <1>1 DEF Crash, scanVars
  <2>2. \A c \in Call : \/ pc'[c] = pc[c] /\ answer'[c] = answer[c]
                        \/ pc'[c] = "done" /\ answer'[c] = "lost"
    BY <1>1 DEF Crash
  <2>3. OneFetch' /\ ScanInv'
    BY <2>1 DEF Inv, OneFetch, ScanInv, scanVars
  <2>4. RunnerInv'
    BY <2>1, <2>2 DEF Inv, RunnerInv, scanVars, Unsaved, Before, Working
  <2>5. ToldInv'
    BY <2>1, <2>2 DEF Inv, ToldInv, At, scanVars
  <2>6. QED
    BY <1>0, <2>3, <2>4, <2>5 DEF Inv
<1>2. CASE Edit
  <2>1. UNCHANGED <<scan, runner, evidence, fetches, unreported, terminal, reserved, pc, answer>>
    BY <1>2 DEF Edit
  <2>2. version \in Nat /\ version' = version + 1
    <3>1. version \in 0..MaxVersion /\ version' = version + 1
      BY <1>0, <1>2 DEF Edit, TypeOK
    <3>2. QED
      BY <3>1, RunAssumption
  <2>3. version' # 0
    BY <2>2
  <2>4. OneFetch' /\ ScanInv'
    BY <2>1, <2>3 DEF Inv, OneFetch, ScanInv
  <2>5. RunnerInv' /\ ToldInv'
    BY <2>1 DEF Inv, RunnerInv, ToldInv, At
  <2>6. QED
    BY <1>0, <2>4, <2>5 DEF Inv
<1>3. CASE UNCHANGED <<scanVars, terminal, reserved, pc, answer>>
  BY <1>0, <1>3 DEF Inv, OneFetch, ScanInv, RunnerInv, ToldInv, At, scanVars
<1>4. QED
  BY <1>1, <1>2, <1>3
     DEF Register, Approve, Close, Lapse, vars, scanVars

LEMMA NextInv == Inv /\ [Next]_vars => Inv'
<1> SUFFICES ASSUME Inv, [Next]_vars PROVE Inv'
  OBVIOUS
<1>1. ASSUME NEW c \in Call, Start(c) \/ Retry(c) \/ CallStep(c) PROVE Inv'
  BY <1>1, ExecutorInv, PipelineInv, RecoveryInv DEF CallStep
<1>2. QED
  BY <1>1, EnvironmentInv DEF Next

THEOREM RecoveryInvariant == Spec => []Inv
  BY InitInv, NextInv, PTL DEF Spec

\* The variables of a run and its recovery keep their types.
THEOREM RecoveryTypeCorrect == Spec => []TypeOK
<1>1. Inv => TypeOK
  BY DEF Inv
<1>2. QED
  BY <1>1, RecoveryInvariant, PTL

\* However many retries, crashes and processes: at most one fetch for a request.
THEOREM RecoveryOneFetch == Spec => []OneFetch
<1>1. Inv => OneFetch
  BY DEF Inv
<1>2. QED
  BY <1>1, RecoveryInvariant, PTL

\* "completed" is recorded and said of committed evidence only.
THEOREM RecoveryCompletedIsTrue == Spec => []CompletedIsTrue
<1>1. Inv => CompletedIsTrue
  BY DEF Inv, ScanInv, ToldInv, CompletedIsTrue, Told
<1>2. QED
  BY <1>1, RecoveryInvariant, PTL

\* Evidence is committed by the runner, inside process_scan, under its grant, and
\* stays.
LEMMA EvidenceArises ==
  ASSUME Inv, [Next]_vars, evidence' # evidence
  PROVE  /\ runner \in Call /\ runner # NoCall
         /\ auth[SessionOf(runner)] \in A!Granted
         /\ pc[runner] \in Unsaved
         /\ ~evidence /\ evidence'
<1>1. PICK c \in Call : Persist(c) \/ CommitUnreported(c)
  BY DEF Next, CallStep, vars, project, Start, Retry, Reserve, Domain, Record,
     EnterReserve, Claim, EnterStart, MarkRunning, Fetch, EnterPersist,
     EnterFail, MarkFailed, Settle, Recover, Reconcile, LockTimeout,
     Register, Approve, Close, Lapse, Crash, Edit
<1>2. pc[c] = "persist" /\ MayWrite(c) /\ evidence'
  BY <1>1 DEF Persist, CommitUnreported, At
<1>3. runner = c /\ c # NoCall /\ ~evidence
  BY <1>2, RunAssumption DEF Inv, RunnerInv, Unsaved, Before
<1>4. QED
  BY <1>2, <1>3 DEF MayWrite, Unsaved

\* The session that fetched the evidence is granted when it is committed, for
\* any number of sessions, calls and crashes.
THEOREM RecoveryEvidenceUnderGrant == Spec => EvidenceUnderGrant
<1>1. Inv /\ [Next]_vars
        => [evidence' # evidence => auth[SessionOf(runner)] \in A!Granted]_vars
  BY EvidenceArises
<1>2. QED
  BY <1>1, RecoveryInvariant, PTL DEF Spec, EvidenceUnderGrant

-----------------------------------------------------------------------------
\* What any step does to the parts of the state that never go back.

\* A terminal event is written once.
LEMMA TerminalKept ==
  ASSUME Inv, [Next]_vars, NEW s \in Session, terminal[s] # "none"
  PROVE  terminal'[s] = terminal[s]
<1>0. TypeOK
  BY DEF Inv
<1>1. ASSUME NEW c \in Call, Domain(c) \/ Record(c) \/ Settle(c) \/ Recover(c)
                               \/ Reconcile(c)
      PROVE  terminal'[s] = terminal[s]
  <2>1. CASE Domain(c) \/ Settle(c)
    BY <1>0, <2>1 DEF Domain, Settle, Complete, TypeOK
  <2>2. CASE Record(c)
    BY <1>0, <2>2 DEF Record, TypeOK
  <2>3. CASE Recover(c)
    BY <1>0, <2>3 DEF Recover, RecoverOpenScan, MyTerminal, TypeOK
  <2>4. CASE Reconcile(c)
    BY <2>4 DEF Reconcile
  <2>5. QED
    BY <1>1, <2>1, <2>2, <2>3, <2>4
<1>2. ASSUME ~ \E c \in Call : Domain(c) \/ Record(c) \/ Settle(c) \/ Recover(c)
                                \/ Reconcile(c)
      PROVE  UNCHANGED terminal
  BY <1>2 DEF Next, CallStep, vars, ledger, Start, Retry, Reserve, EnterReserve,
     Claim, EnterStart, MarkRunning, Fetch, EnterPersist, Persist, EnterFail,
     MarkFailed, CommitUnreported, LockTimeout, Register, Approve, Close, Lapse, Crash, Edit
<1>3. QED
  BY <1>1, <1>2

\* The scan keeps its runner.
LEMMA RunnerKept ==
  ASSUME Inv, [Next]_vars, runner # NoCall
  PROVE  runner' = runner
<1>1. ASSUME NEW c \in Call, Claim(c) \/ CommitUnreported(c)
      PROVE  runner' = runner
  BY <1>1 DEF Claim, CommitUnreported, MayClaim, Inv, ScanInv
<1>2. ASSUME ~ \E c \in Call : Claim(c) \/ CommitUnreported(c)
      PROVE  runner' = runner
  BY <1>2 DEF Next, CallStep, vars, project, Start, Retry, Reserve, Domain,
     Record, EnterReserve, EnterStart, MarkRunning, Fetch, EnterPersist,
     Persist, EnterFail, MarkFailed, CommitUnreported, Settle, Recover, Reconcile, LockTimeout,
     Register, Approve, Close, Lapse, Crash, Edit
<1>3. QED
  BY <1>1, <1>2

\* An authority that was had is had or over, and over is over.
LEMMA AuthKept ==
  ASSUME TypeOK, [Next]_vars, NEW s \in Session
  PROVE  /\ auth[s] # "none" => auth'[s] # "none"
         /\ auth[s] \in A!Ended => auth'[s] \in A!Ended
<1> USE DEF TypeOK, A!AuthTypeOK, A!Active, A!Ended, A!Granted
<1>1. ASSUME NEW t \in Session, Register(t) \/ Approve(t) \/ Close(t) \/ Lapse(t)
      PROVE  /\ auth[s] # "none" => auth'[s] # "none"
             /\ auth[s] \in A!Ended => auth'[s] \in A!Ended
  BY <1>1 DEF Register, Approve, Close, Lapse, A!Register, A!Approve, A!Close,
     A!Lapse
<1>2. ASSUME ~ \E t \in Session : Register(t) \/ Approve(t) \/ Close(t) \/ Lapse(t)
      PROVE  UNCHANGED auth
  BY <1>2 DEF Next, CallStep, vars, sessions, Start, Retry, Reserve, Domain,
     Record, EnterReserve, Claim, EnterStart, MarkRunning, Fetch, EnterPersist,
     Persist, EnterFail, MarkFailed, CommitUnreported, Settle, Recover, Reconcile, LockTimeout,
     Crash, Edit
<1>3. QED
  BY <1>1, <1>2

\* A reservation stays, and is made by a session that may write.
LEMMA ReservedKept ==
  ASSUME Inv, [Next]_vars
  PROVE  /\ reserved \subseteq reserved'
         /\ \A s \in reserved' \ reserved : auth[s] \in A!Granted
<1>1. ASSUME NEW c \in Call, Reserve(c)
      PROVE  /\ reserved \subseteq reserved'
             /\ \A s \in reserved' \ reserved : auth[s] \in A!Granted
  BY <1>1 DEF Reserve, MayWrite
<1>2. ASSUME ~ \E c \in Call : Reserve(c) PROVE UNCHANGED reserved
  BY <1>2 DEF Next, CallStep, vars, ledger, Start, Retry, Domain, Record,
     EnterReserve, Claim, EnterStart, MarkRunning, Fetch, EnterPersist, Persist,
     EnterFail, MarkFailed, CommitUnreported, Settle, Recover, Reconcile, LockTimeout, Register,
     Approve, Close, Lapse, Crash, Edit
<1>3. QED
  BY <1>1, <1>2

\* Where a call may go: into process_scan only as the runner of a new scan, to
\* settle only out of process_scan.
Stays(c) ==
  /\ pc'[c] \in Unsaved => pc[c] \in Unsaved \/ runner = NoCall
  /\ pc'[c] = "settle" => pc[c] \in Unsaved \cup {"settle"}

LEMMA PlaceStep ==
  ASSUME Inv, NEW c \in Call, Start(c) \/ Retry(c) \/ CallStep(c)
  PROVE  Stays(c) /\ Others(c)
<1>0. TypeOK
  BY DEF Inv
<1>1. CASE Start(c) \/ Retry(c) \/ EnterReserve(c)
  <2>1. pc'[c] \in {"reserve", "claim"} /\ Others(c)
    BY <1>0, <1>1, GoMoves DEF Start, Retry, EnterReserve, progress
  <2>2. QED
    BY <2>1 DEF Stays, Unsaved
<1>2. CASE Reserve(c)
  <2>1. pc'[c] \in {"domain", "recover", "reconcile", "done"} /\ Others(c)
    BY <1>0, <1>2, GoMoves, ReplyMoves DEF Reserve
  <2>2. QED
    BY <2>1 DEF Stays, Unsaved
<1>3. CASE Domain(c) \/ Settle(c)
  <2>1. \/ Raise(c, "denied") \/ Raise(c, "failed")
        \/ Complete(c, ScanResult)
        \/ (Go(c, "recover") \/ Go(c, "run")) /\ UNCHANGED answer
    BY <1>3 DEF Domain, Settle, PrepareScan
  <2>2. pc'[c] \in {"recover", "run", "reconcile", "record", "done"} /\ Others(c)
    BY <1>0, <2>1, RaiseMoves, CompleteMoves, ScanResultTrue, GoMoves
  <2>3. QED
    BY <2>2 DEF Stays, Unsaved
<1>4. CASE Record(c)
  <2>1. pc'[c] \in {"reconcile", "done"} /\ Others(c)
    BY <1>0, <1>4, ReplyMoves DEF Record
  <2>2. QED
    BY <2>1 DEF Stays, Unsaved
<1>5. CASE Claim(c)
  <2>1. CASE MayClaim /\ Go(c, "start") /\ UNCHANGED answer
    <3>1. runner = NoCall
      BY <2>1 DEF MayClaim, Inv, ScanInv
    <3>2. pc'[c] = "start" /\ Others(c)
      BY <1>0, <2>1, GoMoves
    <3>3. QED
      BY <3>1, <3>2 DEF Stays
  <2>2. CASE Raise(c, "failed")
    <3>1. pc'[c] \in {"record", "done"} /\ Others(c)
      BY <1>0, <2>2, RaiseMoves
    <3>2. QED
      BY <3>1 DEF Stays, Unsaved
  <2>3. QED
    BY <1>5, <2>1, <2>2 DEF Claim
<1>6. CASE \/ EnterStart(c) \/ MarkRunning(c) \/ Fetch(c) \/ EnterPersist(c)
           \/ Persist(c) \/ EnterFail(c) \/ MarkFailed(c)
  <2>1. pc[c] \in Unsaved /\ UNCHANGED answer /\ \E where : Go(c, where)
    BY <1>6 DEF EnterStart, MarkRunning, Fetch, EnterPersist, Persist, EnterFail,
       MarkFailed, At, Unsaved
  <2>2. QED
    BY <1>0, <2>1, GoMoves DEF Stays
<1>7. CASE Recover(c)
  <2>1. \/ \E kind : Reply(c, kind)
        \/ Go(c, "run") /\ UNCHANGED answer
    BY <1>7 DEF Recover, RecoverOpenScan
  <2>2. pc'[c] \in {"run", "reconcile", "done"} /\ Others(c)
    BY <1>0, <2>1, ReplyMoves, GoMoves
  <2>3. QED
    BY <2>2 DEF Stays, Unsaved
<1>8. CASE Reconcile(c)
  <2>1. pc'[c] = "done" /\ Others(c)
    BY <1>0, <1>8, GoMoves DEF Reconcile
  <2>2. QED
    BY <2>1 DEF Stays, Unsaved
<1>9. CASE LockTimeout(c)
  <2>1. CASE /\ answer' = [answer EXCEPT ![c] = "error"]
             /\ Go(c, "done")
    BY <1>0, <2>1 DEF TypeOK, Go, Others, Stays, Unsaved
  <2>2. CASE Raise(c, "failed")
    <3>1. pc'[c] \in {"record", "done"} /\ Others(c)
      BY <1>0, <2>2, RaiseMoves
    <3>2. QED
      BY <3>1 DEF Stays, Unsaved
  <2>3. CASE pc[c] \in {"starting", "persist"} /\ Go(c, "fail") /\ UNCHANGED answer
    <3>1. pc'[c] = "fail" /\ pc[c] \in Unsaved /\ Others(c)
      BY <1>0, <2>3, GoMoves DEF Unsaved
    <3>2. QED
      BY <3>1 DEF Stays
  <2>4. QED
    BY <1>9, <2>1, <2>2, <2>3 DEF LockTimeout
<1>10. CASE CommitUnreported(c)
  <2>1. CASE Raise(c, "failed")
    <3>1. pc'[c] \in {"record", "done"} /\ Others(c)
      BY <1>0, <2>1, RaiseMoves
    <3>2. QED
      BY <3>1 DEF Stays, Unsaved
  <2>2. CASE At(c, "persist") /\ Go(c, "fail") /\ UNCHANGED answer
    <3>1. pc'[c] = "fail" /\ pc[c] \in Unsaved /\ Others(c)
      BY <1>0, <2>2, GoMoves DEF At, Unsaved
    <3>2. QED
      BY <3>1 DEF Stays
  <2>3. QED
    BY <1>10, <2>1, <2>2 DEF CommitUnreported
<1>11. QED
  BY <1>1, <1>2, <1>3, <1>4, <1>5, <1>6, <1>7, <1>8, <1>9, <1>10 DEF CallStep

\* The same of every call and every step.
LEMMA AllStay ==
  ASSUME Inv, [Next]_vars, NEW d \in Call
  PROVE  Stays(d)
<1>1. ASSUME NEW c \in Call, Start(c) \/ Retry(c) \/ CallStep(c) PROVE Stays(d)
  <2>1. CASE c = d
    BY <1>1, <2>1, PlaceStep
  <2>2. CASE c # d
    BY <1>1, <2>2, PlaceStep DEF Others, Stays, Unsaved
  <2>3. QED
    BY <2>1, <2>2
<1>2. ASSUME NEW s \in Session, Crash(s) PROVE Stays(d)
  BY <1>2 DEF Crash, Stays, Unsaved
<1>3. ASSUME UNCHANGED pc PROVE Stays(d)
  BY <1>3 DEF Stays, Unsaved
<1>4. QED
  BY <1>1, <1>2, <1>3 DEF Next, vars, Register, Approve, Close, Lapse, Edit

\* A scan that is harmless stays so.
LEMMA HarmlessStays ==
  ASSUME Inv, [Next]_vars, Harmless, SomeFailed \/ scan = "failed",
         SessionOf(runner) \in Session
  PROVE  Harmless'
<1>1. runner' = runner /\ runner # NoCall
  BY RunnerKept DEF Harmless
<1> DEFINE R == SessionOf(runner)
<1>2. CASE terminal[R] \in {"scan failed"} \cup Failure
  <2>1. terminal'[R] = terminal[R]
    BY <1>2, TerminalKept DEF Failure
  <2>2. QED
    BY <1>1, <1>2, <2>1 DEF Harmless, SessionOf
<1>3. CASE evidence
  BY <1>1, <1>3, EvidenceArises DEF Harmless
<1>4. CASE /\ terminal[R] \notin {"scan failed"} \cup Failure
           /\ auth[R] \in A!Ended \/ pc[runner] \notin Unsaved
  <2>1. runner \in Call /\ TypeOK
    BY <1>1 DEF Inv, TypeOK
  <2>2. auth'[R] \in A!Ended \/ pc'[runner] \notin Unsaved
    BY <1>1, <1>4, <2>1, AuthKept, AllStay DEF Stays
  <2>3. QED
    BY <1>1, <2>2 DEF Harmless, SessionOf
<1>5. QED
  BY <1>2, <1>3, <1>4 DEF Harmless

\* What was said of a failed scan is not taken back.
LEMMA SomeFailedKept ==
  ASSUME Inv, [Next]_vars, SomeFailed
  PROVE  SomeFailed'
  BY TerminalKept DEF SomeFailed

\* The runner of a scan exists and its session holds a reservation.
LEMMA RunnerOfScan ==
  ASSUME Inv, ClosedInv, runner # NoCall
  PROVE  /\ runner \in Call /\ SessionOf(runner) \in Session
         /\ SessionOf(runner) \in reserved
         /\ auth[SessionOf(runner)] # "none"
<1>1. runner \in Call /\ reserved \subseteq Session
  BY DEF Inv, TypeOK
<1>2. QED
  BY <1>1, CallsHaveSessions DEF ClosedInv

\* Complete records the result or finds an event that is there already.
LEMMA CompleteRecords ==
  ASSUME Inv, NEW c \in Call, NEW result \in Success, Complete(c, result)
  PROVE  \/ UNCHANGED terminal
         \/ terminal' = [terminal EXCEPT ![SessionOf(c)] = result]
  BY DEF Complete

\* Closing somebody else's open scan is harmless: the runner's operation has its
\* event, or its session has ended.
LEMMA ClosingHarmless ==
  ASSUME Inv, ClosedInv, NEW c \in Call, Recover(c), ScanOpen,
         MayCloseScan(SessionOf(c)),
         terminal' = [terminal EXCEPT ![SessionOf(c)] = "scan failed"]
  PROVE  Harmless'
<1> DEFINE s == SessionOf(c)
<1> DEFINE R == SessionOf(runner)
<1>1. runner # NoCall
  BY DEF Inv, ScanInv, ScanOpen
<1>2. /\ R \in Session /\ R \in reserved /\ auth[R] # "none"
      /\ s \in Session /\ TypeOK
  BY <1>1, RunnerOfScan, CallsHaveSessions DEF Inv
<1>3. UNCHANGED <<auth, runner, evidence>>
  BY DEF Recover, sessions
<1>4. CASE R = s
  BY <1>1, <1>2, <1>3, <1>4 DEF Harmless, TypeOK, SessionOf
<1>5. CASE R # s /\ terminal[R] = "none"
  <2>1. auth[R] \notin A!Active
    BY <1>2, <1>5 DEF MayCloseScan, OwnersGone, IncompletePrior
  <2>2. auth[R] \in A!Ended
    BY <1>2, <2>1 DEF TypeOK, A!AuthTypeOK
  <2>3. QED
    BY <1>1, <1>3, <2>2 DEF Harmless, SessionOf
<1>6. CASE evidence
  BY <1>1, <1>3, <1>6 DEF Harmless
<1>7. CASE R # s /\ terminal[R] # "none" /\ ~evidence
  <2>1. terminal[R] \in {"scan failed"} \cup Failure
    BY <1>1, <1>2, <1>7 DEF TypeOK, Success, Inv, ToldInv
  <2>2. terminal'[R] = terminal[R]
    BY <1>2, <1>7 DEF TypeOK
  <2>3. QED
    BY <1>1, <1>3, <2>1, <2>2 DEF Harmless, SessionOf
<1>8. QED
  BY <1>4, <1>5, <1>6, <1>7

\* Whoever first says that the scan failed, it is harmless from then on.
LEMMA FailedArises ==
  ASSUME Inv, ClosedInv, [Next]_vars,
         (SomeFailed' /\ ~SomeFailed) \/ (scan' = "failed" /\ scan # "failed")
  PROVE  Harmless'
<1>0. TypeOK
  BY DEF Inv
<1>a. ASSUME scan = "failed" PROVE Harmless'
  <2>1. Harmless /\ SessionOf(runner) \in Session
    BY <1>a, RunnerOfScan DEF ClosedInv, Harmless
  <2>2. QED
    BY <1>a, <2>1, HarmlessStays
<1>b. ASSUME NEW s \in Session, NEW event, event # "scan failed",
             terminal' = [terminal EXCEPT ![s] = event]
      PROVE  SomeFailed' => SomeFailed
  BY <1>0, <1>b DEF SomeFailed, TypeOK
<1>1. ASSUME NEW c \in Call, MarkFailed(c) PROVE Harmless'
  <2>1. pc[c] \in Unsaved /\ UNCHANGED <<evidence, runner, answer>> /\ Go(c, "settle")
    BY <1>1 DEF MarkFailed, At, Unsaved
  <2>2. runner = c /\ c # NoCall
    BY <2>1, InsideProcessScan, RunAssumption
  <2>3. pc'[c] = "settle"
    BY <1>0, <2>1, GoMoves
  <2>4. QED
    BY <2>1, <2>2, <2>3 DEF Harmless, Unsaved
<1>2. ASSUME NEW c \in Call, Domain(c) PROVE Harmless'
  <2>1. UNCHANGED scan /\ ~SomeFailed /\ SomeFailed'
    BY <1>2 DEF Domain, project
  <2>2. ScanClosed /\ Complete(c, ScanResult)
    <3>1. UNCHANGED terminal => (SomeFailed' => SomeFailed)
      BY DEF SomeFailed
    <3>2. QED
      BY <1>2, <2>1, <3>1 DEF Domain
  <2>3. terminal' = [terminal EXCEPT ![SessionOf(c)] = ScanResult]
    BY <2>1, <2>2, CompleteRecords, ScanResultTrue DEF SomeFailed
  <2>4. ScanResult = "scan failed"
    BY <1>b, <2>1, <2>3, CallsHaveSessions
  <2>5. scan = "failed"
    BY <2>2, <2>4 DEF ScanClosed, ScanResult
  <2>6. QED
    BY <1>a, <2>5
<1>3. ASSUME NEW c \in Call, Settle(c) PROVE Harmless'
  <2>1. UNCHANGED <<scan, runner, evidence>> /\ ~SomeFailed /\ SomeFailed'
    BY <1>3 DEF Settle, project
  <2>2. runner = c /\ c # NoCall /\ SessionOf(c) \in Session
    BY <1>3, RunAssumption, CallsHaveSessions DEF Settle, ClosedInv
  <2>3. Complete(c, ScanResult)
    <3>1. UNCHANGED terminal => (SomeFailed' => SomeFailed)
      BY DEF SomeFailed
    <3>2. QED
      BY <1>3, <2>1, <3>1 DEF Settle
  <2>4. terminal' = [terminal EXCEPT ![SessionOf(c)] = ScanResult]
    BY <2>1, <2>3, CompleteRecords, ScanResultTrue DEF SomeFailed
  <2>5. ScanResult = "scan failed"
    BY <1>b, <2>1, <2>2, <2>4
  <2>6. QED
    BY <1>0, <2>1, <2>2, <2>4, <2>5 DEF Harmless, TypeOK, SessionOf
<1>4. ASSUME NEW c \in Call, Record(c) PROVE FALSE
  <2>1. UNCHANGED scan /\ verdict[c] # "scan failed" /\ SessionOf(c) \in Session
    BY <1>0, <1>4, CallsHaveSessions DEF Record, project, TypeOK, Failure
  <2>2. UNCHANGED terminal => (SomeFailed' => SomeFailed)
    BY DEF SomeFailed
  <2>3. QED
    BY <1>4, <1>b, <2>1, <2>2 DEF Record
<1>5. ASSUME NEW c \in Call, Recover(c) PROVE Harmless'
  <2>0. SessionOf(c) \in Session
    BY CallsHaveSessions
  <2>1. CASE /\ ScanOpen /\ MayCloseScan(SessionOf(c))
             /\ terminal' = [terminal EXCEPT ![SessionOf(c)] = "scan failed"]
    BY <1>5, <2>1, ClosingHarmless
  <2>2. CASE /\ ScanClosed /\ UNCHANGED scan
             /\ terminal' = [terminal EXCEPT ![SessionOf(c)] = ScanResult]
    <3>1. ScanResult = "scan failed"
      BY <1>b, <2>0, <2>2
    <3>2. QED
      BY <1>a, <2>2, <3>1 DEF ScanClosed, ScanResult
  <2>3. CASE UNCHANGED <<terminal, scan>>
    BY <2>3 DEF SomeFailed
  <2>4. QED
    BY <1>5, <2>1, <2>2, <2>3 DEF Recover, RecoverOpenScan
<1>6. ASSUME NEW c \in Call, Reconcile(c) PROVE FALSE
  <2>1. At(c, "reconcile") /\ UNCHANGED scan
    BY <1>6 DEF Reconcile, project
  <2>2. PICK s \in Session : terminal'[s] = "scan failed" /\ terminal[s] # "scan failed"
    BY <2>1 DEF SomeFailed
  <2>3. answer[c] = "scan failed"
    BY <1>6, <2>2 DEF Reconcile
  <2>4. QED
    BY <2>1, <2>3 DEF ClosedInv
<1>7. ASSUME ~ \E c \in Call : \/ MarkFailed(c) \/ Domain(c) \/ Settle(c)
                              \/ Record(c) \/ Recover(c) \/ Reconcile(c)
      PROVE  UNCHANGED terminal /\ scan' \in {scan, "queued", "running", "completed"}
  BY <1>7 DEF Next, CallStep, vars, ledger, project, Start, Retry, Reserve,
     EnterReserve, Claim, EnterStart, MarkRunning, Fetch, EnterPersist, Persist,
     EnterFail, CommitUnreported, LockTimeout, Register, Approve, Close, Lapse, Crash,
     Edit
<1>8. QED
  <2>1. UNCHANGED terminal => (SomeFailed' => SomeFailed)
    BY DEF SomeFailed
  <2>2. QED
    BY <1>1, <1>2, <1>3, <1>4, <1>5, <1>6, <1>7, <2>1

\* A call that goes on to reconcile a failed scan has the failure on record.
LEMMA ToldRecorded ==
  ASSUME Inv, ClosedInv, NEW c \in Call, Start(c) \/ Retry(c) \/ CallStep(c),
         pc'[c] = "reconcile", answer'[c] = "scan failed"
  PROVE  SomeFailed'
<1>0. TypeOK /\ SessionOf(c) \in Session
  BY CallsHaveSessions DEF Inv
<1>1. [Next]_vars
  BY DEF Next
<1>2. ASSUME NEW s \in Session, terminal[s] = "scan failed" PROVE SomeFailed'
  BY <1>1, <1>2, SomeFailedKept DEF SomeFailed
<1>3. ASSUME terminal' = [terminal EXCEPT ![SessionOf(c)] = "scan failed"]
      PROVE  SomeFailed'
  BY <1>0, <1>3 DEF SomeFailed, TypeOK
<1>4. ASSUME NEW kind, Reply(c, kind) PROVE kind = "scan failed"
  BY <1>0, <1>4, ReplyMoves
<1>a. ASSUME NEW where, where # "reconcile", Go(c, where), UNCHANGED answer
       PROVE  FALSE
  BY <1>0, <1>a, GoMoves
<1>5. CASE Reserve(c)
  <2>1. CASE Reply(c, terminal[SessionOf(c)])
    BY <1>0, <1>2, <1>4, <2>1
  <2>2. CASE (Go(c, "domain") \/ Go(c, "recover")) /\ UNCHANGED answer
    BY <1>a, <2>2
  <2>3. QED
    BY <1>4, <1>5, <2>1, <2>2 DEF Reserve
<1>6. CASE Domain(c) \/ Settle(c)
  <2>1. CASE Raise(c, "denied") \/ Raise(c, "failed")
    BY <1>0, <2>1, RaiseMoves
  <2>2. CASE (Go(c, "recover") \/ Go(c, "run")) /\ UNCHANGED answer
    BY <1>a, <2>2
  <2>3. CASE Complete(c, ScanResult)
    <3>1. CASE /\ Reply(c, ScanResult)
               /\ terminal' = [terminal EXCEPT ![SessionOf(c)] = ScanResult]
      BY <1>3, <1>4, <3>1
    <3>2. CASE Reply(c, terminal[SessionOf(c)])
      BY <1>0, <1>2, <1>4, <3>2
    <3>3. CASE Raise(c, "failed")
      BY <1>0, <3>3, RaiseMoves
    <3>4. QED
      BY <2>3, <3>1, <3>2, <3>3 DEF Complete
  <2>4. QED
    BY <1>6, <2>1, <2>2, <2>3 DEF Domain, Settle, PrepareScan
<1>7. CASE Record(c)
  BY <1>0, <1>4, <1>7 DEF Record, TypeOK, Failure
<1>8. CASE Recover(c)
  <2>1. CASE Reply(c, MyTerminal(c))
    BY <1>0, <1>2, <1>4, <2>1 DEF MyTerminal
  <2>2. CASE /\ Reply(c, "scan failed")
             /\ terminal' = [terminal EXCEPT ![SessionOf(c)] = "scan failed"]
    BY <1>3, <2>2
  <2>3. CASE /\ Reply(c, ScanResult)
             /\ terminal' = [terminal EXCEPT ![SessionOf(c)] = ScanResult]
    BY <1>3, <1>4, <2>3
  <2>4. CASE Reply(c, "error") \/ Reply(c, "in progress")
    BY <1>4, <2>4
  <2>5. CASE Go(c, "run") /\ UNCHANGED answer
    BY <1>a, <2>5
  <2>6. QED
    BY <1>8, <2>1, <2>2, <2>3, <2>4, <2>5 DEF Recover, RecoverOpenScan
<1>9. CASE Claim(c) \/ CommitUnreported(c) \/ LockTimeout(c)
  <2>1. CASE Raise(c, "failed")
    BY <1>0, <2>1, RaiseMoves
  <2>2. CASE (Go(c, "start") \/ Go(c, "fail")) /\ UNCHANGED answer
    BY <1>a, <2>2
  <2>3. CASE Go(c, "done") /\ answer' = [answer EXCEPT ![c] = "error"]
    BY <1>0, <2>3 DEF TypeOK
  <2>4. QED
    BY <1>9, <2>1, <2>2, <2>3 DEF Claim, CommitUnreported, LockTimeout
<1>11. CASE Start(c) \/ Retry(c) \/ EnterReserve(c) \/ EnterStart(c) \/ MarkRunning(c)
  BY <1>a, <1>11 DEF Start, Retry, EnterReserve, EnterStart, MarkRunning
<1>12. CASE Fetch(c) \/ EnterPersist(c) \/ Persist(c) \/ EnterFail(c) \/ MarkFailed(c)
  BY <1>a, <1>12 DEF Fetch, EnterPersist, Persist, EnterFail, MarkFailed
<1>13. CASE Reconcile(c)
  BY <1>0, <1>13 DEF Reconcile, Go, TypeOK
<1>14. QED
  BY <1>5, <1>6, <1>7, <1>8, <1>9, <1>11, <1>12, <1>13 DEF CallStep

\* The same of every call and every step.
LEMMA ToldKept ==
  ASSUME Inv, ClosedInv, [Next]_vars, NEW d \in Call,
         pc'[d] = "reconcile", answer'[d] = "scan failed"
  PROVE  SomeFailed'
<1>1. CASE pc[d] = "reconcile" /\ answer[d] = "scan failed"
  BY <1>1, SomeFailedKept DEF ClosedInv, At
<1>2. CASE ~(pc[d] = "reconcile" /\ answer[d] = "scan failed")
  <2>1. ASSUME NEW c \in Call, Start(c) \/ Retry(c) \/ CallStep(c)
        PROVE  SomeFailed'
    <3>1. c = d
      BY <1>2, <2>1, PlaceStep DEF Others
    <3>2. QED
      BY <2>1, <3>1, ToldRecorded
  <2>2. ASSUME NEW s \in Session, Crash(s) PROVE FALSE
    BY <1>2, <2>2 DEF Crash
  <2>3. QED
    BY <1>2, <2>1, <2>2 DEF Next, vars, Register, Approve, Close, Lapse, Edit
<1>3. QED
  BY <1>1, <1>2

LEMMA ClosedStep == Inv /\ ClosedInv /\ [Next]_vars => ClosedInv'
<1> SUFFICES ASSUME Inv, ClosedInv, [Next]_vars PROVE ClosedInv'
  OBVIOUS
<1>0. TypeOK /\ TypeOK' /\ Inv'
  BY NextInv DEF Inv
<1>1. \A s \in reserved' : auth'[s] # "none"
  <2>1. ASSUME NEW s \in reserved' PROVE auth[s] # "none" /\ s \in Session
    BY <1>0, ReservedKept DEF ClosedInv, A!Granted, TypeOK
  <2>2. QED
    BY <1>0, <2>1, AuthKept
<1>2. ASSUME runner' # NoCall PROVE SessionOf(runner)' \in reserved'
  <2>1. CASE runner # NoCall
    BY <2>1, RunnerKept, ReservedKept DEF ClosedInv, SessionOf
  <2>2. CASE runner = NoCall
    <3>1. PICK c \in Call : Claim(c) \/ CommitUnreported(c)
      <4>1. ASSUME ~ \E c \in Call : Claim(c) \/ CommitUnreported(c)
            PROVE  runner' = runner
        BY <4>1 DEF Next, CallStep, vars, project, Start, Retry, Reserve, Domain,
           Record, EnterReserve, EnterStart, MarkRunning, Fetch, EnterPersist,
           Persist, EnterFail, MarkFailed, Settle, Recover, Reconcile, LockTimeout,
           Register, Approve, Close, Lapse, Crash, Edit
      <4>2. QED
        BY <1>2, <2>2, <4>1
    <3>2. At(c, "claim") /\ UNCHANGED reserved /\ runner' = c
      BY <1>2, <2>2, <3>1 DEF Claim, CommitUnreported, ledger
    <3>3. SessionOf(c) \in reserved
      BY <3>2 DEF At, Inv, RunnerInv, Working
    <3>4. QED
      BY <3>2, <3>3, ReservedKept DEF SessionOf
  <2>3. QED
    BY <2>1, <2>2
<1>3. ASSUME NEW d \in Call, pc'[d] = "settle" PROVE runner' = d
  <2>1. pc[d] \in Unsaved \cup {"settle"}
    BY <1>3, AllStay DEF Stays
  <2>2. runner = d /\ d # NoCall
    BY <2>1, RunAssumption DEF At, Inv, RunnerInv, ClosedInv
  <2>3. QED
    BY <2>2, RunnerKept
<1>4. \A d \in Call : pc'[d] = "reconcile" /\ answer'[d] = "scan failed" => SomeFailed'
  BY ToldKept
<1>5. ASSUME scan' = "failed" \/ SomeFailed' PROVE Harmless'
  <2>1. CASE scan = "failed" \/ SomeFailed
    <3>1. Harmless /\ SessionOf(runner) \in Session
      BY <2>1, RunnerOfScan DEF ClosedInv, Harmless
    <3>2. QED
      BY <2>1, <3>1, HarmlessStays
  <2>2. CASE ~(scan = "failed" \/ SomeFailed)
    BY <1>5, <2>2, FailedArises
  <2>3. QED
    BY <2>1, <2>2
<1>6. QED
  BY <1>1, <1>2, <1>3, <1>4, <1>5 DEF ClosedInv, At

\* A scan that any process was told has failed brings evidence only if the
\* runner's own operation was on record as failed: no other process closes a scan
\* under an owner that can still persist.
THEOREM RecoveryClosedElsewhere == Spec => ClosedElsewhereBringsNothing
<1>1. Init => ClosedInv
  BY RunAssumption DEF Init, ClosedInv, SomeFailed, At
<1>2. ASSUME Inv, ClosedInv, [Next]_vars, evidence' # evidence, SomeFailed
      PROVE  terminal[SessionOf(runner)] \in {"scan failed"} \cup Failure
  BY <1>2, EvidenceArises DEF ClosedInv, Harmless, A!Ended, A!Granted
<1>3. Inv /\ ClosedInv /\ [Next]_vars
        => [evidence' # evidence /\ (\E s \in Session : terminal[s] = "scan failed")
              => terminal[SessionOf(runner)] \in {"scan failed"} \cup Failure]_vars
  BY <1>2 DEF SomeFailed
<1>4. QED
  BY <1>1, <1>3, ClosedStep, RecoveryInvariant, PTL
     DEF Spec, ClosedElsewhereBringsNothing
=============================================================================
