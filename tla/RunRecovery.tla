---------------------------- MODULE RunRecovery ----------------------------
(***************************************************************************)
(* run_project (services/mcp_surface/writes.py): one client request, with  *)
(* one idempotency key, retried by several calls and several agent         *)
(* processes.  Unlike the writes of AgentActions its effect is not one     *)
(* transaction: process_scan (workers/scan_pipeline.py) reserves a scan,   *)
(* marks it running, fetches without any lock and persists the evidence,   *)
(* each in a transaction of its own.  The scan's id is derived from the    *)
(* request and the key, so every process finds the same scan, and          *)
(* _recover_in_progress_run takes over where a dead process stopped.       *)
(*                                                                         *)
(* Two locks: lock is the database write lock (BEGIN IMMEDIATE), mutex[s]  *)
(* the SCAN_WRITE_LOCK of the process of session s.  Transactions that     *)
(* wait for nothing are one step.  The commits that reserve the scan and   *)
(* store its evidence may take effect and raise all the same; one that     *)
(* only marks the scan running or failed, or writes the ledger, reports    *)
(* truthfully here (AgentActions has the lost reports of the ledger).      *)
(***************************************************************************)
EXTENDS Naturals, FiniteSets

CONSTANTS
  Session,        \* agent sessions; each is one process
  Call,           \* tool invocations <<session, number>>, threads of that process
  MaxVersion,     \* bound on the version of the project
  Overlap,        \* may a client retry while its call is still running?
  Stalls,         \* may a lease lapse under a process that still runs?
  LostReports,    \* may the reservation or the evidence be committed by a
                  \* commit that raises?
  NoCall

ASSUME RunAssumption ==
  /\ Call \subseteq Session \X Nat
  /\ NoCall \notin Call
  /\ MaxVersion \in Nat \ {0}
  /\ {Overlap, Stalls, LostReports} \subseteq BOOLEAN

VARIABLES
  auth,           \* the authority of each session (module Authority)
  up,             \* sessions whose process is running
  reserved,       \* sessions whose operation is reserved in the ledger
  terminal,       \* the terminal event of each session's operation
  version,        \* version of the project; the request expects 0
  scan,           \* status of the ScanJob with the derived id
  runner,         \* the call that reserved that scan
  evidence,       \* whether what it fetched is committed
  fetches,        \* times a connector was called
  unreported,     \* commits that took effect although they raised: the
                  \* reservation of the scan, its evidence
  lock,           \* the call whose open transaction has the write lock
  mutex,          \* the call that holds SCAN_WRITE_LOCK in each process
  pc,             \* where a call is
  recovering,     \* calls inside _recover_in_progress_run
  verdict,        \* the terminal event a call is about to record
  answer          \* what it tells the client

A == INSTANCE Authority

ledger   == <<reserved, terminal>>
project  == <<version, scan, runner, evidence, fetches, unreported>>
locks    == <<lock, mutex>>
progress == <<recovering, verdict>>
sessions == <<auth, up>>
vars == <<sessions, ledger, project, locks, pc, progress, answer>>

Success   == {"completed", "scan failed"}   \* succeeded, with the scan's status
Failure   == {"failed", "denied"}
Locations == {"idle", "reserve", "domain", "run", "claim", "start", "starting",
              "fetch", "save", "persist", "fail", "failing", "settle",
              "record", "recover", "reconcile", "done"}

TypeOK ==
  /\ A!AuthTypeOK
  /\ up \subseteq Session
  /\ reserved \subseteq Session
  /\ terminal \in [Session -> {"none"} \cup Success \cup Failure]
  /\ version \in 0..MaxVersion
  /\ scan \in {"none", "queued", "running", "completed", "failed"}
  /\ runner \in Call \cup {NoCall}
  /\ evidence \in BOOLEAN
  /\ fetches \in Nat
  /\ unreported \subseteq {"claim", "evidence"}
  /\ lock \in Call \cup {NoCall}
  /\ mutex \in [Session -> Call \cup {NoCall}]
  /\ pc \in [Call -> Locations]
  /\ recovering \subseteq Call
  /\ verdict \in [Call -> Failure]
  /\ answer \in [Call -> {"none", "refused", "in progress", "error", "lost"}
                           \cup Success \cup Failure]

Init ==
  /\ A!AuthInit
  /\ up = {}
  /\ reserved = {}
  /\ terminal = [s \in Session |-> "none"]
  /\ version = 0
  /\ scan = "none"
  /\ runner = NoCall
  /\ evidence = FALSE
  /\ fetches = 0
  /\ unreported = {}
  /\ lock = NoCall
  /\ mutex = [s \in Session |-> NoCall]
  /\ pc = [c \in Call |-> "idle"]
  /\ recovering = {}
  /\ verdict = [c \in Call |-> "failed"]
  /\ answer = [c \in Call |-> "none"]

-----------------------------------------------------------------------------
SessionOf(c) == c[1]
CallsOf(s)   == {c \in Call : SessionOf(c) = s}
InFlight(c)  == pc[c] \notin {"idle", "done"}
MayWrite(c)  == auth[SessionOf(c)] \in A!Granted
MyTerminal(c) == terminal[SessionOf(c)]

At(c, where) == pc[c] = where
Go(c, where) == pc' = [pc EXCEPT ![c] = where]

\* A call that has a scan result goes on to _reconcile_reserved_run_actions.
Reply(c, kind) ==
  /\ answer' = [answer EXCEPT ![c] = kind]
  /\ Go(c, IF kind \in Success THEN "reconcile" ELSE "done")

\* A bug the runs must notice: the status of the scan is not looked at.
ScanResult_Completed == "completed"

ScanResult == IF scan = "completed" THEN "completed" ELSE "scan failed"
ScanOpen   == scan \in {"queued", "running"}
ScanClosed == scan \in {"completed", "failed"}

HasMutex(c) == mutex[SessionOf(c)] = c
\* with SCAN_WRITE_LOCK: wait for the other threads of the process.
EnterMutex(c) ==
  /\ mutex[SessionOf(c)] = NoCall
  /\ mutex' = [mutex EXCEPT ![SessionOf(c)] = c]
ExitMutex(c) == mutex' = [mutex EXCEPT ![SessionOf(c)] = NoCall]

-----------------------------------------------------------------------------
\* execute_audited_agent_action

MayStart(c) ==
  /\ SessionOf(c) \in up
  /\ Overlap \/ \A d \in CallsOf(SessionOf(c)) : ~InFlight(d)

\* A client calls run_project with the key.
Start(c) ==
  /\ At(c, "idle") /\ MayStart(c)
  /\ Go(c, "reserve")
  /\ UNCHANGED <<sessions, ledger, project, locks, progress, answer>>

\* Told that the operation is in progress, it asks again.
Retry(c) ==
  /\ At(c, "done") /\ answer[c] = "in progress" /\ MayStart(c)
  /\ Go(c, "reserve")
  /\ UNCHANGED <<sessions, ledger, project, locks, progress, answer>>

\* Transaction 1, as in AgentActions; the operation has one request.
Reserve(c) ==
  /\ At(c, "reserve") /\ lock = NoCall
  /\ LET s == SessionOf(c)
     IN \/ /\ ~MayWrite(c)
           /\ Reply(c, "refused")
           /\ UNCHANGED reserved
        \/ /\ MayWrite(c) /\ s \notin reserved
           /\ reserved' = reserved \cup {s}
           /\ Go(c, "domain")
           /\ UNCHANGED answer
        \/ /\ MayWrite(c) /\ s \in reserved /\ terminal[s] = "none"
           /\ Go(c, "recover")
           /\ UNCHANGED <<reserved, answer>>
        \/ /\ MayWrite(c) /\ s \in reserved /\ terminal[s] # "none"
           /\ Reply(c, terminal[s])
           /\ UNCHANGED reserved
  /\ UNCHANGED <<sessions, terminal, project, locks, progress>>

\* An exception of the mutation: recorded by the executor, but only an answer
\* when the mutation runs inside the recovery.
Raise(c, kind) ==
  /\ IF c \in recovering THEN Reply(c, "error") /\ UNCHANGED verdict
     ELSE /\ verdict' = [verdict EXCEPT ![c] = kind]
          /\ Go(c, "record")
          /\ UNCHANGED answer
  /\ recovering' = recovering \ {c}

\* complete_agent_action with the scan's result: both callers give way to a
\* success event that is there already, only the recovery to a failure.
Complete(c, result) ==
  LET s == SessionOf(c)
  IN \/ /\ terminal[s] = "none"
        /\ terminal' = [terminal EXCEPT ![s] = result]
        /\ Reply(c, result)
        /\ recovering' = recovering \ {c}
        /\ UNCHANGED verdict
     \/ /\ terminal[s] # "none"
        /\ IF terminal[s] \in Success \/ c \in recovering
             THEN /\ Reply(c, terminal[s])
                  /\ recovering' = recovering \ {c}
                  /\ UNCHANGED verdict
             ELSE Raise(c, "failed")
        /\ UNCHANGED terminal

\* _run_project up to process_scan.  The transaction stays open, and with it the
\* write lock, on the way into process_scan.
PrepareScan(c) ==
  /\ scan = "none"
  /\ IF version = 0 THEN /\ lock' = c
                         /\ Go(c, "run")
                         /\ UNCHANGED <<progress, answer>>
                    ELSE /\ Raise(c, "failed")
                         /\ UNCHANGED lock

\* Transaction 2.
Domain(c) ==
  /\ At(c, "domain") /\ lock = NoCall
  /\ \/ /\ ~MayWrite(c)
        /\ Raise(c, "denied")
        /\ UNCHANGED <<terminal, lock>>
     \/ /\ MayWrite(c) /\ ScanOpen                 \* idempotency_in_progress
        /\ Go(c, "recover")
        /\ UNCHANGED <<terminal, lock, progress, answer>>
     \/ /\ MayWrite(c) /\ ScanClosed
        /\ Complete(c, ScanResult)
        /\ UNCHANGED lock
     \/ /\ MayWrite(c)
        /\ PrepareScan(c)
        /\ UNCHANGED terminal
  /\ UNCHANGED <<sessions, reserved, project, mutex>>

\* Transaction 3: _record_terminal.
Record(c) ==
  /\ At(c, "record") /\ lock = NoCall
  /\ LET s == SessionOf(c)
     IN \/ /\ terminal[s] = "none"
           /\ terminal' = [terminal EXCEPT ![s] = verdict[c]]
           /\ Reply(c, verdict[c])
        \/ /\ terminal[s] # "none"
           /\ Reply(c, "error")
           /\ UNCHANGED terminal
  /\ UNCHANGED <<sessions, reserved, project, locks, progress>>

-----------------------------------------------------------------------------
\* process_scan

\* reserve_scan_job: SCAN_WRITE_LOCK first.  Its db.commit() then ends the
\* transaction the version was checked in.
EnterReserve(c) ==
  /\ At(c, "run")
  /\ EnterMutex(c)
  /\ lock' = NoCall
  /\ Go(c, "claim")
  /\ UNCHANGED <<sessions, ledger, project, progress, answer>>

\* A bug the runs must notice: the version is not checked again.
MayClaim_Unchecked == TRUE

\* The version is compared again under the new lock.
MayClaim == version = 0

\* The scan, its research run and the version of the project, in one
\* transaction; or ProjectVersionConflict.
Claim(c) ==
  /\ At(c, "claim") /\ lock = NoCall
  /\ ExitMutex(c)
  /\ \/ /\ MayClaim
        /\ scan' = "queued"
        /\ runner' = c
        /\ version' = version + 1
        /\ Go(c, "start")
        /\ UNCHANGED <<progress, answer>>
     \/ /\ ~MayClaim
        /\ Raise(c, "failed")
        /\ UNCHANGED <<scan, runner, version>>
  /\ UNCHANGED <<sessions, ledger, evidence, fetches, unreported, lock>>

EnterStart(c) ==
  /\ At(c, "start")
  /\ EnterMutex(c)
  /\ Go(c, "starting")
  /\ UNCHANGED <<sessions, ledger, project, lock, progress, answer>>

\* The status is written whatever it has become meanwhile.
MarkRunning(c) ==
  /\ At(c, "starting") /\ lock = NoCall
  /\ ExitMutex(c)
  /\ scan' = "running"
  /\ Go(c, "fetch")
  /\ UNCHANGED <<sessions, ledger, version, runner, evidence, fetches, unreported,
                 lock, progress, answer>>

\* Connector I/O holds no lock; it may fail.
Fetch(c) ==
  /\ At(c, "fetch")
  /\ fetches' = fetches + 1
  /\ \E next \in {"save", "fail"} : Go(c, next)
  /\ UNCHANGED <<sessions, ledger, version, scan, runner, evidence, unreported,
                 locks, progress, answer>>

EnterPersist(c) ==
  /\ At(c, "save")
  /\ EnterMutex(c)
  /\ Go(c, "persist")
  /\ UNCHANGED <<sessions, ledger, project, lock, progress, answer>>

\* A bug the runs must notice: before_persist does not authorize again.
Persist_NotReauthorized(c) ==
  /\ At(c, "persist") /\ lock = NoCall
  /\ ExitMutex(c)
  /\ evidence' = TRUE
  /\ scan' = "completed"
  /\ Go(c, "settle")
  /\ UNCHANGED <<sessions, ledger, version, runner, fetches, unreported, lock,
                 progress, answer>>

\* before_persist authorizes the session again; then evidence and status are
\* committed together.
Persist(c) ==
  /\ At(c, "persist") /\ lock = NoCall
  /\ ExitMutex(c)
  /\ IF MayWrite(c) THEN /\ evidence' = TRUE
                         /\ scan' = "completed"
                         /\ Go(c, "settle")
                    ELSE /\ Go(c, "fail")
                         /\ UNCHANGED <<evidence, scan>>
  /\ UNCHANGED <<sessions, ledger, version, runner, fetches, unreported, lock,
                 progress, answer>>

EnterFail(c) ==
  /\ At(c, "fail")
  /\ EnterMutex(c)
  /\ Go(c, "failing")
  /\ UNCHANGED <<sessions, ledger, project, lock, progress, answer>>

\* process_scan does not raise: it returns a failed scan.
MarkFailed(c) ==
  /\ At(c, "failing") /\ lock = NoCall
  /\ ExitMutex(c)
  /\ scan' = "failed"
  /\ Go(c, "settle")
  /\ UNCHANGED <<sessions, ledger, version, runner, evidence, fetches, unreported,
                 lock, progress, answer>>

\* A commit of process_scan takes effect and raises all the same.  The
\* reservation's raises to the caller; after the one that stored the evidence the
\* handler of process_scan marks the scan as failed.
CommitUnreported(c) ==
  /\ LostReports /\ lock = NoCall
  /\ ExitMutex(c)
  /\ \/ /\ At(c, "claim") /\ MayClaim
        /\ scan' = "queued"
        /\ runner' = c
        /\ version' = version + 1
        /\ unreported' = unreported \cup {"claim"}
        /\ Raise(c, "failed")
        /\ UNCHANGED evidence
     \/ /\ At(c, "persist") /\ MayWrite(c)
        /\ evidence' = TRUE
        /\ scan' = "completed"
        /\ unreported' = unreported \cup {"evidence"}
        /\ Go(c, "fail")
        /\ UNCHANGED <<version, runner, progress, answer>>
  /\ UNCHANGED <<sessions, ledger, fetches, lock>>

\* Back in _run_project: authorized once more before the operation completes.
Settle(c) ==
  /\ At(c, "settle") /\ lock = NoCall
  /\ \/ /\ MayWrite(c)
        /\ Complete(c, ScanResult)
     \/ /\ ~MayWrite(c)
        /\ Raise(c, "denied")
        /\ UNCHANGED terminal
  /\ UNCHANGED <<sessions, reserved, project, locks>>

-----------------------------------------------------------------------------
\* _recover_in_progress_run and _reconcile_reserved_run_actions

\* Other processes' reservations of the scan that have no terminal event.
IncompletePrior(s) == {t \in reserved \ {s} : terminal[t] = "none"}

\* A bug the runs must notice: the clock is not compared with the lease.
OwnersGone_RawStatus(s) ==
  \A t \in IncompletePrior(s) : auth[t] \notin A!Active \cup {"lapsed"}

OwnersGone(s) == \A t \in IncompletePrior(s) : auth[t] \notin A!Active

\* A bug the runs must notice: an owner that is still there is not looked for.
MayCloseScan_Impatient(s) == IncompletePrior(s) # {}

\* The scan can be closed when somebody else has not settled it and everybody
\* else's session has ended.
MayCloseScan(s) == IncompletePrior(s) # {} /\ OwnersGone(s)

RecoverOpenScan(c) ==
  LET s == SessionOf(c)
  IN /\ ScanOpen
     /\ IF MayCloseScan(s)
          THEN /\ scan' = "failed"
               /\ terminal' = [terminal EXCEPT ![s] = "scan failed"]
               /\ Reply(c, "scan failed")
          ELSE /\ Reply(c, "in progress")
               /\ UNCHANGED <<scan, terminal>>
     /\ UNCHANGED <<lock, progress>>

Recover(c) ==
  /\ At(c, "recover") /\ lock = NoCall
  /\ \/ /\ ~MayWrite(c)
        /\ Reply(c, "error")
        /\ UNCHANGED <<terminal, scan, lock, progress>>
     \/ /\ MayWrite(c) /\ MyTerminal(c) # "none"
        /\ Reply(c, MyTerminal(c))
        /\ UNCHANGED <<terminal, scan, lock, progress>>
     \/ /\ MayWrite(c) /\ MyTerminal(c) = "none"
        /\ RecoverOpenScan(c)
     \/ /\ MayWrite(c) /\ MyTerminal(c) = "none" /\ ScanClosed
        /\ terminal' = [terminal EXCEPT ![SessionOf(c)] = ScanResult]
        /\ Reply(c, ScanResult)
        /\ UNCHANGED <<scan, lock, progress>>
     \/ /\ MayWrite(c) /\ MyTerminal(c) = "none"
        /\ scan = "none"
        /\ IF version = 0 THEN /\ lock' = c
                               /\ recovering' = recovering \cup {c}
                               /\ Go(c, "run")
                               /\ UNCHANGED answer
                          ELSE /\ Reply(c, "error")
                               /\ UNCHANGED <<lock, recovering>>
        /\ UNCHANGED <<terminal, scan, verdict>>
  /\ UNCHANGED <<sessions, reserved, version, runner, evidence, fetches, unreported,
                 mutex>>

Reconcile(c) ==
  /\ At(c, "reconcile") /\ lock = NoCall
  /\ terminal' = [s \in Session |->
       IF s \in reserved /\ terminal[s] = "none" THEN answer[c] ELSE terminal[s]]
  /\ Go(c, "done")
  /\ UNCHANGED <<sessions, reserved, project, locks, progress, answer>>

-----------------------------------------------------------------------------
\* A bug the runs must notice: SCAN_WRITE_LOCK is acquired without "with".
LockTimeout_KeepsMutex(c) ==
  /\ lock \notin {NoCall, c}
  /\ \/ /\ pc[c] \in {"reserve", "record", "recover", "reconcile"}
        /\ answer' = [answer EXCEPT ![c] = "error"]
        /\ Go(c, "done")
        /\ UNCHANGED progress
     \/ /\ pc[c] \in {"domain", "claim", "settle"}
        /\ Raise(c, "failed")
     \/ /\ pc[c] \in {"starting", "persist"}
        /\ Go(c, "fail")
        /\ UNCHANGED <<progress, answer>>
     \/ /\ At(c, "failing")                    \* process_scan raises after all
        /\ Raise(c, "failed")
  /\ UNCHANGED <<sessions, ledger, project, locks>>

\* The database lock is not had in time: an exception, wherever the call is.
\* SCAN_WRITE_LOCK is left on the way out.
LockTimeout(c) ==
  /\ lock \notin {NoCall, c}
  /\ mutex' = IF HasMutex(c) THEN [mutex EXCEPT ![SessionOf(c)] = NoCall] ELSE mutex
  /\ \/ /\ pc[c] \in {"reserve", "record", "recover", "reconcile"}
        /\ answer' = [answer EXCEPT ![c] = "error"]
        /\ Go(c, "done")
        /\ UNCHANGED progress
     \/ /\ pc[c] \in {"domain", "claim", "settle"}
        /\ Raise(c, "failed")
     \/ /\ pc[c] \in {"starting", "persist"}
        /\ Go(c, "fail")
        /\ UNCHANGED <<progress, answer>>
     \/ /\ At(c, "failing")                    \* process_scan raises after all
        /\ Raise(c, "failed")
  /\ UNCHANGED <<sessions, ledger, project, lock>>

-----------------------------------------------------------------------------
\* Around the calls.

Register(s) ==
  /\ A!Register(s)
  /\ up' = up \cup {s}
  /\ UNCHANGED <<ledger, project, locks, pc, progress, answer>>

Approve(s) ==
  /\ lock = NoCall
  /\ A!Approve(s, "standard")
  /\ UNCHANGED <<up, ledger, project, locks, pc, progress, answer>>

Close(s) ==
  /\ lock = NoCall
  /\ A!Close(s)
  /\ UNCHANGED <<up, ledger, project, locks, pc, progress, answer>>

Lapse(s) ==
  /\ Stalls \/ s \notin up
  /\ A!Lapse({s})
  /\ UNCHANGED <<up, ledger, project, locks, pc, progress, answer>>

\* Somebody edits the project.
Edit ==
  /\ lock = NoCall
  /\ version < MaxVersion
  /\ version' = version + 1
  /\ UNCHANGED <<sessions, ledger, scan, runner, evidence, fetches, unreported, locks,
                 pc, progress, answer>>

Crash(s) ==
  LET dead == {c \in CallsOf(s) : InFlight(c)}
  IN /\ s \in up
     /\ up' = up \ {s}
     /\ lock' = IF lock \in dead THEN NoCall ELSE lock
     /\ mutex' = [mutex EXCEPT ![s] = NoCall]
     /\ pc' = [c \in Call |-> IF c \in dead THEN "done" ELSE pc[c]]
     /\ answer' = [c \in Call |-> IF c \in dead THEN "lost" ELSE answer[c]]
     /\ recovering' = recovering \ dead
     /\ UNCHANGED <<auth, ledger, project, verdict>>

-----------------------------------------------------------------------------
CallStep(c) ==
  \/ Reserve(c) \/ Domain(c) \/ Record(c)
  \/ EnterReserve(c) \/ Claim(c) \/ EnterStart(c) \/ MarkRunning(c) \/ Fetch(c)
  \/ EnterPersist(c) \/ Persist(c) \/ EnterFail(c) \/ MarkFailed(c) \/ Settle(c)
  \/ CommitUnreported(c)
  \/ Recover(c) \/ Reconcile(c)
  \/ LockTimeout(c)

Next ==
  \/ \E c \in Call : Start(c) \/ Retry(c) \/ CallStep(c)
  \/ \E s \in Session :
       Register(s) \/ Approve(s) \/ Close(s) \/ Lapse(s) \/ Crash(s)
  \/ Edit

Spec == Init /\ [][Next]_vars

\* A running call takes its next step, a client told "in progress" asks again,
\* and the lease of a dead process runs out.
Fairness ==
  /\ \A c \in Call : WF_vars(CallStep(c)) /\ WF_vars(Retry(c))
  /\ \A s \in Session : WF_vars(s \notin up /\ Lapse(s))

FairSpec == Spec /\ Fairness

-----------------------------------------------------------------------------
\* Properties

Told(c, kinds) == At(c, "done") /\ answer[c] \in kinds

\* Whatever retries, crashes and replacement processes come together, the
\* connector is called at most once for the request, and only for the scan the
\* ledger knows (writes.py, _run_scan_id: "for exact crash recovery").
OneFetch ==
  /\ fetches <= 1
  /\ fetches = 1 => runner # NoCall /\ SessionOf(runner) \in reserved

\* Who is told that the run completed can rely on its evidence, in the ledger
\* and in the answer; and evidence is left behind by a scan that does not say
\* so only when the commit that stored it raised although it took effect
\* (scan_pipeline.py commits evidence and status together, but marks the scan as
\* failed after any exception).
CompletedIsTrue ==
  /\ scan = "completed" => evidence
  /\ evidence => scan = "completed" \/ "evidence" \in unreported
  /\ \A s \in Session : terminal[s] = "completed" => evidence
  /\ \A c \in Call : Told(c, {"completed"}) => evidence

\* Evidence is committed by a session that may write at that moment, however
\* long the fetch took (before_persist in process_scan).
EvidenceUnderGrant ==
  [][evidence' # evidence => auth[SessionOf(runner)] \in A!Granted]_vars

\* A run that somebody was told has failed never brings evidence after all
\* (writes.py, _recover_in_progress_run: "closed without persisting fetched
\* evidence").
FailedBringsNothing ==
  (\E s \in Session : terminal[s] = "scan failed") => ~evidence

\* A process closes the scan of another one only when that one can no longer
\* persist: when evidence does come after a "scan failed", a call of the runner's
\* own process, overlapping with it, had recorded their operation as failed
\* before, so that nobody saw an owner that was still there.
ClosedElsewhereBringsNothing ==
  [][evidence' # evidence /\ (\E s \in Session : terminal[s] = "scan failed")
       => terminal[SessionOf(runner)] \in {"scan failed"} \cup Failure]_vars

\* A call always comes back, although a thread that holds the database lock may
\* wait for SCAN_WRITE_LOCK while its holder waits for the database lock.
EveryCallReturns == \A c \in Call : InFlight(c) ~> ~InFlight(c)

\* A client that keeps asking is not told "in progress" for ever, unless its
\* session ends (the recovery closes the scan of a process that is gone).  Two
\* cases are excepted.  A retry that overlapped recorded the runner's operation as
\* failed while its scan was open, and then the runner died: its reservation no
\* longer counts as incomplete, so nobody finds an owner to take over from.  And
\* the reservation of the scan raised although it took effect: the scan stays
\* queued, with an owner that is still there and no call that runs it.
EveryRetrySettles ==
  \A c \in Call :
    Told(c, {"in progress"})
      ~> \/ At(c, "done") /\ answer[c] # "in progress"
         \/ ~MayWrite(c)
         \/ SessionOf(c) \notin up
         \/ ScanOpen /\ terminal[SessionOf(runner)] \in Failure
         \/ ScanOpen /\ "claim" \in unreported

\* The inductive invariant the proofs of RunRecovery_proofs rest on.

Unsaved == {"start", "starting", "fetch", "save", "persist", "fail", "failing"}
Before  == Unsaved \ {"fail", "failing"}
Working == Unsaved \cup {"domain", "run", "claim", "settle", "record", "recover"}

\* The version guards the scan: nobody finds version 0 once it is reserved.
ScanInv ==
  /\ version = 0 => runner = NoCall
  /\ runner = NoCall <=> scan = "none"
  /\ runner = NoCall => fetches = 0 /\ ~evidence
  /\ scan = "completed" => evidence
  /\ evidence => scan = "completed" \/ "evidence" \in unreported

\* Only the call that reserved the scan is inside process_scan, once.
RunnerInv ==
  \A c \in Call :
    /\ pc[c] \in Unsaved => runner = c
    /\ pc[c] \in Before => ~evidence
    /\ pc[c] \in {"fail", "failing"} => (evidence => "evidence" \in unreported)
    /\ pc[c] \in {"start", "starting", "fetch"} => fetches = 0
    /\ pc[c] \in Working => SessionOf(c) \in reserved

\* "completed" is said of committed evidence only.
ToldInv ==
  /\ \A s \in Session : terminal[s] = "completed" => evidence
  /\ \A c \in Call : answer[c] = "completed" => evidence
  /\ \A c \in Call : At(c, "reconcile") => answer[c] \in Success

SomeFailed == \E s \in Session : terminal[s] = "scan failed"

\* The scan that was closed brings nothing more: its evidence is there, its
\* runner's operation is recorded as failed, or its runner cannot persist any more.
Harmless ==
  /\ runner # NoCall
  /\ \/ evidence
     \/ terminal[SessionOf(runner)] \in {"scan failed"} \cup Failure
     \/ auth[SessionOf(runner)] \in A!Ended
     \/ pc[runner] \notin Unsaved

\* Reservations belong to sessions that had an authority, "scan failed" is passed
\* on once it is recorded, and a scan said to have failed is harmless.
ClosedInv ==
  /\ \A s \in reserved : auth[s] # "none"
  /\ runner # NoCall => SessionOf(runner) \in reserved
  /\ \A c \in Call : At(c, "settle") => runner = c
  /\ \A c \in Call : At(c, "reconcile") /\ answer[c] = "scan failed" => SomeFailed
  /\ scan = "failed" \/ SomeFailed => Harmless
=============================================================================
