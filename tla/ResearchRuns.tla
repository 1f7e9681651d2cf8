---------------------------- MODULE ResearchRuns ----------------------------
(***************************************************************************)
(* The REST side of research: projects with a schedule, their runs, and    *)
(* the one Discourse forum some of them read.  A request (a thread of the  *)
(* server) reads what it wants to run, reserves the run, fetches for       *)
(* minutes, and persists or fails, each step in a transaction of its own   *)
(* under SCAN_WRITE_LOCK and the database write lock; what the two locks   *)
(* do to each other is the subject of RunRecovery, so here a locked        *)
(* transaction is one step.                                                *)
(*                                                                         *)
(* Sessions keep what they read (expire_on_commit is off), so a request    *)
(* goes on with the forum's state as it first saw it: view.  Only a        *)
(* rollback makes it read again.                                           *)
(***************************************************************************)
EXTENDS Naturals, Sequences, FiniteSets

CONSTANTS
  Project,
  OnForum,        \* the projects whose source is the Discourse forum
  Request,
  Item,           \* what a source may return
  MaxTime,        \* bound on the clock
  MaxRuns,        \* bound on the runs of a project
  MaxWait,        \* longest Retry-After the forum asks for
  MaxFaults,      \* bound on crashes, lost commits, failing handlers and resets
  MaxEdits,       \* bound on what the operator changes under the requests
  None, Gone

ASSUME ResearchAssumption ==
  /\ IsFiniteSet(Project) /\ OnForum \subseteq Project
  /\ {MaxTime, MaxRuns, MaxWait, MaxFaults, MaxEdits} \subseteq Nat

VARIABLES
  clock,
  project,        \* [enabled, cadence, next, last] of each project, None before
  runs,           \* the runs of each project; the position is the sequence.
                  \* lost is history: the commit of its evidence raised
  forum,          \* [enabled, authorized, retry] of the forum
  items,          \* the stored evidence
  pc,             \* where a request is
  todo,           \* the projects it still has to run
  view,           \* the forum's state in its session, None when not loaded
  run,            \* the run it works on: <<project, sequence>>, None or Gone
  reply,          \* what the connector brought it
  faults, edits,
  wanted,         \* history: projects that were enabled since it began
  fit             \* history: when the forum, as it was since it began, is ready

requests == <<pc, todo, view, run, reply>>
history  == <<wanted, fit>>
vars == <<clock, project, runs, forum, items, requests, faults, edits, history>>

NoReply == [ok |-> FALSE, items |-> {}, wait |-> 0, at |-> None]
Replies == [ok : BOOLEAN, items : SUBSET Item, wait : 0..MaxWait,
            at : 0..MaxTime \cup {None}]
Times   == 0..(MaxTime + MaxWait + 1) \cup {None}
Forum   == [enabled : BOOLEAN, authorized : BOOLEAN, retry : Times]
ProjectRow == [enabled : BOOLEAN, cadence : {"manual", "hourly"},
               next : Times, last : 0..MaxRuns]
RunRow == [status : {"queued", "running", "completed", "failed"},
            whole : BOOLEAN, new : SUBSET Item, lost : BOOLEAN]

ASSUME NoneAssumption ==
  /\ None \notin Nat /\ None \notin ProjectRow /\ Gone # None
  /\ {None, Gone} \cap (Project \X Nat) = {}

TypeOK ==
  /\ clock \in 0..MaxTime
  /\ project \in [Project -> {None} \cup ProjectRow]
  /\ runs \in [Project -> Seq(RunRow)]
  /\ forum \in Forum
  /\ items \subseteq Item
  /\ pc \in [Request -> {"idle", "consider", "reserve", "queued", "ask", "fetch",
                         "record", "persist", "fail"}]
  /\ todo \in [Request -> Seq(Project)]
  /\ view \in [Request -> Forum \cup {None}]
  /\ run \in [Request -> (Project \X (1..MaxRuns)) \cup {None, Gone}]
  /\ reply \in [Request -> Replies]
  /\ faults \in 0..MaxFaults /\ edits \in 0..MaxEdits
  /\ wanted \in [Request -> SUBSET Project]
  /\ fit \in [Request -> Times]

Init ==
  /\ clock = 0
  /\ project = [p \in Project |-> None]
  /\ runs = [p \in Project |-> <<>>]
  /\ forum = [enabled |-> TRUE, authorized |-> TRUE, retry |-> None]
  /\ items = {}
  /\ pc = [r \in Request |-> "idle"]
  /\ todo = [r \in Request |-> <<>>]
  /\ view = [r \in Request |-> None]
  /\ run = [r \in Request |-> None]
  /\ reply = [r \in Request |-> NoReply]
  /\ faults = 0 /\ edits = 0
  /\ wanted = [r \in Request |-> {}]
  /\ fit = [r \in Request |-> None]

-----------------------------------------------------------------------------
At(r, where) == pc[r] = where
Go(r, where) == pc' = [pc EXCEPT ![r] = where]
InFlight == {r \in Request : pc[r] # "idle"}
Current(r) == Head(todo[r])

\* discourse_readiness
CanRun(f) == /\ f.enabled /\ f.authorized
             /\ f.retry = None \/ f.retry <= clock

\* From when on a forum in this state is ready, and the earlier of two such times.
ReadyFrom(f) == IF ~(f.enabled /\ f.authorized) THEN None
                ELSE IF f.retry = None THEN 0 ELSE f.retry
Earlier(s, t) == IF s = None THEN t ELSE IF t = None \/ s <= t THEN s ELSE t

\* next_run_at_from; an hourly project runs again one tick later.
NextFrom(cadence) == IF cadence = "hourly" THEN clock + 1 ELSE None

Enabled(p) == project[p] # None /\ project[p].enabled

\* due_project_query
DueAt(p) == project[p].next
Due(p) == Enabled(p) /\ DueAt(p) # None /\ DueAt(p) <= clock

Fault == faults < MaxFaults /\ faults' = faults + 1
Edit  == edits < MaxEdits /\ edits' = edits + 1

-----------------------------------------------------------------------------
\* Projects, the forum and the demo: one locked transaction each

CreateProject(p) ==
  /\ project[p] = None
  /\ \E cadence \in {"manual", "hourly"}, enabled \in BOOLEAN :
       project' = [project EXCEPT ![p] =
         [enabled |-> enabled, cadence |-> cadence,
          next |-> NextFrom(cadence), last |-> 0]]
  /\ UNCHANGED <<edits, clock, runs, forum, items, requests, faults>>

\* A plausible bug: an edit leaves the schedule alone
UpdateProject_KeepsNext(p) ==
  /\ Edit
  /\ project[p] # None
  /\ \E cadence \in {"manual", "hourly"}, enabled \in BOOLEAN :
       project' = [project EXCEPT ![p] = [@ EXCEPT !.enabled = enabled, !.cadence = cadence]]
  /\ UNCHANGED <<clock, runs, forum, items, requests, faults>>

\* An edit that supplies a schedule field; the others leave the schedule alone.
UpdateProject(p) ==
  /\ Edit
  /\ project[p] # None
  /\ \E cadence \in {"manual", "hourly"}, enabled \in BOOLEAN :
       project' = [project EXCEPT ![p] =
         [@ EXCEPT !.enabled = enabled, !.cadence = cadence,
                   !.next = IF enabled THEN NextFrom(cadence) ELSE None]]
  /\ UNCHANGED <<clock, runs, forum, items, requests, faults>>

AuthorizeForum ==
  /\ Edit
  /\ forum' = [forum EXCEPT !.authorized = TRUE]
  /\ UNCHANGED <<clock, project, runs, items, requests, faults>>

RevokeForum ==
  /\ Edit
  /\ forum' = [forum EXCEPT !.authorized = FALSE]
  /\ UNCHANGED <<clock, project, runs, items, requests, faults>>

UpdateSource ==
  /\ Edit
  /\ forum' = [forum EXCEPT !.enabled = ~@]
  /\ UNCHANGED <<clock, project, runs, items, requests, faults>>

\* A scan outside any project: POST /scans, or the demo.
OtherScan ==
  /\ Edit
  /\ \E S \in SUBSET Item : items' = items \cup S
  /\ UNCHANGED <<clock, project, runs, forum, requests, faults>>

\* reset_demo_data deletes every run and all evidence, also under those at work.
ResetDemo ==
  /\ Fault
  /\ runs' = [p \in Project |-> <<>>]
  /\ items' = {}
  /\ project' = [p \in Project |->
       IF project[p] = None THEN None ELSE [project[p] EXCEPT !.last = 0]]
  /\ run' = [r \in Request |-> IF run[r] = None THEN None ELSE Gone]
  /\ UNCHANGED <<edits, clock, forum, pc, todo, view, reply>>

Tick ==
  /\ clock < MaxTime
  /\ clock' = clock + 1
  /\ UNCHANGED <<edits, project, runs, forum, items, requests, faults>>

-----------------------------------------------------------------------------
\* A request

\* A plausible bug: the switch is not looked at
RunProject_Disabled(r, p) ==
  /\ At(r, "idle") /\ project[p] # None
  /\ todo' = [todo EXCEPT ![r] = <<p>>]
  /\ Go(r, "consider")
  /\ UNCHANGED <<edits, clock, project, runs, forum, items, view, run, reply, faults>>

\* POST /research-projects/{id}/run
RunProject(r, p) ==
  /\ At(r, "idle") /\ Enabled(p)
  /\ todo' = [todo EXCEPT ![r] = <<p>>]
  /\ Go(r, "consider")
  /\ UNCHANGED <<edits, clock, project, runs, forum, items, view, run, reply, faults>>

\* The due projects, earliest first.
DueLists ==
  LET D == {p \in Project : Due(p)}
  IN {s \in [1..Cardinality(D) -> D] :
        /\ \A i, j \in DOMAIN s : i # j => s[i] # s[j]
        /\ \A i, j \in DOMAIN s : i < j => DueAt(s[i]) <= DueAt(s[j])}

\* POST /research-projects/run-due reads the list once.
RunDue(r) ==
  /\ At(r, "idle")
  /\ \E p \in Project : Due(p)
  /\ \E s \in DueLists : todo' = [todo EXCEPT ![r] = s]
  /\ Go(r, "consider")
  /\ UNCHANGED <<edits, clock, project, runs, forum, items, view, run, reply, faults>>

Finish(r) ==
  /\ Go(r, "idle")
  /\ todo' = [todo EXCEPT ![r] = <<>>]
  /\ view' = [view EXCEPT ![r] = None]
  /\ run' = [run EXCEPT ![r] = None]
  /\ reply' = [reply EXCEPT ![r] = NoReply]

\* A plausible bug: a project that is skipped ends the list
Advance_Ends(r, seen) == Finish(r)

\* The project is done with or skipped; its request goes on to the next.
Advance(r, seen) ==
  IF Len(todo[r]) = 1 THEN Finish(r)
  ELSE /\ Go(r, "consider")
       /\ todo' = [todo EXCEPT ![r] = Tail(@)]
       /\ view' = [view EXCEPT ![r] = seen]
       /\ run' = [run EXCEPT ![r] = None]
       /\ reply' = [reply EXCEPT ![r] = NoReply]

\* What a session sees of the forum: what it holds, or the row as it is, when it
\* holds nothing or has let go of it (the identity map is weak, and waiting for a
\* lock expires it).
Seen(r) == IF Current(r) \notin OnForum THEN {view[r]}
           ELSE {forum, view[r]} \ {None}

\* validate_project_source_binding and discourse_readiness.
Consider(r) ==
  /\ At(r, "consider")
  /\ \E seen \in Seen(r) :
       IF Current(r) \in OnForum /\ ~CanRun(seen)
         THEN Advance(r, seen)
         ELSE /\ view' = [view EXCEPT ![r] = seen]
              /\ Go(r, "reserve")
              /\ UNCHANGED <<todo, run, reply>>
  /\ UNCHANGED <<edits, clock, project, runs, forum, items, faults>>

\* reserve_scan_job: the scan, and the run with the next sequence number.
Reserve(r) ==
  /\ At(r, "reserve")
  /\ Len(runs[Current(r)]) < MaxRuns
  /\ LET p == Current(r)
     IN /\ runs' = [runs EXCEPT ![p] =
              Append(@, [status |-> "queued", whole |-> FALSE, new |-> {}, lost |-> FALSE])]
        /\ run' = [run EXCEPT ![r] = <<p, Len(runs[p]) + 1>>]
  /\ Go(r, "queued")
  /\ UNCHANGED <<edits, clock, project, forum, items, todo, view, reply, faults>>

\* The transaction of reserve_scan_job raises: the request ends, and with it a
\* run-due that had more to run.  The bound on runs ends it as well.
ReserveRaises(r) ==
  /\ At(r, "reserve")
  /\ IF Len(runs[Current(r)]) = MaxRuns THEN UNCHANGED faults ELSE Fault
  /\ Finish(r)
  /\ UNCHANGED <<edits, clock, project, runs, forum, items>>

\* The row of a run that a reset deleted cannot be updated.
Begin(r) ==
  /\ At(r, "queued")
  /\ IF run[r] = Gone
       THEN Go(r, "fail") /\ UNCHANGED runs
       ELSE /\ runs' = [runs EXCEPT ![run[r][1]][run[r][2]].status = "running"]
            /\ Go(r, "ask")
  /\ UNCHANGED <<edits, clock, project, forum, items, todo, view, run, reply, faults>>

\* connector_for_source looks again.
Ask(r) ==
  /\ At(r, "ask")
  /\ \E seen \in Seen(r) :
       /\ view' = [view EXCEPT ![r] = seen]
       /\ Go(r, IF Current(r) \notin OnForum \/ CanRun(seen) THEN "fetch" ELSE "fail")
  /\ UNCHANGED <<edits, clock, project, runs, forum, items, todo, run, reply, faults>>

Answer(r) ==
  /\ At(r, "fetch")
  /\ LET waits == IF Current(r) \in OnForum THEN 0..MaxWait ELSE {0}
     IN \/ \E S \in SUBSET Item, w \in waits :
             /\ reply' = [reply EXCEPT ![r] =
                            [ok |-> TRUE, items |-> S, wait |-> w, at |-> clock]]
             /\ Go(r, IF Current(r) \in OnForum THEN "record" ELSE "persist")
        \/ \E w \in waits :
             /\ reply' = [reply EXCEPT ![r] =
                            [ok |-> FALSE, items |-> {}, wait |-> w, at |-> clock]]
             /\ Go(r, "fail")
  /\ UNCHANGED <<edits, clock, project, runs, forum, items, todo, view, run, faults>>

RetryAfter(at, wait) == IF wait = 0 THEN None ELSE at + wait

\* The session writes a column only when the value differs from the one it holds.
RecordDiscourseSuccess(f, held, retry) == IF retry = held THEN f ELSE [f EXCEPT !.retry = retry]

RecordDiscourseFailure(f, wait) == [f EXCEPT !.retry = RetryAfter(clock, wait)]

RecordSuccess(r) ==
  /\ At(r, "record")
  /\ LET retry == RetryAfter(reply[r].at, reply[r].wait)
     IN /\ \E held \in {view[r].retry, forum.retry} :
             forum' = RecordDiscourseSuccess(forum, held, retry)
        /\ view' = [view EXCEPT ![r].retry = retry]
  /\ Go(r, "persist")
  /\ UNCHANGED <<edits, clock, project, runs, items, todo, run, reply, faults>>

\* A plausible bug: whoever ends last is shown
MarkLatest_AnyRun(p, n) ==
  project' = [project EXCEPT ![p] = [@ EXCEPT !.last = n, !.next = NextFrom(project[p].cadence)]]

\* mark_latest_project_run of run n of project p: the newest run alone is shown
\* and sets the schedule, from the cadence the row has now.
MarkLatest(p, n) ==
  project' = IF n # Len(runs[p]) THEN project
             ELSE [project EXCEPT ![p] =
                     [@ EXCEPT !.last = n, !.next = NextFrom(project[p].cadence)]]

\* A plausible bug: what is stored already counts as new again
Store_Again(r, raised) ==
  LET p == run[r][1] n == run[r][2]
  IN /\ items' = items \cup reply[r].items
     /\ runs' = [runs EXCEPT ![p][n] = [status |-> "completed", whole |-> TRUE,
                                       new |-> reply[r].items, lost |-> raised]]
     /\ MarkLatest(p, n)

\* process_fetched_items stores what is not stored yet; the run is complete.  The
\* commit takes effect, and may raise all the same.
Store(r, raised) ==
  LET p == run[r][1] n == run[r][2]
  IN /\ items' = items \cup reply[r].items
     /\ runs' = [runs EXCEPT ![p][n] = [status |-> "completed", whole |-> TRUE,
                                       new |-> reply[r].items \ items, lost |-> raised]]
     /\ MarkLatest(p, n)

Persist(r) ==
  /\ At(r, "persist") /\ run[r] # Gone
  /\ Store(r, FALSE)
  /\ Advance(r, view[r])
  /\ UNCHANGED <<edits, clock, forum, faults>>

\* The commit takes effect and raises all the same.
LoseReport(r) ==
  /\ At(r, "persist") /\ run[r] # Gone /\ Fault
  /\ Store(r, TRUE)
  /\ Go(r, "fail")
  /\ UNCHANGED <<edits, clock, forum, todo, view, run, reply>>

\* The evidence cannot be stored: its run is gone, or something raises.
PersistRaises(r) ==
  /\ At(r, "persist")
  /\ IF run[r] = Gone THEN UNCHANGED faults ELSE Fault
  /\ Go(r, "fail")
  /\ UNCHANGED <<edits, clock, project, runs, forum, items, todo, view, run, reply>>

\* The handler of process_scan: rollback, then one transaction with
\* record_discourse_failure (of an error of the connector), the status and the
\* schedule.  It finds no job when the run is gone and raises, so that run-due
\* ends; its transaction is then lost.
Fail(r) ==
  /\ At(r, "fail")
  /\ IF run[r] = Gone
       THEN Finish(r) /\ UNCHANGED <<project, runs, forum>>
       ELSE /\ LET p == run[r][1] n == run[r][2]
               IN /\ runs' = [runs EXCEPT ![p][n].status = "failed"]
                  /\ MarkLatest(p, n)
            /\ forum' = IF Current(r) \in OnForum /\ reply[r].at # None /\ ~reply[r].ok
                        THEN RecordDiscourseFailure(forum, reply[r].wait)
                        ELSE forum
            /\ Advance(r, None)
  /\ UNCHANGED <<edits, clock, items, faults>>

\* The handler's own transaction raises; the run stays as it is, for ever.
FailRaises(r) ==
  /\ At(r, "fail") /\ Fault
  /\ Finish(r)
  /\ UNCHANGED <<edits, clock, project, runs, forum, items>>

\* The server dies.
Crash ==
  /\ Fault
  /\ pc' = [r \in Request |-> "idle"]
  /\ todo' = [r \in Request |-> <<>>]
  /\ view' = [r \in Request |-> None]
  /\ run' = [r \in Request |-> None]
  /\ reply' = [r \in Request |-> NoReply]
  /\ UNCHANGED <<edits, clock, project, runs, forum, items>>

-----------------------------------------------------------------------------
\* A request's own steps
Work(r) == \/ Consider(r) \/ Reserve(r) \/ ReserveRaises(r) \/ Begin(r)
           \/ Ask(r) \/ Answer(r) \/ RecordSuccess(r) \/ Persist(r)
           \/ LoseReport(r) \/ PersistRaises(r) \/ Fail(r) \/ FailRaises(r)

Step ==
  \/ \E p \in Project : CreateProject(p) \/ UpdateProject(p)
  \/ AuthorizeForum \/ RevokeForum \/ UpdateSource
  \/ OtherScan \/ ResetDemo \/ Tick \/ Crash
  \/ \E r \in Request : \/ \E p \in Project : RunProject(r, p)
                        \/ RunDue(r)
                        \/ Work(r)

\* What was so at some moment since a request began.
Remember ==
  /\ wanted' = [r \in Request |->
       IF pc'[r] = "idle" THEN {}
       ELSE {p \in Project : Enabled(p)'} \cup
            (IF pc[r] = "idle" THEN {p \in Project : Enabled(p)} ELSE wanted[r])]
  /\ fit' = [r \in Request |->
       IF pc'[r] = "idle" THEN None
       ELSE Earlier(ReadyFrom(forum'), IF pc[r] = "idle" THEN ReadyFrom(forum) ELSE fit[r])]

Next == Step /\ Remember

Spec == Init /\ [][Next]_vars

\* The server's threads run, connectors answer or time out, and somebody (the
\* operator's scheduler) keeps asking for the due projects and gets a thread now
\* and then.
FairSpec ==
  /\ Spec
  /\ \A r \in Request : WF_vars(Work(r) /\ Remember)
  /\ SF_vars((\E r \in Request : RunDue(r)) /\ Remember)

-----------------------------------------------------------------------------
\* Whatever order runs end in, and whoever deletes or edits under them: once the
\* newest run of a project has an end, the project shows it.
NewestRunIsShown ==
  \A p \in Project :
    LET n == Len(runs[p])
    IN n > 0 /\ runs[p][n].status \in {"completed", "failed"} => project[p].last = n

\* The rows keep their types and show the newest run, also when runs end out of
\* order.
RunsWellFormed == TypeOK /\ NewestRunIsShown

\* An enabled project with a cadence is never left without a next run: not by a
\* run that does not end, by one that ends late, nor by an edit under it.
EnabledStaysScheduled ==
  \A p \in Project :
    Enabled(p) => (project[p].next # None <=> project[p].cadence = "hourly")

\* Checks are made minutes before what they allow, on rows a session may have
\* read for an earlier project of its list.  Still, nothing is run that was
\* disabled all the time, and the forum is asked only by a request during which
\* it was enabled and authorized, with a retry-after that is over by now.
OnlyTheWantedIsRun ==
  \A r \in Request :
    /\ run[r] \notin {None, Gone} => Current(r) \in wanted[r]
    /\ At(r, "fetch") /\ Current(r) \in OnForum => fit[r] # None /\ fit[r] <= clock

\* Evidence counts as new in one run only, and the runs compared with each other
\* are whole, although two requests may store the same evidence at once.
NewInOneRun ==
  \A p, q \in Project : \A m \in DOMAIN runs[p] : \A n \in DOMAIN runs[q] :
    /\ <<p, m>> # <<q, n>> => runs[p][m].new \cap runs[q][n].new = {}
    /\ runs[p][m].status = "completed" => runs[p][m].whole
    /\ ~runs[p][m].whole => runs[p][m].new = {}

\* Evidence counts as new in one run only.  A run that says it failed is whole, and
\* has new evidence, only when the commit of that evidence raised although it took
\* effect (the handler of process_scan then marks the completed run as failed).
NewOnce ==
  /\ NewInOneRun
  /\ \A p \in Project : \A n \in DOMAIN runs[p] :
       runs[p][n].status = "failed" /\ runs[p][n].whole => runs[p][n].lost

\* A due project is served, or skipped because its forum is not ready, although a
\* run-due works through its list alone, goes stale and may die on the way.
Exhausted == \E q \in Project : Len(runs[q]) = MaxRuns
DueIsServed ==
  \A p \in Project :
    Due(p) ~> \/ ~Due(p)
             \/ (p \in OnForum /\ ~CanRun(forum))
             \/ Exhausted

-----------------------------------------------------------------------------
\* The inductive invariant the proofs of ResearchRuns_proofs rest on.

\* The tables: a project with runs exists, and what counts as new was stored.
RowsInv ==
  /\ \A p \in Project : runs[p] # <<>> => project[p] # None
  /\ \A p \in Project : \A n \in DOMAIN runs[p] : runs[p][n].new \subseteq items
  /\ NewestRunIsShown /\ EnabledStaysScheduled /\ NewInOneRun

\* What a request still has to run was wanted since it began.
ListStands(r) ==
  /\ At(r, "idle") <=> todo[r] = <<>>
  /\ \A i \in DOMAIN todo[r] : project[todo[r][i]] # None /\ todo[r][i] \in wanted[r]

\* The run a request works on is one of the project it is at, unless a reset
\* deleted it.
RunStands(r) ==
  /\ run[r] = None <=> pc[r] \in {"idle", "consider", "reserve"}
  /\ run[r] \notin {None, Gone} => run[r][1] = Current(r) /\ run[r][2] \in DOMAIN runs[Current(r)]
  /\ At(r, "record") => Current(r) \in OnForum /\ reply[r].at # None

\* What its session holds of the forum was so since it began, but for the
\* retry-after of its own answer.
ViewStands(r) ==
  /\ At(r, "idle") => view[r] = None
  /\ view[r] # None /\ ReadyFrom(view[r]) # None
       => fit[r] # None /\ (fit[r] <= clock \/ fit[r] <= ReadyFrom(view[r]))
  /\ pc[r] \in {"fetch", "record"} /\ Current(r) \in OnForum
       => view[r] # None /\ fit[r] # None /\ fit[r] <= clock

\* A run is worked on by one request, and until that one's commit nobody has
\* stored its evidence.
OwnInv ==
  /\ \A r, q \in Request : run[r] = run[q] /\ run[r] \notin {None, Gone} => r = q
  /\ \A r \in Request : run[r] \notin {None, Gone} =>
       LET row == runs[run[r][1]][run[r][2]]
       IN row.whole => row.lost /\ At(r, "fail")
  /\ \A p \in Project : \A n \in DOMAIN runs[p] :
       runs[p][n].status = "failed" /\ runs[p][n].whole => runs[p][n].lost

ResearchInv ==
  /\ TypeOK /\ RowsInv
  /\ \A r \in Request : ListStands(r) /\ RunStands(r) /\ ViewStands(r)
=============================================================================
