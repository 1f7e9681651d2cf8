-------------------------- MODULE OpportunityThreads --------------------------
(***************************************************************************)
(* Opportunity threads and their snapshots                                 *)
(* (services/opportunity_threads/service.py and the routes that call it).  *)
(*                                                                         *)
(* db is the committed database.  A run persists its evidence in one       *)
(* transaction that holds SQLite's write lock: txn is its private copy,    *)
(* which CommitRun publishes and AbortRun drops.  Every other writer       *)
(* waits while txn is open; readers go on reading db.                      *)
(*                                                                         *)
(* A caller reads in one step what it writes in a later one: the version   *)
(* on a page the operator looks at, the source of a clone before the       *)
(* model provider is called, the thread row before the INSERT.  SELECTs    *)
(* take no lock and nothing is expired in between (expire_on_commit=False),*)
(* so what call[c] holds may be stale when it is used.                     *)
(*                                                                         *)
(* Snapshots, threads and events are numbered in the order they are        *)
(* created.  A decision is a review state with its note.                   *)
(***************************************************************************)
EXTENDS ThreadMatch, Sequences

CONSTANTS
    Run,          \* scans that persist evidence, each at most once
    ProjectOf,    \* the research project of a scan, or Untracked for a manual one
    Untracked,
    Decision,     \* decisions the operator and the agents choose from
    New,          \* the decision of a fresh thread: state "new", no note
    Caller,       \* requests in flight
    MaxSnapshots, \* bound on the snapshots ever created
    MaxVersion    \* bound on the version of a thread

NoRun == "none"  \* scan_id of a regenerated or enhanced snapshot
NoTxn == [open |-> FALSE]
NoSnapshot == 0

ASSUME ThreadsAssumption ==
    /\ NoRun \notin Run
    /\ New \in Decision
    /\ {MaxSnapshots, MaxVersion} \subseteq Nat \ {0}
    /\ Run \subseteq DOMAIN ProjectOf

VARIABLES db, txn, persisted, call

vars == <<db, txn, persisted, call>>

EmptyDb == [snap |-> <<>>, thread |-> <<>>, event |-> <<>>]

Idle == [at |-> "idle", snap |-> NoSnapshot, thread |-> NoThread, version |-> 0, state |-> New]

Init ==
    /\ db = EmptyDb
    /\ txn = NoTxn
    /\ persisted = {}
    /\ call = [c \in Caller |-> Idle]

SnapshotsOf(d, t) == {s \in DOMAIN d.snap : d.snap[s].thread = t}

Newest(S) == CHOOSE s \in S : \A u \in S : u <= s

----------------------------------------------------------------------------
(* Matching and attaching, inside the transaction of a run. *)

(* A bug: corrections are not looked at. *)
Excluded_None(d, e) == {}

(* Threads that lost a snapshot of this evidence to a correction. *)
Excluded(d, e) ==
    {d.event[i].thread : i \in {j \in DOMAIN d.event :
        /\ d.event[j].type = "snapshot_detached"
        /\ d.snap[d.event[j].snapshot].evidence = e}}

(* A bug: the scan's own threads stay candidates. *)
CandidateThreads_SameScan(d, r, e) ==
    {t \in DOMAIN d.thread \ Excluded(d, e) : d.thread[t].project = ProjectOf[r]}

(* Threads of the project whose current snapshot is not of this scan. *)
CandidateThreads(d, r, e) ==
    {t \in DOMAIN d.thread \ Excluded(d, e) :
        /\ d.thread[t].project = ProjectOf[r]
        /\ d.snap[d.thread[t].current].run # r}

Candidates(d, r, e) ==
    {[thread |-> t, evidence |-> d.snap[d.thread[t].current].evidence] :
        t \in CandidateThreads(d, r, e)}

MatchFor(d, r, e) ==
    IF ProjectOf[r] = Untracked THEN Match(NoThread, "new_untracked")
    ELSE ChooseMatch(e, Candidates(d, r, e))

Thread(project, current) ==
    [project |-> project, current |-> current, state |-> New, version |-> 1]

(* source is the snapshot a clone was made of. *)
Snapshot(thread, r, e, method, state, source) ==
    [thread |-> thread, run |-> r, evidence |-> e, method |-> method, state |-> state,
     source |-> source]

NewSnapshot(d) == Len(d.snap) + 1
NewThread(d) == Len(d.thread) + 1

Joined(d, r, e, m) ==
    [d EXCEPT !.snap = Append(@, Snapshot(m.thread, r, e, m.method, d.thread[m.thread].state,
                                          NoSnapshot)),
              !.thread[m.thread].current = NewSnapshot(d)]

Opened(d, r, e, m) ==
    [d EXCEPT !.snap = Append(@, Snapshot(NewThread(d), r, e, m.method, New, NoSnapshot)),
              !.thread = Append(@, Thread(ProjectOf[r], NewSnapshot(d)))]

Attached(d, r, e) ==
    LET m == MatchFor(d, r, e)
    IN  IF m.thread = NoThread THEN Opened(d, r, e, m) ELSE Joined(d, r, e, m)

BeginRun(r) ==
    /\ ~txn.open
    /\ r \notin persisted
    /\ txn' = [open |-> TRUE, run |-> r, db |-> db]
    /\ UNCHANGED <<db, persisted, call>>

(* The clusters of a run are disjoint sets of items with unique text hashes. *)
AttachCluster(e) ==
    /\ txn.open
    /\ Len(txn.db.snap) < MaxSnapshots
    /\ \A s \in DOMAIN txn.db.snap : txn.db.snap[s].run = txn.run => txn.db.snap[s].evidence # e
    /\ txn' = [txn EXCEPT !.db = Attached(txn.db, txn.run, e)]
    /\ UNCHANGED <<db, persisted, call>>

CommitRun ==
    /\ txn.open
    /\ db' = txn.db
    /\ persisted' = persisted \union {txn.run}
    /\ txn' = NoTxn
    /\ UNCHANGED call

(* The session lost its authority, or an exception: nothing was written. *)
AbortRun ==
    /\ txn.open
    /\ persisted' = persisted \union {txn.run}
    /\ txn' = NoTxn
    /\ UNCHANGED <<db, call>>

----------------------------------------------------------------------------
(* What a caller reads, in autocommitted SELECTs. *)

Reads(c, what) ==
    /\ call' = [call EXCEPT ![c] = what]
    /\ UNCHANGED <<db, txn, persisted>>

ThreadRead(d, s, t) ==
    [at |-> "thread", snap |-> s, thread |-> t, version |-> d.thread[t].version,
     state |-> d.thread[t].state]

(* The thread page, or an agent's get_opportunity_thread. *)
ReadThread(c, t) ==
    /\ call[c].at = "idle"
    /\ t \in DOMAIN db.thread
    /\ Reads(c, ThreadRead(db, NoSnapshot, t))

(* review, regenerate and enhance start from a snapshot ... *)
ReadSnapshot(c, s) ==
    /\ call[c].at = "idle"
    /\ s \in DOMAIN db.snap
    /\ Reads(c, [Idle EXCEPT !.at = "snapshot", !.snap = s, !.thread = db.snap[s].thread])

(* ... and fetch the thread it named then, after the model provider answered
   if the request was to enhance. *)
ReadItsThread(c) ==
    /\ call[c].at = "snapshot"
    /\ Reads(c, ThreadRead(db, call[c].snap, call[c].thread))

(* An answer without a write: the provider failed, apply was not set, the
   page was closed, a payload was refused. *)
GiveUp(c) ==
    /\ call[c].at # "idle"
    /\ Reads(c, Idle)

----------------------------------------------------------------------------
(* Writes of one short transaction. *)

(* seen is the decision its author had read; version the one it replaced. *)
Event(type, t, s, prev, next, version, seen) ==
    [type |-> type, thread |-> t, snapshot |-> s, prev |-> prev, next |-> next,
     version |-> version, seen |-> seen]

(* A bug: the version is read and not compared. *)
VersionHolds_Unchecked(c) == db.thread[call[c].thread].version >= call[c].version

(* lock_thread_version: UPDATE ... WHERE version = expected. *)
VersionHolds(c) == db.thread[call[c].thread].version = call[c].version

Writes(c, d) ==
    /\ ~txn.open
    /\ db' = d
    /\ call' = [call EXCEPT ![c] = Idle]
    /\ UNCHANGED <<txn, persisted>>

Decided(d, t, next, seen) ==
    [d EXCEPT
        !.event = Append(@, Event("decision_changed", t, d.thread[t].current,
                                  d.thread[t].state, next, d.thread[t].version, seen)),
        !.thread[t].state = next,
        !.thread[t].version = @ + 1,
        !.snap = [s \in DOMAIN @ |->
                    IF @[s].thread = t THEN [@[s] EXCEPT !.state = next] ELSE @[s]]]

(* The decision the thread has already is accepted without a change. *)
Decide(c, next) ==
    /\ call[c].at = "thread"
    /\ VersionHolds(c)
    /\ db.thread[call[c].thread].version < MaxVersion
    /\ Writes(c, IF db.thread[call[c].thread].state = next THEN db
                 ELSE Decided(db, call[c].thread, next, call[c].state))

(* A version that is no longer the thread's: 409, rolled back. *)
Conflict(c) ==
    /\ call[c].at = "thread"
    /\ ~VersionHolds(c)
    /\ Writes(c, db)

(* A bug: the list is sorted the other way round. *)
Fallback_Oldest(d, t, s) ==
    IF d.thread[t].current = s
    THEN CHOOSE u \in SnapshotsOf(d, t) \ {s} : \A v \in SnapshotsOf(d, t) \ {s} : u <= v
    ELSE d.thread[t].current

(* The thread falls back to its newest remaining snapshot. *)
Fallback(d, t, s) ==
    IF d.thread[t].current = s THEN Newest(SnapshotsOf(d, t) \ {s}) ELSE d.thread[t].current

Correction(d, t, s, seen) ==
    Event("snapshot_detached", t, s, d.thread[t].state, d.thread[t].state,
          d.thread[t].version, seen)

Creation(d, s) == Event("thread_created_by_detach", NewThread(d), s, New, New, 0, New)

Moved(d, t, s) ==
    [d EXCEPT !.thread = Append(@, Thread(d.thread[t].project, s)),
              !.snap[s].thread = NewThread(d),
              !.snap[s].state = New]

Detached(d, t, s, seen) ==
    [Moved(d, t, s) EXCEPT !.thread[t].current = Fallback(d, t, s),
                           !.thread[t].version = @ + 1,
                           !.event = Append(Append(@, Correction(d, t, s, seen)),
                                             Creation(d, s))]

MayDetach(d, t, s) ==
    /\ d.snap[s].thread = t
    /\ d.snap[s].method \in AutoMethods
    /\ Cardinality(SnapshotsOf(d, t)) >= 2

(* Both locks, then the snapshot and the version as they are now. *)
Detach(c, s) ==
    /\ call[c].at = "thread" /\ call[c].snap = NoSnapshot
    /\ s \in DOMAIN db.snap
    /\ VersionHolds(c)
    /\ db.thread[call[c].thread].version < MaxVersion
    /\ MayDetach(db, call[c].thread, s)
    /\ Writes(c, Detached(db, call[c].thread, s, call[c].state))

(* The clone goes where its source was when it was read, with the decision
   the thread had when that was read; the thread's version is not checked and
   not raised. *)
Cloned(d, s, t, state, method) ==
    [d EXCEPT !.snap = Append(@, Snapshot(t, NoRun, d.snap[s].evidence, method, state, s)),
              !.thread[t].current = NewSnapshot(d)]

CloneMethods == {"regenerated", "enhanced"}

Clone(c, method) ==
    /\ call[c].at = "thread" /\ call[c].snap # NoSnapshot
    /\ Len(db.snap) < MaxSnapshots
    /\ Writes(c, Cloned(db, call[c].snap, call[c].thread, call[c].state, method))

Next ==
    \/ \E r \in Run : BeginRun(r)
    \/ \E e \in Evidence : AttachCluster(e)
    \/ CommitRun \/ AbortRun
    \/ \E c \in Caller :
         \/ \E t \in DOMAIN db.thread : ReadThread(c, t)
         \/ \E s \in DOMAIN db.snap : ReadSnapshot(c, s) \/ Detach(c, s)
         \/ ReadItsThread(c) \/ GiveUp(c) \/ Conflict(c)
         \/ \E next \in Decision : Decide(c, next)
         \/ \E method \in CloneMethods : Clone(c, method)

Spec == Init /\ [][Next]_vars

----------------------------------------------------------------------------
AllMethods == Methods \union CloneMethods
Projects == {ProjectOf[r] : r \in Run}

SnapshotType ==
    [thread : Nat \ {0}, run : Run \union {NoRun}, evidence : Evidence, method : AllMethods,
     state : Decision, source : Nat]

ThreadType == [project : Projects, current : Nat \ {0}, state : Decision, version : Nat \ {0}]

EventType ==
    [type : {"decision_changed", "snapshot_detached", "thread_created_by_detach"},
     thread : Nat \ {0}, snapshot : Nat \ {0}, prev : Decision, next : Decision,
     version : Nat, seen : Decision]

DbType == [snap : Seq(SnapshotType), thread : Seq(ThreadType), event : Seq(EventType)]

CallType ==
    [at : {"idle", "snapshot", "thread"}, snap : Nat, thread : Nat, version : Nat, state : Decision]

TypeOK ==
    /\ db \in DbType
    /\ txn \in {NoTxn} \union [open : {TRUE}, run : Run, db : DbType]
    /\ persisted \subseteq Run
    /\ call \in [Caller -> CallType]

(* The snapshot a thread shows is its newest, and no thread is left without
   one, whatever runs, corrections and clones follow each other. *)
CurrentIsNewest(d) ==
    \A t \in DOMAIN d.thread :
        /\ d.thread[t].current \in SnapshotsOf(d, t)
        /\ \A s \in SnapshotsOf(d, t) : s <= d.thread[t].current

(* Two clusters of one run are two threads: a comparison of runs, which keeps
   one snapshot per run and thread, loses none (services/research_memory). *)
RunsDoNotMerge(d) ==
    \A s, u \in DOMAIN d.snap :
        (s # u /\ d.snap[s].run # NoRun /\ d.snap[s].run = d.snap[u].run)
            => d.snap[s].thread # d.snap[u].thread

(* Evidence found for one project, or for none, is never filed under another,
   also after a correction. *)
ProjectsDoNotMix(d) ==
    \A s \in DOMAIN d.snap :
        d.snap[s].run # NoRun => d.thread[d.snap[s].thread].project = ProjectOf[d.snap[s].run]

Changes(d, t) == {i \in DOMAIN d.event : d.event[i].thread = t /\ d.event[i].version > 0}

(* The append-only history accounts for a thread: its changes were accepted
   at different versions, in order; each starts from the decision the one
   before left; and what the last left is the thread's decision. *)
Replays(d, t) ==
    /\ \A i, j \in Changes(d, t) : i < j => d.event[i].version < d.event[j].version
    /\ \A i \in Changes(d, t) : d.event[i].version < d.thread[t].version
    /\ \A i, j \in Changes(d, t) :
         (i < j /\ \A k \in Changes(d, t) : k <= i \/ k >= j) => d.event[i].next = d.event[j].prev
    /\ \A i \in Changes(d, t) :
         (\A k \in Changes(d, t) : k <= i) => d.event[i].next = d.thread[t].state
    /\ Changes(d, t) = {} => d.thread[t].state = New

HistoryReplays(d) == \A t \in DOMAIN d.thread : Replays(d, t)

(* Every change answers the decision its author had read: of two that act on
   one page, or of an agent and the operator, the second is refused. *)
DecidedKnowingly(d) == \A i \in DOMAIN d.event : d.event[i].seen = d.event[i].prev

(* No sequence of runs, clones and corrections leaves a thread without its
   newest snapshot in view. *)
ThreadsWellFormed == TypeOK /\ CurrentIsNewest(db)

(* What is filed together belongs together: one snapshot per run, one project. *)
ThreadsStaySeparate == RunsDoNotMerge(db) /\ ProjectsDoNotMix(db)

(* The history of a thread is a chain of decisions, each taken by someone who
   knew the one before. *)
HistoryIsTrue == HistoryReplays(db) /\ DecidedKnowingly(db)

Fresh == DOMAIN db'.snap \ DOMAIN db.snap

(* Detached: the operator said that this evidence does not belong there. *)
Corrected(d, t, e) ==
    \E i \in DOMAIN d.event :
        /\ d.event[i].type = "snapshot_detached" /\ d.event[i].thread = t
        /\ d.snap[d.event[i].snapshot].evidence = e

(* No later run puts evidence back by itself where the operator took it out. *)
CorrectionHolds ==
    [][ \A s \in Fresh : db'.snap[s].method \in AutoMethods =>
            ~Corrected(db, db'.snap[s].thread, db'.snap[s].evidence) ]_vars

(* A copy of a snapshot joins the thread its source is in. *)
CloneJoinsItsSource ==
    [][ \A s \in Fresh : db'.snap[s].source # NoSnapshot =>
            db'.snap[s].thread = db.snap[db'.snap[s].source].thread ]_vars

----------------------------------------------------------------------------
(* The inductive invariant behind these properties. *)

(* Every reference leads somewhere. *)
Filed(d) ==
    /\ \A s \in DOMAIN d.snap : d.snap[s].thread \in DOMAIN d.thread
    /\ \A i \in DOMAIN d.event :
         d.event[i].thread \in DOMAIN d.thread /\ d.event[i].snapshot \in DOMAIN d.snap

Sound(d) ==
    /\ Filed(d) /\ CurrentIsNewest(d)
    /\ RunsDoNotMerge(d) /\ ProjectsDoNotMix(d)
    /\ HistoryReplays(d) /\ DecidedKnowingly(d)

(* A run adds snapshots of its own, and threads, to the database it began
   with; decisions, versions and history it leaves as they are. *)
Continues(d, r, e) ==
    /\ e.event = d.event
    /\ DOMAIN d.snap \subseteq DOMAIN e.snap /\ DOMAIN d.thread \subseteq DOMAIN e.thread
    /\ \A s \in DOMAIN e.snap :
         IF s \in DOMAIN d.snap THEN e.snap[s] = d.snap[s] ELSE e.snap[s].run = r
    /\ \A t \in DOMAIN d.thread :
         e.thread[t].version = d.thread[t].version /\ e.thread[t].state = d.thread[t].state

(* What the run attached by itself respects the corrections. *)
Respects(d, e) ==
    \A s \in DOMAIN e.snap \ DOMAIN d.snap :
        e.snap[s].method \in AutoMethods => ~Corrected(d, e.snap[s].thread, e.snap[s].evidence)

TransactionInv ==
    txn.open => /\ txn.run \notin persisted
                /\ Sound(txn.db)
                /\ Continues(db, txn.run, txn.db)
                /\ Respects(db, txn.db)

(* What a caller holds was true: a version that is still the thread's comes
   with the decision that is still the thread's. *)
Holds(k, d) ==
    /\ k.at # "idle" => k.thread \in DOMAIN d.thread
    /\ k.at # "idle" /\ k.snap # NoSnapshot => k.snap \in DOMAIN d.snap
    /\ k.at = "thread" => /\ k.version <= d.thread[k.thread].version
                          /\ k.version = d.thread[k.thread].version
                               => k.state = d.thread[k.thread].state

ThreadsInv ==
    /\ TypeOK /\ Sound(db) /\ TransactionInv
    /\ \A s \in DOMAIN db.snap : db.snap[s].run \in persisted \union {NoRun}
    /\ \A c \in Caller : Holds(call[c], db)
=============================================================================
