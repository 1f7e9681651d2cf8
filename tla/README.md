# TaskSignal in TLA+

TaskSignal is a local-first evidence-to-build workbench for one operator: it
scans public sources, turns what it finds into *opportunity threads*, lets a
human and supervised agents decide about them, and stores *build packets* of
the ones worth building.  One database (SQLite, or Postgres) is shared by a
FastAPI server, whose handlers run in threads, and by any number of agent
processes that serve the same operations over MCP.  What makes the code hard to
test is what happens between these writers: leases that lapse, retries that
overlap, processes that die between two transactions, and requests that read,
wait for a connector or a model provider, and write much later.

Beside them stand local programs that share files and not the database: the
packaged commands that create the private configuration and migrate the schema,
the command-line client, and the release check with its proof bundle.

This directory models that core and those edges.  `PROJECT.json` maps every
definition to the source lines it stands for.  Paths below are relative to
`src/apps/api/app/` unless they start with `docs/`.

## 1. The system

### Components

| component | source | state | operations | what must hold |
| --- | --- | --- | --- | --- |
| agent sessions | `services/agent_sessions`, `mcp_server/runtime.py`, `lifecycle.py` | session row (status, version, expires_at, capabilities); the process's secret and heartbeat loop | register, approve, heartbeat, expire, revoke, exit | authority is granted once, by a human, and never comes back; a revoke wins every race; a silent process loses its lease |
| action executor | `services/agent_actions` | the append-only `agent_actions` ledger | reserve, run the domain transaction, record, replay | one effect and one terminal event per operation; every client is told the same; no effect without authority |
| MCP write tools | `services/mcp_surface/writes.py` | none of its own; scan, packet and ledger rows | run_project, create_build_packet, decisions, labels, recovery | one fetch and one paid provider call per request, whoever retries or takes over |
| scan pipeline | `workers/scan_pipeline.py` | scan jobs, observations, evidence | reserve, start, fetch, persist, fail | evidence and status are one fact; no evidence without authority |
| research projects | `services/research_projects`, `api/routes.py` | project (version, schedule, last run), runs | create, update, run, run due | one sequence of runs; the newest run is shown and sets the schedule; nothing unwanted is run |
| opportunity threads | `services/opportunity_threads` | threads, immutable snapshots, decision events | match, attach, clone, decide, detach | current snapshot, decision and history agree; a correction holds |
| evidence review | `services/evidence_review` | append-only labels | label, readiness, evaluation | a human's label is not overruled by an agent's |
| build packets | `services/build_packets`, `api/routes.py` | immutable packets | read, generate, revalidate, store | a packet pictures an eligible thread at one moment |
| sources, Discourse forums | `services/discourse_sources`, `api/routes.py` | source, authorization of a host, retry-after, last success and failure | create, authorize, revoke, update, bind, delete, readiness, record | one source per host; no authorization nobody asked for; no fetch of a forum that is not authorized or asked to wait |
| run deltas | `services/research_memory` | none | compare a run with its predecessors | the terms of `docs/api.md`, whatever failed or ran in between |
| connectors | `services/ingestion` | one fetch: requests, redirects, waits | fetch | bounded, only the approved public origin, the longest wait kept |
| packet verification | `services/build_packets`, `api/routes.py`, `services/mcp_surface/reads.py`, `scripts/first_run_smoke.py` | packet row, downloaded folder | build, verify, download | what verifies is what was created, and all copies of the rule agree |
| search | `services/search` | none | filter, rank | all filters hold of one observation and one project |
| packaged runtime | `packaged_runtime.py`, `cli.py` | private files, schema revision, migration lock, backups | initialize, load, inspect, back up, migrate, stamp, serve | old schema or new one, never half of it; one set of secrets |
| command line | `cli.py`, `cli_http.py` | none, a downloaded file | one request each, repeated by a person | a repeated command takes effect once; an exit code tells what happened |
| release check | `scripts/first_run_smoke.py` | the proof bundle, a directory | prepare, write, list, verify | one run's packet or no verdict |
| detection, embedding, clustering, scoring, generation, other MCP reads, web UI | `services/*`, `apps/web` | none that a later step depends on | compute, read | - |

### How they interact

* **Shared state.**  Everything durable is in one database.  Writers take its
  write lock first (`acquire_database_scan_write_lock_with_retry`: `BEGIN
  IMMEDIATE`, or an advisory lock on Postgres), and inside one process
  `SCAN_WRITE_LOCK` as well.  Plain SELECTs take neither; sessions are made
  with `expire_on_commit=False`, so an object that was read stays as it was.
* **Calls.**  An MCP tool call is `execute_mcp_write` -> `execute_audited_agent_action`
  -> a domain mutation.  The mutations of `run_project` and of a packet with AI
  commit on the way, because they call the network; `_recover_in_progress_run`
  and `_recover_in_progress_ai_packet` clean up after them.
* **Messages.**  Clients repeat a tool call with the same idempotency key when
  they got no result; a replacement process repeats it in a new session.
* **Files.**  The private config, the SQLite file with its backups, a download and
  the proof bundle are written by programs that know nothing of each other; what
  parts them is `O_EXCL`, an identity check after opening, the migration lock, or
  nothing.
* **Time.**  A lease lasts 60 s, a heartbeat is sent every 30 s and repeated
  5 s after one that raised; SQLite's busy timeout is 30 s.

The behaviours that are hard here: a revoke between two transactions of one
call; a commit that took effect although it raised; a crash at any point; two
callers that act on one page; a fetch or a paid call of minutes between a read
and the write that relies on it; two locks taken in both orders; files that are
replaced, half written or left behind.  `PROJECT.json` lists each at its line,
with the property that is about it.

## 2. Modules

    Authority            what a session promises the rest
      ^ implemented by
    AgentSessions        the lease protocol                     AgentSessions_proofs
      | its promise is used (INSTANCE Authority) by
      +-- AgentActions   the executor and its ledger            AgentActions_proofs
      |     | implements IdempotentWrites
      +-- RunRecovery    run_project and its recovery           RunRecovery_proofs
      +-- AiPacketElection  create_build_packet with AI         AiPacketElection_proofs

    ThreadMatch          the match rule (operators)             ThreadMatchCheck, Edges_proofs
      ^ EXTENDS
    OpportunityThreads   threads, snapshots, decisions          OpportunityThreads_proofs
      ^ EXTENDS                                                   ^ EXTENDS
    BuildPackets         packets and labels on top of threads   BuildPackets_proofs
      | implements AtomicPackets

    ResearchRuns         projects, schedule, forum, runs        ResearchRuns_proofs

    Migration  RuntimeConfig  PacketDownload  Connectors
    CommandLine  RunDelta  ProofBundle  Sources                 Edges_proofs
      ^ EXTENDS, side by side
    MCEdges

    EvidenceSearch       the search                             Edges_proofs
    PacketIntegrity      the verification of packets            Edges_proofs
      ^ EXTENDS, beside ThreadMatchCheck
    MCThreadMatch

The three writers rely on `Authority` and on nothing else of a session, so each
can be checked without the clock; that `AgentSessions` keeps the promise is
checked (`sessions`) and proved.

**AgentSessions.**  One action per handler (`ApproveRoute`, `RevokeRoute`,
`ExitRoute`, `HeartbeatRoute`, `Read`, and `ApproveTTY` for the terminal prompt)
and for the process (`Register`, `Heartbeat`, `HeartbeatRaises`, `Shutdown`,
`Crash`).  Handlers hold the write lock from the read to the commit,
so each is one step.  `expires_at` is kept as ticks left, so no clock value is
needed.  `silence` is a history variable: ticks since the last proof of the secret.
A heartbeat that is due lasts up to `Attempt` ticks (`trying`): it waits for the
database when it begins its transaction and again when it commits, up to 2 s each
(mcp_server/runtime.py:44), and its effect or its failure may come at any moment of
that; the loop waits `Retry` only after a failure is known.

**AgentActions.**  A call is up to three transactions.  The first and the last
do nothing else and are one step; the domain transaction has `lock` and several
steps, because revokes and other calls come before it and a commit may take
effect and still raise (`CommitUnreported`).  `ledger` is the set of rows;
request hashes are the requests themselves, `Conflict` rows included.

**RunRecovery.**  One request with one key, sent by any calls of any sessions.
The scan id is derived from both, so all of them meet the same scan.  `lock` and
`mutex` are the two locks, taken in the order the code takes them; a thread that
waits for both is parted by the busy timeout.  `CommitUnreported` is a commit
that takes effect and raises, of the reservation of the scan or of its evidence
(`LostReports`); `unreported` is its history.  `Overlap` lets a client retry
while its call runs, `Stalls` lets a lease lapse under a live process (the
machine slept).

**AiPacketElection.**  The same for a paid call: there is no scan row to find,
the order of the reservations elects the one session that may call the
provider.  `Recover` is `_recover_in_progress_ai_packet` whole: take over a
success, copy a failure, wait, or give up for everybody.

**ThreadMatch / ThreadMatchCheck.**  `choose_thread_match` as operators on a set
of candidates.  Scores are the floats the code computes, counted in units of 10^-18 of
which `Hundredth` make 0.01, and so are the floats 0.82 and 0.05; the difference of
two floats that close is exact, so the comparisons come out as in the code.  The
check compares the sorted list with leading all the others, and with the rule
`docs/architecture.md` states over the exact similarities (`Documented`).

**OpportunityThreads.**  `db` is the committed database and `txn` the private
copy of the run that holds the write lock.  A `call` reads in one step (the
page, the source of a clone, the thread row) and writes in a later one.

**BuildPackets.**  A request reads the thread, then everything else, generates,
and stores in a second transaction that reads it all again.  `AtomicPackets` is
the promise: a packet is what its thread offers at that very moment.  Every step
of `OpportunityThreads` is one of `PacketsNext`, so what is proved of threads is
used here as it stands.

**ResearchRuns.**  A request is a thread with a `pc`: it runs one project
(`RunProject`) or works through a list of due ones (`RunDue`, `Advance`), and for
each of them considers, reserves, begins, asks the connector, answers, records
success and persists, or fails.  Locks are taken and given back within one step,
so a step is one transaction.  Edits, a revoke, another scan of the same
evidence, the demo reset, a crash of the server, a lost report of a commit and a
handler that raises come between any two of them.  `wanted` and `fit` are history
variables: the projects that were enabled at some moment since the request began,
and the earliest time at which the forum, as it was at one such moment, is ready;
`lost`, kept with a run, says that the commit of its evidence raised.

**Sources.**  Each route is two steps, what it reads and what it commits.  Only
the foreign keys and unique constraints of the tables are looked at in the
second, as in the code; `IntegrityError` is the refusal.

**Migration.**  Releases with different packaged heads migrate, stamp and serve
one database.  `disk` holds every file a path has pointed to, with its revision,
its objects and a count of writes; a command guards the file it has opened and
must not work on another one.  A checkout of any age may be started on any database
and creates the tables and columns it misses, whatever version is stamped there
(`CreateTables`; `Mixed` objects are those of no revision, and `altered` remembers
that it happened under a version).  A command may be killed anywhere.

**RuntimeConfig, PacketDownload.**  Who created the file that is in place, how
much of it is written, and what each command has in its hands.  A file is named
by its writer, which is what `SameFile` (device and inode) compares.  The check
before the cleanup and the `unlink` are two steps, and so are the look for the
directory and its creation, which fails when another init came first.

**PacketIntegrity.**  A packet row with its files, variants, manifest and hashes,
where a hash is the content it is of; the row's columns and the extracted folder
are edited up to `MaxHits` times.  `VerifyPacketRecord`, `VerificationOut`,
`InspectBuildPacket` and `VerifyBuildPacketDirectory` are the four checks of the
code.

**Connectors.**  One fetch of the Discourse, Hacker News, Reddit or a one-page
connector; the source answers anything and the name service resolves anew for
every request.

**CommandLine.**  The tables of the parser and the client (which command is which
request, which sends a version) and a person who repeats a command line whose
answer was lost, while the first request is on its way.

**RunDelta.**  The list a connector fetched is kept of a run besides what was
stored, so the counts can be compared with the terms of the documentation.  A run
fails with nothing stored, or (`RunReportLost`) with everything stored and compared
with by later runs, for the code asks of a predecessor only that its lineage is
complete (`Comparable`).

**ProofBundle.**  A run writes its artifacts in the order of the code, lists what
it finds and writes the manifest; runs follow one another, die or overlap.

**EvidenceSearch.**  The filters as the code composes them, over any rows.

**MCEdges, MCThreadMatch.**  Modules that share no state are checked side by side:
one is chosen at the start and moves, the others keep an initial state.  The
states add up, each property is checked of its own machine, and nothing is lost,
because there is no step of one that another could see.

## 3. Runs

All runs finish in about four minutes or less on two cores.

| run | instance | shows |
| --- | --- | --- |
| `sessions` | one session, a tick is a second: lease 60, interval 30, retry 5, attempt 4 (two waits of 2 s), row written up to 4 times; 504,953 states | `RevokeIsTerminal`; `LeaseLostOnlyAfterOutage`; refinement of `Authority`; under fairness `GoneProcessIsClosed` |
| `executor` | 2 sessions, 1 key each, 3 calls, requests with and without AI, stale and current versions | `AnswersAgree`, `NoSilentAbandon`, `NoEffectAfterClose`, refinement of `IdempotentWrites` |
| `recovery` | 2 processes, calls a1 a2 b1, overlapping retries, one concurrent edit, crashes, leases that run out, lost reports of commits; 298,425 states | `OneFetch`, `CompletedIsTrue`, `ClosedElsewhereBringsNothing`, `EvidenceUnderGrant`, and, with the inverted locks, `EveryCallReturns` and `EveryRetrySettles` |
| `recovery_overlap` | the same, no report is lost | **violated**: `FailedBringsNothing` |
| `matching` | all sets of up to 4 candidates with scores on and next to threshold and margin, each as rounded (0.86 is 13 units low, 0.81 is 53 high); all rows of up to 2 observations and 2 threads, and every search request; packets of 2 files and 1 variant, 2 contents, any 2 edits | `MatchIsWarranted`; `SearchIsExact` (`OneObservationFits`, `DecidedHitsHaveThreads`, `ShownIsNewest`); `VerificationIsSound` (`CreatedVerifies`, `VerifiedIsOriginal`, `VerificationsAgree`, `FaultsAreNamed`, `FolderIsTheDownload`) |
| `threads` | 2 runs, 2 callers, 3 snapshots, version 3 | `ThreadsWellFormed` (types, `CurrentIsNewest`), `HistoryIsTrue` (`HistoryReplays`, `DecidedKnowingly`) |
| `threads_runs` | 3 runs of one project and one of another, three pieces of evidence, 1 caller, 4 snapshots | `ThreadsStaySeparate` (`RunsDoNotMerge`, `ProjectsDoNotMix`), `CorrectionHolds` |
| `threads_clone` | as `threads` | **violated**: `CloneJoinsItsSource` |
| `packets` | 1 request, 2 runs, 1 caller, 1 item with 2 labels | `PacketsWellFormed` (types, `PacketsNameTheirDecision`), refinement of `AtomicPackets` |
| `election` | 2 processes, calls a1 a2 b1, overlap, stalls and failing transactions | `PaidOnce`, `PacketIsAudited`, `IndeterminateIsFinal`, `StoredUnderGrant` |
| `research` | 2 requests on one project; 1 on the forum's; 1 on both; 2 runs, 2 edits, 1 fault, 1 retry-after | `RunsWellFormed` (types, `NewestRunIsShown`), `EnabledStaysScheduled`, `OnlyTheWantedIsRun`, `NewOnce`, and under fairness `DueIsServed` |
| `edges` | one of eight machines, see below | one property of each machine |

What `edges` shows, machine by machine, and the parts each property is the
conjunction of (the type invariant of the module is one more part):

| machine | instance | property | parts |
| --- | --- | --- | --- |
| `Migration` | 3 commands of releases with heads 1 and 2, 2 files, 1 row, SQLite or Postgres | `MigrationSafety` | `VersionTellsShape`, `ChangeIsBackedUp`, `ServedSchemaIsKnown`, `PartialMeansInterrupted` |
| `RuntimeConfig` | 3 commands, 2 settings, 1 change by the operator | `ConfigSafety` | `CreatedIsTheConfig`, `OneRuntime`, `OnlyItsWriterUnlinks` |
| `PacketDownload` | 2 commands with one output, 3 chunks, limit 1 | `SavedOrNothing` | `SavedStays`, `ErrorLeavesNothing` |
| `Connectors` | 2 topics, 3 listed, 1 redirect, 1 detail, waits up to 2 | `FetchKeepsTerms` | `RequestsBounded`, `OnlyOwnPublicOrigin`, `LongestWaitKept`, `ItemsAreTheFirst` |
| `CommandLine` | 1 person, every command, given twice, 1 change elsewhere | `CommandsAreHonest` | `RepeatedOnceApplied`, `ZeroMeansDone`, `RefusedChangesNothing` |
| `RunDelta` | 3 runs of up to 2 items, 2 identities, 3 texts; the second may lose the report of its commit (`LostAt`) | `DeltaIsTrue` | `DeltaTerms`, `RepeatIsUnchanged`, `ThreadNewOnce` |
| `ProofBundle` | 2 runs, 1 edit | `BundleIsOneRun` | `OnePacketInside`, `WholeOrRejected`, `FinishedVerifies` |
| `Sources` | 2 sources, 1 project, 2 requests, 2 hosts in 3 spellings and a rejected one | `SourcesSafety` | `OneSourcePerHost`, `NoOrphans`, `BoundSourceFits`, `AuthorizedAsAsked`, `OriginNeverMoves` |

**Why the bounds are enough.**  *Sessions* do not share state, so one session
shows all behaviours of the protocol.  `MaxVersion` 4 allows a registration, an
approval and two heartbeats, that is, a page that is stale by more than one
version.  *Calls*: the hazards are a retry inside one process (a1, a2) and a
replacement process (b1); three calls have both at once, and every one of them
may be retried without bound.  One key per session is enough because operations
of different keys share only the write lock, which is exclusive; two sessions
meet in the row they both write.  `MaxVersion` 1 of the project gives the edit
between the caller's comparison and `reserve_scan_job`'s.  *Threads*: every
race in this part is between two writers, and three snapshots give a thread a
predecessor, a current one and one that arrives; `threads_runs` needs three
runs because a correction (after the second) must be undone by a third.
*Packets*: one request suffices because a request reads nothing that another
request writes.  *Schedule*: the races are of two requests on one
project (the second run is the newer one), of a request with the forum, and of a
list with what happens to its second project; these are the three casts of
`MCResearch`.  *Files*: every race is between two writers; the third command of
`Migration` and `RuntimeConfig` is the one that meets what two others left.
*Packet columns*: two edits, because a single one is met by the hash of its
column, while two might cancel.  *Deltas*: three runs give a predecessor, a gap
and a return.  *Sources*: a constraint is tested by two requests, and a third
source or host behaves as one of the two; `Edges_proofs` holds for any number.
*Search*: a wrong answer needs one item with two observations, or two threads.

Bounds in guards are named: `MaxVersion`, `MaxEffects`, `MaxSnapshots`, `MaxLabels`,
`MaxPackets`, `MaxRuns`, `MaxEdits`, `MaxFaults`, `MaxWait`, `MaxTime`, `MaxRows`,
`MaxFiles`, `MaxTouches`, `MaxHits`, `MaxTries`, `MaxElsewhere`, `LostAt`,
`MaxFetch`, `MaxListed`, `MaxAsked`, `MaxSequence`, `MaxSeen`.  Runs without
liveness switch the deadlock check off where a bounded system really stops: sessions
end, keys are settled, versions reach their bound.

**Fairness.**  `AgentSessions!FairSpec`: time passes, the heartbeat loop's timer
fires (an asyncio task), and the operator's sessions page polls
(`list_agent_sessions`, which materialises expiries).  Nothing else is promised:
the operator need not approve or revoke, a process need not shut down.
`RunRecovery!FairSpec`: a thread that can take its next step takes it (threads
are scheduled; the locks they wait for have timeouts), a client that was told
"in progress" asks again, which is what the answer tells it to do, and the lease
of a dead process runs out.  `ResearchRuns!FairSpec`: server threads run and
connectors answer or time out (weak fairness of a request's own steps), and
somebody keeps asking for the due projects and gets a thread again and again
(strong fairness of `RunDue`: docs/deployment.md:224 leaves the asking to a
scheduler of the operator's).  Calls are never assumed to start, processes never
to crash or to stay up.

**Violations.**  Two runs show where the code departs from what it says of
itself.

* `recovery_overlap`: `_recover_in_progress_run` asks whether *another* session
  still owns an unfinished scan (writes.py:1248).  When another process has
  died with a reservation, a retry inside the owner's own process closes the
  scan its sibling thread is running; the operation is recorded as failed, and
  then the sibling commits its evidence and sets the scan to completed.
* `threads_clone`: `clone_snapshot` files the enhanced copy under the thread id
  read before the provider was called (service.py:492); a snapshot detached in
  the meantime leaves its copy, as the current snapshot, in the thread the
  operator has taken it out of.

## 4. Proofs

TLC checks the instances above; TLAPS proves these for all values of the
constants.

| module | theorems |
| --- | --- |
| `AgentSessions_proofs` | types, `LeaseFollowsProof`, `RevokeIsTerminal`, `LeaseLostOnlyAfterOutage`, refinement of `Authority` |
| `AgentActions_proofs` | types, `OneTerminalEvent`, the reservation invariant, refinement of `IdempotentWrites`, `AnswersAgree`, `NoSilentAbandon`, `NoEffectAfterClose` |
| `RunRecovery_proofs` | types, `OneFetch`, `CompletedIsTrue`, `EvidenceUnderGrant`, `ClosedElsewhereBringsNothing` |
| `AiPacketElection_proofs` | types, `PaidOnce`, `PacketIsAudited`, `IndeterminateIsFinal`, `StoredUnderGrant` |
| `OpportunityThreads_proofs` | `ThreadsWellFormed`, `ThreadsStaySeparate`, `HistoryIsTrue`, `CorrectionHolds` |
| `BuildPackets_proofs` | `PacketsWellFormed`, refinement of `AtomicPackets` |
| `ResearchRuns_proofs` | `RunsWellFormed`, `EnabledStaysScheduled`, `NewOnce`, `OnlyTheWantedIsRun` |
| `Edges_proofs` | `SourcesSafety` and each of its parts, `MigrationSafety`, `ConfigSafety`, `SavedOrNothing`, `VerificationIsSound`, `FetchKeepsTerms`, `CommandsAreHonest`, `DeltaIsTrue`, `BundleIsOneRun`, `SearchIsExact`, `MatchIsWarranted` |

Assumptions are the named ASSUMEs of each module: calls are pairs of a session
and a number, flags are Booleans, `Interval < TTL`, and so on.  They say what the
constants are, never what the system does.  Each inductive invariant (`...Inv`)
is defined in the module it is about, with a comment, and was checked by TLC
before it was proved; those that say only what a proof needs are in the proof
module.

*Sessions.*  `LeaseFollowsProof` is inductive with the types: only register and
heartbeat set the lease, and both reset the silence.  The refinement maps row
and clock to one authority; each handler begins by materialising an expiry
(`_require_state`), which is why no step leads from "lapsed" back.  A lease is
lost only after an outage because of `MarginInv`: what is left of a lease is at
least `TTL` less the time since its last good heartbeat (`Unrenewed`), which is one
interval, the waits of the heartbeat under way and, for each that raised, its waits
and one retry delay.  With the numbers of the code, three failures in a row may lose
a lease, two cannot.

*Executor.*  `ReservationInv`: reservations are unique and whoever works on an
operation holds its reservation.  `SuccessInv`: a success event names a committed
write of its operation.  With them a terminal event can only be added to an open
operation, and the refinement follows action by action.  `LockInv` (who mutates
holds the lock, and had authority when it took it) gives `NoEffectAfterClose`.
`AnswerInv` says of a definite answer which terminal event it repeats, and for
which request; as there is one terminal event and one reservation (`SuccessInv`
ties the event's result and request to them), two definite answers to one
operation are equal: `AnswersAgree`.  `AnsweredInv` (a call that was answered
takes no further step) and the reservation of whoever works give
`NoSilentAbandon`: an operation without a terminal event has a call at work on it,
or one that died or could not write.

*Run recovery.*  `ScanInv`: once the scan is reserved nobody finds the version
the request expects, so the version is the guard of the only fetch.
`RunnerInv`: only the call that reserved the scan is inside `process_scan`.
`ToldInv`: "completed" is said of committed evidence only.  `CompletedIsTrue` is in
`ScanInv`: evidence is there exactly when the scan is completed, or else its commit
raised although it took effect; what keeps it is that a runner at any point before
that commit has none (`Before`).  `ClosedElsewhereBringsNothing` is an action
property and follows from `ClosedInv`: a scan that anybody recorded as failed is
`Harmless` from then on, that is, the runner's own operation has its failure on
record, or the runner can add no evidence (its session has ended, or its call is
past the commit).  Both are kept because an ended session
stays ended and a terminal event is written once.

*Election.*  `OwnerInv`: past the election there is only the call that made the
first reservation; a new reservation is appended, so the first one never
changes.  `PaidInv`: until that call is at the provider nothing was paid; hence
at most once.  `PacketIsAudited` and `GivenUpInv` are inductive together: a
terminal event is written to an open operation only, a success with the packet
or after it, and who gives up closes the owner's operation too.

*Threads.*  `ThreadsInv` has, besides the types, one soundness (`Sound`: references
lead somewhere, `CurrentIsNewest`, histories that replay, runs and projects apart)
of the committed database and of the open transaction's private copy.
`TransactionInv` relates the two: the copy only adds snapshots of its own run
(`Continues`) and none that a committed correction forbids (`Respects`), because
whoever decides or detaches takes the write lock as well.  `Holds` says of a
caller's page that its version is at most its thread's, and where they are equal so
is the decision it saw; so the comparison of versions makes every decision one about
what its author was shown. That a thread has a newest snapshot to fall back to when
its current one is detached is a least element of a well-founded order (`WFMin`).

*Packets.*  `PacketsInv` adds to `ThreadsInv`, whose proof is used as it stands,
that a thread's decision is what its latest decision event left, whatever
corrections came after it (`DecisionsStand`), that what a request holds between
its two transactions exists (`RequestsHold`), and that no version is taken back
below the one a packet names (`PacketsPrecede`).  The refinement
maps the storing step to `Atomic!Create`, since the second transaction compares
everything the packet pictures; every other step leaves the packets alone.

*Research.*  `ResearchInv` is the types, `RowsInv` (the tables: the newest run is
shown, an enabled project has its schedule, evidence is new once), `OwnInv` (a run
is worked on by one request, and has stored evidence before that one is through only
if its commit raised, whence `NewOnce`: a failed run with new evidence is one whose
commit was lost) and three relations of a request to them: what its list still holds
was wanted since it began (`ListStands`), its run is one of the project it is at
unless a reset took it (`RunStands`), and what its session holds of the forum was so
at a moment since it began, but for the retry-after of its own answer
(`ViewStands`).

*Sources.*  `SourcesInv` is the types, `RequestsStand` and the three relations
between the tables.  The relations alone are not inductive, because a request
commits what it decided some steps ago: `RequestsStand` says that a host it was
shown is its source's host until the source is deleted, and a type it checked
likewise.  `TablesMove` is what every step does to the tables, and under it
`RequestsStand` is kept.  Everything else is left to the constraints `HostFree`,
`PrimaryKeyFree`, `ForeignKey` and `Unreferenced`, looked at in the committing
step itself, which is why the properties hold although the reads are stale.

*Files.*  `MigrationInv`: a command past the lock may rely on what it found
(`CommandStands`), as nobody else moves the database it guards, wherever the path
leads by now; and a whole backup is its database as it was, a partial one is in the
hands of its maker or the maker died (`BackupStands`).  `ConfigInv`: until the
operator touches it, a file that was read stays in place unless its own writer
fails, and who is about to unlink finds its own file or was overtaken.
`DownloadInv`: the file at the output is a command's only once that command has
created it, and only another's cleanup takes it away.  `BundleInv`: a release check
that runs alone finds each artifact as it wrote it, so its listing and its manifest
are whole and of its run.

*Connectors.*  `ConnectorInv` says of each kind of fetch what the requests so far
were for and what the entries still to come leave of the budget, so that the
counts at the end are bounded although pages, details and redirects interleave.

*Command line.*  `CommandInv`: an effect was made by a request that reached its
handler, and the effect of a command that sends a version makes that version
outdated; hence a repeated command takes effect once.

*Packet verification.*  A packet as the service creates it (`IsCreated`) and the
folder its download is extracted to keep their shape whatever is edited behind
the program's back (`IntegrityInv`).  The lemma the rest hangs on is
`MatchesAre`: two sets of files that match one manifest have the same names and
contents.

*Deltas.*  `DeltaInv`: what is stored of a run is every text it was given, under
the first identity it came with, and new where no earlier scan had it.  The
terms of the documentation follow by set algebra (`LeadFacts`: the items stored are
those that lead, the first with their text), except that the new threads of
all runs add up (`ThreadNewOnce`), which is about a sum over the runs.  Instead of
an induction over data it takes the least number of runs at which the recursive
definition of the sum and the count of the threads would differ, which
well-foundedness provides, and finds them equal there.

*Search and matching.*  `SearchInv` and `CandidatesInv` are what the two algorithms
rely on of their inputs: an observation is of a run of its own project, and a
thread is a candidate once.  The lemmas are that a cut which is not full takes
nothing away, that every non-empty finite set has a first element of a strict
order (`FirstExists`), and that the winner of the code's sort leads all the others.

The types, `LeaseFollowsProof` and `OneTerminalEvent` are proved and therefore
not checked again by a run.  Every safety invariant, action property and
refinement that a passing run checks is proved too.  Only model-checked is
liveness (`GoneProcessIsClosed`, `EveryCallReturns`, `EveryRetrySettles`,
`DueIsServed`): liveness under fairness and ENABLED are out of this prover's
reach, as is an induction whose hypothesis is an operator, which no proof here
needed in the end.

## 5. What is abstracted, and what is not modelled

* Commits report truthfully in `AiPacketElection`, and in `RunRecovery` all but
  those of the reservation and of the evidence of a scan: one that only marks a scan
  running or failed, or writes the ledger, is the subject of `AgentActions` or leaves
  what a crash there leaves.  A transaction that fails is `Fault`
  in `AiPacketElection` and a timeout or a connector error in `RunRecovery`.
* A scan whose evidence was committed by a commit that raised is marked failed all
  the same (scan_pipeline.py:785-830).  `CompletedIsTrue`, `NewOnce` and `DeltaIsTrue`
  say what holds then: such a scan is told to be failed, and its evidence is stored,
  counts as new in it, and is what the next run is compared with; a thread that
  appears first in it is reported as new by no run.
* A heartbeat is prolonged by its two waits for the database only.  Connecting to a
  Postgres server that does not answer has no limit in the code; of a loop that
  hangs there `LeaseLostOnlyAfterOutage` says nothing.
* `RunRecovery` folds the checks that a project exists, is enabled and has its
  source into the version comparison: each of them refuses in the same place and
  every edit of them raises the version.  The schedule
  (`mark_latest_project_run`) and the Discourse bookkeeping are in `ResearchRuns`,
  whose requests pass no version.
* In `RunRecovery` an operation that was settled by somebody else ends its call
  with verdict "failed" where the code says "denied"; neither is ever recorded,
  as the terminal event is already there.
* `AiPacketElection`'s `eligible` only goes from true to false; the conditions
  that may come back are in `BuildPackets`.  Reservations are ordered by commit,
  as `created_at` is taken under the write lock.
* `OpportunityThreads` and `BuildPackets` take SQLite's single writer.  On
  Postgres a decision takes the row lock only and can fall inside a run's
  transaction; the comparison of versions orders decisions all the same.
* Where the rounding of two scores and a boundary decides, the code departs from
  docs/architecture.md's "at least 0.05 lower": 0.86 - 0.81 is less than 0.05 in
  floats (opportunity_threads/service.py:240), so 0.86 against 0.81 is
  `new_ambiguous`.  `MatchIsWarranted` holds the code to the documented rule for all
  similarities further from the edge than the three roundings.  In `Score`
  `Hundredth` may be any number; the cfgs take 1000, which keeps 10^-18 as the
  unit of the roundings in TLC's integers and is far above them.
* With three processes, two replacements of a dead owner can tell each other
  "in progress" until one of their sessions ends (writes.py:1257, 1464), and a
  third process may copy the denial of a second one while the owner still
  succeeds (writes.py:1440).  `EveryRetrySettles` is therefore stated for two, and
  `PacketIsAudited` for successes.  `EveryRetrySettles` also excepts the scan of a
  runner whose operation its own retry has recorded as failed and which then died:
  its reservation counts as settled, so nobody looks for an owner; and the scan whose
  reservation was committed by a commit that raised: it stays queued without a call
  to run it, for an owner that is still up.
* writes.py:1272 says of a run it reports as failed that its "incomplete scan was
  closed without persisting fetched evidence".  Of a scan closed by another process
  this is true with one exception, which needs a lock timeout or an overlapping call
  in the runner's own process: when that has recorded the runner's operation as
  failed, its session no longer counts as an owner, although its thread is still
  fetching, and commits afterwards.  `ClosedElsewhereBringsNothing` states the rule
  with this exception.
* A list of due projects with two of one forum keeps the forum's row of the first
  project for the second.  The forum may therefore be asked by a request during which
  it was at no single moment enabled, authorized and, by the clock of that moment,
  ready.  What holds, and `OnlyTheWantedIsRun` states, is that at one moment it was
  enabled and authorized, with a retry-after that is over by the time of asking.
* In `ResearchRuns` time is a bit (`MaxTime` 1) next to which a project is due or
  not; an hour is one tick.  A run that the server's death leaves "running" stays
  so: the code has no sweep, and nothing promises one.
* `Migration` takes what a revision does to the tables as one change of shape.  On
  Postgres the advisory lock keeps no other connection from creating tables, so a
  stamp may name objects that are no longer those it fingerprinted;
  `VersionTellsShape` is stated for SQLite.
* The server's startup creates tables without looking at the version (main.py:36,
  db/session.py:54).  A newer checkout started on an older, stamped database leaves
  it with a version that does not tell its objects; the next `migrate` mostly
  fails on it.  `VersionTellsShape` promises nothing of such a database, and
  the other parts of `MigrationSafety` hold of it too.
* Between the identity check of a failing `init` and its `unlink`
  (packaged_runtime.py:468-469) the operator may remove the file and another init,
  or he himself, put one there, which is then unlinked.  `OnlyItsWriterUnlinks` says
  that nothing less does it: the operator has to overtake a cleanup at that point
  (`overtaken`), or the file to be taken by a cleanup that was overtaken so.
* `PacketIntegrity` takes a verification as one moment.  Texts are opaque, hashes
  injective, and limits are one forbidden content (`Huge`).
* In `RunDelta` a text that is a signal makes one thread; how evidence is clustered
  is left out.
* In `EvidenceSearch` the rows of the several SELECTs are of one moment, scores
  are given, and items without a vector of the model in use, or without the signal
  type asked for, are no `Item`.  As threads are found through the evidence hits,
  a limit on these also cuts threads whose best evidence comes later.
* Looked at and left without a property: `Opportunity.review_state` mirrors the
  thread's decision for a listing filter and may lag after a clone (service.py:471);
  attaching evidence does not raise a thread's version, so a decision may be
  accepted for a snapshot its author has not seen (service.py:427), which is why a
  packet compares the snapshot as well; the review route decides about a snapshot
  with whatever version its thread has then (api/routes.py:2911); `process_demo`
  inverts the two locks as `run_project` does (demo_pipeline.py:91) and its reset
  deletes rows under a running scan; a scan closed by recovery and set running again
  by its slow owner stays so when the owner dies (scan_pipeline.py:716); a lock
  timeout in `_reconcile_reserved_run_actions` turns a recorded success into an
  error for the client (writes.py:1637); a detached snapshot changes the comparison
  of a finished run (research_memory/service.py:194); a lease that ends between the
  two `revoke_session` calls of the revoke route raises (api/routes.py:3330).
* Looked at likewise: a revoke between the commit of the evidence and the end of
  the call is recorded as denied (writes.py:591), although executor.py:115 says that
  "a committed write is always replayable from its success event"; one text fetched
  under two identities is recorded under the first only (scan_pipeline.py:290), so
  the second counts as not observed although it is there, where docs/api.md:157 says
  "absent now" (`DeltaTerms` counts an identity by the texts it leads, and one that
  leads none as absent); docs/threat-model.md:117 says "immutable until
  authorization is revoked", while the code keeps the origin also after a revoke
  (discourse_sources/service.py:162): `OriginNeverMoves` is the documented half, of
  a source that stands authorized, and leaves the other open; the 409
  "already authorized as another source" is also told to a request that raced with
  its own repeat, and the 409 of a delete blames a research project when a scan job
  is what refers to the source; an update without options answers 200 and does
  nothing; of a fetch that fails only the failing answer's retry-after is kept
  (connectors.py:505); the MCP tool that reads a packet returns it unverified; the
  texts and the server's verdict in a proof bundle that verifies may be those of
  another run when two overlap.
* Secrets, redaction, hashing, wording and formatting are left out: a caller
  has the secret of its own session, equal requests hash alike.
* Not modelled: detection, embedding, clustering and scoring, which are stateless
  numeric heuristics over texts and vectors; the templates of generation; listings,
  statistics and exports, which read one table and change nothing; the fetches of
  GitHub, Stack Exchange and fixtures beyond their one page; the demo's default
  sources; what the migrations do to each table; the MCP server's registration of
  its tools; the web UI, whose part in a decision is the `Caller`'s read step of
  `OpportunityThreads`; the remaining scripts.

## 6. Plan

1. `AgentSessions`, `Authority` - who may write.  *Done, proved.*
2. `AgentActions`, `IdempotentWrites` - how a write is made.  *Done, proved.*
3. `RunRecovery`, `AiPacketElection` - effects that are not one transaction.
   *Done, proved.*
4. `ThreadMatch`, `OpportunityThreads`, `BuildPackets`, `AtomicPackets` - what
   the writes do.  *Done, proved.*
5. `ResearchRuns` - projects, the schedule, the forum.  *Done, proved.*
6. `Sources` - authorizations and bindings.  *Done, proved.*
7. `RunDelta`, `EvidenceSearch`, `PacketIntegrity` - what is told of the rows.
   *Done, proved.*
8. `Migration`, `RuntimeConfig`, `PacketDownload`, `CommandLine`, `Connectors`,
   `ProofBundle` - the programs at the edges.  *Done, proved.*

"Proved" is said of the safety properties; the four of liveness stay with TLC.
Next: the safety facts the liveness runs turn on, as theorems (in `RunRecovery`,
that a waiting thread's lock has a holder that can move or a timeout of its own;
in `AgentSessions`, that a lapsed lease is closed by the next read); the answers
of `AiPacketElection` as `AnswersAgree` states them of the executor; and, beside
the proofs, what is not modelled of the routes and of the first-run check.
