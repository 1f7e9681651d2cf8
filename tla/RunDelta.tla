------------------------------- MODULE RunDelta -------------------------------
(* What a project run stores of the items its connector fetched, and the delta *)
(* between a run and its predecessors: evidence by text and by source identity, *)
(* and threads by the content of their snapshots. Runs fail in between, also    *)
(* after their commit took effect, other scans store the same texts, a person   *)
(* detaches snapshots.                                                          *)
EXTENDS Naturals, FiniteSets, Sequences

CONSTANTS Identity, \* <<source, external id>> of an item
          Text,     \* contents an item may have; equal texts have one hash
          Contentless,    \* an item without title and body
          Signal,   \* the texts that are problem signals
          Detached, \* threads made by detaching a snapshot
          MaxFetch, MaxRuns, \* BOUNDS: items per fetch, scans in all
          LostAt    \* BOUND: which scans may end in a commit that took effect and raised

ASSUME DeltaAssumption == Contentless \notin Text /\ Signal \subseteq Text /\ Detached \cap Text = {}

VARIABLES stored, \* texts stored as normalized items
          runs    \* the scans so far, in order
deltaVars == <<stored, runs>>

Fetched == [identity : Identity, text : Text \cup {Contentless}]
Fetches == UNION {[1..n -> Fetched] : n \in 0..MaxFetch}

RunDeltaInit == stored = {} /\ runs = <<>>

(* ---- storing -------------------------------------------------------------- *)
TextsOf(fetch) == {fetch[i].text : i \in DOMAIN fetch} \ {Contentless}

\* A text is observed once, under the identity of the first item that has it.
FirstIdentity(fetch, t) ==
    LET with == {i \in DOMAIN fetch : fetch[i].text = t} IN
    fetch[CHOOSE i \in with : \A j \in with : i <= j].identity

SaveFetchedItems(fetch) ==
    [t \in TextsOf(fetch) |-> [identity |-> FirstIdentity(fetch, t), created |-> t \notin stored]]

\* Every observed item has its signal judged once, whichever scan stored it.
DetectSignals(texts) == texts \cap Signal

\* One cluster per signal text: its thread is the text's, unless that snapshot
\* was detached, and its content is the evidence as observed.
SnapshotsOf(saved) == [t \in DetectSignals(DOMAIN saved) |-> saved[t].identity]

RecordScanItems(fetch, saved, ours, done) ==
    [ours |-> ours, complete |-> TRUE, done |-> done, items |-> saved, threads |-> SnapshotsOf(saved),
     fetch |-> fetch]

Scan(fetch, ours, done) ==
    LET saved == SaveFetchedItems(fetch) IN
    /\ Len(runs) < MaxRuns
    /\ stored' = stored \cup DOMAIN saved
    /\ runs' = Append(runs, RecordScanItems(fetch, saved, ours, done))

RunCompletes(fetch) == Scan(fetch, TRUE, TRUE)

\* The commit takes effect and raises: the handler marks the scan failed, and its
\* evidence, snapshots and complete lineage stay.
RunReportLost(fetch) ==
    /\ Len(runs) + 1 \in LostAt
    /\ Scan(fetch, TRUE, FALSE)

\* Another project's run, or a plain scan, of the same source.
OtherScan(f) == Scan(<<f>>, FALSE, TRUE)

\* A failed run keeps its number, with incomplete lineage and nothing stored.
RunFails ==
    /\ Len(runs) < MaxRuns
    /\ runs' = Append(runs, [ours |-> TRUE, complete |-> FALSE, done |-> FALSE, items |-> <<>>,
                             threads |-> <<>>, fetch |-> <<>>])
    /\ UNCHANGED stored

\* The snapshot a run made for thread t goes to a thread of its own.
DetachSnapshot(n, t, d) ==
    /\ runs[n].ours /\ t \in DOMAIN runs[n].threads
    /\ \A m \in DOMAIN runs : d \notin DOMAIN runs[m].threads
    /\ \E m \in DOMAIN runs \ {n} : runs[m].ours /\ t \in DOMAIN runs[m].threads
    /\ runs' = [runs EXCEPT ![n].threads =
                  [u \in (DOMAIN @ \ {t}) \cup {d} |-> IF u = d THEN @[t] ELSE @[u]]]
    /\ UNCHANGED stored

RunDeltaNext ==
    \/ \E fetch \in Fetches : RunCompletes(fetch) \/ RunReportLost(fetch)
    \/ \E f \in Fetched : OtherScan(f)
    \/ RunFails
    \/ \E n \in DOMAIN runs, t \in Text, d \in Detached : DetachSnapshot(n, t, d)

RunDeltaSpec == RunDeltaInit /\ [][RunDeltaNext]_deltaVars

(* ---- the delta ------------------------------------------------------------ *)
ObservationsForScan(n, signalsOnly) ==
    {[identity |-> runs[n].items[t].identity, text |-> t, created |-> runs[n].items[t].created] :
        t \in IF signalsOnly THEN DetectSignals(DOMAIN runs[n].items) ELSE DOMAIN runs[n].items}

Identities(obs) == {o.identity : o \in obs}
TextsBy(obs, i) == {o.text : o \in {p \in obs : p.identity = i}}

ChangeCounts(current, previous) ==
    LET shared == Identities(current) \cap Identities(previous)
        same == {i \in shared : TextsBy(current, i) = TextsBy(previous, i)}
    IN [new |-> Cardinality({o.text : o \in {p \in current : p.created}}),
        seenBefore |-> Cardinality({o.text : o \in {p \in current : ~p.created}}),
        updated |-> Cardinality(shared \ same),
        unchanged |-> Cardinality(same),
        notObserved |-> Cardinality(Identities(previous) \ Identities(current))]

\* A run is compared with when its lineage is complete; a delta of its own it has
\* when its scan is completed besides.
Comparable(n) == runs[n].ours /\ runs[n].complete
HasDelta(n) == Comparable(n) /\ runs[n].done

\* A plausible bug: the run before is taken, failed or not.
AnyPriorRuns(n) == {m \in 1..n - 1 : runs[m].ours}

PriorRuns(n) == {m \in 1..n - 1 : Comparable(m)}
LastOf(ns) == CHOOSE m \in ns : \A k \in ns : k <= m

\* The content of every thread in the runs before, the latest one counts.
PriorContent(n) ==
    LET of(t) == {m \in PriorRuns(n) : t \in DOMAIN runs[m].threads}
        threads == UNION {DOMAIN runs[m].threads : m \in PriorRuns(n)}
    IN [t \in threads |-> runs[LastOf(of(t))].threads[t]]

ThreadChanges(n) ==
    LET current == runs[n].threads
        prior == PriorContent(n)
        before == IF PriorRuns(n) = {} THEN {} ELSE DOMAIN runs[LastOf(PriorRuns(n))].threads
        known == DOMAIN current \cap DOMAIN prior
        same == {t \in known : current[t] = prior[t]}
    IN [new |-> Cardinality(DOMAIN current \ DOMAIN prior), updated |-> Cardinality(known \ same),
        unchanged |-> Cardinality(same), notObserved |-> Cardinality(before \ DOMAIN current)]

ObservationsBefore(n, signalsOnly) ==
    IF PriorRuns(n) = {} THEN {} ELSE ObservationsForScan(LastOf(PriorRuns(n)), signalsOnly)

EvidenceChanges(n) == ChangeCounts(ObservationsForScan(n, FALSE), ObservationsBefore(n, FALSE))

CalculateRunDelta(n) ==
    [evidence |-> EvidenceChanges(n),
     signals |-> ChangeCounts(ObservationsForScan(n, TRUE), ObservationsBefore(n, TRUE)),
     threads |-> ThreadChanges(n)]

(* ---- properties ----------------------------------------------------------- *)
RunBefore(n) == {m \in 1..n - 1 : Comparable(m) /\ \A k \in m + 1..n - 1 : ~Comparable(k)}
Earlier(n) == UNION {TextsOf(runs[m].fetch) : m \in 1..n - 1}

\* The items that are the first of their fetch with their text, by identity.
Leading(fetch) ==
    {k \in DOMAIN fetch : fetch[k].text # Contentless /\ \A j \in 1..k - 1 : fetch[j].text # fetch[k].text}
LedBy(fetch, i) == {fetch[k].text : k \in {l \in Leading(fetch) : fetch[l].identity = i}}
SeenIn(fetch) == {fetch[k].identity : k \in Leading(fetch)}

\* docs/api.md:150-161, in terms of what the connector fetched and not of what
\* was stored: new, seen before, updated, unchanged and not observed. An identity
\* has the texts that no other identity listed before it in the same fetch: one
\* without any is as good as absent, which the docs do not say. The run before
\* is the last one whose evidence was stored, though it be marked failed.
DeltaTerms ==
    \A n \in DOMAIN runs : HasDelta(n) =>
        LET delta == EvidenceChanges(n)
            texts == TextsOf(runs[n].fetch)
        IN /\ delta.new = Cardinality(texts \ Earlier(n))
           /\ delta.seenBefore = Cardinality(texts \cap Earlier(n))
           /\ \A m \in RunBefore(n) :
                LET now == runs[n].fetch then == runs[m].fetch IN
                /\ delta.updated = Cardinality({i \in SeenIn(now) \cap SeenIn(then) :
                                                   LedBy(now, i) # LedBy(then, i)})
                /\ delta.unchanged = Cardinality({i \in SeenIn(now) : LedBy(now, i) = LedBy(then, i)})
                /\ delta.notObserved = Cardinality(SeenIn(then) \ SeenIn(now))

\* The same fetch again changes nothing, whatever failed or ran elsewhere
\* between the two runs; the order of the items in it matters, so it is the same
\* list.
RepeatIsUnchanged ==
    \A n \in DOMAIN runs : \A m \in RunBefore(n) :
        (HasDelta(n) /\ runs[m].fetch = runs[n].fetch) =>
            LET delta == CalculateRunDelta(n) IN
            /\ \A part \in {"evidence", "signals"} :
                  delta[part].new = 0 /\ delta[part].updated = 0 /\ delta[part].notObserved = 0
            /\ delta.evidence.unchanged = Cardinality(Identities(ObservationsForScan(n, FALSE)))

\* A project reports each of its threads as new in one run, the first that had
\* it, also after a gap in which the thread was not seen and after a snapshot was
\* detached; in none if that run stored it and was marked failed.
BroughtBy(n, t) ==
    /\ t \in DOMAIN runs[n].threads
    /\ \A m \in 1..n - 1 : Comparable(m) => t \notin DOMAIN runs[m].threads

NewSoFar[k \in 0..Len(runs)] ==
    IF k = 0 THEN 0
    ELSE NewSoFar[k - 1] + (IF HasDelta(k) THEN ThreadChanges(k).new ELSE 0)

ThreadNewOnce ==
    NewSoFar[Len(runs)]
      = Cardinality({t \in Text \cup Detached : \E n \in DOMAIN runs : HasDelta(n) /\ BroughtBy(n, t)})

\* The comparison of a run tells what the connector saw, whatever failed or ran
\* for other projects in between.
DeltaIsTrue == DeltaTerms /\ RepeatIsUnchanged /\ ThreadNewOnce

\* The inductive invariant: what a scan stores of its items is the texts it was
\* given, each under the first identity it came with and as new if no scan
\* before it was given that text.
Scans == [ours : BOOLEAN, complete : BOOLEAN, done : BOOLEAN, fetch : Seq(Fetched),
          items : UNION {[S -> [identity : Identity, created : BOOLEAN]] : S \in SUBSET Text},
          threads : UNION {[S -> Identity] : S \in SUBSET (Text \cup Detached)}]

ItemsStand(n) ==
    runs[n].items = [t \in TextsOf(runs[n].fetch) |->
                       [identity |-> FirstIdentity(runs[n].fetch, t), created |-> t \notin Earlier(n)]]

DeltaInv ==
    /\ runs \in Seq(Scans)
    /\ stored = Earlier(Len(runs) + 1)
    /\ \A n \in DOMAIN runs : ItemsStand(n) /\ IsFiniteSet(DOMAIN runs[n].threads)
=============================================================================
