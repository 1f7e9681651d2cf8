--------------------------- MODULE EvidenceSearch ----------------------------
(* The search over evidence and threads: which items a filter keeps, which     *)
(* observation of an item it shows, which threads it finds through the items.  *)
(* The rows are read in several SELECTs; here they are of one moment.          *)
EXTENDS FiniteSets, Naturals

CONSTANTS Item,             \* items with a vector of the model now in use
          ThreadId,         \* these and the items are numbers: they break ties
          ObservedSource,   \* connector types
          Research,         \* projects
          NoResearch,       \* the project of a scan outside any
          Decision,         \* review states of a thread
          Anything,         \* a filter that is not set
          MatchScore,       \* similarity of each item to the query
          FirstSource,      \* the source an item was first fetched from
          MaxSequence,      \* BOUND: runs of a project
          MaxSeen,          \* BOUND: observations
          Limits            \* BOUND: limits a request may have

ASSUME SearchAssumption ==
    /\ Item \subseteq Nat /\ ThreadId \subseteq Nat
    /\ IsFiniteSet(Item) /\ IsFiniteSet(ThreadId) /\ MaxSequence \in Nat
    /\ MatchScore \in [Item -> Nat] /\ FirstSource \in [Item -> ObservedSource]
    /\ NoResearch \notin Research /\ Limits \subseteq Nat \ {0}
    /\ Anything \notin Research \cup ObservedSource \cup Decision

VARIABLES observed,      \* observations: an item in a scan
          current    \* of each thread: project, decision, items of its snapshot
searchVars == <<observed, current>>

Observation == [item : Item, source : ObservedSource, project : Research, sequence : 1..MaxSequence]
          \cup [item : Item, source : ObservedSource, project : {NoResearch}, sequence : {0}]
CurrentSnapshot == [project : Research \cup {NoResearch}, decision : Decision,
                    items : SUBSET Item \ {{}}]
NoSnapshot == [project |-> NoResearch, decision |-> CHOOSE d \in Decision : TRUE, items |-> {}]
Request == [project : Research \cup {Anything}, source : ObservedSource \cup {Anything},
            decision : Decision \cup {Anything}, limit : Limits]

Asked(filter, value) == filter = Anything \/ filter = value

(* ---- the evidence --------------------------------------------------------- *)
Observations(i) == {o \in observed : o.item = i}

\* A plausible bug: another project's observation satisfies the source filter.
SourceCandidates(i, r) == {o \in Observations(i) : Asked(r.source, o.source)}

Candidates(i, r) == {o \in Observations(i) : Asked(r.project, o.project) /\ Asked(r.source, o.source)}

\* An item of an old database was never observed: its first source decides.
ProvenanceFits(i, r) ==
    /\ r.project # Anything => \E o \in Observations(i) : o.project = r.project
    /\ \/ r.source = Anything
       \/ Candidates(i, r) # {}
       \/ Observations(i) = {} /\ FirstSource[i] = r.source

Memberships(i) == {t \in ThreadId : i \in current[t].items}

DecisionFits(i, r) ==
    \/ r.decision = Anything
    \/ \E t \in Memberships(i) :
          current[t].decision = r.decision /\ Asked(r.project, current[t].project)

\* The first n of a set under the order of score and id.
Cut(set, score, n) ==
    {x \in set : Cardinality({y \in set : score[y] > score[x] \/ (score[y] = score[x] /\ y < x)}) < n}

EvidenceHits(r) == Cut({i \in Item : ProvenanceFits(i, r) /\ DecisionFits(i, r)}, MatchScore, r.limit)

\* The observations the list may begin with; the rest of the order is by text.
Shown(i, r) ==
    {o \in Candidates(i, r) : \A x \in Candidates(i, r) : o.sequence >= x.sequence}

(* ---- the threads ---------------------------------------------------------- *)
ThreadFits(t, r) ==
    /\ Asked(r.project, current[t].project)
    /\ Asked(r.decision, current[t].decision)

MatchedItems(t, r) == current[t].items \cap EvidenceHits(r)

FoundThreads(r) == {t \in ThreadId : ThreadFits(t, r) /\ MatchedItems(t, r) # {}}
BestScore(t, r) ==
    LET matched == MatchedItems(t, r) IN
    CHOOSE n \in {MatchScore[i] : i \in matched} : \A i \in matched : MatchScore[i] <= n
ThreadHits(r) == Cut(FoundThreads(r), [t \in FoundThreads(r) |-> BestScore(t, r)], r.limit)

(* ---- the rows ------------------------------------------------------------- *)
EvidenceSearchInit ==
    /\ observed = {}
    /\ current = [t \in ThreadId |-> NoSnapshot]

\* A scan observes an item once, whatever a project's earlier runs saw.
Observe(o) ==
    /\ Cardinality(observed) < MaxSeen
    /\ \A x \in observed : x.item = o.item /\ x.project = o.project /\ o.project # NoResearch
                         => x.sequence # o.sequence
    /\ observed' = observed \cup {o}
    /\ UNCHANGED current

\* A run, a decision or a correction gives the thread another current snapshot
\* or decision; a reset takes the snapshot away. A thread keeps its project.
Supersede(t, snapshot) ==
    /\ current[t] # NoSnapshot /\ snapshot # NoSnapshot => snapshot.project = current[t].project
    /\ current' = [current EXCEPT ![t] = snapshot]
    /\ UNCHANGED observed

EvidenceSearchNext ==
    \/ \E o \in Observation : Observe(o)
    \/ \E t \in ThreadId, snapshot \in CurrentSnapshot \cup {NoSnapshot} : Supersede(t, snapshot)

EvidenceSearchSpec == EvidenceSearchInit /\ [][EvidenceSearchNext]_searchVars

(* ---- properties ----------------------------------------------------------- *)
\* One observation satisfies every filter on where evidence came from: an item
\* that project A saw on a forum and project B on the web is no evidence of A
\* from the web. And short of the limit no such item is missing.
OneObservationFits ==
    \A r \in Request :
        LET Fits(i) == \/ \E o \in observed : o.item = i /\ Asked(r.project, o.project) /\ Asked(r.source, o.source)
                       \/ /\ \A o \in observed : o.item # i
                          /\ r.project = Anything /\ Asked(r.source, FirstSource[i])
            found == EvidenceHits(r)
        IN /\ \A i \in found : Fits(i)
           /\ (r.decision = Anything /\ Cardinality(found) < r.limit)
                 => \A i \in Item : Fits(i) => i \in found

\* Evidence found by a decision comes with the thread that was so decided, in
\* the project asked for, unless the limit cuts the threads.
DecidedHitsHaveThreads ==
    \A r \in Request :
        LET threads == ThreadHits(r) IN
        r.decision # Anything /\ Cardinality(threads) < r.limit
          => \A i \in EvidenceHits(r) : \E t \in threads : i \in current[t].items

\* What a hit shows of a project is from the newest run of it that saw the item
\* on the source asked for.
ShownIsNewest ==
    \A r \in Request : \A i \in EvidenceHits(r) : \A o \in Shown(i, r) :
        /\ Asked(r.source, o.source)
        /\ r.project # Anything =>
              ~\E x \in observed : /\ x.item = i /\ x.project = r.project
                               /\ Asked(r.source, x.source) /\ x.sequence > o.sequence

\* The answer of a search: all filters hold of one observation in one project, and
\* what is shown is the newest of it.
SearchIsExact == OneObservationFits /\ DecidedHitsHaveThreads /\ ShownIsNewest

\* All the answer relies on: every observation is of a run of its project.
SearchInv == observed \subseteq Observation
=============================================================================
