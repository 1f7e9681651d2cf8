----------------------------- MODULE Edges_proofs -----------------------------
(***************************************************************************)
(* The theorems of the machines beside a running server, and of the rules  *)
(* for matching and searching: for any number of processes, commands,      *)
(* persons, files and rows, what TLC checks on small ones.                 *)
(***************************************************************************)
EXTENDS Sources, Migration, RuntimeConfig, PacketDownload, CommandLine, ProofBundle, Connectors,
        EvidenceSearch, ThreadMatchCheck, PacketIntegrity, RunDelta, FiniteSetTheorems,
        WellFoundedInduction, TLAPS

(* ---- finite sets and orders ------------------------------------------------- *)
Smaller == {ss \in Nat \X Nat : ss[1] < ss[2]}

LEMMA LeastExists ==
  ASSUME NEW T \in SUBSET Nat, T # {}
  PROVE  \E x \in T : \A y \in T : x <= y
<1>1. IsWellFoundedOn(Smaller, Nat)
  BY NatLessThanWellFounded DEF OpToRel, Smaller
<1>2. PICK x \in T : \A y \in T : ~ (<<y, x>> \in Smaller)
  BY <1>1, WFMin
<1>3. \A y \in T : ~(y < x)
  BY <1>2 DEF Smaller
<1>4. QED
  BY <1>3

LEMMA FirstNumbers ==
  \A n \in Nat : IsFiniteSet(1..n) /\ Cardinality(1..n) = n
<1>1. ASSUME NEW n \in Nat PROVE IsFiniteSet(1..n) /\ Cardinality(1..n) = n
  <2>1. IsFiniteSet(1..n) /\ Cardinality(1..n) = IF 1 > n THEN 0 ELSE n - 1 + 1
    BY FS_Interval
  <2>2. (IF 1 > n THEN 0 ELSE n - 1 + 1) = n
    OBVIOUS
  <2>3. QED
    BY <2>1, <2>2
<1>2. QED
  BY <1>1

\* A finite set has a first element under any strict order.
LEMMA FirstExists ==
  ASSUME NEW S, IsFiniteSet(S), S # {}, NEW R,
         \A x \in S : <<x, x>> \notin R,
         \A x, y, z \in S : <<x, y>> \in R /\ <<y, z>> \in R => <<x, z>> \in R
  PROVE  \E x \in S : \A y \in S : <<y, x>> \notin R
<1> DEFINE Below(x) == {y \in S : <<y, x>> \in R}
           Counts == {Cardinality(Below(x)) : x \in S}
<1>1. \A x \in S : IsFiniteSet(Below(x)) /\ Cardinality(Below(x)) \in Nat
  <2>1. \A x \in S : Below(x) \in SUBSET S
    OBVIOUS
  <2>2. QED
    BY <2>1, FS_Subset, FS_CardinalityType
<1>2. Counts \in SUBSET Nat /\ Counts # {}
  <2> HIDE DEF Below
  <2>1. \A k \in Counts : k \in Nat
    BY <1>1
  <2>2. PICK x \in S : TRUE
    OBVIOUS
  <2>3. Cardinality(Below(x)) \in Counts
    OBVIOUS
  <2>4. QED
    BY <2>1, <2>3
<1>3. PICK k \in Counts : \A m \in Counts : k <= m
  <2> HIDE DEF Counts
  <2>1. QED
    BY <1>2, LeastExists
<1>4. PICK x \in S : k = Cardinality(Below(x))
  BY <1>3
<1>5. ASSUME NEW y \in S, <<y, x>> \in R PROVE FALSE
  <2>1. Below(y) \in SUBSET Below(x)
    BY <1>5
  <2>2. y \in Below(x) /\ y \notin Below(y)
    BY <1>5
  <2> HIDE DEF Below
  <2>3. Cardinality(Below(y)) <= Cardinality(Below(x)) /\ Cardinality(Below(y)) # Cardinality(Below(x))
    BY <1>1, <2>1, <2>2, FS_Subset
  <2>4. Cardinality(Below(y)) \in Counts
    OBVIOUS
  <2>5. QED
    BY <1>1, <1>3, <1>4, <2>3, <2>4
<1>6. QED
  BY <1>5

\* A finite set of numbers has a largest.
LEMMA LargestExists ==
  ASSUME NEW S \in SUBSET Nat, IsFiniteSet(S), S # {}
  PROVE  \E x \in S : \A y \in S : y <= x
<1> DEFINE R == {ss \in Nat \X Nat : ss[1] > ss[2]}
<1>1. \A x \in S : <<x, x>> \notin R
  OBVIOUS
<1>2. \A x, y, z \in S : <<x, y>> \in R /\ <<y, z>> \in R => <<x, z>> \in R
  OBVIOUS
<1>3. \A x, y \in S : <<x, y>> \notin R => x <= y
  OBVIOUS
<1> HIDE DEF R
<1>4. PICK x \in S : \A y \in S : <<y, x>> \notin R
  BY <1>1, <1>2, FirstExists
<1>5. QED
  BY <1>3, <1>4

(* ---- EvidenceSearch --------------------------------------------------------- *)
\* Those that come before x in the order of score and id.
Ahead(S, score, x) == {y \in S : score[y] > score[x] \/ (score[y] = score[x] /\ y < x)}

\* A cut that is not full takes nothing away.
LEMMA CutIsAll ==
  ASSUME NEW S \in SUBSET Nat, IsFiniteSet(S), NEW score, \A x \in S : score[x] \in Nat,
         NEW n \in Nat, Cardinality(Cut(S, score, n)) < n
  PROVE  Cut(S, score, n) = S
<1> DEFINE C == Cut(S, score, n)
           R == {ss \in S \X S : score[ss[1]] > score[ss[2]] \/ (score[ss[1]] = score[ss[2]] /\ ss[1] < ss[2])}
           Rest == S \ C
<1>1. C \in SUBSET S /\ \A x \in S : x \in C <=> Cardinality(Ahead(S, score, x)) < n
  BY DEF Cut, Ahead
<1>2. SUFFICES ASSUME Rest # {} PROVE FALSE
  BY <1>1
<1>3. Rest \in SUBSET S
  OBVIOUS
<1>4. IsFiniteSet(Rest) /\ IsFiniteSet(C)
  <2> HIDE DEF Rest, C
  <2>1. QED
    BY <1>1, <1>3, FS_Subset
<1>5. \A x \in Rest : <<x, x>> \notin R
  OBVIOUS
<1>6. \A x, y, z \in S : <<x, y>> \in R /\ <<y, z>> \in R => <<x, z>> \in R
  OBVIOUS
<1>7. PICK x \in Rest : \A y \in Rest : <<y, x>> \notin R
  <2> HIDE DEF Rest, R
  <2>1. QED
    BY <1>2, <1>3, <1>4, <1>5, <1>6, FirstExists
<1>8. Ahead(S, score, x) \in SUBSET C
  BY <1>7 DEF Ahead
<1> HIDE DEF C
<1>9. Cardinality(Ahead(S, score, x)) <= Cardinality(C) /\ Cardinality(C) \in Nat
      /\ Cardinality(Ahead(S, score, x)) \in Nat
  BY <1>4, <1>8, FS_Subset, FS_CardinalityType
<1>10. Cardinality(Ahead(S, score, x)) < n
  BY <1>9 DEF C
<1>11. QED
  BY <1>1, <1>10

LEMMA CutIsPart == \A S, score, n : Cut(S, score, n) \subseteq S
  BY DEF Cut

Fitting(r) == {i \in Item : ProvenanceFits(i, r) /\ DecisionFits(i, r)}

LEMMA HitsFit ==
  ASSUME NEW r \in Request
  PROVE  /\ EvidenceHits(r) \subseteq Fitting(r)
         /\ Cardinality(EvidenceHits(r)) < r.limit => EvidenceHits(r) = Fitting(r)
<1>1. EvidenceHits(r) = Cut(Fitting(r), MatchScore, r.limit)
  BY DEF EvidenceHits, Fitting
<1>2. Fitting(r) \in SUBSET Item
  BY DEF Fitting
<1>3. Fitting(r) \in SUBSET Nat /\ IsFiniteSet(Fitting(r)) /\ \A i \in Fitting(r) : MatchScore[i] \in Nat
  BY <1>2, SearchAssumption, FS_Subset
<1>4. r.limit \in Nat
  BY SearchAssumption DEF Request
<1>5. QED
  BY <1>1, <1>3, <1>4, CutIsPart, CutIsAll

LEMMA ThreadsFound ==
  ASSUME NEW r \in Request, Cardinality(ThreadHits(r)) < r.limit
  PROVE  ThreadHits(r) = FoundThreads(r)
<1> DEFINE best == [t \in FoundThreads(r) |-> BestScore(t, r)]
<1>1. FoundThreads(r) \in SUBSET ThreadId
  BY DEF FoundThreads
<1>2. FoundThreads(r) \in SUBSET Nat /\ IsFiniteSet(FoundThreads(r))
  BY <1>1, SearchAssumption, FS_Subset
<1>3. ASSUME NEW t \in FoundThreads(r) PROVE BestScore(t, r) \in Nat
  <2> DEFINE scores == {MatchScore[i] : i \in MatchedItems(t, r)}
  <2>1. MatchedItems(t, r) \in SUBSET Item /\ MatchedItems(t, r) # {}
    BY HitsFit DEF MatchedItems, FoundThreads, Fitting
  <2>2. IsFiniteSet(MatchedItems(t, r))
    BY <2>1, SearchAssumption, FS_Subset
  <2>3. scores \in SUBSET Nat /\ scores # {}
    <3>1. \A i \in Item : MatchScore[i] \in Nat
      BY SearchAssumption
    <3>2. \A i \in MatchedItems(t, r) : MatchScore[i] \in Nat
      BY <2>1, <3>1
    <3>3. QED
      BY <2>1, <3>2
  <2>4. IsFiniteSet(scores)
    <3>1. [i \in MatchedItems(t, r) |-> MatchScore[i]] \in Surjection(MatchedItems(t, r), scores)
      BY DEF Surjection
    <3>2. QED
      BY <2>2, <3>1, FS_Surjection
  <2>5. \E n \in scores : \A m \in scores : m <= n
    <3> HIDE DEF scores
    <3>1. QED
      BY <2>3, <2>4, LargestExists
  <2>6. \E n \in scores : \A i \in MatchedItems(t, r) : MatchScore[i] <= n
    BY <2>5
  <2>7. BestScore(t, r) \in scores
    BY <2>6 DEF BestScore
  <2>8. QED
    BY <2>3, <2>7
<1>4. \A t \in FoundThreads(r) : best[t] \in Nat
  BY <1>3
<1>5. r.limit \in Nat
  BY SearchAssumption DEF Request
<1>6. ThreadHits(r) = Cut(FoundThreads(r), best, r.limit)
  BY DEF ThreadHits
<1> HIDE DEF best
<1>7. QED
  BY <1>2, <1>4, <1>5, <1>6, CutIsAll

LEMMA OneObservation == OneObservationFits
<1> SUFFICES ASSUME NEW r \in Request
             PROVE  LET Fits(i) == \/ \E o \in observed : o.item = i /\ Asked(r.project, o.project) /\ Asked(r.source, o.source)
                                   \/ /\ \A o \in observed : o.item # i
                                      /\ r.project = Anything /\ Asked(r.source, FirstSource[i])
                        found == EvidenceHits(r)
                    IN /\ \A i \in found : Fits(i)
                       /\ (r.decision = Anything /\ Cardinality(found) < r.limit)
                            => \A i \in Item : Fits(i) => i \in found
  BY DEF OneObservationFits
<1> DEFINE Fits(i) == \/ \E o \in observed : o.item = i /\ Asked(r.project, o.project) /\ Asked(r.source, o.source)
                      \/ /\ \A o \in observed : o.item # i
                         /\ r.project = Anything /\ Asked(r.source, FirstSource[i])
<1>1. ASSUME NEW i \in Item PROVE ProvenanceFits(i, r) <=> Fits(i)
  BY DEF ProvenanceFits, Candidates, Observations, Asked
<1>2. \A i \in EvidenceHits(r) : Fits(i)
  BY <1>1, HitsFit DEF Fitting
<1>3. ASSUME r.decision = Anything, Cardinality(EvidenceHits(r)) < r.limit, NEW i \in Item, Fits(i)
      PROVE  i \in EvidenceHits(r)
  BY <1>1, <1>3, HitsFit DEF Fitting, DecisionFits
<1>4. QED
  BY <1>2, <1>3

LEMMA DecidedHits == DecidedHitsHaveThreads
<1> SUFFICES ASSUME NEW r \in Request, r.decision # Anything, Cardinality(ThreadHits(r)) < r.limit,
                    NEW i \in EvidenceHits(r)
             PROVE  \E t \in ThreadHits(r) : i \in current[t].items
  BY DEF DecidedHitsHaveThreads
<1>1. i \in Fitting(r)
  BY HitsFit
<1>2. PICK t \in Memberships(i) : current[t].decision = r.decision /\ Asked(r.project, current[t].project)
  BY <1>1 DEF Fitting, DecisionFits
<1>3. t \in ThreadId /\ i \in current[t].items
  BY DEF Memberships
<1>4. t \in FoundThreads(r)
  BY <1>2, <1>3 DEF FoundThreads, ThreadFits, MatchedItems, Asked
<1>5. QED
  BY <1>3, <1>4, ThreadsFound

LEMMA ShownNewest == SearchInv => ShownIsNewest
<1> SUFFICES ASSUME SearchInv, NEW r \in Request, NEW i \in EvidenceHits(r), NEW o \in Shown(i, r)
             PROVE  /\ Asked(r.source, o.source)
                    /\ r.project # Anything =>
                          ~\E x \in observed : /\ x.item = i /\ x.project = r.project
                                               /\ Asked(r.source, x.source) /\ x.sequence > o.sequence
  BY DEF ShownIsNewest
<1>1. o \in Candidates(i, r) /\ \A x \in Candidates(i, r) : o.sequence >= x.sequence
  BY DEF Shown
<1>2. o \in observed /\ Asked(r.source, o.source)
  BY <1>1 DEF Candidates, Observations
<1>3. \A x \in observed : x.sequence \in Nat
  BY SearchAssumption DEF SearchInv, Observation
<1>4. ASSUME NEW x \in observed, x.item = i, x.project = r.project, Asked(r.source, x.source)
      PROVE  ~(x.sequence > o.sequence)
  <2>1. x \in Candidates(i, r)
    BY <1>4 DEF Candidates, Observations, Asked
  <2>2. QED
    BY <1>1, <1>2, <1>3, <2>1
<1>5. QED
  BY <1>2, <1>4

\* For any items, threads and requests: every filter of a search holds of one
\* observation in one project, what is shown of an item is its newest, and
\* evidence found by a decision comes with the thread so decided (evidence.py).
THEOREM SearchesAreExact == EvidenceSearchSpec => []SearchIsExact
<1>1. EvidenceSearchInit => SearchInv
  BY DEF EvidenceSearchInit, SearchInv
<1>2. SearchInv /\ [EvidenceSearchNext]_searchVars => SearchInv'
  BY DEF SearchInv, EvidenceSearchNext, Observe, Supersede, searchVars
<1>3. SearchInv => SearchIsExact
  BY OneObservation, DecidedHits, ShownNewest DEF SearchIsExact
<1>4. QED
  BY <1>1, <1>2, <1>3, PTL DEF EvidenceSearchSpec

(* ---- ThreadMatchCheck ------------------------------------------------------- *)
LEMMA InitCandidates == Init => CandidatesInv
  BY FS_EmptySet DEF Init, CandidatesInv

LEMMA StepCandidates == CandidatesInv /\ [Next]_cands => CandidatesInv'
<1> SUFFICES ASSUME CandidatesInv, [Next]_cands PROVE CandidatesInv'
  OBVIOUS
<1> USE DEF CandidatesInv
<1>1. ASSUME NEW t \in Threads, NEW f \in Evidence, Enter(t, f) PROVE CandidatesInv'
  <2>1. IsFiniteSet(cands')
    BY <1>1, FS_AddElement DEF Enter
  <2>2. cands' \subseteq Candidate
    BY <1>1 DEF Enter, Candidate
  <2>3. QED
    BY <1>1, <2>1, <2>2 DEF Enter
<1>2. ASSUME NEW c \in cands, Leave(c) PROVE CandidatesInv'
  <2>1. IsFiniteSet(cands')
    BY <1>2, FS_RemoveElement DEF Leave
  <2>2. QED
    BY <1>2, <2>1 DEF Leave
<1>3. CASE UNCHANGED cands
  BY <1>3
<1>4. QED
  BY <1>1, <1>2, <1>3 DEF Next

\* The numbers the rule compares.
LEMMA CandidateFacts ==
  ASSUME CandidatesInv, NEW e \in Evidence, NEW c \in cands
  PROVE  c.thread \in Nat /\ c.thread # NoThread /\ ScoreOf(e, c) \in Int
<1>1. c.thread \in Threads /\ c.evidence \in Evidence
  BY DEF CandidatesInv, Candidate
<1>2. Score[<<e, c.evidence>>] \in Nat \union {Incomparable}
  BY <1>1, ScoreAssumption
<1>3. ScoreOf(e, c) \in Int
  BY <1>2 DEF ScoreOf, Incomparable
<1>4. QED
  BY <1>1, <1>3, ThreadsAssumption

LEMMA Boundaries == MatchThreshold \in Int /\ MatchMargin \in Int /\ MatchMargin > 0
  BY ScoreAssumption DEF MatchThreshold, MatchMargin

\* What sorting and comparing with the second finds is what leads all others.
LEMMA WinnerLeads ==
  ASSUME CandidatesInv, NEW e \in Evidence, NEW c \in Winners(e, Scored(e, cands)),
         NEW d \in Scored(e, cands) \ {c}
  PROVE  Lead(e, c, d)
<1> DEFINE Sc == Scored(e, cands)
<1>1. Sc \subseteq cands /\ c \in Sc /\ Leads(e, c, Sc)
  BY DEF Scored, Winners
<1>2. PICK second \in Sc \ {c} : /\ First(e, second, Sc \ {c})
                                 /\ ScoreOf(e, c) - ScoreOf(e, second) >= MatchMargin
  BY <1>1 DEF Leads
<1>3. ScoreOf(e, second) >= ScoreOf(e, d)
  <2>1. ScoreOf(e, second) \in Int /\ ScoreOf(e, d) \in Int
    BY <1>1, CandidateFacts
  <2>2. CASE d = second
    BY <2>1, <2>2
  <2>3. CASE d # second
    <3>1. Before(e, second, d)
      BY <1>2, <2>3 DEF First
    <3>2. QED
      BY <2>1, <3>1 DEF Before
  <2>4. QED
    BY <2>2, <2>3
<1>4. ScoreOf(e, c) \in Int /\ ScoreOf(e, second) \in Int /\ ScoreOf(e, d) \in Int
  BY <1>1, CandidateFacts
<1>5. QED
  BY <1>2, <1>3, <1>4, Boundaries DEF Lead

LEMMA LeaderWins ==
  ASSUME CandidatesInv, NEW e \in Evidence, NEW c \in Scored(e, cands), Confident(e, c),
         \A d \in Scored(e, cands) \ {c} : Lead(e, c, d)
  PROVE  c \in Winners(e, Scored(e, cands))
<1> DEFINE Sc == Scored(e, cands)
           Others == Sc \ {c}
           R == {xy \in Others \X Others : Before(e, xy[1], xy[2])}
<1>1. Sc \subseteq cands /\ IsFiniteSet(Others)
  <2>1. Others \in SUBSET cands
    BY DEF Scored
  <2>2. IsFiniteSet(Others)
    BY <2>1, FS_Subset DEF CandidatesInv
  <2>3. QED
    BY <2>2 DEF Scored
<1>2. \A d \in Sc : d.thread \in Nat /\ ScoreOf(e, d) \in Int
  BY <1>1, CandidateFacts
<1>3. First(e, c, Sc)
  <2>1. ASSUME NEW d \in Others PROVE Before(e, c, d)
    BY <1>2, <2>1, Boundaries DEF Lead, Before
  <2>2. QED
    BY <2>1 DEF First
<1>4. ASSUME Others # {} PROVE Leads(e, c, Sc)
  <2>1. \A x \in Others : <<x, x>> \notin R
    BY <1>2 DEF Before
  <2>2. \A x, y, z \in Others : <<x, y>> \in R /\ <<y, z>> \in R => <<x, z>> \in R
    BY <1>2 DEF Before
  <2>3. PICK second \in Others : \A y \in Others : <<y, second>> \notin R
    <3> HIDE DEF Others, R
    <3>1. QED
      BY <1>1, <1>4, <2>1, <2>2, FirstExists
  <2>4. ASSUME NEW y \in Others \ {second} PROVE Before(e, second, y)
    <3>1. ~Before(e, y, second)
      BY <2>3
    <3>2. y.thread # second.thread
      BY <1>1 DEF CandidatesInv
    <3>3. QED
      BY <1>2, <3>1, <3>2 DEF Before
  <2>5. First(e, second, Sc \ {c})
    BY <2>4 DEF First
  <2>6. QED
    BY <2>5 DEF Leads, Lead
<1>5. Leads(e, c, Sc)
  <2>1. CASE Others = {}
    BY <2>1 DEF Leads
  <2>2. QED
    BY <1>4, <2>1
<1>6. QED
  BY <1>3, <1>5 DEF Winners

\* The computed scores are near the similarities.
LEMMA NearEnough ==
  ASSUME CandidatesInv, NEW e \in Evidence, NEW c \in Scored(e, cands)
  PROVE  /\ SimilarityOf(e, c) \in Nat /\ ScoreOf(e, c) \in Nat
         /\ ScoreOf(e, c) <= SimilarityOf(e, c) + Rounding
         /\ SimilarityOf(e, c) <= ScoreOf(e, c) + Rounding
<1>1. c \in cands /\ ScoreOf(e, c) # Incomparable
  BY DEF Scored
<1>2. <<e, c.evidence>> \in Evidence \X Evidence
  BY <1>1 DEF CandidatesInv, Candidate
<1>3. /\ Score[<<e, c.evidence>>] \in Nat \union {Incomparable}
      /\ Similarity[<<e, c.evidence>>] \in Nat
  BY <1>2, ScoreAssumption, SimilarityAssumption
<1>4. QED
  BY <1>1, <1>2, <1>3, SimilarityAssumption DEF ScoreOf, SimilarityOf

\* What the computed scores warrant the documented rule does, but for the
\* rounding; and the other way about.
LEMMA WarrantedDocumented ==
  ASSUME CandidatesInv, NEW e \in Evidence, NEW c \in cands
  PROVE  /\ Warranted(e, c) => Documented(e, c, -3 * Rounding)
         /\ Documented(e, c, 3 * Rounding) => Warranted(e, c)
<1>1. CASE Exact(e, cands) # {}
  BY <1>1 DEF Warranted, Documented
<1>2. CASE Exact(e, cands) = {}
  <2>0. Rounding \in Nat /\ Rounding >= 49 /\ Hundredth \in Nat
    BY SimilarityAssumption, ScoreAssumption
  <2> DEFINE Sc == Scored(e, cands)
             Near(d) == /\ SimilarityOf(e, d) \in Nat /\ ScoreOf(e, d) \in Nat
                        /\ ScoreOf(e, d) <= SimilarityOf(e, d) + Rounding
                        /\ SimilarityOf(e, d) <= ScoreOf(e, d) + Rounding
  <2>1. \A d \in Sc : Near(d)
    BY NearEnough
  <2>2. ASSUME Near(c), Confident(e, c) PROVE SimilarityOf(e, c) >= 82 * Hundredth + (-3 * Rounding)
    BY <2>0, <2>2 DEF Confident, MatchThreshold
  <2>3. ASSUME Near(c), SimilarityOf(e, c) >= 82 * Hundredth + 3 * Rounding PROVE Confident(e, c)
    BY <2>0, <2>3 DEF Confident, MatchThreshold
  <2>4. ASSUME Near(c), NEW d, Near(d), Lead(e, c, d)
        PROVE  SimilarityOf(e, c) - SimilarityOf(e, d) >= 5 * Hundredth + (-3 * Rounding)
    BY <2>0, <2>4 DEF Lead, MatchMargin
  <2>5. ASSUME Near(c), NEW d, Near(d),
               SimilarityOf(e, c) - SimilarityOf(e, d) >= 5 * Hundredth + 3 * Rounding
        PROVE  Lead(e, c, d)
    BY <2>0, <2>5 DEF Lead, MatchMargin
  <2> HIDE DEF Near
  <2>6. ASSUME Warranted(e, c) PROVE Documented(e, c, -3 * Rounding)
    BY <1>2, <2>1, <2>2, <2>4, <2>6 DEF Warranted, Documented
  <2>7. ASSUME Documented(e, c, 3 * Rounding) PROVE Warranted(e, c)
    BY <1>2, <2>1, <2>3, <2>5, <2>7 DEF Warranted, Documented
  <2>8. QED
    BY <2>6, <2>7
<1>3. QED
  BY <1>1, <1>2

LEMMA MatchHolds == CandidatesInv => MatchIsWarranted
<1> SUFFICES ASSUME CandidatesInv, NEW e \in Evidence
             PROVE  /\ ChooseMatch(e, cands).thread # NoThread
                         => \E c \in cands : c.thread = ChooseMatch(e, cands).thread /\ Warranted(e, c)
                    /\ ChooseMatch(e, cands).thread = NoThread => \A c \in cands : ~Warranted(e, c)
  BY WarrantedDocumented DEF MatchIsWarranted
<1> DEFINE exact == Exact(e, cands)
           winners == Winners(e, Scored(e, cands))
<1>1. exact \in SUBSET cands /\ winners \in SUBSET cands
  BY DEF Exact, Winners, Scored
<1>2. IsFiniteSet(exact) /\ Cardinality(exact) \in Nat
  <2> HIDE DEF exact
  <2>1. QED
    BY <1>1, FS_Subset, FS_CardinalityType DEF CandidatesInv
<1>3. CASE Cardinality(exact) = 1
  <2>1. PICK c : exact = {c}
    <3> HIDE DEF exact
    <3>1. QED
      BY <1>2, <1>3, FS_Singleton
  <2>2. c \in cands /\ ThreadOf(exact) = c.thread
    BY <1>1, <2>1 DEF ThreadOf
  <2>3. ChooseMatch(e, cands).thread = c.thread
    BY <1>3, <2>2 DEF ChooseMatch, Match
  <2>4. Warranted(e, c)
    BY <2>1 DEF Warranted
  <2>5. QED
    BY <2>2, <2>3, <2>4, CandidateFacts
<1>4. CASE Cardinality(exact) > 1
  <2>1. ChooseMatch(e, cands).thread = NoThread
    BY <1>2, <1>4 DEF ChooseMatch, Match
  <2>2. exact # {} /\ \A c \in cands : exact # {c}
    <3>1. Cardinality({}) = 0 /\ \A c \in cands : Cardinality({c}) = 1
      BY FS_EmptySet, FS_Singleton
    <3>2. QED
      BY <1>4, <3>1
  <2>3. QED
    BY <2>1, <2>2 DEF Warranted
<1>5. CASE Cardinality(exact) = 0
  <2>1. exact = {}
    <3> HIDE DEF exact
    <3>1. QED
      BY <1>2, <1>5, FS_EmptySet
  <2>2. \A c \in cands : Warranted(e, c) <=> c \in winners
    <3>1. ASSUME NEW c \in winners PROVE Warranted(e, c)
      BY <2>1, <3>1, WinnerLeads DEF Warranted, Winners
    <3>2. ASSUME NEW c \in cands, Warranted(e, c) PROVE c \in winners
      BY <2>1, <3>2, LeaderWins DEF Warranted
    <3>3. QED
      BY <3>1, <3>2
  <2>3. CASE winners = {}
    <3>1. ChooseMatch(e, cands).thread = NoThread
      BY <1>5, <2>3 DEF ChooseMatch, WeightedMatch, Match
    <3>2. QED
      BY <2>2, <2>3, <3>1
  <2>4. CASE winners # {}
    <3>1. cands # {}
      BY <1>1, <2>4
    <3>2. ChooseMatch(e, cands) = WeightedMatch(e, Scored(e, cands))
      BY <1>5, <3>1 DEF ChooseMatch
    <3>3. ChooseMatch(e, cands).thread = ThreadOf(winners)
      BY <2>4, <3>2 DEF WeightedMatch, Match
    <3>4. PICK c \in winners : c.thread = ThreadOf(winners)
      BY <2>4 DEF ThreadOf
    <3>5. QED
      BY <1>1, <2>2, <3>3, <3>4, CandidateFacts
  <2>5. QED
    BY <2>3, <2>4
<1>6. QED
  BY <1>2, <1>3, <1>4, <1>5

\* For any similarities and any candidates: a snapshot joins a thread exactly
\* when its evidence is the thread's alone or the thread's computed score reaches
\* the threshold and leads every other by the margin (choose_thread_match), which
\* is what the documented rule says but for the rounding of the floats.
THEOREM MatchesAreWarranted == Spec => []MatchIsWarranted
  BY InitCandidates, StepCandidates, MatchHolds, PTL DEF Spec

(* ---- Sources ---------------------------------------------------------------- *)
\* What a request relies on stays so until it writes: a host it was shown, or
\* told, is the source's host until the source is deleted, and so is a type.
Stands(c) ==
    LET s == call[c].on IN
    /\ call[c].op # "none" => s \in SourceId
    /\ call[c].op \in {"authorize", "authorized"} => call[c].asked.host # Unset
    /\ (call[c].op = "authorized" \/ (call[c].op = "authorize" /\ call[c].read.host # Unset))
          => host[s] = call[c].asked.host \/ type[s] = "deleted"
    /\ call[c].op \in {"update", "bind"} => type[s] \in {call[c].asked.kind, "deleted"}

RequestsStand == \A c \in Caller : Stands(c)

SourcesInv == /\ SourcesTypeOK /\ RequestsStand
              /\ OneSourcePerHost /\ NoOrphans /\ BoundSourceFits

\* How the tables may change under a request that has read them.
TablesMove ==
    \A s \in SourceId :
       /\ type[s] = "deleted" => type'[s] = "deleted"
       /\ type[s] \in Kinds => type'[s] \in {type[s], "deleted"}
       /\ host[s] # Unset => host'[s] = host[s] \/ type'[s] = "deleted"

LEMMA InitSources == SourcesInit => SourcesInv
  BY SourcesAssumption
  DEF SourcesInit, SourcesInv, SourcesTypeOK, RequestsStand, Stands, OneSourcePerHost, NoOrphans,
      BoundSourceFits, NoCall, NoAsk, NoRead, Calls, Operations, Kinds

\* A request that does not move keeps what it relies on.
LEMMA StandsKept ==
  ASSUME SourcesTypeOK, TablesMove, NEW c \in Caller, Stands(c), call'[c] = call[c]
  PROVE  Stands(c)'
  BY DEF SourcesTypeOK, TablesMove, Stands, Calls, Kinds

LEMMA NoCallStands ==
  ASSUME NEW c \in Caller, call'[c] = NoCall
  PROVE  Stands(c)'
  BY DEF Stands, NoCall

LEMMA NoCallTyped == NoCall \in Calls
  BY DEF NoCall, NoAsk, NoRead, Calls, Operations, Kinds

\* A request that begins.
LEMMA BeginKeeps ==
  ASSUME SourcesInv, NEW c \in Caller, NEW s \in SourceId,
         NEW op \in {"authorize", "revoke", "delete", "update", "bind"},
         NEW wish \in [host : Host \cup {Unset}, kind : Kinds],
         NEW found \in [host : Host \cup {Unset}, terms : BOOLEAN],
         Begin(c, op, s, wish, found),
         op = "authorize" => /\ wish.host # Unset
                             /\ found.host # Unset => host[s] = wish.host,
         op \in {"update", "bind"} => type[s] = wish.kind
  PROVE  SourcesInv'
<1> USE DEF SourcesInv
<1>1. UNCHANGED <<type, host, terms, scanned, boundTo, boundType>>
  BY DEF Begin, tables
<1>2. call' = [call EXCEPT ![c] = [op |-> op, on |-> s, asked |-> wish, read |-> found]]
  BY DEF Begin
<1>3. [op |-> op, on |-> s, asked |-> wish, read |-> found] \in Calls
  BY DEF Calls, Operations
<1>4. SourcesTypeOK'
  BY <1>1, <1>2, <1>3 DEF SourcesTypeOK
<1>5. TablesMove
  BY <1>1 DEF TablesMove
<1>6. Stands(c)'
  BY <1>1, <1>2 DEF Stands, SourcesTypeOK
<1>7. ASSUME NEW d \in Caller PROVE Stands(d)'
  <2>1. CASE d = c
    BY <2>1, <1>6
  <2>2. CASE d # c
    BY <2>2, <1>2, <1>5, StandsKept DEF RequestsStand, SourcesTypeOK
  <2>3. QED
    BY <2>1, <2>2
<1>8. QED
  BY <1>1, <1>4, <1>7 DEF RequestsStand, OneSourcePerHost, NoOrphans, BoundSourceFits, Live

\* A request that ends.
LEMMA ReplyStands ==
  ASSUME SourcesTypeOK, RequestsStand, TablesMove, NEW c \in Caller, NEW status \in Nat,
         Reply(c, status),
         (call[c].op = "authorize" /\ status = 200) =>
            host'[call[c].on] = call[c].asked.host \/ type'[call[c].on] = "deleted"
  PROVE  RequestsStand' /\ call' \in [Caller -> Calls]
<1>1. Stands(c) /\ call[c] \in Calls
  BY DEF RequestsStand, SourcesTypeOK
<1>2. CASE call[c].op = "authorize" /\ status = 200
  <2> DEFINE told == [op |-> "authorized", on |-> call[c].on, asked |-> call[c].asked, read |-> NoRead]
  <2>1. call' = [call EXCEPT ![c] = told]
    BY <1>2 DEF Reply
  <2>2. told \in Calls
    BY <1>1 DEF Calls, Operations, NoRead
  <2>3. call' \in [Caller -> Calls]
    BY <2>1, <2>2 DEF SourcesTypeOK
  <2>4. Stands(c)'
    BY <1>1, <1>2, <2>1 DEF Stands, SourcesTypeOK, Calls
  <2>5. QED
    BY <2>1, <2>3, <2>4, StandsKept DEF RequestsStand, SourcesTypeOK
<1>3. CASE ~(call[c].op = "authorize" /\ status = 200)
  <2>1. call' = [call EXCEPT ![c] = NoCall]
    BY <1>3 DEF Reply
  <2>2. call' \in [Caller -> Calls]
    BY <2>1, NoCallTyped DEF SourcesTypeOK
  <2>3. QED
    BY <2>1, <2>2, StandsKept, NoCallStands DEF RequestsStand, SourcesTypeOK
<1>4. QED
  BY <1>2, <1>3

(* ---- the reads ------------------------------------------------------------ *)
LEMMA ReadsKeep ==
  ASSUME SourcesInv, NEW c \in Caller, Reads(c)
  PROVE  SourcesInv'
<1> PICK s \in SourceId :
       \/ \E o \in Spelling : AuthorizeSourceHost(c, s, o)
       \/ RevokeSourceAuthorization(c, s) \/ DeleteSource(c, s)
       \/ \E sort \in Kinds : UpdateSource(c, s, sort) \/ CreateResearchProject(c, s, sort)
  BY DEF Reads
<1>1. /\ NoAsk \in [host : Host \cup {Unset}, kind : Kinds]
      /\ NoRead \in [host : Host \cup {Unset}, terms : BOOLEAN]
      /\ StateOf(s) \in [host : Host \cup {Unset}, terms : BOOLEAN]
  BY DEF NoAsk, NoRead, StateOf, Kinds, SourcesInv, SourcesTypeOK
<1>2. ASSUME NEW o \in Spelling, AuthorizeSourceHost(c, s, o)
      PROVE  SourcesInv'
  <2> DEFINE h == HostOf[o]
  <2>1. h # Rejected /\ ~ImmutableOrigin(s, h)
        /\ Begin(c, "authorize", s, [NoAsk EXCEPT !.host = h], StateOf(s))
    BY <1>2 DEF AuthorizeSourceHost, CanonicalizeDiscourseOrigin
  <2>2. h \in Host /\ h # Unset
    BY <2>1, SourcesAssumption DEF Host
  <2>3. [NoAsk EXCEPT !.host = h] \in [host : Host \cup {Unset}, kind : Kinds]
        /\ [NoAsk EXCEPT !.host = h].host = h
    BY <2>2 DEF NoAsk, Kinds
  <2>4. StateOf(s).host # Unset => host[s] = h
    BY <2>1 DEF StateOf, ImmutableOrigin
  <2>5. QED
    BY <1>1, <2>1, <2>2, <2>3, <2>4, BeginKeeps
<1>3. CASE RevokeSourceAuthorization(c, s)
  BY <1>1, <1>3, BeginKeeps DEF RevokeSourceAuthorization
<1>4. CASE DeleteSource(c, s)
  BY <1>1, <1>4, BeginKeeps DEF DeleteSource
<1>5. ASSUME NEW sort \in Kinds, UpdateSource(c, s, sort) \/ CreateResearchProject(c, s, sort)
      PROVE  SourcesInv'
  <2>1. [NoAsk EXCEPT !.kind = sort] \in [host : Host \cup {Unset}, kind : Kinds]
        /\ [NoAsk EXCEPT !.kind = sort].kind = sort
    BY DEF NoAsk, Kinds
  <2>2. CASE UpdateSource(c, s, sort)
    BY <1>1, <2>1, <2>2, BeginKeeps DEF UpdateSource
  <2>3. CASE CreateResearchProject(c, s, sort)
    BY <1>1, <2>1, <2>3, BeginKeeps DEF CreateResearchProject
  <2>4. QED
    BY <1>5, <2>2, <2>3
<1>6. QED
  BY <1>2, <1>3, <1>4, <1>5

(* ---- the writes ----------------------------------------------------------- *)
LEMMA InsertKeeps ==
  ASSUME SourcesInv, NEW c \in Caller, InsertAuthorization(c)
  PROVE  SourcesInv'
<1> DEFINE s == call[c].on
           h == call[c].asked.host
<1> USE DEF SourcesInv
<1>1. s \in SourceId /\ h # Unset /\ h \in Host
  BY DEF InsertAuthorization, RequestsStand, Stands, SourcesTypeOK, Calls
<1>2. UNCHANGED <<type, scanned, boundTo, boundType>>
  BY DEF InsertAuthorization
<1>3. CASE ForeignKey(s) /\ PrimaryKeyFree(s) /\ HostFree(s, h)
  <2>1. host' = [host EXCEPT ![s] = h] /\ terms' = terms \cup {s} /\ Reply(c, 200)
    BY <1>3 DEF InsertAuthorization
  <2>2. host[s] = Unset /\ type[s] \in Kinds /\ \A t \in SourceId \ {s} : host[t] # h
    BY <1>3 DEF ForeignKey, PrimaryKeyFree, HostFree, Live
  <2>3. host' \in [SourceId -> Host \cup {Unset}]
    BY <1>1, <2>1 DEF SourcesTypeOK
  <2>4. TablesMove
    BY <1>1, <1>2, <2>1, <2>2 DEF TablesMove, SourcesTypeOK
  <2>5. host'[s] = h
    BY <1>1, <2>1 DEF SourcesTypeOK
  <2>6. RequestsStand' /\ call' \in [Caller -> Calls]
    BY <2>1, <2>4, <2>5, ReplyStands
  <2>7. SourcesTypeOK'
    BY <1>1, <1>2, <2>1, <2>3, <2>6 DEF SourcesTypeOK
  <2>8. OneSourcePerHost'
    BY <1>1, <2>1, <2>2 DEF OneSourcePerHost, SourcesTypeOK
  <2>9. NoOrphans'
    BY <1>1, <1>2, <2>1, <2>2 DEF NoOrphans, SourcesTypeOK, Live
  <2>10. QED
    BY <1>2, <2>6, <2>7, <2>8, <2>9 DEF BoundSourceFits, Live
<1>4. CASE ~(ForeignKey(s) /\ PrimaryKeyFree(s) /\ HostFree(s, h))
  <2>1. UNCHANGED <<host, terms>> /\ Reply(c, 409)
    BY <1>4 DEF InsertAuthorization
  <2>2. TablesMove
    BY <1>2, <2>1 DEF TablesMove
  <2>3. RequestsStand' /\ call' \in [Caller -> Calls]
    BY <2>1, <2>2, ReplyStands
  <2>4. QED
    BY <1>2, <2>1, <2>3 DEF SourcesTypeOK, OneSourcePerHost, NoOrphans, BoundSourceFits, Live
<1>5. QED
  BY <1>3, <1>4

LEMMA RenewKeeps ==
  ASSUME SourcesInv, NEW c \in Caller, RenewAuthorization(c)
  PROVE  SourcesInv'
<1> DEFINE s == call[c].on
<1> USE DEF SourcesInv
<1>1. s \in SourceId /\ (host[s] = call[c].asked.host \/ type[s] = "deleted")
  BY DEF RenewAuthorization, RequestsStand, Stands
<1>2. UNCHANGED <<type, host, scanned, boundTo, boundType>>
  BY DEF RenewAuthorization
<1>3. TablesMove
  BY <1>2 DEF TablesMove
<1>4. PICK status \in Nat : Reply(c, status)
  BY DEF RenewAuthorization
<1>5. RequestsStand' /\ call' \in [Caller -> Calls]
  BY <1>1, <1>2, <1>3, <1>4, ReplyStands
<1>6. terms' = terms \/ (host[s] # Unset /\ terms' = terms \cup {s})
  BY DEF RenewAuthorization
<1>7. SourcesTypeOK' /\ NoOrphans'
  BY <1>1, <1>2, <1>5, <1>6 DEF SourcesTypeOK, NoOrphans, Live
<1>8. QED
  BY <1>2, <1>5, <1>7 DEF OneSourcePerHost, BoundSourceFits, Live

LEMMA RevocationKeeps ==
  ASSUME SourcesInv, NEW c \in Caller, CommitRevocation(c)
  PROVE  SourcesInv'
<1> USE DEF SourcesInv
<1>1. UNCHANGED <<type, host, scanned, boundTo, boundType>> /\ terms' \subseteq terms
  BY DEF CommitRevocation
<1>2. TablesMove
  BY <1>1 DEF TablesMove
<1>3. PICK status \in Nat : Reply(c, status)
  BY DEF CommitRevocation
<1>4. call[c].op # "authorize"
  BY DEF CommitRevocation
<1>5. RequestsStand' /\ call' \in [Caller -> Calls]
  BY <1>2, <1>3, <1>4, ReplyStands
<1>6. QED
  BY <1>1, <1>5 DEF SourcesTypeOK, NoOrphans, OneSourcePerHost, BoundSourceFits, Live

LEMMA DeletionKeeps ==
  ASSUME SourcesInv, NEW c \in Caller, CommitDeletion(c)
  PROVE  SourcesInv'
<1> DEFINE s == call[c].on
<1> USE DEF SourcesInv
<1>1. s \in SourceId
  BY DEF CommitDeletion, RequestsStand, Stands
<1>2. UNCHANGED <<scanned, boundTo, boundType>> /\ call[c].op # "authorize"
  BY DEF CommitDeletion
<1>3. CASE Unreferenced(s)
  <2>1. /\ type' = [type EXCEPT ![s] = "deleted"]
        /\ host' = [host EXCEPT ![s] = Unset]
        /\ terms' = terms \ {s}
        /\ Reply(c, 200)
    BY <1>3 DEF CommitDeletion
  <2>2. TablesMove
    BY <1>1, <2>1 DEF TablesMove, SourcesTypeOK
  <2>3. RequestsStand' /\ call' \in [Caller -> Calls]
    BY <1>2, <2>1, <2>2, ReplyStands
  <2>4. SourcesTypeOK'
    BY <1>1, <1>2, <2>1, <2>3 DEF SourcesTypeOK
  <2>5. OneSourcePerHost' /\ NoOrphans'
    BY <1>1, <2>1 DEF OneSourcePerHost, NoOrphans, SourcesTypeOK, Live
  <2>6. ASSUME NEW p \in BoundProject, boundTo'[p] # Unset
        PROVE  type'[boundTo'[p]] = boundType'[p]
    <3>1. boundTo[p] # s /\ boundTo'[p] = boundTo[p] /\ boundTo[p] \in SourceId
      BY <1>2, <1>3, <2>6 DEF Unreferenced, SourcesTypeOK
    <3>2. type'[boundTo[p]] = type[boundTo[p]]
      BY <2>1, <3>1 DEF SourcesTypeOK
    <3>3. QED
      BY <1>2, <2>6, <3>1, <3>2 DEF BoundSourceFits
  <2>7. QED
    BY <2>3, <2>4, <2>5, <2>6 DEF BoundSourceFits
<1>4. CASE ~Unreferenced(s)
  <2>1. UNCHANGED <<type, host, terms>> /\ Reply(c, 409)
    BY <1>4 DEF CommitDeletion
  <2>2. TablesMove
    BY <2>1 DEF TablesMove
  <2>3. RequestsStand' /\ call' \in [Caller -> Calls]
    BY <1>2, <2>1, <2>2, ReplyStands
  <2>4. QED
    BY <1>2, <2>1, <2>3 DEF SourcesTypeOK, OneSourcePerHost, NoOrphans, BoundSourceFits, Live
<1>5. QED
  BY <1>3, <1>4

\* The type written is the type read, which is still there.
LEMMA UpdateKeeps ==
  ASSUME SourcesInv, NEW c \in Caller, CommitUpdate(c)
  PROVE  SourcesInv'
<1> DEFINE s == call[c].on
<1> USE DEF SourcesInv
<1>1. s \in SourceId /\ type[s] \in {call[c].asked.kind, "deleted"}
  BY DEF CommitUpdate, RequestsStand, Stands
<1>2. UNCHANGED <<host, terms, scanned, boundTo, boundType>> /\ call[c].op # "authorize"
  BY DEF CommitUpdate
<1>3. type' = type
  <2>1. CASE Live(s)
    <3>1. type[s] = call[c].asked.kind
      BY <1>1, <2>1 DEF Live, Kinds
    <3>2. QED
      BY <1>1, <2>1, <3>1 DEF CommitUpdate, SourcesTypeOK
  <2>2. CASE ~Live(s)
    BY <2>2 DEF CommitUpdate
  <2>3. QED
    BY <2>1, <2>2
<1>4. TablesMove
  BY <1>2, <1>3 DEF TablesMove
<1>5. PICK status \in Nat : Reply(c, status)
  BY DEF CommitUpdate
<1>6. RequestsStand' /\ call' \in [Caller -> Calls]
  BY <1>2, <1>4, <1>5, ReplyStands
<1>7. QED
  BY <1>2, <1>3, <1>6 DEF SourcesTypeOK, OneSourcePerHost, NoOrphans, BoundSourceFits, Live

\* The foreign key finds the source live, so it still is of the type that was read.
LEMMA ProjectKeeps ==
  ASSUME SourcesInv, NEW c \in Caller, NEW p \in BoundProject, CommitProject(c, p)
  PROVE  SourcesInv'
<1> DEFINE s == call[c].on
<1> USE DEF SourcesInv
<1>1. /\ s \in SourceId /\ type[s] \in {call[c].asked.kind, "deleted"}
      /\ call[c].asked.kind \in Kinds
  BY DEF CommitProject, RequestsStand, Stands, SourcesTypeOK, Calls
<1>2. UNCHANGED <<type, host, terms, scanned>> /\ call[c].op # "authorize"
  BY DEF CommitProject
<1>3. TablesMove
  BY <1>2 DEF TablesMove
<1>4. PICK status \in Nat : Reply(c, status)
  BY DEF CommitProject
<1>5. RequestsStand' /\ call' \in [Caller -> Calls]
  BY <1>2, <1>3, <1>4, ReplyStands
<1>6. \/ UNCHANGED <<boundTo, boundType>>
      \/ /\ Live(s)
         /\ boundTo' = [boundTo EXCEPT ![p] = s]
         /\ boundType' = [boundType EXCEPT ![p] = call[c].asked.kind]
  BY DEF CommitProject, ForeignKey
<1>7. SourcesTypeOK'
  BY <1>1, <1>2, <1>5, <1>6 DEF SourcesTypeOK
<1>8. BoundSourceFits'
  BY <1>1, <1>2, <1>6 DEF BoundSourceFits, SourcesTypeOK, Live, Kinds
<1>9. QED
  BY <1>2, <1>5, <1>7, <1>8 DEF OneSourcePerHost, NoOrphans, Live

LEMMA TablesStep ==
  ASSUME SourcesInv, NEW s \in SourceId,
         ScanSource(s) \/ \E sort \in Kinds : CreateSource(s, sort)
  PROVE  SourcesInv'
<1> USE DEF SourcesInv
<1>1. CASE ScanSource(s)
  <2>1. UNCHANGED <<type, host, terms, boundTo, boundType, call>> /\ scanned' = scanned \cup {s}
    BY <1>1 DEF ScanSource
  <2>2. QED
    BY <2>1 DEF SourcesTypeOK, RequestsStand, Stands, OneSourcePerHost, NoOrphans, BoundSourceFits, Live
<1>2. ASSUME NEW sort \in Kinds, CreateSource(s, sort)
      PROVE  SourcesInv'
  <2>1. /\ type[s] = "unborn" /\ type' = [type EXCEPT ![s] = sort]
        /\ UNCHANGED <<host, terms, scanned, boundTo, boundType, call>>
    BY <1>2 DEF CreateSource
  <2>2. TablesMove
    BY <2>1 DEF TablesMove, SourcesTypeOK, Kinds
  <2>3. RequestsStand'
    BY <2>1, <2>2, StandsKept DEF RequestsStand
  <2>4. NoOrphans' /\ BoundSourceFits'
    BY <2>1 DEF NoOrphans, BoundSourceFits, SourcesTypeOK, Live, Kinds
  <2>5. QED
    BY <2>1, <2>3, <2>4 DEF SourcesTypeOK, OneSourcePerHost
<1>3. QED
  BY <1>1, <1>2

LEMMA SourcesStep == SourcesInv /\ [SourcesNext]_sourcesVars => SourcesInv'
<1> SUFFICES ASSUME SourcesInv, [SourcesNext]_sourcesVars PROVE SourcesInv'
  OBVIOUS
<1>1. ASSUME NEW c \in Caller, Reads(c) PROVE SourcesInv'
  BY <1>1, ReadsKeep
<1>2. ASSUME NEW c \in Caller, Writes(c) PROVE SourcesInv'
  BY <1>2, InsertKeeps, RenewKeeps, RevocationKeeps, DeletionKeeps, UpdateKeeps, ProjectKeeps DEF Writes
<1>3. ASSUME NEW s \in SourceId, ScanSource(s) \/ \E sort \in Kinds : CreateSource(s, sort)
      PROVE  SourcesInv'
  BY <1>3, TablesStep
<1>4. CASE UNCHANGED sourcesVars
  BY <1>4 DEF sourcesVars, SourcesInv, SourcesTypeOK, RequestsStand, Stands, OneSourcePerHost,
              NoOrphans, BoundSourceFits, Live
<1>5. QED
  BY <1>1, <1>2, <1>3, <1>4 DEF SourcesNext

(* ---- theorems ------------------------------------------------------------- *)
\* The invariant of the source routes: the tables are typed, requests rely on what
\* still is so, and the three relations between sources, hosts and projects hold.
THEOREM SourcesInvariant == SourcesSpec => []SourcesInv
  BY InitSources, SourcesStep, PTL DEF SourcesSpec

\* A host and port belong to one source, however many requests race for them.
THEOREM HostsAreUnique == SourcesSpec => []OneSourcePerHost
<1>1. SourcesInv => OneSourcePerHost
  BY DEF SourcesInv
<1>2. QED
  BY <1>1, SourcesInvariant, PTL

\* No authorization outlives its source or stands without a row.
THEOREM AuthorizationsHaveSources == SourcesSpec => []NoOrphans
<1>1. SourcesInv => NoOrphans
  BY DEF SourcesInv
<1>2. QED
  BY <1>1, SourcesInvariant, PTL

\* A project's source is there and of its type, though both were checked before.
THEOREM BindingsFit == SourcesSpec => []BoundSourceFits
<1>1. SourcesInv => BoundSourceFits
  BY DEF SourcesInv
<1>2. QED
  BY <1>1, SourcesInvariant, PTL

\* A 200 names the host the source has as long as it has one.
THEOREM AuthorizationsAreTrue == SourcesSpec => []AuthorizedAsAsked
<1>1. SourcesInv => AuthorizedAsAsked
  BY DEF SourcesInv, AuthorizedAsAsked, RequestsStand, Stands, NoOrphans, Live, Kinds
<1>2. QED
  BY <1>1, SourcesInvariant, PTL

\* The host of a source that stands authorized changes only when the source goes
\* (authorize_discourse_source, ImmutableDiscourseOrigin).
THEOREM HostsNeverMove == SourcesSpec => OriginNeverMoves
<1>1. ASSUME SourcesInv, [SourcesNext]_sourcesVars, NEW s \in terms
      PROVE  host'[s] = host[s] \/ type'[s] = "deleted"
  <2> USE <1>1 DEF SourcesInv
  <2>0. s \in SourceId /\ host[s] # Unset
    BY DEF SourcesTypeOK, NoOrphans
  <2>1. CASE host' = host
    BY <2>1
  <2>2. ASSUME NEW c \in Caller, InsertAuthorization(c) PROVE host'[s] = host[s]
    <3>1. host' = host \/ (host[call[c].on] = Unset /\ host' = [host EXCEPT ![call[c].on] = call[c].asked.host])
      BY <2>2 DEF InsertAuthorization, PrimaryKeyFree
    <3>2. QED
      BY <2>0, <3>1 DEF SourcesTypeOK
  <2>3. ASSUME NEW c \in Caller, CommitDeletion(c)
        PROVE  host'[s] = host[s] \/ type'[s] = "deleted"
    <3>1. \/ host' = host
          \/ /\ host' = [host EXCEPT ![call[c].on] = Unset]
             /\ type' = [type EXCEPT ![call[c].on] = "deleted"]
      BY <2>3 DEF CommitDeletion
    <3>2. QED
      BY <2>0, <3>1 DEF SourcesTypeOK
  <2>4. ASSUME NEW c \in Caller, Reads(c) PROVE host' = host
    BY <2>4 DEF Reads, AuthorizeSourceHost, RevokeSourceAuthorization, DeleteSource, UpdateSource,
                CreateResearchProject, Begin, tables
  <2>5. ASSUME NEW c \in Caller, Writes(c) PROVE host'[s] = host[s] \/ type'[s] = "deleted"
    BY <2>2, <2>3, <2>5 DEF Writes, RenewAuthorization, CommitRevocation, CommitUpdate, CommitProject
  <2>6. QED
    BY <2>1, <2>4, <2>5 DEF SourcesNext, sourcesVars, ScanSource, CreateSource
<1>2. SourcesInv /\ [SourcesNext]_sourcesVars =>
        \A s \in terms : host'[s] = host[s] \/ type'[s] = "deleted"
  BY <1>1
<1>3. QED
  BY <1>2, SourcesInvariant, PTL DEF SourcesSpec, OriginNeverMoves

\* For any sources, hosts, projects and overlapping requests the tables stay
\* consistent, authorizations true and hosts where they are.
THEOREM SourcesAreSafe == SourcesSpec => SourcesSafety
<1>1. SourcesInv => SourcesTypeOK
  BY DEF SourcesInv
<1>2. SourcesSpec => [](SourcesTypeOK /\ OneSourcePerHost /\ NoOrphans /\ BoundSourceFits /\ AuthorizedAsAsked)
  BY <1>1, SourcesInvariant, HostsAreUnique, AuthorizationsHaveSources, BindingsFit, AuthorizationsAreTrue, PTL
<1>3. QED
  BY <1>2, HostsNeverMove DEF SourcesSafety

(* ---- Migration ------------------------------------------------------------ *)
\* A command that does not move keeps what it relies on.
Unmoved(c) ==
    /\ step'[c] = step[c] /\ stamping'[c] = stamping[c] /\ reviewed'[c] = reviewed[c]
    /\ guard'[c] = guard[c] /\ mine'[c] = mine[c]
    /\ sqlite' = sqlite /\ path <= path'
    /\ step[c] \in Held => /\ holder'[guard[c]] = c
                           /\ disk'[guard[c]].rev = disk[guard[c]].rev
                           /\ sqlite => disk'[guard[c]] = disk[guard[c]]
    /\ \A b \in DOMAIN backups :
         b \in DOMAIN backups' /\ (backups[b].state = "whole" => backups'[b] = backups[b])
    /\ step[c] = "reserved" => backups'[mine[c]] = backups[mine[c]]

LEMMA HeadTyped == \A c \in Command : HeadOf[c] \in Nat /\ 1 <= HeadOf[c] /\ HeadOf[c] \in 0..MaxRev
  BY HeadAssumption

LEMMA BackupsTyped ==
  ASSUME MigrationTypeOK
  PROVE  \A b \in DOMAIN backups :
            /\ backups[b] \in Backup /\ backups[b].maker \in Command
            /\ backups[b].image \in Database /\ b \in Nat
<1>1. backups \in Seq(Backup)
  BY DEF MigrationTypeOK
<1>2. \A b \in DOMAIN backups : backups[b] \in Backup /\ b \in Nat
  BY <1>1
<1>3. QED
  BY <1>2 DEF Backup

LEMMA UnmovedStands ==
  ASSUME MigrationInv, MigrationTypeOK', NEW c \in Command, Unmoved(c)
  PROVE  CommandStands(c)'
<1>1. CommandStands(c)
  BY DEF MigrationInv
<1>2. (guard[c] \in 1..path) => (guard'[c] \in 1..path')
  BY DEF Unmoved, MigrationInv, MigrationTypeOK, Files
<1>3. \A d : Kept(mine[c], d) => Kept(mine[c], d)'
  BY DEF Kept, Unmoved
<1>4. QED
  BY <1>1, <1>2, <1>3 DEF CommandStands, Unmoved, Kept

\* A step of one command that leaves every database alone.
LEMMA CommandMoves ==
  ASSUME MigrationInv, MigrationTypeOK', NEW c \in Command,
         UNCHANGED <<sqlite, disk, path>>,
         \A d \in Command \ {c} : Unmoved(d),
         CommandStands(c)', step'[c] = "serving" => disk[path].rev >= HeadOf[c],
         \A b \in DOMAIN backups' : BackupStands(b)'
  PROVE  MigrationInv'
<1>1. \A d \in Command : CommandStands(d)'
  BY UnmovedStands
<1>2. VersionTellsShape'
  BY DEF MigrationInv, VersionTellsShape
<1>3. ServedSchemaIsKnown'
  BY DEF MigrationInv, ServedSchemaIsKnown, Unmoved
<1>4. QED
  BY <1>1, <1>2, <1>3 DEF MigrationInv

\* One that leaves the lock and the backups alone as well.
Quiet(c) ==
    /\ sqlite' = sqlite /\ disk' = disk /\ path' = path
    /\ holder' = holder /\ backups' = backups /\ mine' = mine
    /\ \A d \in Command \ {c} : /\ step'[d] = step[d] /\ stamping'[d] = stamping[d]
                                /\ reviewed'[d] = reviewed[d] /\ guard'[d] = guard[d]
    /\ step[c] \notin {"reserved", "dead"}

LEMMA QuietKeeps ==
  ASSUME MigrationInv, MigrationTypeOK', NEW c \in Command, Quiet(c), CommandStands(c)',
         step'[c] = "serving" => disk[path].rev >= HeadOf[c]
  PROVE  MigrationInv'
<1>1. \A d \in Command \ {c} : Unmoved(d)
  <2> SUFFICES ASSUME NEW d \in Command \ {c} PROVE Unmoved(d)
    OBVIOUS
  <2>1. step[d] \in Held => holder[guard[d]] = d
    BY DEF MigrationInv, CommandStands
  <2>2. path' = path /\ path <= path
    BY DEF MigrationInv, MigrationTypeOK, Files, Quiet
  <2>3. /\ step'[d] = step[d] /\ stamping'[d] = stamping[d] /\ reviewed'[d] = reviewed[d]
        /\ guard'[d] = guard[d] /\ mine'[d] = mine[d] /\ sqlite' = sqlite
    BY DEF Quiet
  <2>4. holder' = holder /\ disk' = disk /\ backups' = backups
    BY DEF Quiet
  <2>5. QED
    BY <2>1, <2>2, <2>3, <2>4 DEF Unmoved
<1>2. \A b \in DOMAIN backups : backups[b].maker \in Command
  BY BackupsTyped DEF MigrationInv
<1>3. \A b \in DOMAIN backups' : BackupStands(b)'
  BY <1>2 DEF Quiet, MigrationInv, BackupStands
<1>4. UNCHANGED <<sqlite, disk, path>>
  BY DEF Quiet
<1>5. QED
  BY <1>1, <1>3, <1>4, CommandMoves

Steps == Working \cup Ended \cup {"new", "serving"}

\* The steps that only move the command that takes them.
LEMMA BeforeLockKeeps ==
  ASSUME MigrationInv, NEW c \in Command,
         \/ Migrate(c) \/ Fingerprint(c) \/ Stamp(c) \/ SecureDatabaseFile(c) \/ LockTimeout(c)
         \/ ChangeSchema(c) \/ Serve(c) \/ StopServing(c)
  PROVE  MigrationInv'
<1>0. MigrationTypeOK /\ CommandStands(c)
  BY DEF MigrationInv
<1>1. CASE Migrate(c)
  <2>1. /\ step[c] = "new" /\ step'[c] \in {"done", "refused", "inspected"} /\ Quiet(c)
        /\ stamping' = stamping /\ reviewed' = reviewed /\ guard' = guard
        /\ step' = [step EXCEPT ![c] = step'[c]]
    BY <1>0, <1>1 DEF Migrate, Goto, Quiet, MigrationTypeOK
  <2>2. MigrationTypeOK'
    BY <1>0, <2>1 DEF MigrationTypeOK, Quiet, Working, Ended
  <2>3. CommandStands(c)'
    BY <1>0, <2>1 DEF CommandStands, Held
  <2>4. QED
    BY <2>1, <2>2, <2>3, QuietKeeps
<1>2. CASE Fingerprint(c)
  <2>1. /\ step[c] = "new" /\ step'[c] \in {"refused", "reviewed"} /\ Quiet(c) /\ guard' = guard
        /\ step' = [step EXCEPT ![c] = step'[c]]
        /\ stamping' = [stamping EXCEPT ![c] = TRUE]
        /\ reviewed' = [reviewed EXCEPT ![c] = disk[path].shape]
    BY <1>0, <1>2 DEF Fingerprint, Goto, Quiet, MigrationTypeOK, SchemaObjects
  <2>2. disk[path].shape \in 0..Mixed
    BY <1>0 DEF MigrationTypeOK, Database
  <2>3. MigrationTypeOK'
    <3>1. step' \in [Command -> Working \cup Ended \cup {"new", "serving"}] /\ guard' \in [Command -> 0..MaxFiles]
      BY <1>0, <2>1 DEF MigrationTypeOK, Working, Ended
    <3>2. stamping' \in [Command -> BOOLEAN] /\ reviewed' \in [Command -> 0..Mixed]
      BY <1>0, <2>1, <2>2 DEF MigrationTypeOK
    <3>3. QED
      BY <1>0, <2>1, <3>1, <3>2 DEF MigrationTypeOK, Quiet
  <2>4. CommandStands(c)'
    BY <1>0, <2>1 DEF CommandStands, Held
  <2>5. QED
    BY <2>1, <2>3, <2>4, QuietKeeps
<1>3. CASE Stamp(c)
  <2>1. /\ step[c] = "reviewed" /\ step'[c] \in {"refused", "inspected"} /\ Quiet(c)
        /\ stamping' = stamping /\ reviewed' = reviewed /\ guard' = guard
        /\ step' = [step EXCEPT ![c] = step'[c]]
        /\ step'[c] = "inspected" => reviewed[c] \in 1..HeadOf[c]
    BY <1>0, <1>3 DEF Stamp, Goto, Quiet, MigrationTypeOK
  <2>2. MigrationTypeOK'
    BY <1>0, <2>1 DEF MigrationTypeOK, Quiet, Working, Ended
  <2>3. CommandStands(c)'
    BY <1>0, <2>1 DEF CommandStands, Held
  <2>4. QED
    BY <2>1, <2>2, <2>3, QuietKeeps
<1>4. CASE SecureDatabaseFile(c)
  <2>1. /\ step[c] = "inspected" /\ step'[c] = "opened" /\ Quiet(c)
        /\ stamping' = stamping /\ reviewed' = reviewed /\ guard' = [guard EXCEPT ![c] = path]
        /\ step' = [step EXCEPT ![c] = "opened"]
    BY <1>0, <1>4 DEF SecureDatabaseFile, Goto, Quiet, MigrationTypeOK
  <2>2. path \in 1..path /\ path \in 0..MaxFiles
    BY <1>0 DEF MigrationTypeOK, Files
  <2>3. MigrationTypeOK'
    BY <1>0, <2>1, <2>2 DEF MigrationTypeOK, Quiet, Working, Ended
  <2>4. guard'[c] = path /\ path' = path
    BY <1>0, <2>1 DEF MigrationTypeOK, Quiet
  <2>5. CommandStands(c)'
    BY <1>0, <2>1, <2>2, <2>4 DEF CommandStands, Held
  <2>6. QED
    BY <2>1, <2>3, <2>5, QuietKeeps
<1>5. CASE LockTimeout(c)
  <2>1. /\ step[c] = "opened" /\ step'[c] = "failed" /\ Quiet(c)
        /\ stamping' = stamping /\ reviewed' = reviewed /\ guard' = guard
        /\ step' = [step EXCEPT ![c] = "failed"]
    BY <1>0, <1>5 DEF LockTimeout, Goto, Quiet, MigrationTypeOK
  <2>2. MigrationTypeOK'
    BY <1>0, <2>1 DEF MigrationTypeOK, Quiet, Working, Ended
  <2>3. CommandStands(c)'
    BY <1>0, <2>1 DEF CommandStands, Held
  <2>4. QED
    BY <2>1, <2>2, <2>3, QuietKeeps
<1>6. CASE ChangeSchema(c)
  <2>1. /\ step[c] = "backed" /\ step'[c] = "changed" /\ Quiet(c)
        /\ stamping' = stamping /\ reviewed' = reviewed /\ guard' = guard
        /\ step' = [step EXCEPT ![c] = "changed"]
    BY <1>0, <1>6 DEF ChangeSchema, Goto, Quiet, MigrationTypeOK
  <2>2. MigrationTypeOK'
    BY <1>0, <2>1 DEF MigrationTypeOK, Quiet, Working, Ended
  <2>3. \A d : Kept(mine[c], d) => Kept(mine[c], d)'
    BY <2>1 DEF Kept, Quiet
  <2>4. CommandStands(c)'
    BY <1>0, <2>1, <2>3 DEF CommandStands, Held, Quiet
  <2>5. QED
    BY <2>1, <2>2, <2>4, QuietKeeps
<1>7. CASE Serve(c)
  <2>1. /\ step[c] = "new" /\ step'[c] \in {"serving", "refused"} /\ Quiet(c)
        /\ stamping' = stamping /\ reviewed' = reviewed /\ guard' = guard
        /\ step' = [step EXCEPT ![c] = step'[c]]
        /\ step'[c] = "serving" => Inspect(c) = "current"
    BY <1>0, <1>7 DEF Serve, Goto, Quiet, MigrationTypeOK
  <2>2. MigrationTypeOK'
    BY <1>0, <2>1 DEF MigrationTypeOK, Quiet, Working, Ended
  <2>3. CommandStands(c)'
    BY <1>0, <2>1 DEF CommandStands, Held
  <2>4. Inspect(c) = "current" => disk[path].rev = HeadOf[c]
    BY DEF Inspect, SchemaStatus
  <2>5. QED
    BY <2>1, <2>2, <2>3, <2>4, HeadTyped, QuietKeeps
<1>8. CASE StopServing(c)
  <2>1. /\ step[c] = "serving" /\ step'[c] = "done" /\ Quiet(c)
        /\ stamping' = stamping /\ reviewed' = reviewed /\ guard' = guard
        /\ step' = [step EXCEPT ![c] = "done"]
    BY <1>0, <1>8 DEF StopServing, Goto, Quiet, MigrationTypeOK
  <2>2. MigrationTypeOK'
    BY <1>0, <2>1 DEF MigrationTypeOK, Quiet, Working, Ended
  <2>3. CommandStands(c)'
    BY <1>0, <2>1 DEF CommandStands, Held
  <2>4. QED
    BY <2>1, <2>2, <2>3, QuietKeeps
<1>9. QED
  BY <1>1, <1>2, <1>3, <1>4, <1>5, <1>6, <1>7, <1>8

LEMMA InitMigration == MigrationInit => MigrationInv
<1> SUFFICES ASSUME MigrationInit PROVE MigrationInv
  OBVIOUS
<1>1. PICK d \in Database : /\ d.rev = 0 \/ d.shape = d.rev
                            /\ disk = [f \in Files |-> IF f = 1 THEN d ELSE Blank]
  BY DEF MigrationInit
<1>2. Blank \in Database /\ 1 \in Files
  BY MigrationBounds DEF Database, Blank, Files, Mixed
<1>3. MigrationTypeOK
  BY <1>1, <1>2, MigrationBounds DEF MigrationInit, MigrationTypeOK, Mixed
<1>4. VersionTellsShape
  BY <1>1 DEF VersionTellsShape, Telling, Blank
<1>5. \A f \in Files : f > path => disk[f] = Blank
  BY <1>1 DEF MigrationInit, Files
<1>6. path = 1 /\ backups = <<>> /\ \A c \in Command : step[c] = "new" /\ ~stamping[c]
  BY DEF MigrationInit
<1>7. ServedSchemaIsKnown /\ \A c \in Command : CommandStands(c)
  BY <1>6 DEF ServedSchemaIsKnown, CommandStands, Held
<1>8. QED
  BY <1>3, <1>4, <1>5, <1>6, <1>7 DEF MigrationInv

\* A command that ends gives its lock back, and nothing else.
LEMMA EndsKeeps ==
  ASSUME MigrationInv, NEW c \in Command, MigrationFails(c) \/ Crash(c)
  PROVE  MigrationInv'
<1>0. MigrationTypeOK /\ CommandStands(c)
  BY DEF MigrationInv
<1>1. /\ step' = [step EXCEPT ![c] = step'[c]] /\ step'[c] \in {"failed", "dead"}
      /\ step[c] = "reserved" => step'[c] = "dead"
      /\ step[c] # "dead"
      /\ holder' = [f \in Files |-> IF holder[f] = c THEN Nobody ELSE holder[f]]
      /\ sqlite' = sqlite /\ disk' = disk /\ path' = path /\ backups' = backups
      /\ stamping' = stamping /\ reviewed' = reviewed /\ guard' = guard /\ mine' = mine
  BY <1>0 DEF MigrationFails, Crash, End, Goto, Released, MigrationTypeOK, Working
<1>2. MigrationTypeOK'
  BY <1>0, <1>1 DEF MigrationTypeOK, Ended
<1>3. ASSUME NEW d \in Command \ {c} PROVE Unmoved(d)
  <2>1. CommandStands(d)
    BY DEF MigrationInv
  <2>2. step[d] \in Held => guard[d] \in Files /\ holder[guard[d]] = d
    BY <1>0, <2>1 DEF CommandStands, Held, MigrationTypeOK, Files
  <2>3. step[d] \in Held => holder'[guard[d]] = d
    BY <1>1, <2>2
  <2>4. path <= path /\ step'[d] = step[d]
    BY <1>0, <1>1 DEF MigrationTypeOK, Files
  <2>5. QED
    BY <1>1, <2>3, <2>4 DEF Unmoved
<1>4. CommandStands(c)'
  BY <1>1 DEF CommandStands, Held
<1>5. \A b \in DOMAIN backups' : BackupStands(b)'
  <2>1. \A d \in Command : step'[d] = IF d = c THEN step'[c] ELSE step[d]
    BY <1>0, <1>1 DEF MigrationTypeOK
  <2>2. ASSUME NEW b \in DOMAIN backups PROVE BackupStands(b)'
    BY <1>0, <1>1, <2>1, BackupsTyped DEF MigrationInv, BackupStands
  <2>3. QED
    BY <1>1, <2>2
<1>6. step'[c] # "serving"
  BY <1>1
<1>7. QED
  BY <1>1, <1>2, <1>3, <1>4, <1>5, <1>6, CommandMoves

\* A command that copies: its backup is its own.
LEMMA ReserveBackupKeeps ==
  ASSUME MigrationInv, NEW c \in Command, ReserveBackup(c)
  PROVE  MigrationInv'
<1>0. MigrationTypeOK /\ CommandStands(c) /\ \A b \in DOMAIN backups : BackupStands(b)
  BY DEF MigrationInv
<1> DEFINE n == Len(backups) + 1
           x == [state |-> "partial", image |-> Blank, maker |-> c]
<1>1. /\ step[c] = "locked" /\ step' = [step EXCEPT ![c] = "reserved"]
      /\ mine' = [mine EXCEPT ![c] = n] /\ backups' = Append(backups, x)
      /\ sqlite' = sqlite /\ disk' = disk /\ path' = path /\ holder' = holder
      /\ stamping' = stamping /\ reviewed' = reviewed /\ guard' = guard
  BY DEF ReserveBackup, Goto
<1>2. x \in Backup
  <2>1. MaxRev \in Nat /\ MaxRows \in Nat
    BY MigrationBounds
  <2>2. 0 \in 0..MaxRev /\ 0 \in 0..Mixed /\ 0 \in 0..MaxRows
    BY <2>1 DEF Mixed
  <2>3. Blank \in Database
    BY <2>2 DEF Blank, Database
  <2>4. QED
    BY <2>3 DEF Backup
<1>3. backups \in Seq(Backup)
  BY <1>0 DEF MigrationTypeOK
<1>4. /\ backups' \in Seq(Backup) /\ DOMAIN backups' = DOMAIN backups \cup {n} /\ n \in Nat
      /\ n \notin DOMAIN backups
      /\ backups'[n] = x /\ \A b \in DOMAIN backups : backups'[b] = backups[b]
  BY <1>1, <1>2, <1>3
<1>5. x.state = "partial" /\ x.maker = c
  OBVIOUS
<1> HIDE DEF n, x
<1>6. MigrationTypeOK'
  BY <1>0, <1>1, <1>4 DEF MigrationTypeOK, Working
<1>7. /\ step'[c] = "reserved" /\ mine'[c] = n
      /\ \A d \in Command \ {c} : step'[d] = step[d] /\ mine'[d] = mine[d]
  BY <1>0, <1>1 DEF MigrationTypeOK
<1>8. ASSUME NEW d \in Command \ {c} PROVE Unmoved(d)
  <2>1. CommandStands(d)
    BY DEF MigrationInv
  <2>2. path <= path
    BY <1>0 DEF MigrationTypeOK, Files
  <2>3. QED
    BY <1>1, <1>4, <1>7, <2>1, <2>2 DEF Unmoved, CommandStands
<1>9. CommandStands(c)'
  BY <1>0, <1>1, <1>4, <1>5, <1>7 DEF CommandStands, Held
<1>10. ASSUME NEW b \in DOMAIN backups' PROVE BackupStands(b)'
  <2>1. CASE b = n
    BY <1>1, <1>4, <1>5, <1>7, <2>1 DEF BackupStands
  <2>2. CASE b \in DOMAIN backups
    <3>1. backups[b].maker \in Command
      BY <1>0, <2>2, BackupsTyped
    <3>2. backups[b].state = "partial" => backups[b].maker # c
      BY <1>0, <1>1, <2>2 DEF BackupStands
    <3>3. QED
      BY <1>0, <1>1, <1>4, <1>7, <2>2, <3>1, <3>2 DEF BackupStands
  <2>3. QED
    BY <1>4, <2>1, <2>2
<1>11. QED
  BY <1>1, <1>6, <1>7, <1>8, <1>9, <1>10, CommandMoves

LEMMA CopyKeeps ==
  ASSUME MigrationInv, NEW c \in Command, CopyBackup(c) \/ BackupFails(c)
  PROVE  MigrationInv'
<1>0. /\ MigrationTypeOK /\ CommandStands(c) /\ VersionTellsShape
      /\ \A b \in DOMAIN backups : BackupStands(b)
      /\ ~sqlite => path = 1
  BY DEF MigrationInv
<1> DEFINE n == mine[c]
           x == IF CopyBackup(c) THEN [backups[n] EXCEPT !.state = "whole", !.image = disk[path]]
                ELSE [backups[n] EXCEPT !.state = "gone"]
<1>1. /\ step[c] = "reserved" /\ step' = [step EXCEPT ![c] = step'[c]]
      /\ step'[c] \in {"backed", "failed"}
      /\ step'[c] = "backed" => /\ CopyBackup(c) /\ SameDatabase(c) /\ holder' = holder
      /\ step'[c] = "failed" =>
           holder' = [f \in Files |-> IF holder[f] = c THEN Nobody ELSE holder[f]]
      /\ sqlite' = sqlite /\ disk' = disk /\ path' = path /\ mine' = mine
      /\ stamping' = stamping /\ reviewed' = reviewed /\ guard' = guard
  BY <1>0 DEF CopyBackup, BackupFails, End, Goto, Released, MigrationTypeOK
<1>2. /\ n \in DOMAIN backups /\ backups[n].state = "partial" /\ backups[n].maker = c
      /\ backups[n] \in Backup
  BY <1>0, <1>1, BackupsTyped DEF CommandStands
<1>3. backups' = [backups EXCEPT ![n] = x]
  BY DEF CopyBackup, BackupFails
<1>4. disk[path] \in Database
  BY <1>0 DEF MigrationTypeOK
<1>5. /\ x \in Backup /\ x.maker = c
      /\ x.state = "whole" => x.image = disk[path]
      /\ x.state # "partial"
      /\ CopyBackup(c) => x.state = "whole"
  BY <1>2, <1>4 DEF Backup
<1>6. backups \in Seq(Backup)
  BY <1>0 DEF MigrationTypeOK
<1> HIDE DEF x, n
<1>7. /\ backups' \in Seq(Backup) /\ DOMAIN backups' = DOMAIN backups
      /\ backups'[n] = x /\ \A b \in DOMAIN backups \ {n} : backups'[b] = backups[b]
  BY <1>2, <1>3, <1>5, <1>6
<1>8. MigrationTypeOK'
  BY <1>0, <1>1, <1>7 DEF MigrationTypeOK, Working, Ended
<1>9. \A d \in Command \ {c} : step'[d] = step[d]
  BY <1>0, <1>1 DEF MigrationTypeOK
<1>10. ASSUME NEW d \in Command \ {c} PROVE Unmoved(d)
  <2>1. CommandStands(d)
    BY DEF MigrationInv
  <2>2. step[d] \in Held => guard[d] \in Files /\ holder[guard[d]] = d
    BY <1>0, <2>1 DEF CommandStands, Held, MigrationTypeOK, Files
  <2>3. step[d] \in Held => holder'[guard[d]] = d
    BY <1>1, <2>2
  <2>4. path <= path
    BY <1>0 DEF MigrationTypeOK, Files
  <2>5. step[d] = "reserved" => mine[d] # n /\ mine[d] \in DOMAIN backups
    BY <1>2, <2>1 DEF CommandStands
  <2>6. QED
    BY <1>1, <1>2, <1>7, <1>9, <2>3, <2>4, <2>5 DEF Unmoved
<1>11. CommandStands(c)'
  <2>1. CASE step'[c] = "backed"
    <3>1. guard[c] = path
      BY <1>0, <1>1, <2>1 DEF SameDatabase, CommandStands, Held, MigrationTypeOK
    <3>2. Kept(mine[c], disk[path])'
      BY <1>1, <1>2, <1>5, <1>7, <2>1 DEF Kept, n
    <3>3. QED
      BY <1>0, <1>1, <2>1, <3>1, <3>2 DEF CommandStands, Held
  <2>2. CASE step'[c] = "failed"
    BY <2>2 DEF CommandStands, Held
  <2>3. QED
    BY <1>1, <2>1, <2>2
<1>12. ASSUME NEW b \in DOMAIN backups' PROVE BackupStands(b)'
  <2>1. CASE b = n
    BY <1>0, <1>1, <1>5, <1>7, <2>1 DEF BackupStands, VersionTellsShape, MigrationTypeOK
  <2>2. CASE b \in DOMAIN backups \ {n}
    <3>1. backups[b].maker \in Command
      BY <1>0, <2>2, BackupsTyped
    <3>2. backups[b].state = "partial" => backups[b].maker # c
      BY <1>0, <1>1, <2>2 DEF BackupStands, n
    <3>3. QED
      BY <1>0, <1>1, <1>7, <1>9, <2>2, <3>1, <3>2 DEF BackupStands
  <2>3. QED
    BY <1>7, <2>1, <2>2
<1>13. step'[c] # "serving"
  BY <1>1
<1>14. QED
  BY <1>1, <1>8, <1>10, <1>11, <1>12, <1>13, CommandMoves

\* What the locked re-inspection finds is what the command may rely on.
LEMMA LockKeeps ==
  ASSUME MigrationInv, NEW c \in Command, AcquireMigrationLock(c)
  PROVE  MigrationInv'
<1>0. MigrationTypeOK /\ CommandStands(c) /\ VersionTellsShape /\ (~sqlite => path = 1)
  BY DEF MigrationInv
<1> DEFINE s == LockedNext(c)
<1>1. /\ step[c] = "opened" /\ step' = [step EXCEPT ![c] = s] /\ holder[path] = Nobody
      /\ holder' = [holder EXCEPT ![path] = IF s \in Ended THEN holder[path] ELSE c]
      /\ sqlite' = sqlite /\ disk' = disk /\ path' = path /\ mine' = mine /\ backups' = backups
      /\ stamping' = stamping /\ reviewed' = reviewed /\ guard' = guard
  BY DEF AcquireMigrationLock, Goto
<1>2. s \in {"done", "refused", "failed", "locked", "backed"}
  BY DEF LockedNext, StampNext, UpgradeNext
<1>3. s \in {"locked", "backed"} =>
        /\ SameDatabase(c)
        /\ stamping[c] => /\ disk[path].rev = 0 /\ disk[path].shape = reviewed[c]
                          /\ s = "backed" => ~sqlite
        /\ ~stamping[c] => /\ disk[path].rev = 0 \/ disk[path].rev < HeadOf[c]
                           /\ s = "backed" /\ sqlite => disk[path].shape = 0
                           /\ disk[path].rev = 0 => disk[path].shape = 0
  <2>1. ASSUME s \in {"locked", "backed"}, stamping[c]
        PROVE  disk[path].rev = 0 /\ disk[path].shape = reviewed[c] /\ (s = "backed" => ~sqlite)
    BY <2>1 DEF LockedNext, StampNext, Inspect, SchemaStatus, SchemaObjects
  <2>2. ASSUME s \in {"locked", "backed"}, ~stamping[c]
        PROVE  /\ Inspect(c) \in {"empty", "stale"}
               /\ s = "backed" /\ sqlite => Inspect(c) = "empty"
    <3>1. Inspect(c) \in {"empty", "unversioned", "current", "stale", "unknown"}
      BY DEF Inspect, SchemaStatus
    <3>2. QED
      BY <2>2, <3>1 DEF LockedNext, UpgradeNext, Refused
  <2>3. /\ Inspect(c) \in {"empty", "stale"} => disk[path].rev = 0 \/ disk[path].rev < HeadOf[c]
        /\ Inspect(c) = "empty" => disk[path].shape = 0
        /\ Inspect(c) = "stale" => disk[path].rev # 0
    BY DEF Inspect, SchemaStatus, SchemaObjects
  <2>4. s \in {"locked", "backed"} => SameDatabase(c)
    BY DEF LockedNext
  <2>5. QED
    BY <2>1, <2>2, <2>3, <2>4
<1> HIDE DEF s
<1>4. MigrationTypeOK'
  BY <1>0, <1>1, <1>2 DEF MigrationTypeOK, Working, Ended
<1>5. \A d \in Command \ {c} : step'[d] = step[d]
  BY <1>0, <1>1 DEF MigrationTypeOK
<1>6. ASSUME NEW d \in Command \ {c} PROVE Unmoved(d)
  <2>1. CommandStands(d)
    BY DEF MigrationInv
  <2>2. step[d] \in Held => guard[d] \in Files /\ holder[guard[d]] = d
    BY <1>0, <2>1 DEF CommandStands, Held, MigrationTypeOK, Files
  <2>3. step[d] \in Held => holder'[guard[d]] = d
    BY <1>0, <1>1, <2>2, MigrationBounds DEF MigrationTypeOK
  <2>4. path <= path
    BY <1>0 DEF MigrationTypeOK, Files
  <2>5. QED
    BY <1>1, <1>5, <2>3, <2>4 DEF Unmoved
<1>7. CommandStands(c)'
  <2>0. step'[c] = s
    BY <1>0, <1>1 DEF MigrationTypeOK
  <2>1. CASE s \in {"locked", "backed"}
    <3>1. guard[c] = path
      BY <1>0, <1>1, <1>3, <2>1 DEF SameDatabase, CommandStands, MigrationTypeOK
    <3>2. holder'[path] = c
      BY <1>0, <1>1, <2>1 DEF MigrationTypeOK, Ended
    <3>3. 0 < HeadOf[c]
      BY HeadTyped
    <3>4. (sqlite /\ s = "backed") => disk[path].shape = 0
      BY <1>3, <2>1
    <3>5. QED
      BY <1>0, <1>1, <1>3, <2>0, <2>1, <3>1, <3>2, <3>3, <3>4 DEF CommandStands, Held
  <2>2. CASE s \in {"done", "refused", "failed"}
    BY <2>0, <2>2 DEF CommandStands, Held
  <2>3. QED
    BY <1>2, <2>1, <2>2
<1>8. ASSUME NEW b \in DOMAIN backups' PROVE BackupStands(b)'
  <2>1. backups[b].maker \in Command /\ BackupStands(b)
    BY <1>0, <1>1, BackupsTyped DEF MigrationInv
  <2>2. QED
    BY <1>1, <1>5, <2>1 DEF BackupStands
<1>9. step'[c] # "serving"
  BY <1>0, <1>1, <1>2 DEF MigrationTypeOK
<1>10. QED
  BY <1>1, <1>4, <1>6, <1>7, <1>8, <1>9, CommandMoves

\* The step that publishes a schema: the version and its objects go together.
LEMMA CommitMigrationKeeps ==
  ASSUME MigrationInv, NEW c \in Command, CommitMigration(c)
  PROVE  /\ MigrationInv'
         /\ \A f \in Files : (sqlite /\ disk'[f].rev # disk[f].rev /\ disk[f].shape # 0)
              => \E b \in 1..Len(backups) : backups[b].state = "whole" /\ backups[b].image = disk[f]
<1>0. /\ MigrationTypeOK /\ CommandStands(c) /\ VersionTellsShape /\ ServedSchemaIsKnown
      /\ (~sqlite => path = 1)
      /\ \A f \in Files : f > path => disk[f] = Blank
  BY DEF MigrationInv
<1> DEFINE g == guard[c]
           d == disk[g]
<1>a. PICK shape \in IF stamping[c] THEN {d.shape} ELSE Upgraded(d, c) :
         disk' = [disk EXCEPT ![g].rev = IF stamping[c] THEN reviewed[c] ELSE HeadOf[c],
                              ![g].shape = shape]
  BY DEF CommitMigration
<1> DEFINE e == [d EXCEPT !.rev = IF stamping[c] THEN reviewed[c] ELSE HeadOf[c], !.shape = shape]
<1>1. /\ step[c] = "changed" /\ step' = [step EXCEPT ![c] = "done"]
      /\ disk' = [disk EXCEPT ![g] = e]
      /\ holder' = [f \in Files |-> IF holder[f] = c THEN Nobody ELSE holder[f]]
      /\ sqlite' = sqlite /\ path' = path /\ mine' = mine /\ backups' = backups
      /\ stamping' = stamping /\ reviewed' = reviewed /\ guard' = guard
  BY <1>a DEF CommitMigration, End, Goto, Released
<1>2. /\ g \in 1..path /\ g \in Files /\ holder[g] = c
      /\ IF stamping[c] THEN d.rev = 0 /\ reviewed[c] \in 1..HeadOf[c] ELSE d.rev < HeadOf[c]
      /\ (sqlite /\ stamping[c]) => d.shape = reviewed[c]
      /\ (sqlite /\ d.shape # 0) => Kept(mine[c], d)
      /\ (sqlite /\ ~stamping[c] /\ d.rev = 0) => d.shape = 0
  BY <1>0, <1>1 DEF CommandStands, Held, MigrationTypeOK, Files
<1>3. d \in Database
  BY <1>0, <1>2 DEF MigrationTypeOK
<1>4. HeadOf[c] \in Nat /\ 1 <= HeadOf[c] /\ HeadOf[c] \in 0..MaxRev /\ reviewed[c] \in 0..Mixed
  BY <1>0, HeadTyped DEF MigrationTypeOK
<1>5. /\ e \in Database /\ e.rev \in Nat
      /\ e.rev >= d.rev
      /\ sqlite => Telling(e)
      /\ d.rev # 0 => e.rev > d.rev
  <2>1. d.rev \in Nat
    BY <1>3 DEF Database
  <2>2. CASE stamping[c]
    <3>1. d.rev = 0 /\ reviewed[c] \in 0..MaxRev /\ shape = d.shape
      BY <1>2, <1>4, <2>2, MigrationBounds
    <3>2. e \in Database /\ e.rev = reviewed[c] /\ e.shape = d.shape
      BY <1>3, <2>2, <3>1 DEF Database
    <3>3. QED
      BY <1>2, <2>2, <3>1, <3>2 DEF Telling
  <2>3. CASE ~stamping[c]
    <3>1. d.rev < HeadOf[c] /\ shape \in {HeadOf[c], Mixed} /\ (d.shape = d.rev => shape = HeadOf[c])
      BY <1>2, <2>3 DEF Upgraded
    <3>2. shape \in 0..Mixed
      BY <1>4, <3>1, MigrationBounds DEF Mixed
    <3>3. e \in Database /\ e.rev = HeadOf[c] /\ e.shape = shape /\ e.altered = d.altered
      BY <1>3, <1>4, <2>3, <3>2 DEF Database
    <3>4. sqlite /\ ~d.altered => d.shape = d.rev
      BY <1>0, <1>2, <2>3 DEF VersionTellsShape, Telling
    <3>5. QED
      BY <1>4, <2>1, <3>1, <3>3, <3>4 DEF Telling
  <2>4. QED
    BY <2>2, <2>3
<1> HIDE DEF e
<1>6. disk' \in [Files -> Database] /\ disk'[g] = e /\ \A f \in Files \ {g} : disk'[f] = disk[f]
  BY <1>0, <1>1, <1>2, <1>5 DEF MigrationTypeOK
<1>7. MigrationTypeOK'
  BY <1>0, <1>1, <1>6 DEF MigrationTypeOK, Ended
<1>8. \A u \in Command : step'[u] = IF u = c THEN "done" ELSE step[u]
  BY <1>0, <1>1 DEF MigrationTypeOK
<1>9. ASSUME NEW u \in Command \ {c} PROVE CommandStands(u)'
  <2>1. CommandStands(u)
    BY DEF MigrationInv
  <2>2. step[u] \in Held => guard[u] \in Files /\ holder[guard[u]] = u
    BY <1>0, <2>1 DEF CommandStands, Held, MigrationTypeOK, Files
  <2>3. step[u] \in Held => guard[u] # g /\ holder'[guard[u]] = u
    BY <1>1, <1>2, <2>2
  <2>4. path <= path
    BY <1>0 DEF MigrationTypeOK, Files
  <2>5. Unmoved(u)
    BY <1>1, <1>6, <1>8, <2>2, <2>3, <2>4 DEF Unmoved
  <2>6. QED
    BY <1>7, <2>5, UnmovedStands
<1>10. CommandStands(c)'
  BY <1>8 DEF CommandStands, Held
<1>11. VersionTellsShape'
  BY <1>0, <1>1, <1>5, <1>6 DEF VersionTellsShape, Telling
<1>12. ServedSchemaIsKnown'
  <2> SUFFICES ASSUME NEW u \in Command, step'[u] = "serving" PROVE disk'[path].rev >= HeadOf[u]
    BY <1>1 DEF ServedSchemaIsKnown
  <2>1. disk[path].rev >= HeadOf[u] /\ path \in Files
    BY <1>0, <1>8 DEF ServedSchemaIsKnown, MigrationTypeOK
  <2>2. CASE g = path
    BY <1>3, <1>5, <1>6, <2>1, <2>2, HeadTyped DEF Database
  <2>3. CASE g # path
    BY <1>6, <2>1, <2>3
  <2>4. QED
    BY <2>2, <2>3
<1>13. \A f \in Files : f > path => disk'[f] = Blank
  BY <1>0, <1>2, <1>6 DEF MigrationTypeOK, Files
<1>14. ASSUME NEW b \in DOMAIN backups' PROVE BackupStands(b)'
  <2>1. backups[b].maker \in Command /\ BackupStands(b)
    BY <1>0, <1>1, BackupsTyped DEF MigrationInv
  <2>2. QED
    BY <1>1, <1>8, <2>1 DEF BackupStands
<1>15. ASSUME NEW f \in Files, sqlite, disk'[f].rev # disk[f].rev, disk[f].shape # 0
       PROVE  \E b \in 1..Len(backups) : backups[b].state = "whole" /\ backups[b].image = disk[f]
  <2>1. f = g /\ Kept(mine[c], disk[f])
    BY <1>2, <1>6, <1>15
  <2>2. DOMAIN backups = 1..Len(backups)
    BY <1>0 DEF MigrationTypeOK
  <2>3. QED
    BY <2>1, <2>2 DEF Kept
<1>16. MigrationInv'
  BY <1>0, <1>1, <1>7, <1>9, <1>10, <1>11, <1>12, <1>13, <1>14 DEF MigrationInv
<1>17. QED
  BY <1>15, <1>16

\* What writes a database in place finds no command at work on it, on SQLite, and
\* leaves its version alone.
LEMMA WriteKeeps ==
  ASSUME MigrationInv, (\E c \in Command : Write(c)) \/ (\E k \in 1..MaxRev : CreateTables(k))
  PROVE  MigrationInv' /\ \A f \in Files : disk'[f].rev = disk[f].rev
<1>0. /\ MigrationTypeOK /\ VersionTellsShape /\ ServedSchemaIsKnown /\ (~sqlite => path = 1)
      /\ \A f \in Files : f > path => disk[f] = Blank
  BY DEF MigrationInv
<1> DEFINE e == disk'[path]
<1>1. /\ sqlite' = sqlite /\ path' = path /\ holder' = holder /\ backups' = backups
      /\ step' = step /\ stamping' = stamping /\ reviewed' = reviewed /\ guard' = guard
      /\ mine' = mine
      /\ sqlite => holder[path] = Nobody
  BY DEF Write, CreateTables, Writable
<1>2. /\ disk' = [disk EXCEPT ![path] = e] /\ e \in Database
      /\ e.rev = disk[path].rev
      /\ Telling(disk[path]) => Telling(e)
  <2>1. path \in Files /\ disk[path] \in Database
    BY <1>0 DEF MigrationTypeOK
  <2>2. CASE \E c \in Command : Write(c)
    <3>1. /\ disk' = [disk EXCEPT ![path] = [disk[path] EXCEPT !.rows = disk[path].rows + 1]]
          /\ disk[path].rows < MaxRows
      BY <2>2 DEF Write
    <3>2. [disk[path] EXCEPT !.rows = disk[path].rows + 1] \in Database
      BY <2>1, <3>1, MigrationBounds DEF Database
    <3>3. e = [disk[path] EXCEPT !.rows = disk[path].rows + 1]
      BY <1>0, <2>1, <3>1 DEF MigrationTypeOK
    <3>4. QED
      BY <2>1, <3>1, <3>2, <3>3 DEF Database, Telling
  <2>3. ASSUME NEW k \in 1..MaxRev, CreateTables(k)
        PROVE  /\ disk' = [disk EXCEPT ![path] = e] /\ e \in Database
               /\ e.rev = disk[path].rev /\ Telling(e)
    <3>1. PICK shape \in {k, Mixed} :
             disk' = [disk EXCEPT ![path].shape = shape, ![path].altered = @ \/ disk[path].rev # 0]
      BY <2>3 DEF CreateTables
    <3> DEFINE w == [disk[path] EXCEPT !.shape = shape, !.altered = @ \/ disk[path].rev # 0]
    <3>2. shape \in 0..Mixed
      BY <3>1, MigrationBounds DEF Mixed
    <3>3. w \in Database /\ w.rev = disk[path].rev /\ (w.rev # 0 => w.altered)
      BY <2>1, <3>2 DEF Database
    <3>4. e = w /\ disk' = [disk EXCEPT ![path] = w]
      BY <1>0, <2>1, <3>1 DEF MigrationTypeOK
    <3>5. QED
      BY <3>3, <3>4 DEF Telling
  <2>4. QED
    BY <2>2, <2>3
<1> HIDE DEF e
<1>3. /\ disk' \in [Files -> Database] /\ disk'[path] = e /\ path \in Files
      /\ \A f \in Files \ {path} : disk'[f] = disk[f]
  BY <1>0, <1>2 DEF MigrationTypeOK
<1>4. \A f \in Files : disk'[f].rev = disk[f].rev
  BY <1>2, <1>3
<1>5. MigrationTypeOK'
  BY <1>0, <1>1, <1>3 DEF MigrationTypeOK
<1>6. ASSUME NEW u \in Command PROVE CommandStands(u)'
  <2>1. CommandStands(u)
    BY DEF MigrationInv
  <2>2. step[u] \in Held => guard[u] \in Files /\ holder[guard[u]] = u
    BY <1>0, <2>1 DEF CommandStands, Held, MigrationTypeOK, Files
  <2>3. (step[u] \in Held /\ sqlite) => guard[u] # path
    BY <1>1, <2>2, MigrationBounds
  <2>4. path <= path
    BY <1>0 DEF MigrationTypeOK, Files
  <2>5. Unmoved(u)
    BY <1>1, <1>3, <1>4, <2>2, <2>3, <2>4 DEF Unmoved
  <2>6. QED
    BY <1>5, <2>5, UnmovedStands
<1>7. VersionTellsShape'
  BY <1>0, <1>1, <1>2, <1>3 DEF VersionTellsShape, Telling
<1>8. ServedSchemaIsKnown'
  BY <1>0, <1>1, <1>3, <1>4 DEF ServedSchemaIsKnown
<1>9. \A f \in Files : f > path => disk'[f] = Blank
  BY <1>0, <1>3 DEF MigrationTypeOK, Files
<1>10. \A b \in DOMAIN backups' : BackupStands(b)'
  BY <1>1 DEF MigrationInv, BackupStands
<1>11. QED
  BY <1>0, <1>1, <1>4, <1>5, <1>6, <1>7, <1>8, <1>9, <1>10 DEF MigrationInv

\* A restored backup is a new file; who guards the old one finds it as it was.
LEMMA RestoreKeeps ==
  ASSUME MigrationInv, NEW b \in 1..Len(backups), RestoreBackup(b)
  PROVE  /\ MigrationInv'
         /\ \A f \in Files : disk'[f].rev # disk[f].rev => disk[f].shape = 0
<1>0. /\ MigrationTypeOK /\ VersionTellsShape /\ ServedSchemaIsKnown /\ (~sqlite => path = 1)
      /\ \A f \in Files : f > path => disk[f] = Blank
  BY DEF MigrationInv
<1>1. /\ sqlite /\ sqlite' = sqlite /\ path' = path + 1 /\ holder' = holder /\ backups' = backups
      /\ step' = step /\ stamping' = stamping /\ reviewed' = reviewed /\ guard' = guard
      /\ mine' = mine /\ disk' = [disk EXCEPT ![path + 1] = backups[b].image]
      /\ path < MaxFiles /\ backups[b].state = "whole"
      /\ \A c \in Command : step[c] # "serving"
  BY DEF RestoreBackup
<1>2. b \in DOMAIN backups
  BY <1>0 DEF MigrationTypeOK
<1>3. backups[b].image \in Database /\ BackupStands(b)
  BY <1>0, <1>2, BackupsTyped DEF MigrationInv
<1>4. path \in Files /\ path + 1 \in Files /\ path \in Nat /\ path > 0
  BY <1>0, <1>1, MigrationBounds DEF MigrationTypeOK, Files
<1>5. /\ disk' \in [Files -> Database] /\ disk'[path + 1] = backups[b].image
      /\ \A f \in Files \ {path + 1} : disk'[f] = disk[f]
  BY <1>0, <1>1, <1>3, <1>4 DEF MigrationTypeOK
<1>6. MigrationTypeOK'
  BY <1>0, <1>1, <1>4, <1>5 DEF MigrationTypeOK
<1>7. ASSUME NEW u \in Command PROVE CommandStands(u)'
  <2>1. CommandStands(u)
    BY DEF MigrationInv
  <2>2. step[u] \in Held => /\ guard[u] \in Files /\ guard[u] # path + 1
                            /\ holder[guard[u]] = u
    BY <1>0, <1>4, <2>1 DEF CommandStands, Held, MigrationTypeOK, Files
  <2>3. path <= path'
    BY <1>1, <1>4
  <2>4. Unmoved(u)
    BY <1>1, <1>5, <2>2, <2>3 DEF Unmoved
  <2>5. QED
    BY <1>6, <2>4, UnmovedStands
<1>8. VersionTellsShape'
  BY <1>0, <1>1, <1>3, <1>5 DEF VersionTellsShape, BackupStands, Telling
<1>9. ServedSchemaIsKnown'
  BY <1>1 DEF ServedSchemaIsKnown
<1>10. \A f \in Files : f > path' => disk'[f] = Blank
  BY <1>0, <1>1, <1>4, <1>5 DEF Files
<1>11. \A x \in DOMAIN backups' : BackupStands(x)'
  BY <1>1 DEF MigrationInv, BackupStands
<1>12. \A f \in Files : disk'[f].rev # disk[f].rev => disk[f].shape = 0
  <2>1. disk[path + 1].shape = 0
    BY <1>0, <1>4 DEF Blank
  <2>2. QED
    BY <1>5, <2>1
<1>13. QED
  BY <1>1, <1>6, <1>7, <1>8, <1>9, <1>10, <1>11, <1>12 DEF MigrationInv

\* What a step does to the revisions.
BacksUp ==
    \A f \in Files : (sqlite /\ disk'[f].rev # disk[f].rev /\ disk[f].shape # 0)
       => \E b \in 1..Len(backups) : backups[b].state = "whole" /\ backups[b].image = disk[f]

LEMMA StepMigration == MigrationInv /\ [MigrationNext]_migrationVars => MigrationInv' /\ BacksUp
<1> SUFFICES ASSUME MigrationInv, [MigrationNext]_migrationVars PROVE MigrationInv' /\ BacksUp
  OBVIOUS
<1>1. disk' = disk => BacksUp
  BY DEF BacksUp
<1>2. CASE UNCHANGED migrationVars
  <2>1. MigrationInv'
    BY <1>2 DEF migrationVars, MigrationInv, MigrationTypeOK, VersionTellsShape,
                ServedSchemaIsKnown, CommandStands, BackupStands, Telling, Kept
  <2>2. QED
    BY <1>1, <1>2, <2>1 DEF migrationVars
<1>3. ASSUME NEW c \in Command,
             \/ Migrate(c) \/ Fingerprint(c) \/ Stamp(c) \/ SecureDatabaseFile(c)
             \/ LockTimeout(c) \/ ChangeSchema(c) \/ Serve(c) \/ StopServing(c)
      PROVE  MigrationInv' /\ disk' = disk
  <2>1. MigrationInv'
    BY <1>3, BeforeLockKeeps
  <2>2. disk' = disk
    BY <1>3 DEF Migrate, Fingerprint, Stamp, SecureDatabaseFile, LockTimeout, ChangeSchema,
                Serve, StopServing
  <2>3. QED
    BY <2>1, <2>2
<1>4. ASSUME NEW c \in Command,
             \/ AcquireMigrationLock(c) \/ ReserveBackup(c) \/ CopyBackup(c) \/ BackupFails(c)
             \/ MigrationFails(c) \/ Crash(c)
      PROVE  MigrationInv' /\ disk' = disk
  <2>1. MigrationInv'
    BY <1>4, LockKeeps, ReserveBackupKeeps, CopyKeeps, EndsKeeps
  <2>2. disk' = disk
    BY <1>4 DEF AcquireMigrationLock, ReserveBackup, CopyBackup, BackupFails, MigrationFails, Crash
  <2>3. QED
    BY <2>1, <2>2
<1>5. ASSUME NEW c \in Command, CommitMigration(c) PROVE MigrationInv' /\ BacksUp
  BY <1>5, CommitMigrationKeeps DEF BacksUp
<1>6. ASSUME (\E c \in Command : Write(c)) \/ (\E k \in 1..MaxRev : CreateTables(k))
      PROVE  MigrationInv' /\ BacksUp
  BY <1>6, WriteKeeps DEF BacksUp
<1>7. ASSUME NEW b \in 1..Len(backups), RestoreBackup(b) PROVE MigrationInv' /\ BacksUp
  BY <1>7, RestoreKeeps DEF BacksUp
<1>8. \/ UNCHANGED migrationVars
      \/ \E c \in Command :
           \/ Migrate(c) \/ Fingerprint(c) \/ Stamp(c) \/ SecureDatabaseFile(c)
           \/ LockTimeout(c) \/ ChangeSchema(c) \/ Serve(c) \/ StopServing(c)
      \/ \E c \in Command :
           \/ AcquireMigrationLock(c) \/ ReserveBackup(c) \/ CopyBackup(c) \/ BackupFails(c)
           \/ MigrationFails(c) \/ Crash(c)
      \/ \E c \in Command : CommitMigration(c)
      \/ (\E c \in Command : Write(c)) \/ (\E k \in 1..MaxRev : CreateTables(k))
      \/ \E b \in 1..Len(backups) : RestoreBackup(b)
  BY DEF MigrationNext
<1>9. QED
  BY <1>1, <1>2, <1>3, <1>4, <1>5, <1>6, <1>7, <1>8

\* For any releases, commands, servers, restores and crashes over one database:
\* its version can be trusted, no server is left with an older schema, a backup
\* that is not whole belongs to a command that was interrupted, and what a
\* migration replaced is kept whole (packaged_runtime.py, migrate and serve).
THEOREM MigrationIsSafe == MigrationSpec => MigrationSafety
<1>1. MigrationInv => MigrationTypeOK /\ VersionTellsShape /\ ServedSchemaIsKnown
                      /\ PartialMeansInterrupted
  <2> SUFFICES ASSUME MigrationInv PROVE PartialMeansInterrupted
    BY DEF MigrationInv
  <2>1. DOMAIN backups = 1..Len(backups)
    BY DEF MigrationInv, MigrationTypeOK
  <2>2. QED
    BY <2>1 DEF MigrationInv, BackupStands, PartialMeansInterrupted
<1>2. MigrationInv /\ [MigrationNext]_migrationVars => [BacksUp]_migrationVars
  BY StepMigration
<1>3. MigrationSpec => [](MigrationTypeOK /\ VersionTellsShape /\ ServedSchemaIsKnown
                          /\ PartialMeansInterrupted)
  BY <1>1, InitMigration, StepMigration, PTL DEF MigrationSpec
<1>4. MigrationSpec => [][BacksUp]_migrationVars
  BY <1>2, InitMigration, StepMigration, PTL DEF MigrationSpec
<1>5. QED
  BY <1>3, <1>4 DEF MigrationSafety, ChangeIsBackedUp, BacksUp

(* ---- PacketDownload --------------------------------------------------------- *)
LEMMA InitDownload == PacketDownloadInit => DownloadInv
  BY DownloadAssumption DEF PacketDownloadInit, DownloadInv, PacketDownloadTypeOK

Stages == {"new", "asking", "streaming", "received", "writing", "failing", "saved", "error", "killed"}

LEMMA StepDownload == DownloadInv /\ [PacketDownloadNext]_downloadVars => DownloadInv'
<1> SUFFICES ASSUME DownloadInv, [PacketDownloadNext]_downloadVars PROVE DownloadInv'
  OBVIOUS
<1> USE DEF DownloadInv, PacketDownloadTypeOK
<1>1. CASE UNCHANGED downloadVars
  BY <1>1 DEF downloadVars
<1>2. CASE SomeoneSaves
  BY <1>2, DownloadAssumption DEF SomeoneSaves
<1>3. ASSUME NEW d \in Downloader, CheckOutput(d) PROVE DownloadInv'
  BY <1>3, DownloadAssumption DEF CheckOutput, To
<1>4. ASSUME NEW d \in Downloader, NEW n \in 1..Chunks, Answer(d, n) PROVE DownloadInv'
  BY <1>4, DownloadAssumption DEF Answer, To
<1>5. ASSUME NEW d \in Downloader, ReceiveChunk(d) PROVE DownloadInv'
  <2>1. got' \in [Downloader -> 0..Limit + 1]
    BY <1>5, DownloadAssumption DEF ReceiveChunk
  <2>2. \A e \in Downloader : e # d => got'[e] = got[e] /\ stage'[e] = stage[e]
    BY <1>5 DEF ReceiveChunk, To
  <2>3. got'[d] = got[d] + 1 /\ (stage'[d] = "error" \/ (got[d] + 1 <= Limit /\ stage'[d] = "streaming"))
    BY <1>5, DownloadAssumption DEF ReceiveChunk, To
  <2>4. stage' \in [Downloader -> Stages]
    BY <1>5 DEF ReceiveChunk, To, Stages
  <2>5. at' = at /\ cleaned' = cleaned /\ size' = size /\ stage[d] = "streaming"
    BY <1>5 DEF ReceiveChunk
  <2>6. QED
    BY <2>1, <2>2, <2>3, <2>4, <2>5 DEF Stages
<1>6. ASSUME NEW d \in Downloader, Received(d) PROVE DownloadInv'
  BY <1>6, DownloadAssumption DEF Received, To
<1>7. ASSUME NEW d \in Downloader, DownloadBreaks(d) PROVE DownloadInv'
  BY <1>7, DownloadAssumption DEF DownloadBreaks, To
<1>8. ASSUME NEW d \in Downloader, CreateOutput(d) PROVE DownloadInv'
  BY <1>8, DownloadAssumption DEF CreateOutput, To
<1>9. ASSUME NEW d \in Downloader, WriteOutputFails(d) PROVE DownloadInv'
  BY <1>9, DownloadAssumption DEF WriteOutputFails, To
<1>10. ASSUME NEW d \in Downloader, OpenOutputFails(d) PROVE DownloadInv'
  BY <1>10, DownloadAssumption DEF OpenOutputFails, To
<1>11. ASSUME NEW d \in Downloader, UnlinkOutput(d) PROVE DownloadInv'
  BY <1>11, DownloadAssumption DEF UnlinkOutput, To
<1>12. ASSUME NEW d \in Downloader, OutputWritten(d) \/ KillDownload(d) PROVE DownloadInv'
  BY <1>12, DownloadAssumption DEF OutputWritten, KillDownload, To
<1>13. QED
  BY <1>1, <1>2, <1>3, <1>4, <1>5, <1>6, <1>7, <1>8, <1>9, <1>10, <1>11, <1>12
  DEF PacketDownloadNext

\* For any commands that download to one output: an archive said to be saved is
\* there unless another command's cleanup took it away, and a command that ends
\* with an error leaves nothing of its own (cli_http.py, write_new_file).
THEOREM DownloadSavesOrNothing == PacketDownloadSpec => []SavedOrNothing
<1>1. DownloadInv => SavedOrNothing
  BY DEF DownloadInv, SavedOrNothing, SavedStays, ErrorLeavesNothing
<1>2. QED
  BY <1>1, InitDownload, StepDownload, PTL DEF PacketDownloadSpec

(* ---- RuntimeConfig ---------------------------------------------------------- *)
LEMMA InitConfig == RuntimeConfigInit => ConfigInv
<1> SUFFICES ASSUME RuntimeConfigInit PROVE ConfigInv
  OBVIOUS
<1>1. RuntimeConfigTypeOK
  BY ConfigBounds DEF RuntimeConfigInit, RuntimeConfigTypeOK, Unwritten
<1>2. QED
  BY <1>1, NotAStarter DEF RuntimeConfigInit, ConfigInv, CreatedIsTheConfig

\* The steps that leave the file in place.
LEMMA ConfigStays ==
  ASSUME ConfigInv, NEW s \in Starter,
         \/ EnsurePrivateDirectory(s) \/ MakeDirectory(s) \/ ValidateExistingConfig(s)
         \/ WriteSetting(s) \/ FinishConfig(s) \/ WriteFails(s) \/ Dies(s)
         \/ OpenPrivateConfig(s) \/ LoadRuntimeConfig(s)
  PROVE  ConfigInv' /\ inPlace' = inPlace
<1> USE DEF ConfigInv, RuntimeConfigTypeOK, CreatedIsTheConfig, SameFile, Advance
<1>1. CASE EnsurePrivateDirectory(s)
  BY <1>1 DEF EnsurePrivateDirectory
<1>2. CASE ValidateExistingConfig(s)
  BY <1>2 DEF ValidateExistingConfig
<1>3. CASE WriteSetting(s)
  <2>1. s \in File /\ wrote' \in [File -> 0..Keys]
    BY <1>3, ConfigBounds DEF WriteSetting, File
  <2>2. \A f \in File : f # s => wrote'[f] = wrote[f]
    BY <1>3 DEF WriteSetting
  <2>3. QED
    BY <1>3, <2>1, <2>2 DEF WriteSetting, File
<1>4. CASE FinishConfig(s)
  BY <1>4 DEF FinishConfig
<1>5. CASE Dies(s)
  BY <1>5 DEF Dies
<1>6. CASE OpenPrivateConfig(s)
  BY <1>6 DEF OpenPrivateConfig, File
<1>7. CASE LoadRuntimeConfig(s)
  BY <1>7 DEF LoadRuntimeConfig
<1>8. CASE MakeDirectory(s)
  BY <1>8 DEF MakeDirectory
<1>9. CASE WriteFails(s)
  BY <1>9 DEF WriteFails
<1>10. QED
  BY <1>1, <1>2, <1>3, <1>4, <1>5, <1>6, <1>7, <1>8, <1>9

LEMMA CreateConfigKeeps ==
  ASSUME ConfigInv, NEW s \in Starter, CreateConfig(s)
  PROVE  ConfigInv' /\ (inPlace = NoFile \/ inPlace' = inPlace)
  BY NotAStarter DEF ConfigInv, RuntimeConfigTypeOK, CreatedIsTheConfig, SameFile, Advance,
     CreateConfig, File

\* The cleanup: while nobody overtook it, the file it takes away is its own.
LEMMA UnlinkKeeps ==
  ASSUME ConfigInv, NEW s \in Starter, Unlink(s)
  PROVE  /\ ConfigInv' /\ phase[s] = "unlinking" /\ phase'[s] = "failed"
         /\ \A f \in File : inPlace = f => f = s \/ overtaken[s]
<1> USE DEF ConfigInv, RuntimeConfigTypeOK, SameFile, Unlink, Advance
<1>1. ~overtaken[s] => inPlace = s
  OBVIOUS
<1>2. /\ phase[s] = "unlinking" /\ phase' = [phase EXCEPT ![s] = "failed"] /\ inPlace' = NoFile
      /\ overtaken' \in [Starter -> BOOLEAN]
  BY DEF Overtaking
<1>3. RuntimeConfigTypeOK'
  BY <1>2
<1>4. CreatedIsTheConfig'
  <2> SUFFICES ASSUME NEW x \in Starter, phase'[x] = "created", touches = 0
               PROVE  FALSE
    BY DEF CreatedIsTheConfig
  <2>1. x # s /\ phase[x] = "created" /\ inPlace = x
    BY <1>2 DEF CreatedIsTheConfig
  <2>2. overtaken[s] => touches # 0
    OBVIOUS
  <2>3. QED
    BY <1>1, <2>1, <2>2
<1>5. ASSUME NEW x \in Starter, phase'[x] = "unlinking", ~overtaken'[x] PROVE FALSE
  <2>1. x # s /\ phase[x] = "unlinking"
    BY <1>2, <1>5
  <2>2. ~overtaken[s] /\ ~overtaken[x]
    BY <1>5, <2>1 DEF Overtaking
  <2>3. QED
    BY <2>1, <2>2
<1>6. QED
  BY <1>1, <1>2, <1>3, <1>4, <1>5, NotAStarter

LEMMA OperatorKeeps ==
  ASSUME ConfigInv, RemoveConfig \/ PlaceConfig
  PROVE  ConfigInv' /\ touches' # touches
<1>1. touches' \in 0..MaxTouches /\ touches' # 0 /\ touches' # touches
  BY ConfigBounds DEF ConfigInv, RuntimeConfigTypeOK, RemoveConfig, PlaceConfig
<1>2. /\ overtaken' \in [Starter -> BOOLEAN] /\ phase' = phase
      /\ \A s \in Starter : phase[s] = "unlinking" => overtaken'[s]
  BY DEF Overtaking, ConfigInv, RuntimeConfigTypeOK, RemoveConfig, PlaceConfig
<1>3. QED
  BY <1>1, <1>2 DEF ConfigInv, RuntimeConfigTypeOK, CreatedIsTheConfig, RemoveConfig, PlaceConfig, File

OnlyWriter ==
    \A f \in File : (inPlace = f /\ inPlace' # f) =>
       \/ touches' # touches
       \/ \E s \in Starter : /\ phase[s] = "unlinking" /\ phase'[s] = "failed"
                             /\ f = s \/ overtaken[s]

LEMMA StepConfig == ConfigInv /\ [RuntimeConfigNext]_configVars => ConfigInv' /\ OnlyWriter
<1> SUFFICES ASSUME ConfigInv, [RuntimeConfigNext]_configVars PROVE ConfigInv' /\ OnlyWriter
  OBVIOUS
<1>1. CASE UNCHANGED configVars
  BY <1>1 DEF configVars, ConfigInv, RuntimeConfigTypeOK, CreatedIsTheConfig, SameFile, OnlyWriter
<1>2. ASSUME NEW s \in Starter,
             \/ EnsurePrivateDirectory(s) \/ MakeDirectory(s) \/ ValidateExistingConfig(s)
             \/ WriteSetting(s) \/ FinishConfig(s) \/ WriteFails(s) \/ Dies(s)
             \/ OpenPrivateConfig(s) \/ LoadRuntimeConfig(s)
      PROVE  ConfigInv' /\ OnlyWriter
  BY <1>2, ConfigStays DEF OnlyWriter
<1>3. ASSUME NEW s \in Starter, CreateConfig(s) PROVE ConfigInv' /\ OnlyWriter
  BY <1>3, CreateConfigKeeps, NotAStarter DEF OnlyWriter, File
<1>4. ASSUME NEW s \in Starter, Unlink(s) PROVE ConfigInv' /\ OnlyWriter
  BY <1>4, UnlinkKeeps DEF OnlyWriter
<1>5. CASE RemoveConfig \/ PlaceConfig
  BY <1>5, OperatorKeeps DEF OnlyWriter
<1>6. QED
  BY <1>1, <1>2, <1>3, <1>4, <1>5 DEF RuntimeConfigNext

\* For any commands that start at once: what init said it created is the whole
\* configuration and stays in place, everybody who loads it has the same one, and
\* a cleanup takes away another's file only where the operator changed the path
\* between its check and its unlink (packaged_runtime.py, init and load).
THEOREM ConfigIsSafe == RuntimeConfigSpec => ConfigSafety
<1>1. ConfigInv => RuntimeConfigTypeOK /\ CreatedIsTheConfig /\ OneRuntime
  BY DEF ConfigInv, OneRuntime
<1>2. RuntimeConfigSpec => [](RuntimeConfigTypeOK /\ CreatedIsTheConfig /\ OneRuntime)
  BY <1>1, InitConfig, StepConfig, PTL DEF RuntimeConfigSpec
<1>3. ConfigInv /\ [RuntimeConfigNext]_configVars => [OnlyWriter]_configVars
  BY StepConfig
<1>4. RuntimeConfigSpec => [][OnlyWriter]_configVars
  BY <1>3, InitConfig, StepConfig, PTL DEF RuntimeConfigSpec
<1>5. QED
  BY <1>2, <1>4 DEF ConfigSafety, OnlyItsWriterUnlinks, OnlyWriter

(* ---- CommandLine ------------------------------------------------------------ *)
LEMMA CardReached ==
  ASSUME CommandLineTypeOK, NEW p \in Person
  PROVE  IsFiniteSet(Reached(p)) /\ Cardinality(Reached(p)) \in 0..tries[p]
<1>1. tries[p] \in Nat
  BY CommandAssumption DEF CommandLineTypeOK
<1>2. IsFiniteSet(1..tries[p]) /\ Cardinality(1..tries[p]) = tries[p]
  BY <1>1, FirstNumbers
<1>3. Reached(p) \subseteq 1..tries[p]
  BY DEF Reached
<1>4. QED
  BY <1>1, <1>2, <1>3, FS_Subset, FS_CardinalityType

\* What may happen to a line that does not move.
Around ==
    /\ UNCHANGED <<command, guarded, token>>
    /\ session = "revoked" => session' = "revoked"
    /\ \A r \in Resources : version[r] <= version'[r]

LineUnmoved(p) == /\ read'[p] = read[p] /\ tries'[p] = tries[p] /\ request'[p] = request[p]
              /\ shown'[p] = shown[p] /\ applied'[p] = applied[p]

LEMMA ResourceExists == \A c \in Commands : ResourceOf(c) \in Resources
  BY DEF ResourceOf, Resources

LEMMA LineFacts ==
  ASSUME CommandInv, NEW p \in Person
  PROVE  /\ LineStands(p)
         /\ tries[p] \in Nat /\ tries[p] <= MaxTries
         /\ read[p] \in Nat /\ applied[p] \in Nat
         /\ version[ResourceOf(command[p])] \in Nat /\ ResourceOf(command[p]) \in Resources
         /\ Cardinality(Reached(p)) \in Nat /\ Cardinality(Reached(p)) <= tries[p]
<1>1. ResourceOf(command[p]) \in Resources
  BY ResourceExists DEF CommandInv, CommandLineTypeOK
<1>2. tries[p] \in Nat /\ tries[p] <= MaxTries /\ read[p] \in Nat /\ applied[p] \in Nat /\ LineStands(p)
  BY CommandAssumption DEF CommandInv, CommandLineTypeOK
<1>3. Cardinality(Reached(p)) \in 0..tries[p]
  BY CardReached DEF CommandInv
<1>4. QED
  BY <1>1, <1>2, <1>3 DEF CommandInv, CommandLineTypeOK

LEMMA LineKept ==
  ASSUME CommandInv, Around, version' \in [Resources -> Nat], NEW p \in Person, LineUnmoved(p)
  PROVE  LineStands(p)'
<1>1. Reached(p)' = Reached(p) /\ WasDone(p)' = WasDone(p)
  BY DEF Reached, WasDone, LineUnmoved
<1>2. version[ResourceOf(command[p])] <= version'[ResourceOf(command[p])]
  BY LineFacts DEF Around
<1>3. version'[ResourceOf(command[p])] \in Nat
  BY LineFacts
<1>4. command'[p] = command[p]
  BY DEF Around
<1>5. Outdated(p) => Outdated(p)'
  <2>1. CASE command[p] = "sessions revoke"
    BY <1>4, <2>1 DEF Outdated, Around
  <2>2. CASE command[p] # "sessions revoke"
    <3>1. Outdated(p) => read[p] < version[ResourceOf(command[p])]
      BY <2>2 DEF Outdated
    <3>2. read[p] < version'[ResourceOf(command[p])] => Outdated(p)'
      BY <1>4, <2>2 DEF Outdated, LineUnmoved
    <3>3. QED
      BY <1>2, <1>3, <3>1, <3>2, LineFacts
  <2>3. QED
    BY <2>1, <2>2
<1>6. QED
  BY <1>1, <1>4, <1>5, LineFacts DEF LineStands, LineUnmoved, Around

LEMMA InitCommand == CommandLineInit => CommandInv
<1> SUFFICES ASSUME CommandLineInit PROVE CommandInv
  OBVIOUS
<1>1. CommandLineTypeOK /\ DOMAIN request = Person
  BY CommandAssumption DEF CommandLineInit, CommandLineTypeOK
<1>2. ASSUME NEW p \in Person PROVE LineStands(p)
  <2>1. Cardinality(Reached(p)) \in 0..0
    BY <1>1, CardReached DEF CommandLineInit
  <2>2. /\ tries[p] = 0 /\ shown[p] = "nothing" /\ applied[p] = 0
        /\ ~WasDone(p)
    BY DEF CommandLineInit, WasDone
  <2>3. QED
    BY <2>1, <2>2 DEF LineStands
<1>3. QED
  BY <1>1, <1>2 DEF CommandInv

\* A step that only answers one request, or shows one answer.
LEMMA StepReadVersion ==
  ASSUME CommandInv, NEW p \in Person, ReadVersion(p) PROVE CommandInv'
<1> USE DEF CommandInv
<1>0. ResourceOf(command[p]) \in Resources
  BY ResourceExists DEF CommandLineTypeOK
<1>1. CommandLineTypeOK'
  BY <1>0 DEF ReadVersion, CommandLineTypeOK
<1>2. Around
  BY DEF ReadVersion, Around, CommandLineTypeOK
<1>3. ASSUME NEW q \in Person, q # p PROVE LineStands(q)'
  <2>1. LineUnmoved(q)
    BY <1>3 DEF ReadVersion, LineUnmoved, CommandLineTypeOK
  <2>2. version' \in [Resources -> Nat]
    BY <1>1 DEF CommandLineTypeOK
  <2>3. QED
    BY <1>2, <2>1, <2>2, LineKept
<1>4. tries[p] = 0 /\ shown[p] = "nothing" /\ applied[p] = 0
  BY LineFacts DEF ReadVersion, LineStands
<1>6. /\ Reached(p)' = Reached(p) /\ WasDone(p)' = WasDone(p)
      /\ UNCHANGED <<command, version, session, guarded, token, tries, request, shown, applied>>
  BY DEF Reached, WasDone, ReadVersion
<1>8. LineStands(p)'
  <2>. HIDE DEF CommandInv
  <2>1. QED
    BY <1>4, <1>6, LineFacts DEF LineStands
<1>9. QED
  BY <1>1, <1>3, <1>8 DEF ReadVersion

LEMMA StepShown ==
  ASSUME CommandInv, NEW p \in Person, GiveUp(p) \/ ShowAnswer(p) PROVE CommandInv'
<1> USE DEF CommandInv
<1>1. /\ UNCHANGED <<command, version, session, guarded, token, read, tries, request, applied, elsewhere>>
      /\ shown[p] = "waiting"
      /\ shown' \in [Person -> {"nothing", "waiting", "ok", "error", "unclear"}]
      /\ \A q \in Person : q # p => shown'[q] = shown[q]
      /\ \/ shown'[p] = "unclear"
         \/ shown'[p] = "ok" /\ request[p][tries[p]] = "done"
         \/ shown'[p] = "error" /\ request[p][tries[p]] = "refused"
  <2>1. CASE GiveUp(p)
    BY <2>1 DEF GiveUp, CommandLineTypeOK
  <2>2. CASE ShowAnswer(p)
    <3>1. tries[p] \in 1..tries[p] /\ tries[p] \in Nat
      BY <2>2, LineFacts DEF ShowAnswer, LineStands
    <3>2. request[p][tries[p]] \in {"refused", "done", "failed"}
      BY <2>2, <3>1 DEF ShowAnswer, CommandLineTypeOK
    <3>3. QED
      BY <2>2, <3>2 DEF ShowAnswer, CommandLineTypeOK
  <2>3. QED
    BY <2>1, <2>2
<1>2. CommandLineTypeOK'
  BY <1>1 DEF CommandLineTypeOK
<1>3. Around
  BY <1>1 DEF Around, CommandLineTypeOK
<1>4. ASSUME NEW q \in Person, q # p PROVE LineStands(q)'
  <2>1. LineUnmoved(q)
    BY <1>1, <1>4 DEF LineUnmoved
  <2>2. version' \in [Resources -> Nat]
    BY <1>2 DEF CommandLineTypeOK
  <2>3. QED
    BY <1>3, <2>1, <2>2, LineKept
<1>5. Reached(p)' = Reached(p) /\ WasDone(p)' = WasDone(p) /\ Outdated(p)' = Outdated(p)
  BY <1>1 DEF Reached, WasDone, Outdated
<1>. HIDE DEF CommandInv
<1>6. tries[p] > 0
  BY <1>1, LineFacts DEF LineStands
<1>7. request[p][tries[p]] = "done" => WasDone(p)
  BY <1>6, LineFacts DEF WasDone
<1>8. LineStands(p)'
  BY <1>1, <1>5, <1>6, <1>7, LineFacts DEF LineStands
<1>9. QED
  BY <1>1, <1>2, <1>4, <1>8 DEF CommandInv

LEMMA StepGive ==
  ASSUME CommandInv, NEW p \in Person, Give(p) PROVE CommandInv'
<1> USE DEF CommandInv
<1>1. tries[p] \in Nat /\ tries[p] + 1 \in 1..MaxTries
  BY CommandAssumption DEF Give, CommandLineTypeOK
<1>2. /\ \A q \in Person : q # p => request'[q] = request[q]
      /\ DOMAIN request'[p] = 1..tries[p] + 1
      /\ \A n \in 1..tries[p] : request'[p][n] = request[p][n]
      /\ request'[p][tries[p] + 1] = "sent"
      /\ DOMAIN request' = Person
  <2>1. request'[p] = [n \in 1..tries[p] + 1 |-> IF n <= tries[p] THEN request[p][n] ELSE "sent"]
    BY DEF Give
  <2>2. QED
    BY <1>1, <2>1 DEF Give
<1>3. /\ tries' \in [Person -> 0..MaxTries] /\ tries'[p] = tries[p] + 1
      /\ \A q \in Person : q # p => tries'[q] = tries[q]
  BY <1>1 DEF Give, CommandLineTypeOK
<1>4. \A q \in Person : /\ DOMAIN request'[q] = 1..tries'[q]
                        /\ \A n \in 1..tries'[q] : request'[q][n] \in {"sent", "refused", "done", "failed"}
  <2>1. ASSUME NEW n \in 1..tries[p] + 1 PROVE request'[p][n] \in {"sent", "refused", "done", "failed"}
    BY <1>1, <1>2, n \in 1..tries[p] \/ n = tries[p] + 1 DEF CommandLineTypeOK
  <2>2. \A q \in Person : q # p => /\ DOMAIN request'[q] = 1..tries'[q]
                                  /\ \A n \in 1..tries'[q] : request'[q][n] \in {"sent", "refused", "done", "failed"}
    BY <1>2, <1>3 DEF CommandLineTypeOK
  <2>3. DOMAIN request'[p] = 1..tries'[p]
    BY <1>2, <1>3
  <2>4. QED
    BY <2>1, <2>2, <2>3, <1>3
<1>5. CommandLineTypeOK'
  BY <1>3, <1>4 DEF Give, CommandLineTypeOK
<1>6. Around
  BY DEF Give, Around, CommandLineTypeOK
<1>7. ASSUME NEW q \in Person, q # p PROVE LineStands(q)'
  <2>1. LineUnmoved(q)
    BY <1>2, <1>3, <1>7 DEF Give, LineUnmoved, CommandLineTypeOK
  <2>2. version' \in [Resources -> Nat]
    BY <1>5 DEF CommandLineTypeOK
  <2>3. QED
    BY <1>6, <2>1, <2>2, LineKept
<1>8. Reached(p)' = Reached(p)
  BY <1>1, <1>2, <1>3 DEF Reached
<1>9. /\ shown'[p] = "waiting" /\ read[p] # 0
      /\ UNCHANGED <<command, version, session, guarded, token, read, applied>>
  BY DEF Give, CommandLineTypeOK
<1>10. (WasDone(p)' => WasDone(p)) /\ Outdated(p)' = Outdated(p)
  BY <1>1, <1>2, <1>3, <1>9 DEF WasDone, Outdated
<1>11. LineStands(p)'
  <2>. HIDE DEF CommandInv
  <2>1. QED
    BY <1>1, <1>3, <1>8, <1>9, <1>10, LineFacts DEF LineStands
<1>12. QED
  BY <1>2, <1>5, <1>7, <1>11

\* How an answer changes the requests.
LEMMA AnswerMoves ==
  ASSUME CommandInv, NEW p \in Person, NEW n \in DOMAIN request[p], request[p][n] = "sent",
         NEW a \in {"refused", "done", "failed"}, Answered(p, n, a), UNCHANGED tries
  PROVE  /\ \A q \in Person : q # p => request'[q] = request[q]
         /\ DOMAIN request' = Person
         /\ \A q \in Person : /\ DOMAIN request'[q] = 1..tries[q]
                              /\ \A k \in 1..tries[q] : request'[q][k] \in {"sent", "refused", "done", "failed"}
         /\ n \in 1..tries[p] /\ request'[p][n] = a
         /\ \A k \in 1..tries[p] : k # n => request'[p][k] = request[p][k]
         /\ Cardinality(Reached(p)') = IF a = "refused" THEN Cardinality(Reached(p)) ELSE Cardinality(Reached(p)) + 1
         /\ Cardinality(Reached(p)') <= tries[p]
         /\ (request[p][tries[p]] = "refused" /\ tries[p] > 0) => request'[p][tries[p]] = "refused"
         /\ \A k \in 1..tries[p] : request[p][k] = "done" => request'[p][k] = "done"
<1> USE DEF CommandInv
<1>1. request'[p] = [request[p] EXCEPT ![n] = a]
  BY DEF Answered
<1>2. DOMAIN request[p] = 1..tries[p] /\ n \in 1..tries[p]
  BY DEF CommandLineTypeOK
<1>3. /\ DOMAIN request'[p] = 1..tries[p] /\ request'[p][n] = a
      /\ \A k \in 1..tries[p] : k # n => request'[p][k] = request[p][k]
  BY <1>1, <1>2
<1>4. /\ \A q \in Person : q # p => request'[q] = request[q]
      /\ DOMAIN request' = Person
  BY DEF Answered
<1>5. \A q \in Person : /\ DOMAIN request'[q] = 1..tries[q]
                        /\ \A k \in 1..tries[q] : request'[q][k] \in {"sent", "refused", "done", "failed"}
  <2>1. \A k \in 1..tries[p] : request'[p][k] \in {"sent", "refused", "done", "failed"}
    BY <1>2, <1>3 DEF CommandLineTypeOK
  <2>2. \A q \in Person : q # p => /\ DOMAIN request'[q] = 1..tries[q]
                                  /\ \A k \in 1..tries[q] : request'[q][k] \in {"sent", "refused", "done", "failed"}
    BY <1>4 DEF CommandLineTypeOK
  <2>3. QED
    BY <1>3, <2>1, <2>2
<1>6. Cardinality(Reached(p)') = IF a = "refused" THEN Cardinality(Reached(p)) ELSE Cardinality(Reached(p)) + 1
  <2>0. Reached(p)' = {k \in 1..tries[p] : request'[p][k] \in {"done", "failed"}}
    BY DEF Reached
  <2>1. CASE a = "refused"
    <3>1. Reached(p)' = Reached(p)
      BY <2>0, <2>1, <1>2, <1>3 DEF Reached
    <3>2. QED
      BY <3>1, <2>1
  <2>2. CASE a # "refused"
    <3>1. Reached(p)' = Reached(p) \cup {n}
      BY <2>0, <2>2, <1>2, <1>3 DEF Reached
    <3>2. n \notin Reached(p)
      BY DEF Reached
    <3>3. IsFiniteSet(Reached(p))
      BY CardReached
    <3>4. QED
      BY <3>1, <3>2, <3>3, <2>2, FS_AddElement
  <2>3. QED
    BY <2>1, <2>2
<1>7. /\ (request[p][tries[p]] = "refused" /\ tries[p] > 0) => request'[p][tries[p]] = "refused"
      /\ \A k \in 1..tries[p] : request[p][k] = "done" => request'[p][k] = "done"
  <2>1. tries[p] \in Nat
    BY CommandAssumption DEF CommandLineTypeOK
  <2>2. QED
    BY <1>3, <2>1
<1>8. Cardinality(Reached(p)') <= tries[p]
  <2>1. tries[p] \in Nat
    BY CommandAssumption DEF CommandLineTypeOK
  <2>2. IsFiniteSet(1..tries[p]) /\ Cardinality(1..tries[p]) = tries[p]
    BY <2>1, FirstNumbers
  <2>3. Reached(p)' \subseteq 1..tries[p]
    BY DEF Reached
  <2>4. Cardinality(Reached(p)') <= Cardinality(1..tries[p])
    BY <2>2, <2>3, FS_Subset
  <2>5. QED
    BY <2>1, <2>2, <2>4
<1>9. QED
  BY <1>2, <1>3, <1>4, <1>5, <1>6, <1>7, <1>8

\* What every answer leaves of the facts about the other lines.
LEMMA OthersKept ==
  ASSUME CommandInv, CommandLineTypeOK', Around, NEW p \in Person,
         \A q \in Person : q # p => LineUnmoved(q)
  PROVE  \A q \in Person : q # p => LineStands(q)'
<1>1. version' \in [Resources -> Nat]
  BY DEF CommandLineTypeOK
<1>2. QED
  BY <1>1, LineKept

LEMMA StepRefuse ==
  ASSUME CommandInv, NEW p \in Person, NEW n \in 1..MaxTries, Refuse(p, n) \/ HandlerFails(p, n)
  PROVE  CommandInv'
<1>1. /\ UNCHANGED <<command, version, session, guarded, token, read, tries, shown, applied, elsewhere>>
      /\ n \in DOMAIN request[p] /\ request[p][n] = "sent"
  BY DEF Refuse, HandlerFails
<1>2. PICK a \in {"refused", "failed"} : Answered(p, n, a)
  BY DEF Refuse, HandlerFails
<1>3. UNCHANGED tries
  BY <1>1
<1>4. /\ \A q \in Person : q # p => request'[q] = request[q]
      /\ DOMAIN request' = Person
      /\ \A q \in Person : /\ DOMAIN request'[q] = 1..tries[q]
                           /\ \A k \in 1..tries[q] : request'[q][k] \in {"sent", "refused", "done", "failed"}
      /\ n \in 1..tries[p] /\ request'[p][n] = a
      /\ \A k \in 1..tries[p] : k # n => request'[p][k] = request[p][k]
      /\ Cardinality(Reached(p)') = IF a = "refused" THEN Cardinality(Reached(p)) ELSE Cardinality(Reached(p)) + 1
      /\ (request[p][tries[p]] = "refused" /\ tries[p] > 0) => request'[p][tries[p]] = "refused"
      /\ \A k \in 1..tries[p] : request[p][k] = "done" => request'[p][k] = "done"
  BY <1>1, <1>2, <1>3, AnswerMoves
<1>5. CommandLineTypeOK'
  BY <1>1, <1>4 DEF CommandInv, CommandLineTypeOK
<1>6. Around
  BY <1>1 DEF Around, CommandInv, CommandLineTypeOK
<1>7. \A q \in Person : q # p => LineUnmoved(q)
  BY <1>1, <1>4 DEF LineUnmoved
<1>8. \A q \in Person : q # p => LineStands(q)'
  BY <1>5, <1>6, <1>7, OthersKept
<1>9. WasDone(p)' = WasDone(p)
  <2>1. WasDone(p)' => WasDone(p)
    BY <1>1, <1>4, a # "done" DEF WasDone
  <2>2. WasDone(p) => WasDone(p)'
    BY <1>1, <1>4 DEF WasDone
  <2>3. (WasDone(p) \in BOOLEAN) /\ (WasDone(p)' \in BOOLEAN)
    BY DEF WasDone
  <2>4. QED
    BY <2>1, <2>2, <2>3
<1>10. Cardinality(Reached(p)) <= Cardinality(Reached(p)') /\ Cardinality(Reached(p)') \in Nat
  BY <1>4, LineFacts
<1>11. Outdated(p)' = Outdated(p)
  BY <1>1 DEF Outdated
<1>12. shown[p] = "error" => request'[p][tries[p]] = "refused"
  BY <1>4, LineFacts DEF LineStands
<1>13. LineStands(p)'
  BY <1>1, <1>9, <1>10, <1>11, <1>12, LineFacts DEF LineStands
<1>14. QED
  BY <1>4, <1>5, <1>8, <1>13 DEF CommandInv

\* What a consuming request leaves behind, and what it takes to be handled.
LEMMA HandledOnce ==
  ASSUME CommandInv, NEW p \in Person, NEW n \in 1..MaxTries, Handle(p, n), Consumes(command[p])
  PROVE  applied[p] = 0 /\ Outdated(p)'
<1>1. command[p] \in ParserVersioned
  BY DEF Consumes, ParserVersioned
<1>2. Accepts(p) /\ SendsVersion(command[p]) /\ Changes(command[p])
  BY <1>1 DEF Handle, SendsVersion, Consumes, Changes, MethodOf, MethodTable, ProjectMethods, OpportunityMethods,
     SessionMethods, ProjectCommands, OpportunityCommands, SessionCommands, PacketCommands, EvidenceCommands
<1>3. /\ version' = [version EXCEPT ![ResourceOf(command[p])] = @ + 1]
      /\ session' = CASE command[p] = "sessions approve" -> "approved"
                      [] command[p] = "sessions revoke" -> "revoked"
                      [] OTHER -> session
      /\ UNCHANGED <<command, read>>
  BY <1>2 DEF Handle
<1>4. CASE command[p] = "sessions revoke"
  <2>1. session # "revoked" /\ session' = "revoked"
    BY <1>2, <1>3, <1>4 DEF Accepts
  <2>2. ~Outdated(p) /\ Outdated(p)'
    BY <1>3, <1>4, <2>1 DEF Outdated
  <2>3. QED
    BY <2>2, LineFacts DEF LineStands
<1>5. CASE command[p] # "sessions revoke"
  <2>1. read[p] = version[ResourceOf(command[p])]
    BY <1>2, <1>5 DEF Accepts, Current
  <2>2. version'[ResourceOf(command[p])] = read[p] + 1
    BY <1>3, <2>1, LineFacts DEF CommandInv, CommandLineTypeOK
  <2>3. read[p] \in Nat /\ command'[p] = command[p] /\ read'[p] = read[p]
    BY <1>3, LineFacts
  <2>4. ~Outdated(p)
    <3>1. Outdated(p) => read[p] < version[ResourceOf(command[p])]
      BY <1>5 DEF Outdated
    <3>2. QED
      BY <2>1, <2>3, <3>1
  <2>6. Outdated(p)'
    <3>1. read[p] < version'[ResourceOf(command[p])] => Outdated(p)'
      BY <1>5, <2>3 DEF Outdated
    <3>2. QED
      BY <2>2, <2>3, <3>1
  <2>5. QED
    BY <2>4, <2>6, LineFacts DEF LineStands
<1>6. QED
  BY <1>4, <1>5

LEMMA StepHandle ==
  ASSUME CommandInv, NEW p \in Person, NEW n \in 1..MaxTries, Handle(p, n)
  PROVE  CommandInv'
<1>1. /\ UNCHANGED <<command, guarded, token, read, tries, shown, elsewhere>>
      /\ n \in DOMAIN request[p] /\ request[p][n] = "sent"
  BY DEF Handle
<1>2. PICK a \in {"done", "failed"} : Answered(p, n, a)
  BY DEF Handle
<1>3. UNCHANGED tries
  BY <1>1
<1>4. /\ \A q \in Person : q # p => request'[q] = request[q]
      /\ DOMAIN request' = Person
      /\ \A q \in Person : /\ DOMAIN request'[q] = 1..tries[q]
                           /\ \A k \in 1..tries[q] : request'[q][k] \in {"sent", "refused", "done", "failed"}
      /\ n \in 1..tries[p] /\ request'[p][n] = a
      /\ \A k \in 1..tries[p] : k # n => request'[p][k] = request[p][k]
      /\ Cardinality(Reached(p)') = IF a = "refused" THEN Cardinality(Reached(p)) ELSE Cardinality(Reached(p)) + 1
      /\ Cardinality(Reached(p)') <= tries[p]
      /\ (request[p][tries[p]] = "refused" /\ tries[p] > 0) => request'[p][tries[p]] = "refused"
      /\ \A k \in 1..tries[p] : request[p][k] = "done" => request'[p][k] = "done"
  BY <1>1, <1>2, <1>3, AnswerMoves
<1>5. /\ applied[p] + 1 <= Cardinality(Reached(p)')
      /\ applied[p] + 1 \in 1..MaxTries
  <2>1. LineStands(p) /\ applied[p] \in Nat /\ Cardinality(Reached(p)) \in Nat /\ tries[p] \in Nat /\ tries[p] <= MaxTries
    BY LineFacts
  <2>2. applied[p] <= Cardinality(Reached(p))
    BY <2>1 DEF LineStands
  <2>3. Cardinality(Reached(p)') = Cardinality(Reached(p)) + 1
    BY <1>4
  <2>4. QED
    BY <1>4, <2>1, <2>2, <2>3, CommandAssumption
<1>6. /\ applied' \in [Person -> 0..MaxTries]
      /\ \A q \in Person : q # p => applied'[q] = applied[q]
      /\ applied'[p] = IF Changes(command[p]) THEN applied[p] + 1 ELSE applied[p]
  <2>1. applied \in [Person -> 0..MaxTries]
    BY DEF CommandInv, CommandLineTypeOK
  <2>2. CASE Changes(command[p])
    <3>1. applied' = [applied EXCEPT ![p] = @ + 1]
      BY <2>2 DEF Handle
    <3>2. QED
      BY <1>5, <2>1, <2>2, <3>1
  <2>3. CASE ~Changes(command[p])
    <3>1. applied' = applied
      BY <2>3 DEF Handle
    <3>2. QED
      BY <2>1, <2>3, <3>1
  <2>4. QED
    BY <2>2, <2>3
<1>7. ResourceOf(command[p]) \in Resources
  BY LineFacts
<1>8. /\ version' \in [Resources -> Nat]
      /\ \A r \in Resources : version[r] <= version'[r]
  <2>1. version \in [Resources -> Nat]
    BY DEF CommandInv, CommandLineTypeOK
  <2>2. version' = version \/ version' = [version EXCEPT ![ResourceOf(command[p])] = @ + 1]
    BY DEF Handle
  <2>3. QED
    BY <1>7, <2>1, <2>2
<1>9. /\ session' \in {"pending", "approved", "revoked"}
      /\ session = "revoked" => session' = "revoked"
  <2>1. CASE command[p] = "sessions approve"
    BY <2>1 DEF Handle, Accepts, CommandInv, CommandLineTypeOK
  <2>2. CASE command[p] # "sessions approve"
    BY <2>2 DEF Handle, CommandInv, CommandLineTypeOK
  <2>3. QED
    BY <2>1, <2>2
<1>10. CommandLineTypeOK'
  BY <1>1, <1>4, <1>6, <1>8, <1>9 DEF CommandInv, CommandLineTypeOK
<1>11. Around
  BY <1>1, <1>8, <1>9 DEF Around
<1>12. \A q \in Person : q # p => LineUnmoved(q)
  BY <1>1, <1>4, <1>6 DEF LineUnmoved
<1>13. \A q \in Person : q # p => LineStands(q)'
  BY <1>10, <1>11, <1>12, OthersKept
<1>14. WasDone(p) => WasDone(p)'
  BY <1>1, <1>4 DEF WasDone
<1>15. applied'[p] <= Cardinality(Reached(p)')
  BY <1>4, <1>5, <1>6, LineFacts DEF LineStands
<1>16. shown[p] = "error" => request'[p][tries[p]] = "refused"
  BY <1>4, LineFacts DEF LineStands
<1>17. Consumes(command[p]) => applied'[p] <= 1 /\ Outdated(p)'
  BY <1>6, HandledOnce
<1>18. (p \notin token /\ (guarded # "no" \/ command[p] \in SessionCommands)) => applied'[p] = 0
  <2>1. SUFFICES ASSUME p \notin token, guarded # "no" \/ command[p] \in SessionCommands
                 PROVE  ~Changes(command[p])
    BY <1>6, LineFacts DEF LineStands
  <2>2. ~HostedApiRefused(p) /\ command[p] \notin SessionCommands
    BY <2>1 DEF Handle, TokenRefused
  <2>3. guarded \in {"writes", "all"}
    BY <2>1, <2>2 DEF CommandInv, CommandLineTypeOK
  <2>4. QED
    BY <2>1, <2>2, <2>3 DEF HostedApiRefused, Changes
<1>19. LineStands(p)'
  <2>1. LineStands(p) /\ applied[p] \in Nat /\ applied'[p] \in Nat
    BY <1>6, LineFacts, CommandAssumption
  <2>2. (Changes(command[p]) /\ WasDone(p)') => applied'[p] > 0
    BY <1>6, <2>1
  <2>3. (Consumes(command[p]) /\ applied'[p] > 0) => (applied'[p] = 1 /\ Outdated(p)')
    BY <1>17, <2>1
  <2>4. QED
    BY <1>1, <1>14, <1>15, <1>16, <1>18, <2>1, <2>2, <2>3 DEF LineStands
<1>20. QED
  BY <1>4, <1>10, <1>13, <1>19 DEF CommandInv

LEMMA StepCommand == CommandInv /\ [CommandLineNext]_commandVars => CommandInv'
<1> SUFFICES ASSUME CommandInv, [CommandLineNext]_commandVars PROVE CommandInv'
  OBVIOUS
<1>1. CASE UNCHANGED commandVars
  <2>1. CommandLineTypeOK' /\ DOMAIN request' = Person
    BY <1>1 DEF commandVars, CommandInv, CommandLineTypeOK
  <2>2. Around /\ version' \in [Resources -> Nat] /\ \A p \in Person : LineUnmoved(p)
    BY <1>1 DEF commandVars, CommandInv, CommandLineTypeOK, Around, LineUnmoved
  <2>3. QED
    BY <2>1, <2>2, LineKept DEF CommandInv
<1>2. ASSUME NEW r \in Resources, ChangeElsewhere(r) PROVE CommandInv'
  <2>1. CommandLineTypeOK' /\ DOMAIN request' = Person
    BY <1>2, CommandAssumption DEF ChangeElsewhere, CommandInv, CommandLineTypeOK
  <2>2. Around /\ version' \in [Resources -> Nat] /\ \A p \in Person : LineUnmoved(p)
    BY <1>2 DEF ChangeElsewhere, CommandInv, CommandLineTypeOK, Around, LineUnmoved
  <2>3. QED
    BY <2>1, <2>2, LineKept DEF CommandInv
<1>3. QED
  BY <1>1, <1>2, StepReadVersion, StepShown, StepGive, StepRefuse, StepHandle DEF CommandLineNext

\* For any number of persons, and of commands given again after an unclear end:
\* a command that names the version it is meant for takes effect at most once,
\* exit code 0 means it was done, and a first refusal, or a missing token, that
\* nothing was (cli.py, cli_http.py and the routes they call).
THEOREM CommandsAreSafe == CommandLineSpec => []CommandsAreHonest
<1>1. CommandInv => CommandsAreHonest
  <2> SUFFICES ASSUME CommandInv PROVE CommandsAreHonest
    OBVIOUS
  <2>1. RepeatedOnceApplied
    BY LineFacts DEF RepeatedOnceApplied, LineStands
  <2>2. ZeroMeansDone
    BY LineFacts DEF ZeroMeansDone, LineStands
  <2>3. ASSUME NEW p \in Person, shown[p] = "error", tries[p] = 1 PROVE applied[p] = 0
    <3>1. request[p][1] = "refused"
      BY <2>3, LineFacts DEF LineStands
    <3>4. Reached(p) = {}
      BY <2>3, <3>1 DEF Reached
    <3>2. Cardinality(Reached(p)) = 0
      BY <3>4, FS_EmptySet
    <3>3. QED
      BY <3>2, LineFacts DEF LineStands
  <2>4. RefusedChangesNothing
    BY <2>3, LineFacts DEF RefusedChangesNothing, LineStands
  <2>5. QED
    BY <2>1, <2>2, <2>4 DEF CommandsAreHonest, CommandInv
<1>2. QED
  BY <1>1, InitCommand, StepCommand, PTL DEF CommandLineSpec

(* ---- ProofBundle ------------------------------------------------------------ *)
LEMMA StepNumbers == FirstHash = 9 /\ OpenListing = 13 /\ AtEnd = 15 /\ Len(Order) = 4
<1>1. Len(Order) = 4
  BY DEF Order
<1>2. QED
  BY <1>1 DEF FirstHash, OpenListing, AtEnd

LEMMA OrderFacts ==
  /\ DOMAIN Order = 1..4
  /\ \A i \in 1..4 : Order[i] \in Artifact
  /\ \A i, j \in 1..4 : Order[i] = Order[j] => i = j
  /\ \A n \in Artifact : \E i \in 1..4 : n = Order[i]
<1>1. DOMAIN Order = 1..4
  BY DEF Order
<1>2. \A i, j \in 1..4 : Order[i] = Order[j] => i = j
  BY DEF Order
<1>3. QED
  BY <1>1, <1>2 DEF Artifact

LEMMA ArtifactNames == {"summary", "zip", "packetManifest", "verification"} \subseteq Artifact
<1>1. Order[1] = "summary" /\ Order[2] = "zip" /\ Order[3] = "packetManifest" /\ Order[4] = "verification"
  BY DEF Order
<1>2. QED
  BY <1>1, OrderFacts

\* The artifact a step opens (odd) or fills (even).
LEMMA SlotFacts ==
  ASSUME NEW k \in 1..8
  PROVE  /\ (k + 1) \div 2 \in 1..4
         /\ k % 2 = 1 => k = 2 * ((k + 1) \div 2) - 1
         /\ k % 2 # 1 => k = 2 * ((k + 1) \div 2)
<1>1. k = 1 \/ k = 2 \/ k = 3 \/ k = 4 \/ k = 5 \/ k = 6 \/ k = 7 \/ k = 8
  OBVIOUS
<1>2. QED
  BY <1>1, SMT

LEMMA PutFacts ==
  \A f, n, c : /\ DOMAIN Put(f, n, c) = DOMAIN f \cup {n}
               /\ Put(f, n, c)[n] = c
               /\ \A m \in DOMAIN f \ {n} : Put(f, n, c)[m] = f[m]
  BY DEF Put

LEMMA OwnFacts ==
  /\ \A r \in Proof : OwnOf(r) \in Content /\ OwnOf(r)[1] = r /\ OwnOf(r)[2] = r /\ OwnOf(r) # Unreadable
  /\ Unreadable \in Content /\ Unreadable[1] = Unreadable[2]
  BY ProofBundleAssumption DEF OwnOf, Unreadable, Content

LEMMA WritingIs == \A r \in Proof : r \in Writing <=> stepOf[r] \in 1..14
  BY StepNumbers DEF Writing

LEMMA InitBundle == ProofBundleInit => BundleInv
<1> SUFFICES ASSUME ProofBundleInit PROVE BundleInv
  OBVIOUS
<1>1. Writing = {}
  BY WritingIs DEF ProofBundleInit, Writing
<1>2. DOMAIN bundle = {}
  BY DEF ProofBundleInit
<1>3. QED
  BY <1>1, <1>2, StepNumbers DEF ProofBundleInit, BundleInv, BundleTypes, Alone

\* What a step of run r changes of the steps.
MovesTo(r, k) == /\ stepOf' \in [Proof -> 0..15] /\ stepOf'[r] = k
                 /\ \A s \in Proof \ {r} : stepOf'[s] = stepOf[s]

StepSet(r, k) == stepOf' = [stepOf EXCEPT ![r] = k]

LEMMA Moved ==
  ASSUME BundleTypes, NEW r \in Proof, NEW k \in 0..15, StepSet(r, k)
  PROVE  MovesTo(r, k)
  BY StepNumbers DEF BundleTypes, MovesTo, StepSet

LEMMA StepPrepare == ASSUME BundleInv, NEW r \in Proof, PrepareProofBundleDir(r) PROVE BundleInv'
<1> USE DEF BundleInv
<1>1. /\ UNCHANGED <<bundle, listing, overlapping, hashed, edits>> /\ fresh' = NoProof
      /\ stepOf[r] = 0 /\ (overlapping \/ Writing = {})
  BY DEF PrepareProofBundleDir, MayBegin
<1>0. BundleTypes
  OBVIOUS
<1>2. IF UnexpectedProofBundleEntries = {} THEN MovesTo(r, 1) ELSE MovesTo(r, 15)
  <2>1. CASE UnexpectedProofBundleEntries = {}
    <3>1. StepSet(r, 1)
      BY <2>1 DEF PrepareProofBundleDir, StepSet
    <3>2. MovesTo(r, 1)
      BY <1>0, <3>1, Moved
    <3>3. QED
      BY <2>1, <3>2
  <2>2. CASE UnexpectedProofBundleEntries # {}
    <3>1. StepSet(r, 15)
      BY <2>2, StepNumbers DEF PrepareProofBundleDir, StepSet
    <3>2. MovesTo(r, 15)
      BY <1>0, <3>1, Moved
    <3>3. QED
      BY <2>2, <3>2
  <2>3. QED
    BY <2>1, <2>2
<1>3. BundleTypes'
  <2>1. \A s \in Proof : stepOf'[s] \notin 1..14 => stepOf[s] \notin 1..14
    BY <1>1, <1>2 DEF MovesTo
  <2>2. \A s \in Proof : s \in Writing' <=> stepOf'[s] \in 1..14
    BY StepNumbers DEF Writing
  <2>3. \A s \in Proof \ Writing' : hashed'[s] = <<>>
    BY <1>1, <2>1, <2>2, WritingIs DEF BundleTypes
  <2>4. QED
    BY <1>1, <1>2, <2>3, StepNumbers DEF BundleTypes, MovesTo
<1>4. ASSUME ~overlapping PROVE Alone'
  <2>1. Writing = {} /\ Alone
    BY <1>1, <1>4
  <2>2. \A s \in Proof \ {r} : s \notin Writing'
    <3>1. \A s \in Proof \ {r} : stepOf[s] \notin 1..14
      BY <2>1, WritingIs
    <3>2. QED
      BY <1>2, <3>1, StepNumbers DEF MovesTo, Writing
  <2>3. Writing' \subseteq {r}
    BY <2>2 DEF Writing
  <2>4. ASSUME r \in Writing' PROVE WriterStands(r)'
    <3>1. stepOf'[r] = 1 /\ UnexpectedProofBundleEntries = {}
      BY <1>2, <2>4, StepNumbers DEF MovesTo, Writing
    <3>2. hashed[r] = <<>>
      BY <1>1, WritingIs DEF BundleTypes
    <3>3. HashedBefore(1) = {}
      BY StepNumbers, OrderFacts DEF HashedBefore
    <3>4. \A i \in DOMAIN Order : ~(2 * i < 1)
      BY OrderFacts
    <3>5. DOMAIN hashed'[r] = {}
      BY <1>1, <3>2
    <3>6. QED
      BY <1>1, <3>1, <3>3, <3>4, <3>5 DEF WriterStands, UnexpectedProofBundleEntries
  <2>5. QED
    BY <1>1, <2>1, <2>3, <2>4 DEF Alone
<1>5. QED
  BY <1>1, <1>3, <1>4

\* The only writer, when runs follow one another.
LEMMA LoneWriter ==
  ASSUME BundleInv, ~overlapping, NEW r \in Proof, stepOf[r] \in 1..14
  PROVE  /\ r \in Writing /\ Writing = {r} /\ WriterStands(r) /\ fresh = NoProof
         /\ listing = <<>> \/ \E s \in Proof : Whole(listing, s)
<1>1. r \in Writing
  BY WritingIs
<1>2. QED
  BY <1>1 DEF BundleInv, Alone

\* What writing does: artifact i is opened or filled with content c.
Fills(r, i, c) ==
    /\ DOMAIN bundle' = DOMAIN bundle \cup {Order[i]} /\ bundle'[Order[i]] = c
    /\ \A m \in DOMAIN bundle \ {Order[i]} : bundle'[m] = bundle[m]
    /\ stepOf[r] = 2 * i - 1 \/ (stepOf[r] = 2 * i /\ (overlapping \/ c = OwnOf(r)))

LEMMA WriteEffect ==
  ASSUME BundleTypes, NEW r \in Proof, WriteArtifact(r)
  PROVE  /\ \E i \in 1..4, c \in {Unreadable, OwnOf(r)} : Fills(r, i, c)
         /\ stepOf[r] \in 1..8 /\ MovesTo(r, stepOf[r] + 1)
         /\ UNCHANGED <<listing, overlapping, hashed, fresh, edits>>
<1>1. stepOf[r] \in 1..8 /\ UNCHANGED <<listing, overlapping, hashed, fresh, edits>>
  BY StepNumbers DEF WriteArtifact
<1>2. MovesTo(r, stepOf[r] + 1)
  <2>1. StepSet(r, stepOf[r] + 1) /\ stepOf[r] + 1 \in 0..15
    BY <1>1 DEF WriteArtifact, StepSet
  <2>2. QED
    BY <2>1, Moved
<1> DEFINE i == (stepOf[r] + 1) \div 2
<1>3. i \in 1..4 /\ (stepOf[r] % 2 = 1 => stepOf[r] = 2 * i - 1) /\ (stepOf[r] % 2 # 1 => stepOf[r] = 2 * i)
  BY <1>1, SlotFacts
<1>4. CASE stepOf[r] % 2 = 1
  <2>1. bundle' = Put(bundle, Order[i], Unreadable)
    BY <1>4 DEF WriteArtifact
  <2>2. Fills(r, i, Unreadable)
    <3> HIDE DEF i
    <3>1. QED
      BY <1>3, <1>4, <2>1 DEF Fills, Put
  <2>3. QED
    BY <1>1, <1>2, <1>3, <2>2
<1>5. CASE stepOf[r] % 2 # 1
  <2>1. \/ bundle' = Put(bundle, Order[i], OwnOf(r))
        \/ overlapping /\ bundle' = Put(bundle, Order[i], Unreadable)
    BY <1>5 DEF WriteArtifact
  <2>2. stepOf[r] = 2 * i
    BY <1>3, <1>5
  <2>3. Fills(r, i, OwnOf(r)) \/ Fills(r, i, Unreadable)
    <3> HIDE DEF i
    <3>1. CASE bundle' = Put(bundle, Order[i], OwnOf(r))
      BY <2>2, <3>1 DEF Fills, Put
    <3>2. CASE overlapping /\ bundle' = Put(bundle, Order[i], Unreadable)
      BY <2>2, <3>2 DEF Fills, Put
    <3>3. QED
      BY <2>1, <3>1, <3>2
  <2>4. QED
    BY <1>1, <1>2, <1>3, <2>3
<1>6. QED
  BY <1>4, <1>5

\* A run that takes a step of its own is still writing, and only its own step
\* has changed.
LEMMA StillWriting ==
  ASSUME BundleTypes, NEW r \in Proof, stepOf[r] \in 1..13, MovesTo(r, stepOf[r] + 1)
  PROVE  Writing' = Writing
<1>1. \A s \in Proof : stepOf'[s] \in 1..14 <=> stepOf[s] \in 1..14
  BY DEF MovesTo
<1>2. \A s \in Proof : s \in Writing' <=> stepOf'[s] \in 1..14
  BY StepNumbers DEF Writing
<1>3. QED
  BY <1>1, <1>2, WritingIs DEF Writing

LEMMA StepWrite == ASSUME BundleInv, NEW r \in Proof, WriteArtifact(r) PROVE BundleInv'
<1>0. BundleTypes /\ (~overlapping => Alone)
  BY DEF BundleInv
<1>1. /\ stepOf[r] \in 1..8 /\ MovesTo(r, stepOf[r] + 1)
      /\ UNCHANGED <<listing, overlapping, hashed, fresh, edits>>
  BY <1>0, WriteEffect
<1>2. PICK i \in 1..4, c \in {Unreadable, OwnOf(r)} : Fills(r, i, c)
  BY <1>0, WriteEffect
<1>3. Writing' = Writing
  BY <1>0, <1>1, StillWriting
<1>4. BundleTypes'
  <2>1. \A m \in DOMAIN bundle' : bundle'[m] \in Content /\ (m # "zip" => bundle'[m][1] = bundle'[m][2])
    BY <1>0, <1>2, OwnFacts DEF BundleTypes, Fills
  <2>2. \A s \in Proof \ Writing' : hashed'[s] = <<>>
    BY <1>0, <1>1, <1>3 DEF BundleTypes
  <2>3. stepOf' \in [Proof -> 0..AtEnd] /\ DOMAIN hashed' = Proof /\ fresh' \in Proof \cup {NoProof}
    BY <1>0, <1>1, StepNumbers DEF BundleTypes, MovesTo
  <2>4. QED
    BY <2>1, <2>2, <2>3 DEF BundleTypes
<1>5. ASSUME ~overlapping PROVE Alone'
  <2>1. Writing = {r} /\ WriterStands(r) /\ fresh = NoProof /\ (listing = <<>> \/ \E s \in Proof : Whole(listing, s))
    BY <1>1, <1>5, LoneWriter
  <2>2. WriterStands(r)'
    <3>1. DOMAIN bundle' \subseteq Artifact
      BY <1>2, <2>1, OrderFacts DEF WriterStands, Fills
    <3>2. ASSUME NEW j \in 1..4, 2 * j < stepOf[r] + 1
          PROVE  Order[j] \in DOMAIN bundle' /\ bundle'[Order[j]] = OwnOf(r)
      <4>1. CASE j = i
        BY <1>1, <1>2, <1>5, <3>2, <4>1 DEF Fills
      <4>2. CASE j # i
        <5>1. 2 * j < stepOf[r]
          BY <1>1, <1>2, <3>2, <4>2 DEF Fills
        <5>2. Order[j] # Order[i]
          BY <4>2, OrderFacts
        <5>3. Order[j] \in DOMAIN bundle /\ bundle[Order[j]] = OwnOf(r)
          BY <2>1, <5>1, OrderFacts DEF WriterStands
        <5>4. QED
          BY <1>2, <5>2, <5>3 DEF Fills
      <4>3. QED
        BY <4>1, <4>2
    <3>3. HashedBefore(stepOf[r] + 1) = HashedBefore(stepOf[r])
      BY <1>1, StepNumbers, OrderFacts DEF HashedBefore
    <3>4. stepOf'[r] = stepOf[r] + 1
      BY <1>1 DEF MovesTo
    <3>5. QED
      BY <1>1, <2>1, <3>1, <3>2, <3>3, <3>4, OrderFacts DEF WriterStands
  <2>3. QED
    BY <1>1, <1>3, <2>1, <2>2 DEF Alone
<1>6. QED
  BY <1>1, <1>4, <1>5 DEF BundleInv

LEMMA StepHash == ASSUME BundleInv, NEW r \in Proof, ProofBundleManifest(r) PROVE BundleInv'
<1>0. BundleTypes /\ (~overlapping => Alone)
  BY DEF BundleInv
<1> DEFINE i == stepOf[r] - FirstHash + 1
<1>1. /\ stepOf[r] \in 9..12 /\ i \in 1..4
      /\ UNCHANGED <<bundle, listing, overlapping, fresh, edits>>
      /\ hashed' = [hashed EXCEPT ![r] = Put(hashed[r], Order[i], bundle[Order[i]])]
      /\ StepSet(r, stepOf[r] + 1)
  BY StepNumbers DEF ProofBundleManifest, StepSet
<1> HIDE DEF i
<1>2. i \in 1..4 /\ stepOf[r] = i + 8 /\ stepOf[r] + 1 \in 0..15
  BY <1>1, StepNumbers DEF i
<1>3. /\ DOMAIN hashed' = Proof /\ \A s \in Proof \ {r} : hashed'[s] = hashed[s]
      /\ DOMAIN hashed'[r] = DOMAIN hashed[r] \cup {Order[i]}
      /\ hashed'[r][Order[i]] = bundle[Order[i]]
      /\ \A n \in DOMAIN hashed[r] \ {Order[i]} : hashed'[r][n] = hashed[r][n]
  BY <1>0, <1>1 DEF BundleTypes, Put
<1>4. MovesTo(r, stepOf[r] + 1)
  BY <1>0, <1>1, <1>2, Moved
<1>5. Writing' = Writing /\ r \in Writing
  BY <1>0, <1>2, <1>4, StillWriting, WritingIs
<1>6. BundleTypes'
  <2>1. \A s \in Proof \ Writing' : hashed'[s] = <<>>
    BY <1>0, <1>3, <1>5 DEF BundleTypes
  <2>2. stepOf' \in [Proof -> 0..AtEnd]
    BY <1>4, StepNumbers DEF MovesTo
  <2>3. QED
    BY <1>0, <1>1, <1>3, <2>1, <2>2 DEF BundleTypes
<1>7. ASSUME ~overlapping PROVE Alone'
  <2>1. Writing = {r} /\ WriterStands(r) /\ fresh = NoProof /\ (listing = <<>> \/ \E s \in Proof : Whole(listing, s))
    BY <1>2, <1>7, LoneWriter
  <2>2. WriterStands(r)'
    <3>1. bundle[Order[i]] = OwnOf(r) /\ DOMAIN hashed[r] = HashedBefore(stepOf[r])
          /\ \A n \in DOMAIN hashed[r] : hashed[r][n] = OwnOf(r)
      BY <1>2, <2>1, OrderFacts DEF WriterStands
    <3>2. HashedBefore(stepOf[r] + 1) = HashedBefore(stepOf[r]) \cup {Order[i]}
      BY <1>2, StepNumbers, OrderFacts DEF HashedBefore
    <3>3. \A n \in DOMAIN hashed'[r] : hashed'[r][n] = OwnOf(r)
      BY <1>3, <3>1
    <3>4. stepOf'[r] = stepOf[r] + 1
      BY <1>4 DEF MovesTo
    <3>5. \A j \in 1..4 : Order[j] \in DOMAIN bundle /\ bundle[Order[j]] = OwnOf(r)
      BY <1>2, <2>1, OrderFacts DEF WriterStands
    <3>6. QED
      BY <1>1, <1>3, <2>1, <3>1, <3>2, <3>3, <3>4, <3>5, OrderFacts DEF WriterStands
  <2>3. QED
    BY <1>1, <1>5, <2>1, <2>2 DEF Alone
<1>8. QED
  BY <1>1, <1>6, <1>7 DEF BundleInv

\* A run that ends, listing what it hashed or dying.
Ends(r) == /\ UNCHANGED <<bundle, overlapping, edits>>
           /\ stepOf[r] \in 1..14 /\ MovesTo(r, 15)
           /\ hashed' = [hashed EXCEPT ![r] = <<>>]

LEMMA EndsTypes == ASSUME BundleTypes, NEW r \in Proof, Ends(r), fresh' \in Proof \cup {NoProof}
                   PROVE  BundleTypes' /\ Writing' = Writing \ {r}
<1>1. \A s \in Proof : s \in Writing' <=> stepOf'[s] \in 1..14
  BY StepNumbers DEF Writing
<1>2. \A s \in Proof : s \in Writing' <=> s \in Writing \ {r}
  BY <1>1, WritingIs DEF Ends, MovesTo
<1>3. Writing' = Writing \ {r}
  BY <1>2 DEF Writing
<1>4. \A s \in Proof \ Writing' : hashed'[s] = <<>>
  BY <1>3 DEF Ends, BundleTypes
<1>5. stepOf' \in [Proof -> 0..AtEnd] /\ DOMAIN hashed' = Proof
  BY StepNumbers DEF Ends, MovesTo, BundleTypes
<1>6. QED
  BY <1>3, <1>4, <1>5 DEF BundleTypes, Ends

LEMMA StepDie == ASSUME BundleInv, NEW r \in Proof, Die(r) PROVE BundleInv'
<1>0. BundleTypes /\ (~overlapping => Alone)
  BY DEF BundleInv
<1>1. stepOf[r] \in 1..14 /\ UNCHANGED <<listing, fresh, overlapping>>
  BY WritingIs DEF Die
<1>2. StepSet(r, 15)
  BY StepNumbers DEF Die, StepSet
<1>3. MovesTo(r, 15)
  BY <1>0, <1>2, Moved
<1>4. Ends(r)
  BY <1>1, <1>3 DEF Ends, Die
<1>5. BundleTypes' /\ Writing' = Writing \ {r}
  BY <1>0, <1>1, <1>4, EndsTypes DEF BundleTypes
<1>6. ASSUME ~overlapping PROVE Alone'
  <2>1. Writing = {r} /\ fresh = NoProof /\ (listing = <<>> \/ \E s \in Proof : Whole(listing, s))
    BY <1>1, <1>6, LoneWriter
  <2>2. Writing' = {}
    BY <1>5, <2>1
  <2>3. QED
    BY <1>1, <2>1, <2>2 DEF Alone
<1>7. QED
  BY <1>1, <1>5, <1>6 DEF BundleInv

LEMMA StepList == ASSUME BundleInv, NEW r \in Proof, WriteListing(r) PROVE BundleInv'
<1>0. BundleTypes /\ (~overlapping => Alone)
  BY DEF BundleInv
<1>1. UNCHANGED <<bundle, overlapping, edits>>
  BY DEF WriteListing
<1>2. CASE stepOf[r] = 13
  <2>1. listing' = <<>> /\ UNCHANGED <<fresh, hashed>> /\ StepSet(r, stepOf[r] + 1)
    BY <1>2, StepNumbers DEF WriteListing, StepSet
  <2>2. MovesTo(r, stepOf[r] + 1)
    BY <1>0, <1>2, <2>1, Moved, stepOf[r] + 1 \in 0..15
  <2>3. Writing' = Writing
    BY <1>0, <1>2, <2>2, StillWriting
  <2>4. BundleTypes'
    <3>1. stepOf' \in [Proof -> 0..AtEnd]
      BY <2>2, StepNumbers DEF MovesTo
    <3>2. QED
      BY <1>0, <1>1, <2>1, <2>3, <3>1 DEF BundleTypes
  <2>5. ASSUME ~overlapping PROVE Alone'
    <3>1. Writing = {r} /\ WriterStands(r) /\ fresh = NoProof
      BY <1>2, <2>5, LoneWriter
    <3>2. HashedBefore(14) = HashedBefore(13)
      BY StepNumbers, OrderFacts DEF HashedBefore
    <3>3. stepOf'[r] = 14
      BY <1>2, <2>2 DEF MovesTo
    <3>4. \A j \in DOMAIN Order : 2 * j < 13
      BY OrderFacts
    <3>5. WriterStands(r)'
      BY <1>1, <1>2, <2>1, <3>1, <3>2, <3>3, <3>4 DEF WriterStands
    <3>6. QED
      BY <2>1, <2>3, <3>1, <3>5 DEF Alone
  <2>6. QED
    BY <1>1, <2>4, <2>5 DEF BundleInv
<1>3. CASE stepOf[r] = 14
  <2>1. /\ listing' = hashed[r] \/ (overlapping /\ listing' = <<>>)
        /\ fresh' = r /\ hashed' = [hashed EXCEPT ![r] = <<>>]
        /\ StepSet(r, 15)
    BY <1>3, StepNumbers DEF WriteListing, StepSet
  <2>2. MovesTo(r, 15)
    BY <1>0, <2>1, Moved
  <2>3. Ends(r)
    BY <1>1, <1>3, <2>1, <2>2 DEF Ends
  <2>4. BundleTypes' /\ Writing' = Writing \ {r}
    BY <1>0, <2>1, <2>3, EndsTypes
  <2>5. ASSUME ~overlapping PROVE Alone'
    <3>1. Writing = {r} /\ WriterStands(r)
      BY <1>3, <2>5, LoneWriter
    <3>2. HashedBefore(14) = Artifact
      BY StepNumbers, OrderFacts DEF HashedBefore, Artifact
    <3>3. Whole(hashed[r], r)
      BY <1>3, <3>1, <3>2 DEF WriterStands, Whole
    <3>4. Whole(bundle, r)
      <4>1. \A j \in 1..4 : Order[j] \in DOMAIN bundle /\ bundle[Order[j]] = OwnOf(r)
        BY <1>3, <3>1, OrderFacts DEF WriterStands
      <4>2. \A n \in Artifact : n \in DOMAIN bundle /\ bundle[n] = OwnOf(r)
        BY <4>1, OrderFacts
      <4>3. QED
        BY <3>1, <4>2 DEF WriterStands, Whole
    <3>5. listing' = hashed[r] /\ bundle' = bundle /\ fresh' = r /\ Writing' = {}
      BY <1>1, <2>1, <2>4, <2>5, <3>1
    <3>6. Whole(listing, r)' /\ Whole(bundle, r)'
      BY <3>3, <3>4, <3>5 DEF Whole
    <3>7. QED
      BY <3>5, <3>6 DEF Alone
  <2>6. QED
    BY <1>1, <2>4, <2>5 DEF BundleInv
<1>4. QED
  BY <1>2, <1>3, StepNumbers DEF WriteListing

LEMMA StepEdit == ASSUME BundleInv, EditBundle PROVE BundleInv'
<1>0. BundleTypes /\ (~overlapping => Alone)
  BY DEF BundleInv
<1>1. UNCHANGED <<listing, overlapping, stepOf, hashed>> /\ fresh' = NoProof /\ Writing = {} /\ Writing' = Writing
  BY DEF EditBundle, Writing
<1>2. \A m \in DOMAIN bundle' : bundle'[m] \in Content /\ (m # "zip" => bundle'[m][1] = bundle'[m][2])
  <2>1. ASSUME NEW n, NEW c \in Content, n # "zip" => c[1] = c[2], bundle' = Put(bundle, n, c)
        PROVE  \A m \in DOMAIN bundle' : bundle'[m] \in Content /\ (m # "zip" => bundle'[m][1] = bundle'[m][2])
    BY <1>0, <2>1 DEF BundleTypes, Put
  <2>2. ASSUME NEW n \in Artifact, NEW r \in Proof, bundle' = Put(bundle, n, OwnOf(r))
        PROVE  \A m \in DOMAIN bundle' : bundle'[m] \in Content /\ (m # "zip" => bundle'[m][1] = bundle'[m][2])
    BY <2>1, <2>2, OwnFacts
  <2>3. ASSUME NEW m \in Proof, NEW f \in Proof, bundle' = Put(bundle, "zip", <<m, f>>)
        PROVE  \A n \in DOMAIN bundle' : bundle'[n] \in Content /\ (n # "zip" => bundle'[n][1] = bundle'[n][2])
    <3>1. <<m, f>> \in Content
      BY DEF Content
    <3>2. QED
      BY <2>1, <2>3, <3>1
  <2>4. ASSUME bundle' = Put(bundle, Stray, Unreadable)
        PROVE  \A m \in DOMAIN bundle' : bundle'[m] \in Content /\ (m # "zip" => bundle'[m][1] = bundle'[m][2])
    BY <2>1, <2>4, OwnFacts
  <2>5. ASSUME NEW n \in DOMAIN bundle, bundle' = [m \in DOMAIN bundle \ {n} |-> bundle[m]]
        PROVE  \A m \in DOMAIN bundle' : bundle'[m] \in Content /\ (m # "zip" => bundle'[m][1] = bundle'[m][2])
    BY <1>0, <2>5 DEF BundleTypes
  <2>6. QED
    BY <2>2, <2>3, <2>4, <2>5 DEF EditBundle
<1>3. BundleTypes'
  BY <1>0, <1>1, <1>2 DEF BundleTypes
<1>4. ~overlapping => Alone'
  BY <1>0, <1>1 DEF Alone
<1>5. QED
  BY <1>1, <1>3, <1>4 DEF BundleInv

LEMMA StepBundle == BundleInv /\ [ProofBundleNext]_bundleVars => BundleInv'
<1> SUFFICES ASSUME BundleInv, [ProofBundleNext]_bundleVars PROVE BundleInv'
  OBVIOUS
<1>1. CASE UNCHANGED bundleVars
  <2>1. Writing' = Writing
    BY <1>1 DEF bundleVars, Writing
  <2>2. BundleTypes' = BundleTypes /\ Alone' = Alone
    BY <1>1, <2>1 DEF bundleVars, BundleTypes, Alone, WriterStands, Whole
  <2>3. QED
    BY <1>1, <2>2 DEF bundleVars, BundleInv
<1>2. QED
  BY <1>1, StepPrepare, StepWrite, StepHash, StepList, StepDie, StepEdit DEF ProofBundleNext

\* For any number of runs of the release check, one after another or over one
\* another, dying at any step, and any edits between them: a bundle that verifies
\* is of one run, and what a run wrote alone to its end verifies
\* (first_run_smoke.py, release_evidence.py).
THEOREM BundlesAreOneRun == ProofBundleSpec => []BundleIsOneRun
<1>1. BundleInv => BundleIsOneRun
  <2> SUFFICES ASSUME BundleInv PROVE BundleIsOneRun
    OBVIOUS
  <2>0. BundleTypes /\ (~overlapping => Alone)
    BY DEF BundleInv
  <2>1. OnePacketInside
    <3> SUFFICES ASSUME VerifyProofBundleManifest
                 PROVE  \E r \in Proof : /\ bundle["zip"] = OwnOf(r)
                                         /\ bundle["packetManifest"] = OwnOf(r)
                                         /\ bundle["summary"] = OwnOf(r)
      BY DEF OnePacketInside
    <3>1. \A n \in Artifact : n \in DOMAIN bundle
      BY DEF VerifyProofBundleManifest, ManifestedArtifacts
    <3>2. /\ bundle["zip"] \in Content /\ bundle["packetManifest"] \in Content
          /\ bundle["packetManifest"][1] = bundle["packetManifest"][2]
      BY <2>0, <3>1, ArtifactNames DEF BundleTypes
    <3>3. /\ bundle["zip"][1] = bundle["packetManifest"][1] /\ bundle["zip"][1] \in Proof
          /\ bundle["zip"][1] = bundle["zip"][2] /\ bundle["summary"] = bundle["zip"]
      BY DEF VerifyProofBundleManifest, PacketIsWhole, ProofSummaryMatches, BuildPacketManifestContract
    <3>4. bundle["zip"] = OwnOf(bundle["zip"][1]) /\ bundle["packetManifest"] = OwnOf(bundle["zip"][1])
      <4>1. \A c \in Content : c[1] = c[2] => c = <<c[1], c[1]>>
        BY DEF Content
      <4>2. QED
        BY <3>2, <3>3, <4>1 DEF OwnOf
    <3>5. QED
      BY <3>3, <3>4
  <2>2. WholeOrRejected
    <3> SUFFICES ASSUME ~overlapping, VerifyProofBundleManifest
                 PROVE  \E r \in Proof : \A n \in Artifact : bundle[n] = OwnOf(r)
      BY DEF WholeOrRejected
    <3>1. /\ DOMAIN listing = Artifact
          /\ \A n \in Artifact : bundle[n] = listing[n]
      BY DEF VerifyProofBundleManifest, ManifestedArtifacts
    <3>2. DOMAIN <<>> = {}
      OBVIOUS
    <3>3. listing # <<>>
      BY <3>1, <3>2, ArtifactNames
    <3>4. PICK r \in Proof : Whole(listing, r)
      BY <2>0, <3>3 DEF Alone
    <3>5. QED
      BY <3>1, <3>4 DEF Whole
  <2>3. FinishedVerifies
    <3> SUFFICES ASSUME ~overlapping, fresh # NoProof PROVE VerifyProofBundleManifest
      BY DEF FinishedVerifies
    <3>1. fresh \in Proof /\ Whole(bundle, fresh) /\ Whole(listing, fresh)
      BY <2>0 DEF Alone, BundleTypes
    <3>2. ManifestedArtifacts /\ UnexpectedProofBundleEntries = {}
      BY <3>1 DEF ManifestedArtifacts, UnexpectedProofBundleEntries, Whole
    <3>3. /\ bundle["summary"] = OwnOf(fresh) /\ bundle["zip"] = OwnOf(fresh)
          /\ bundle["packetManifest"] = OwnOf(fresh) /\ bundle["verification"] = OwnOf(fresh)
      BY <3>1, ArtifactNames DEF Whole
    <3>4. PacketIsWhole /\ ProofSummaryMatches
      BY <3>1, <3>3, OwnFacts DEF PacketIsWhole, ProofSummaryMatches, BuildPacketArchiveContract,
         BuildPacketManifestContract
    <3>5. QED
      BY <3>2, <3>4 DEF VerifyProofBundleManifest
  <2>4. QED
    BY <2>1, <2>2, <2>3 DEF BundleIsOneRun
<1>2. QED
  BY <1>1, InitBundle, StepBundle, PTL DEF ProofBundleSpec

(* ---- Connectors ------------------------------------------------------------- *)
LEMMA AllowedFacts ==
  /\ \A d \in Nat : AllowedFor(d) \in Nat /\ AllowedFor(d + 1) = AllowedFor(d) + MaxRedirects + 1
  /\ \A d, e \in Nat : d <= e => AllowedFor(d) <= AllowedFor(e)
<1>1. MaxRedirects \in Nat
  BY ConnectorAssumption
<1>2. ASSUME NEW d \in Nat PROVE AllowedFor(d) \in Nat /\ AllowedFor(d + 1) = AllowedFor(d) + MaxRedirects + 1
  BY <1>1 DEF AllowedFor
<1>3. ASSUME NEW d \in Nat, NEW e \in Nat, d <= e PROVE AllowedFor(d) <= AllowedFor(e)
  <2> DEFINE x == e - d
  <2>1. e = d + x /\ x \in Nat
    BY <1>3
  <2>2. x * (MaxRedirects + 1) \in Nat /\ d * (MaxRedirects + 1) \in Nat
    BY <1>1, <2>1
  <2> HIDE DEF x
  <2>3. (d + x) * (MaxRedirects + 1) = d * (MaxRedirects + 1) + x * (MaxRedirects + 1)
    BY <1>1, <2>1
  <2> DEFINE whole == (d + x) * (MaxRedirects + 1)
             first == d * (MaxRedirects + 1)
             second == x * (MaxRedirects + 1)
  <2>4. whole = first + second /\ first \in Nat /\ second \in Nat
    BY <2>2, <2>3
  <2>5. AllowedFor(d) = first /\ AllowedFor(e) = whole
    BY <2>1 DEF AllowedFor
  <2> HIDE DEF whole, first, second
  <2>6. QED
    BY <2>4, <2>5
<1>4. QED
  BY <1>2, <1>3

LEMMA FactorFacts == \A l \in Nat : l * Factor \in Nat /\ l <= l * Factor
<1>1. Factor \in Nat /\ Factor >= 1
  BY ConnectorAssumption
<1>2. \A l \in Nat : l * (Factor - 1) \in Nat /\ l * Factor = l * (Factor - 1) + l
  BY <1>1
<1>3. QED
  BY <1>2

\* A feed reads no more stories than the property allows requests for.
LEMMA BudgetFits ==
  ASSUME ConnectorTyped
  PROVE  /\ limit \in Nat /\ FetchBudget \in Nat
         /\ FetchBudget <= LesserOf(limit * Factor, GreaterOf(Cap, limit))
<1>1. limit \in Nat /\ Cap \in Nat
  BY ConnectorAssumption DEF ConnectorTyped, ConnectorTypeOK, GreaterOf
<1>2. limit * Factor \in Nat /\ limit <= limit * Factor
  BY <1>1, FactorFacts
<1>3. QED
  BY <1>1, <1>2 DEF FetchBudget, LesserOf, GreaterOf

LEMMA PrefixFacts ==
  ASSUME NEW list \in Lists, NEW m \in Nat
  PROVE  /\ Prefix(list, m) \in Seq(Entries)
         /\ Len(Prefix(list, m)) \in Nat /\ Len(Prefix(list, m)) <= m /\ Len(Prefix(list, m)) <= MaxListed
<1>1. PICK n \in 0..MaxListed : list \in [1..n -> Entries]
  BY DEF Lists, Entries
<1>2. n \in Nat /\ n <= MaxListed
  BY ConnectorAssumption
<1>3. list \in Seq(Entries) /\ Len(list) = n
  BY <1>1, <1>2
<1>4. LesserOf(m, n) \in 0..n /\ LesserOf(m, n) <= m
  BY <1>2 DEF LesserOf
<1>5. Prefix(list, m) = SubSeq(list, 1, LesserOf(m, n))
  BY <1>3 DEF Prefix
<1> DEFINE k == LesserOf(m, n)
<1> HIDE DEF k
<1>6. SubSeq(list, 1, k) \in Seq(Entries) /\ Len(SubSeq(list, 1, k)) = k
  <2>1. k \in Nat /\ k <= n
    BY <1>2, <1>4 DEF k
  <2>2. SubSeq(list, 1, k) = [i \in 1..k |-> list[i]]
    BY <1>1, <1>3, <2>1
  <2>3. \A i \in 1..k : list[i] \in Entries
    BY <1>1, <1>2, <2>1
  <2>4. QED
    BY <2>1, <2>2, <2>3
<1> DEFINE cut == SubSeq(list, 1, k)
<1>7. Prefix(list, m) = cut /\ k \in 0..n /\ k <= m
  BY <1>4, <1>5 DEF k
<1>8. Len(cut) = k /\ cut \in Seq(Entries)
  BY <1>6
<1> HIDE DEF cut
<1>9. k \in Nat /\ k <= MaxListed
  <2>1. MaxListed \in Nat /\ k \in 0..n
    BY <1>7, ConnectorAssumption
  <2>2. QED
    BY <1>2, <2>1
<1>10. QED
  BY <1>7, <1>8, <1>9, Zenon

LEMMA ListFacts ==
  ASSUME NEW list \in Lists
  PROVE  list \in Seq(Entries) /\ Len(list) \in 0..MaxListed /\ DOMAIN list = 1..Len(list)
<1>1. PICK n \in 0..MaxListed : list \in [1..n -> Entries]
  BY DEF Lists, Entries
<1>2. n \in Nat
  BY ConnectorAssumption
<1>3. QED
  BY <1>1, <1>2

LEMMA TypedFacts ==
  ASSUME ConnectorTyped
  PROVE  /\ limit \in Nat /\ Len(items) \in Nat /\ Len(listed) \in Nat /\ seen \in Nat /\ hops \in Nat
         /\ requests \in Nat /\ wait \in Nat /\ hops <= MaxRedirects /\ wait <= MaxWait
         /\ DOMAIN items = 1..Len(items) /\ DOMAIN listed = 1..Len(listed)
         /\ {MaxTopics, MaxRedirects, MaxResults, MaxWait, MaxListed} \subseteq Nat
  BY ConnectorAssumption DEF ConnectorTyped, ConnectorTypeOK, GreaterOf

LEMMA WaitFacts ==
  ASSUME ConnectorTyped
  PROVE  MaxWait \in Nat /\ wait \in 0..MaxWait /\ heard \in SUBSET (0..MaxWait)
  BY ConnectorAssumption DEF ConnectorTyped, ConnectorTypeOK

LEMMA NumberFacts ==
  ASSUME ConnectorTyped
  PROVE  /\ limit \in Nat /\ seen \in Nat /\ hops \in Nat /\ requests \in Nat
         /\ Len(items) \in Nat /\ Len(listed) \in Nat /\ MaxRedirects \in Nat /\ hops <= MaxRedirects
  BY TypedFacts

LEMMA InitConnector == ConnectorInit => ConnectorInv
<1> SUFFICES ASSUME ConnectorInit PROVE ConnectorInv
  OBVIOUS
<1>1. ConnectorTyped
  BY ConnectorAssumption DEF ConnectorInit, ConnectorTyped, ConnectorTypeOK, GreaterOf
<1>2. LesserOf(0, MaxTopics) = 0 /\ AllowedFor(1) \in Nat
  BY ConnectorAssumption, AllowedFacts DEF LesserOf
<1> DEFINE budget == FetchBudget
           most == LesserOf(limit * Factor, GreaterOf(Cap, limit))
<1>3. budget \in Nat /\ most \in Nat
  BY <1>1, BudgetFits, FactorFacts, ConnectorAssumption DEF GreaterOf, LesserOf
<1>4. Len(items) = 0 /\ Len(listed) = 0 /\ limit = 0 /\ requests = 0 /\ wait = 0 /\ heard = {} /\ progress = "new"
      /\ target = Own /\ pinned = {} /\ contacts = {}
  BY DEF ConnectorInit
<1>5. ~(progress \in Asking) /\ progress # "done" /\ progress # "asking"
  BY <1>4 DEF Asking
<1>6. DiscourseStands
  <2>1. LesserOf(limit, MaxTopics) = 0 /\ limit <= MaxResults
    BY <1>2, <1>4, ConnectorAssumption
  <2>2. requests <= AllowedFor(1 + LesserOf(limit, MaxTopics))
    BY <1>2, <1>4, <2>1
  <2>3. QED
    BY <1>4, <1>5, <2>1, <2>2 DEF DiscourseStands
<1> HIDE DEF budget, most
<1>7. FeedStands
  BY <1>3, <1>4, <1>5 DEF FeedStands, budget, most
<1>8. PageStands
  BY <1>4, <1>5 DEF PageStands
<1>9. QED
  BY <1>1, <1>6, <1>7, <1>8 DEF ConnectorInv, KindStands, ConnectorInit, Untouched

\* What a fetch has asked for when it sends or reads an answer.
LEMMA DocumentsLeft ==
  ASSUME ConnectorTyped, DiscourseStands, progress \in Asking
  PROVE  /\ Documents \in Nat /\ Documents <= LesserOf(limit, MaxTopics)
         /\ AllowedFor(Documents) \in Nat
         /\ AllowedFor(Documents + 1) = AllowedFor(Documents) + MaxRedirects + 1
         /\ AllowedFor(Documents + 1) <= AllowedFor(1 + LesserOf(limit, MaxTopics))
<1>1. Documents \in Nat /\ Documents <= LesserOf(limit, MaxTopics) /\ LesserOf(limit, MaxTopics) \in Nat
  <2>1. purpose \in {"list", "detail"}
    BY DEF ConnectorTyped, ConnectorTypeOK, DiscourseStands
  <2>2. limit \in Nat /\ MaxTopics \in Nat /\ Len(items) \in Nat /\ Len(listed) \in Nat /\ Len(listed) <= limit
    BY TypedFacts DEF DiscourseStands
  <2>3. CASE purpose = "list"
    BY <2>2, <2>3 DEF Documents, LesserOf
  <2>4. CASE purpose = "detail"
    <3>1. Len(items) < DetailBudget(listed)
      BY <2>4 DEF DiscourseStands
    <3>2. Documents = 1 + Len(items)
      BY <2>4 DEF Documents
    <3>3. QED
      BY <2>2, <3>1, <3>2 DEF DetailBudget, LesserOf
  <2>5. QED
    BY <2>1, <2>3, <2>4
<1>2. QED
  BY <1>1, AllowedFacts

(* ---- one action at a time ------------------------------------------------------ *)
LEMMA KindKept ==
  ASSUME ConnectorInv, UNCHANGED kind, ConnectorTyped', progress' \notin {"new", "ready"},
         kind = "discourse" => DiscourseStands', kind = "feed" => FeedStands',
         kind \in {"page", "reddit"} => PageStands'
  PROVE  ConnectorInv'
  BY DEF ConnectorInv, KindStands

LEMMA InvFacts ==
  ASSUME ConnectorInv
  PROVE  /\ ConnectorTyped
         /\ kind = "discourse" => DiscourseStands
         /\ kind = "feed" => FeedStands
         /\ kind \in {"page", "reddit"} => PageStands
         /\ kind \in {"discourse", "feed", "reddit", "page"}
         /\ progress \in {"new", "ready"} => Untouched
  BY DEF ConnectorInv, KindStands, ConnectorTyped, ConnectorTypeOK

\* Failing, or giving up before the first request.
LEMMA FailureKeeps ==
  ASSUME ConnectorInv, progress' = "failed", UNCHANGED <<kind, limit, filtered>>,
         UNCHANGED <<listed, items, seen, purpose, hops, requests, contacts, target>>,
         pinned' = pinned, wait' \in 0..MaxWait, heard' \subseteq 0..MaxWait
  PROVE  ConnectorInv'
<1>1. ConnectorTyped'
  BY InvFacts DEF ConnectorTyped, ConnectorTypeOK
<1>2. progress' \notin Asking /\ progress' # "done" /\ progress' # "asking"
  BY DEF Asking
<1>3. kind = "discourse" => DiscourseStands'
  BY <1>2, InvFacts DEF DiscourseStands
<1>4. FetchBudget' = FetchBudget
  BY DEF FetchBudget
<1>5. kind = "feed" => FeedStands'
  BY <1>2, <1>4, InvFacts DEF FeedStands
<1>6. kind \in {"page", "reddit"} => PageStands'
  BY <1>2, InvFacts DEF PageStands
<1>7. QED
  BY <1>1, <1>3, <1>5, <1>6, KindKept

LEMMA ConstructKeeps ==
  ASSUME ConnectorInv, NEW answer \in Answers, Construct(answer)
  PROVE  ConnectorInv'
<1> USE DEF Construct, FailWith, Move, Idle, asked, gathered, sent
<1>1. CASE progress' = "failed"
  <2>1. wait' \in 0..MaxWait /\ heard' \subseteq 0..MaxWait
    BY <1>1, InvFacts, ConnectorAssumption DEF ConnectorTyped, ConnectorTypeOK
  <2>2. QED
    BY <1>1, <2>1, FailureKeeps
<1>2. CASE progress' = "ready"
  <2>1. UNCHANGED <<kind, filtered, limit, purpose, target, pinned, hops, listed, items, seen,
                    requests, contacts, wait, heard>>
    BY <1>2
  <2>2. ConnectorTyped' /\ Untouched' /\ kind' = kind
    BY <1>2, <2>1, InvFacts DEF ConnectorTyped, ConnectorTypeOK, Untouched
  <2>3. progress' \notin Asking /\ progress' # "done" /\ progress' # "asking" /\ progress # "failed"
    BY <1>2 DEF Asking
  <2>4. kind = "discourse" => DiscourseStands'
    BY <2>1, <2>3, InvFacts DEF DiscourseStands
  <2>5. FetchBudget' = FetchBudget
    BY <2>1 DEF FetchBudget
  <2>6. kind = "feed" => FeedStands'
    BY <2>1, <2>3, <2>5, InvFacts DEF FeedStands
  <2>7. kind \in {"page", "reddit"} => PageStands'
    BY <2>1, <2>3, InvFacts DEF PageStands
  <2>8. QED
    BY <2>2, <2>4, <2>6, <2>7 DEF ConnectorInv, KindStands
<1>3. QED
  BY <1>1, <1>2

LEMMA FetchResultKeeps ==
  ASSUME ConnectorInv, NEW n \in Int, FetchResult(n)
  PROVE  ConnectorInv'
<1>1. kind = "discourse" /\ kind' = kind /\ progress = "ready" /\ Untouched /\ DiscourseStands /\ ConnectorTyped
  BY InvFacts DEF FetchResult
<1>2. UNCHANGED <<filtered, target, pinned, hops, listed, items, seen, requests, contacts, wait, heard>> /\ purpose' = "list"
  BY <1>1 DEF FetchResult, gathered, sent, Untouched
<1>3. limit' \in Nat /\ limit' <= MaxResults /\ MaxResults \in Nat /\ MaxAsked \in Nat
      /\ progress' \in {"done", "asking"}
  BY ConnectorAssumption DEF FetchResult, EffectiveLimit, LesserOf, GreaterOf, Move
<1>4. ConnectorTyped'
  <2>1. limit' \in 0..GreaterOf(MaxAsked, MaxResults)
    BY <1>3 DEF GreaterOf
  <2>2. QED
    BY <1>1, <1>2, <1>3, <2>1 DEF ConnectorTyped, ConnectorTypeOK
<1>5. Documents' = 0 /\ OneMore' = 0
  BY <1>2, <1>3 DEF Documents, OneMore
<1>6. DiscourseStands'
  <2>1. requests' = 0 /\ hops' = 0 /\ listed' = <<>> /\ items' = <<>> /\ progress' # "failed"
        /\ Len(items') = 0 /\ Len(listed') = 0
    BY <1>1, <1>2, <1>3 DEF Untouched
  <2>2. 0 <= AllowedFor(0) /\ AllowedFor(0) \in Nat
    BY AllowedFacts
  <2>3. LesserOf(limit', MaxTopics) \in Nat
    BY <1>3, ConnectorAssumption DEF LesserOf
  <2>4. AllowedFor(1 + LesserOf(limit', MaxTopics)) \in Nat
    BY <2>3, AllowedFacts
  <2>5. progress # "failed"
    BY <1>1
  <2>6. DOMAIN (items') = {}
    BY <2>1
  <2>7. requests' <= AllowedFor(Documents') + hops' + OneMore'
    BY <1>5, <2>1, <2>2
  <2>8. progress' = "done" => /\ Len(items') = Len(listed')
                              /\ \A i \in DOMAIN (items') : items'[i] = <<listed'[i], i <= MaxTopics>>
    BY <2>1, <2>6
  <2>9. requests' <= AllowedFor(1 + LesserOf(limit', MaxTopics)) /\ Len(listed') <= limit'
    BY <1>3, <2>1, <2>4
  <2>10. AllowedFor(Documents)' = AllowedFor(Documents')
         /\ AllowedFor(1 + LesserOf(limit, MaxTopics))' = AllowedFor(1 + LesserOf(limit', MaxTopics))
    BY DEF AllowedFor, LesserOf
  <2>11. QED
    BY <1>1, <1>2, <1>3, <2>1, <2>5, <2>7, <2>8, <2>9, <2>10 DEF DiscourseStands
<1>7. QED
  BY <1>1, <1>3, <1>4, <1>6, KindKept

LEMMA FetchKeeps ==
  ASSUME ConnectorInv, NEW n \in -1..MaxAsked, Fetch(n)
  PROVE  ConnectorInv'
<1>1. kind # "discourse" /\ kind' = kind /\ progress = "ready" /\ Untouched /\ ConnectorTyped
  BY InvFacts DEF Fetch
<1>2. UNCHANGED <<filtered, target, pinned, hops, listed, items, seen, requests, contacts, wait, heard>>
      /\ purpose' = (IF kind = "reddit" THEN "token" ELSE "list") /\ progress' \in {"send", "failed"}
      /\ limit' = n /\ n > 0
  BY <1>1 DEF Fetch, gathered, sent, Untouched, Move
<1>3. n \in Nat /\ n <= MaxAsked /\ MaxAsked \in Nat /\ MaxResults \in Nat /\ Cap \in Nat
  BY <1>2, ConnectorAssumption
<1>4. ConnectorTyped'
  <2>1. limit' \in 0..GreaterOf(MaxAsked, MaxResults)
    BY <1>2, <1>3 DEF GreaterOf
  <2>2. QED
    BY <1>1, <1>2, <2>1 DEF ConnectorTyped, ConnectorTypeOK
<1>5. requests' = 0 /\ hops' = 0 /\ listed' = <<>> /\ items' = <<>> /\ seen' = 0 /\ OneMore' = 0
      /\ Len(items') = 0 /\ Len(listed') = 0 /\ progress' # "done" /\ progress' # "asking"
  BY <1>1, <1>2 DEF Untouched, OneMore
<1>6. FetchBudget' \in Nat /\ FetchBudget' <= LesserOf(limit' * Factor, GreaterOf(Cap, limit'))
      /\ LesserOf(limit' * Factor, GreaterOf(Cap, limit')) \in Nat
  <2> DEFINE product == limit' * Factor
  <2>1. product \in Nat /\ limit' <= product /\ limit' \in Nat
    BY <1>2, <1>3, FactorFacts
  <2>2. FetchBudget' = IF filtered' THEN LesserOf(GreaterOf(product, limit'), Cap) ELSE limit'
    BY DEF FetchBudget, LesserOf, GreaterOf
  <2> HIDE DEF product
  <2>3. FetchBudget' \in Nat /\ FetchBudget' <= LesserOf(product, GreaterOf(Cap, limit'))
        /\ LesserOf(product, GreaterOf(Cap, limit')) \in Nat
    BY <1>3, <2>1, <2>2 DEF LesserOf, GreaterOf
  <2>4. QED
    BY <2>3 DEF product
<1>7. kind = "feed" => FeedStands'
  <2>1. LesserOf(limit * Factor, GreaterOf(Cap, limit))' = LesserOf(limit' * Factor, GreaterOf(Cap, limit'))
    BY DEF LesserOf, GreaterOf
  <2>2. requests' <= 1 + LesserOf(limit' * Factor, GreaterOf(Cap, limit')) /\ Len(listed') <= FetchBudget'
    BY <1>5, <1>6
  <2>3. kind = "feed" => purpose' = "list"
    BY <1>2
  <2>4. Len(items') < limit' /\ Len(items') <= seen'
    BY <1>2, <1>3, <1>5
  <2>5. QED
    BY <1>5, <2>1, <2>2, <2>3, <2>4 DEF FeedStands
<1>8. kind \in {"page", "reddit"} => PageStands'
  BY <1>1, <1>2, <1>5 DEF PageStands
<1>9. QED
  BY <1>1, <1>2, <1>4, <1>7, <1>8, KindKept

\* A step of the Discourse connector within one document.
LEMMA WithinDocument ==
  ASSUME ConnectorInv, kind = "discourse", ConnectorTyped', progress \in Asking, progress' \in Asking,
         UNCHANGED <<kind, filtered, limit, purpose, listed, items>>,
         target' = Own, pinned' \subseteq Public, contacts' \subseteq {Own} \X Public,
         (\A w \in heard' : w <= wait') /\ wait' \in heard' \cup {0},
         requests' = requests + (hops' - hops) + (OneMore' - OneMore), hops' + OneMore' <= MaxRedirects + 1
  PROVE  ConnectorInv'
<1>1. DiscourseStands /\ ConnectorTyped
  BY InvFacts
<1>2. Documents' = Documents /\ (purpose # "token" /\ DetailBudget(listed)' = DetailBudget(listed))
  BY <1>1 DEF Documents, DiscourseStands, DetailBudget, LesserOf
<1>3. progress' # "failed" /\ progress' # "done" /\ progress' \notin {"new", "ready"} /\ progress # "failed"
  BY DEF Asking
<1>4. /\ AllowedFor(Documents)' = AllowedFor(Documents)
      /\ AllowedFor(1 + LesserOf(limit, MaxTopics))' = AllowedFor(1 + LesserOf(limit, MaxTopics))
  BY <1>2 DEF AllowedFor, LesserOf
<1>5. /\ requests' <= AllowedFor(Documents) + hops' + OneMore'
      /\ requests' <= AllowedFor(1 + LesserOf(limit, MaxTopics))
  <2> DEFINE here == AllowedFor(Documents)
             there == AllowedFor(1 + LesserOf(limit, MaxTopics))
  <2>1. here \in Nat /\ here + MaxRedirects + 1 <= there /\ there \in Nat
    <3>1. Documents \in Nat /\ here \in Nat /\ AllowedFor(Documents + 1) = here + MaxRedirects + 1
          /\ AllowedFor(Documents + 1) <= there
      BY <1>1, DocumentsLeft
    <3>2. LesserOf(limit, MaxTopics) \in Nat
      BY <1>1, TypedFacts DEF LesserOf
    <3>3. QED
      BY <3>1, <3>2, AllowedFacts
  <2> DEFINE sentBefore == requests
             sentNow == requests'
             hopsBefore == hops
             hopsNow == hops'
             oneBefore == OneMore
             one == OneMore'
  <2>2. sentBefore \in Nat /\ hopsBefore \in Nat /\ oneBefore \in Nat
        /\ sentNow \in Nat /\ hopsNow \in Nat /\ one \in Nat /\ MaxRedirects \in Nat
    <3>1. requests \in Nat /\ hops \in Nat /\ MaxRedirects \in Nat
      BY <1>1, TypedFacts
    <3>2. requests' \in Nat /\ hops' \in Nat
      BY DEF ConnectorTyped, ConnectorTypeOK
    <3>3. OneMore \in Nat /\ OneMore' \in Nat
      BY DEF OneMore
    <3>4. QED
      BY <3>1, <3>2, <3>3, Zenon
  <2>3. sentBefore <= here + hopsBefore + oneBefore
    BY <1>1 DEF DiscourseStands
  <2>4. sentNow = sentBefore + (hopsNow - hopsBefore) + (one - oneBefore) /\ hopsNow + one <= MaxRedirects + 1
    OBVIOUS
  <2> HIDE DEF here, there, sentBefore, sentNow, hopsBefore, hopsNow, oneBefore, one
  <2>5. sentNow <= here + hopsNow + one
    BY <2>1, <2>2, <2>3, <2>4
  <2>6. sentNow <= there
    BY <2>1, <2>2, <2>4, <2>5
  <2>7. QED
    BY <2>5, <2>6 DEF there, sentNow, here, hopsNow, one
<1>6. DiscourseStands'
  BY <1>1, <1>2, <1>3, <1>4, <1>5 DEF DiscourseStands
<1>7. QED
  BY <1>3, <1>6, KindKept

LEMMA ValidateKeeps ==
  ASSUME ConnectorInv, NEW answer \in Answers, ValidateRequestUrl(answer)
  PROVE  ConnectorInv'
<1>1. kind = "discourse" /\ progress = "asking" /\ DiscourseStands /\ ConnectorTyped
  BY InvFacts DEF ValidateRequestUrl
<1>2. UNCHANGED <<kind, filtered, limit, purpose, target, hops, listed, items, seen, requests, contacts, heard>>
  BY DEF ValidateRequestUrl, asked, gathered, sent
<1>3. CASE Approved(target, answer)
  <2>1. progress' = "send" /\ Pin(answer) /\ wait' = wait
    BY <1>3 DEF ValidateRequestUrl, Move
  <2>2. pinned' \subseteq Public
    BY <1>3, <2>1 DEF Pin, Approved
  <2>3. ConnectorTyped'
    BY <1>1, <1>2, <2>1, <2>2 DEF ConnectorTyped, ConnectorTypeOK
  <2>4. OneMore = 0 /\ OneMore' = 0 /\ progress \in Asking /\ progress' \in Asking /\ progress # "failed"
    BY <1>1, <2>1 DEF OneMore, Asking
  <2>5. requests' = requests + (hops' - hops) + (OneMore' - OneMore) /\ hops' + OneMore' <= MaxRedirects + 1
    BY <1>1, <1>2, <2>4, NumberFacts
  <2>6. QED
    BY <1>1, <1>2, <2>1, <2>2, <2>3, <2>4, <2>5, WithinDocument DEF DiscourseStands
<1>4. CASE ~Approved(target, answer)
  <2>1. progress' = "failed" /\ wait' = 0 /\ pinned' = pinned
    BY <1>4 DEF ValidateRequestUrl, FailWith, Move
  <2>2. heard' \subseteq 0..MaxWait /\ wait' \in 0..MaxWait
    BY <1>1, <1>2, <2>1, ConnectorAssumption DEF ConnectorTyped, ConnectorTypeOK
  <2>3. QED
    BY <1>2, <2>1, <2>2, FailureKeeps
<1>5. QED
  BY <1>3, <1>4

LEMMA SendKeeps ==
  ASSUME ConnectorInv, SendRequest
  PROVE  ConnectorInv'
<1>1. progress = "send" /\ progress' = "answered" /\ ConnectorTyped /\ OneMore = 0 /\ OneMore' = 1
      /\ progress \in Asking /\ progress' \in Asking /\ progress' # "asking" /\ progress' # "done"
      /\ progress' \notin {"new", "ready"}
  BY InvFacts DEF SendRequest, Move, OneMore, Asking
<1>2. UNCHANGED <<kind, filtered, limit, purpose, target, pinned, hops, listed, items, seen, wait, heard>>
      /\ requests' = requests + 1
  BY DEF SendRequest, asked, gathered, sent, Idle
<1>3. ConnectorTyped'
  BY <1>1, <1>2 DEF ConnectorTyped, ConnectorTypeOK
<1>4. CASE kind = "discourse"
  <2>1. DiscourseStands
    BY <1>4, InvFacts
  <2>2. contacts' \subseteq {Own} \X Public
    BY <2>1 DEF SendRequest, DiscourseStands
  <2>3. requests' = requests + (hops' - hops) + (OneMore' - OneMore) /\ hops' + OneMore' <= MaxRedirects + 1
    BY <1>1, <1>2, NumberFacts
  <2>4. (\A w \in heard : w <= wait) /\ wait \in heard \cup {0} /\ target = Own /\ pinned \subseteq Public
    BY <1>1, <2>1 DEF DiscourseStands
  <2>5. QED
    BY <1>1, <1>2, <1>3, <1>4, <2>2, <2>3, <2>4, WithinDocument
<1>5. CASE kind = "feed"
  <2>1. FeedStands /\ FetchBudget' = FetchBudget
        /\ LesserOf(limit * Factor, GreaterOf(Cap, limit))' = LesserOf(limit * Factor, GreaterOf(Cap, limit))
    BY <1>2, <1>5, InvFacts DEF FetchBudget, LesserOf, GreaterOf
  <2> DEFINE most == LesserOf(limit * Factor, GreaterOf(Cap, limit))
  <2>2. FetchBudget \in Nat /\ FetchBudget <= most /\ most \in Nat
    <3>1. limit * Factor \in Nat /\ limit \in Nat /\ Cap \in Nat
      BY <1>1, TypedFacts, FactorFacts, ConnectorAssumption
    <3>2. most \in Nat
      BY <3>1 DEF LesserOf, GreaterOf
    <3>3. QED
      BY <1>1, <3>2, BudgetFits
  <2>3. purpose \in {"list", "detail"} /\ Len(listed) <= FetchBudget
    BY <1>1, <2>1 DEF FeedStands, ConnectorTyped, ConnectorTypeOK
  <2>4. purpose = "list" => requests = 0 /\ requests' = OneMore'
    BY <1>1, <1>2, <2>1 DEF FeedStands
  <2>5. purpose = "detail" => seen < Len(listed) /\ requests' = 1 + seen + OneMore'
    BY <1>1, <1>2, <2>1, NumberFacts DEF FeedStands
  <2> HIDE DEF most
  <2>6. requests' <= 1 + most
    <3>1. seen \in Nat /\ Len(listed) \in Nat /\ OneMore' = 1
      BY <1>1, NumberFacts
    <3>2. CASE purpose = "list"
      BY <2>2, <2>4, <3>1, <3>2
    <3>3. CASE purpose = "detail"
      <4>1. seen < Len(listed) /\ requests' = 1 + seen + 1
        BY <2>5, <3>1, <3>3
      <4>2. QED
        BY <2>2, <2>3, <3>1, <4>1
    <3>4. QED
      BY <2>3, <3>2, <3>3
  <2>7. requests' <= 1 + LesserOf(limit * Factor, GreaterOf(Cap, limit))
    BY <2>6 DEF most
  <2>8. FeedStands'
    BY <1>1, <1>2, <2>1, <2>4, <2>5, <2>7 DEF FeedStands
  <2>9. QED
    BY <1>1, <1>2, <1>3, <1>5, <2>8, KindKept
<1>6. CASE kind \in {"page", "reddit"}
  <2>1. PageStands
    BY <1>6, InvFacts
  <2>2. purpose \in {"list", "token"} /\ requests' = requests + 1 /\ requests \in Nat
    BY <1>1, <1>2, <2>1, TypedFacts DEF PageStands, ConnectorTyped, ConnectorTypeOK
  <2>3. PageStands'
    BY <1>1, <1>2, <2>1, <2>2 DEF PageStands
  <2>4. QED
    BY <1>1, <1>2, <1>3, <1>6, <2>3, KindKept
<1>7. QED
  BY <1>4, <1>5, <1>6, InvFacts

LEMMA RequestFailsKeeps ==
  ASSUME ConnectorInv, RequestFails
  PROVE  ConnectorInv'
<1>1. wait' \in 0..MaxWait /\ heard' \subseteq 0..MaxWait
  BY InvFacts, WaitFacts DEF RequestFails, FailWith
<1>2. QED
  BY <1>1, FailureKeeps DEF RequestFails, FailWith, Move, Idle, asked, gathered, sent

LEMMA HttpErrorKeeps ==
  ASSUME ConnectorInv, NEW w \in 0..MaxWait, HttpError(w)
  PROVE  ConnectorInv'
<1>1. wait' \in 0..MaxWait /\ heard' \subseteq 0..MaxWait
  BY InvFacts, WaitFacts DEF HttpError, FailWith
<1>2. QED
  BY <1>1, FailureKeeps DEF HttpError, FailWith, Move, Idle, asked, gathered, sent

LEMMA HearFacts ==
  ASSUME ConnectorTyped, NEW w \in 0..MaxWait, HearRetryAfter(w)
  PROVE  /\ wait' \in 0..MaxWait /\ heard' \subseteq 0..MaxWait
         /\ (\A v \in heard : v <= wait) /\ wait \in heard \cup {0} =>
              (\A v \in heard' : v <= wait') /\ wait' \in heard' \cup {0}
<1>1. MaxWait \in Nat /\ wait \in 0..MaxWait /\ heard \in SUBSET (0..MaxWait)
  BY WaitFacts
<1>2. heard' = heard \cup {w} /\ (wait' = wait \/ wait' = w) /\ wait <= wait' /\ w <= wait'
  BY <1>1 DEF HearRetryAfter, GreaterOf
<1>3. wait' \in 0..MaxWait /\ heard' \subseteq 0..MaxWait
  BY <1>1, <1>2
<1>4. ASSUME \A v \in heard : v <= wait PROVE \A v \in heard' : v <= wait'
  BY <1>1, <1>2, <1>4
<1>5. ASSUME wait \in heard \cup {0} PROVE wait' \in heard' \cup {0}
  BY <1>2, <1>5
<1>6. QED
  BY <1>3, <1>4, <1>5

LEMMA RedirectedKeeps ==
  ASSUME ConnectorInv, NEW w \in 0..MaxWait, NEW to \in {Own, Other}, NEW answer \in Answers,
         Redirected(w, to, answer)
  PROVE  ConnectorInv'
<1>1. kind = "discourse" /\ progress = "answered" /\ DiscourseStands /\ ConnectorTyped
  BY InvFacts DEF Redirected
<1>2. UNCHANGED <<kind, filtered, limit, purpose, pinned, listed, items, seen, requests, contacts>>
  BY DEF Redirected, asked, gathered, sent
<1>3. CASE hops < MaxRedirects /\ Approved(to, answer)
  <2>1. progress' = "asking" /\ target' = Own /\ hops' = hops + 1 /\ HearRetryAfter(w)
    BY <1>3 DEF Redirected, Move, Approved
  <2>2. wait' \in 0..MaxWait /\ heard' \subseteq 0..MaxWait /\ hops' \in 0..MaxRedirects
    <3>1. hops \in Nat /\ MaxRedirects \in Nat
      BY <1>1, NumberFacts
    <3>2. QED
      BY <1>1, <1>3, <2>1, <3>1, HearFacts
  <2>3. ConnectorTyped'
    BY <1>1, <1>2, <2>1, <2>2 DEF ConnectorTyped, ConnectorTypeOK
  <2>4. OneMore = 1 /\ OneMore' = 0 /\ progress \in Asking /\ progress' \in Asking /\ progress # "failed"
    BY <1>1, <2>1 DEF OneMore, Asking
  <2>5. requests' = requests + (hops' - hops) + (OneMore' - OneMore) /\ hops' + OneMore' <= MaxRedirects + 1
    BY <1>1, <1>2, <1>3, <2>1, <2>4, NumberFacts
  <2>6. (\A v \in heard' : v <= wait') /\ wait' \in heard' \cup {0}
    BY <1>1, <2>1, <2>4, HearFacts DEF DiscourseStands
  <2>7. pinned' \subseteq Public /\ contacts' \subseteq {Own} \X Public
    BY <1>1, <1>2 DEF DiscourseStands
  <2>8. QED
    BY <1>1, <1>2, <2>1, <2>3, <2>4, <2>5, <2>6, <2>7, WithinDocument
<1>4. CASE ~(hops < MaxRedirects /\ Approved(to, answer))
  <2>1. progress' = "failed" /\ wait' = 0 /\ UNCHANGED <<target, hops>> /\ heard' = heard \cup {w}
    BY <1>4 DEF Redirected, FailWith, Move
  <2>2. heard' \subseteq 0..MaxWait /\ wait' \in 0..MaxWait
    BY <1>1, <2>1, WaitFacts
  <2>3. QED
    BY <1>2, <2>1, <2>2, FailureKeeps
<1>5. QED
  BY <1>3, <1>4

LEMMA RedditTokenKeeps ==
  ASSUME ConnectorInv, RedditToken
  PROVE  ConnectorInv'
<1>1. progress = "answered" /\ purpose = "token" /\ purpose' = "list" /\ progress' = "send" /\ ConnectorTyped
      /\ UNCHANGED <<kind, filtered, limit, target, pinned, hops, listed, items, seen, requests, contacts, wait, heard>>
  BY InvFacts DEF RedditToken, Move, asked, gathered, sent
<1>2. progress \in Asking /\ progress' \notin {"asking", "done", "new", "ready"} /\ OneMore = 1 /\ OneMore' = 0
  BY <1>1 DEF Asking, OneMore
<1>3. kind \in {"page", "reddit"} /\ PageStands
  BY <1>1, <1>2, InvFacts DEF DiscourseStands, FeedStands
<1>4. kind = "reddit" /\ requests = OneMore
  BY <1>1, <1>2, <1>3 DEF PageStands
<1>5. ConnectorTyped'
  BY <1>1 DEF ConnectorTyped, ConnectorTypeOK
<1>6. PageStands'
  BY <1>1, <1>2, <1>3, <1>4 DEF PageStands
<1>7. QED
  BY <1>1, <1>2, <1>3, <1>5, <1>6, KindKept

\* What is made of the entries, read or taken as they were listed.
TakenAs(entries, made) ==
  [i \in DOMAIN entries |-> IF i > Len(made) THEN <<entries[i], FALSE>> ELSE made[i]]

LEMMA TakenFacts ==
  ASSUME NEW entries \in Seq(Entries), NEW made \in Seq(Made), Len(made) <= Len(entries)
  PROVE  /\ TakenAs(entries, made) \in Seq(Made)
         /\ Len(TakenAs(entries, made)) = Len(entries)
         /\ DOMAIN TakenAs(entries, made) = 1..Len(entries)
         /\ \A i \in 1..Len(entries) :
              TakenAs(entries, made)[i] = IF i > Len(made) THEN <<entries[i], FALSE>> ELSE made[i]
<1> DEFINE n == Len(entries)
           value(i) == IF i > Len(made) THEN <<entries[i], FALSE>> ELSE made[i]
<1>1. n \in Nat /\ DOMAIN entries = 1..n /\ Len(made) \in Nat /\ DOMAIN made = 1..Len(made)
  OBVIOUS
<1>2. TakenAs(entries, made) = [i \in 1..n |-> value(i)]
  BY <1>1 DEF TakenAs
<1>3. ASSUME NEW i \in 1..n PROVE value(i) \in Made
  <2>1. entries[i] \in Entries
    BY <1>1, <1>3
  <2>2. <<entries[i], FALSE>> \in Made
    BY <2>1 DEF Made
  <2>3. ~(i > Len(made)) => made[i] \in Made
    BY <1>1, <1>3
  <2>4. QED
    BY <2>2, <2>3
<1>4. \A i \in 1..n : value(i) = IF i > Len(made) THEN <<entries[i], FALSE>> ELSE made[i]
  OBVIOUS
<1> HIDE DEF value, n
<1>5. [i \in 1..n |-> value(i)] \in Seq(Made) /\ Len([i \in 1..n |-> value(i)]) = n
  BY <1>1, <1>3
<1>6. QED
  BY <1>1, <1>2, <1>4, <1>5 DEF n

\* Reading on: the next topic within the budget, or the end of the fetch.
LEMMA ContinueKeeps ==
  ASSUME ConnectorInv, kind = "discourse", progress = "answered",
         NEW entries \in Seq(Entries), Len(entries) <= limit, Len(entries) <= MaxListed,
         NEW made \in Seq(Made), Len(made) = Documents, Len(made) <= DetailBudget(entries),
         \A i \in DOMAIN made : made[i] = <<entries[i], TRUE>>,
         Continue(entries, made), NEW w \in 0..MaxWait, Settled(w),
         UNCHANGED <<asked, pinned, seen, sent>>
  PROVE  ConnectorInv'
<1>1. DiscourseStands /\ ConnectorTyped /\ progress \in Asking /\ progress # "failed" /\ OneMore = 1
  BY InvFacts DEF Asking, OneMore
<1>2. UNCHANGED <<kind, filtered, limit, pinned, seen, requests, contacts>> /\ listed' = entries
  BY DEF asked, sent, Continue
<1>3. Len(made) \in Nat /\ Len(entries) \in Nat /\ DOMAIN entries = 1..Len(entries) /\ DOMAIN made = 1..Len(made)
      /\ MaxTopics \in Nat /\ limit \in Nat /\ requests \in Nat /\ hops \in Nat /\ hops <= MaxRedirects
      /\ MaxRedirects \in Nat /\ MaxListed \in Nat /\ seen \in Nat
  BY <1>1, TypedFacts
<1>4. DetailBudget(entries) \in Nat /\ DetailBudget(entries) <= Len(entries) /\ DetailBudget(entries) <= MaxTopics
      /\ (DetailBudget(entries) = Len(entries) \/ DetailBudget(entries) = MaxTopics)
  BY <1>3 DEF DetailBudget, LesserOf
<1>5. wait' \in 0..MaxWait /\ heard' \in SUBSET (0..MaxWait)
      /\ (progress' # "failed" => (\A v \in heard' : v <= wait') /\ wait' \in heard' \cup {0})
  <2>1. CASE progress' = "failed"
    <3>1. heard' = heard \cup {w} /\ wait' = 0
      BY <2>1 DEF Settled
    <3>2. QED
      BY <1>1, <2>1, <3>1, WaitFacts
  <2>2. CASE progress' # "failed"
    <3>1. HearRetryAfter(w)
      BY <2>2 DEF Settled
    <3>2. QED
      BY <1>1, <3>1, HearFacts DEF DiscourseStands
  <2>3. QED
    BY <2>1, <2>2
<1>6. target' = Own /\ pinned' \subseteq Public /\ contacts' \subseteq {Own} \X Public
  BY <1>1, <1>2 DEF DiscourseStands, Continue
<1>7. requests' <= AllowedFor(1 + LesserOf(limit, MaxTopics))
      /\ AllowedFor(1 + LesserOf(limit, MaxTopics))' = AllowedFor(1 + LesserOf(limit, MaxTopics))
      /\ limit' <= MaxResults /\ Len(listed') <= limit'
  BY <1>1, <1>2 DEF DiscourseStands, AllowedFor, LesserOf
<1>8. CASE Len(made) < DetailBudget(entries)
  <2>1. purpose' = "detail" /\ hops' = 0 /\ items' = made /\ progress' \in {"failed", "asking"}
    BY <1>8 DEF Continue, Move
  <2>2. ConnectorTyped'
    <3>1. Len(items') <= MaxListed /\ Len(listed') <= MaxListed
      BY <1>2, <1>3, <1>4, <2>1
    <3>2. QED
      BY <1>1, <1>2, <1>3, <1>5, <1>6, <2>1, <3>1 DEF ConnectorTyped, ConnectorTypeOK
  <2>3. Documents' = Documents + 1 /\ OneMore' = 0
    <3>1. Documents' = 1 + Len(made) /\ OneMore' = 0
      BY <2>1 DEF Documents, OneMore
    <3>2. QED
      BY <1>3, <3>1
  <2>4. AllowedFor(Documents)' = AllowedFor(Documents + 1)
    BY <2>3 DEF AllowedFor
  <2>5. requests' <= AllowedFor(Documents)' + hops' + OneMore'
    <3> DEFINE now == AllowedFor(Documents)
               next == AllowedFor(Documents + 1)
    <3>1. now \in Nat /\ next = now + MaxRedirects + 1
      BY <1>1, DocumentsLeft
    <3>2. requests <= now + hops + OneMore
      BY <1>1 DEF DiscourseStands
    <3> HIDE DEF now, next
    <3>3. requests <= next /\ next \in Nat
      BY <1>1, <1>3, <3>1, <3>2
    <3>4. requests' <= next + 0 + 0
      BY <1>2, <1>3, <3>3
    <3>5. QED
      BY <2>1, <2>3, <2>4, <3>4 DEF next
  <2>6. DetailBudget(listed)' = DetailBudget(entries)
    BY <1>2 DEF DetailBudget, LesserOf
  <2>7. Len(items') < DetailBudget(listed)' /\ \A i \in DOMAIN (items') : items'[i] = <<listed'[i], TRUE>>
    BY <1>2, <1>8, <2>1, <2>6
  <2>8. progress' # "done" /\ purpose' # "token"
    BY <2>1
  <2>9. DiscourseStands'
    BY <1>5, <1>6, <1>7, <2>5, <2>7, <2>8 DEF DiscourseStands
  <2>10. QED
    BY <1>2, <2>1, <2>2, <2>9, KindKept
<1>9. CASE ~(Len(made) < DetailBudget(entries))
  <2>1. purpose' = purpose /\ hops' = hops /\ progress' \in {"failed", "done"} /\ items' = TakenAs(entries, made)
    <3>1. items' = [i \in DOMAIN entries |->
                      IF i \in {j \in DOMAIN entries : j > Len(made)} THEN <<entries[i], FALSE>> ELSE made[i]]
          /\ purpose' = purpose /\ hops' = hops /\ progress' \in {"failed", "done"}
      BY <1>9 DEF Continue, Move
    <3>2. QED
      BY <3>1 DEF TakenAs
  <2>2. Len(made) = DetailBudget(entries) /\ Len(made) <= Len(entries)
    BY <1>3, <1>4, <1>9
  <2>3. items' \in Seq(Made) /\ Len(items') = Len(entries) /\ DOMAIN (items') = 1..Len(entries)
        /\ \A i \in 1..Len(entries) : items'[i] = IF i > Len(made) THEN <<entries[i], FALSE>> ELSE made[i]
    BY <2>1, <2>2, TakenFacts
  <2>4. ConnectorTyped'
    BY <1>1, <1>2, <1>3, <1>5, <1>6, <2>1, <2>3 DEF ConnectorTyped, ConnectorTypeOK
  <2>5. ASSUME NEW i \in DOMAIN (items') PROVE items'[i] = <<listed'[i], i <= MaxTopics>>
    <3>1. i \in 1..Len(entries) /\ listed'[i] = entries[i]
      BY <1>2, <2>3, <2>5
    <3>2. CASE i > Len(made)
      <4>1. (i <= MaxTopics) = FALSE
        BY <1>3, <1>4, <2>2, <3>1, <3>2
      <4>2. items'[i] = <<entries[i], FALSE>>
        BY <2>3, <3>1, <3>2
      <4>3. QED
        BY <3>1, <4>1, <4>2
    <3>3. CASE ~(i > Len(made))
      <4>1. (i <= MaxTopics) = TRUE /\ i \in DOMAIN made
        BY <1>3, <1>4, <2>2, <3>1, <3>3
      <4>2. items'[i] = made[i] /\ made[i] = <<entries[i], TRUE>>
        BY <2>3, <3>1, <3>3, <4>1
      <4>3. QED
        BY <3>1, <4>1, <4>2
    <3>4. QED
      BY <3>2, <3>3
  <2>6. progress' \notin Asking /\ Len(items') = Len(listed') /\ progress' \notin {"new", "ready"}
    BY <1>2, <2>1, <2>3 DEF Asking
  <2>7. DiscourseStands'
    BY <1>5, <1>6, <1>7, <2>5, <2>6 DEF DiscourseStands
  <2>8. QED
    BY <1>2, <2>4, <2>6, <2>7, KindKept
<1>10. QED
  BY <1>8, <1>9

LEMMA TopicsListedKeeps ==
  ASSUME ConnectorInv, NEW w \in 0..MaxWait, NEW list \in Lists, TopicsListed(w, list)
  PROVE  ConnectorInv'
<1>1. kind = "discourse" /\ progress = "answered" /\ purpose = "list" /\ ConnectorTyped
  BY InvFacts DEF TopicsListed
<1>2. Prefix(list, limit) \in Seq(Entries) /\ Len(Prefix(list, limit)) \in Nat
      /\ Len(Prefix(list, limit)) <= limit /\ Len(Prefix(list, limit)) <= MaxListed
  BY <1>1, TypedFacts, PrefixFacts
<1>3. Documents = 0 /\ <<>> \in Seq(Made) /\ Len(<<>>) = 0 /\ DOMAIN <<>> = {}
  BY <1>1 DEF Documents
<1>4. 0 <= DetailBudget(Prefix(list, limit))
  BY <1>2, ConnectorAssumption DEF DetailBudget, LesserOf
<1>5. Continue(Prefix(list, limit), <<>>) /\ Settled(w) /\ UNCHANGED <<asked, pinned, seen, sent>>
  BY DEF TopicsListed
<1> DEFINE entries == Prefix(list, limit)
           made == <<>>
<1>6. made \in Seq(Made) /\ Len(made) = Documents /\ Len(made) <= DetailBudget(entries)
      /\ \A i \in DOMAIN made : made[i] = <<entries[i], TRUE>>
  BY <1>3, <1>4
<1>7. entries \in Seq(Entries) /\ Len(entries) <= limit /\ Len(entries) <= MaxListed /\ Continue(entries, made)
  BY <1>2, <1>5
<1> HIDE DEF entries, made
<1>8. QED
  BY <1>1, <1>5, <1>6, <1>7, ContinueKeeps

LEMMA TopicDetailKeeps ==
  ASSUME ConnectorInv, NEW w \in 0..MaxWait, TopicDetail(w)
  PROVE  ConnectorInv'
<1>1. kind = "discourse" /\ progress = "answered" /\ purpose = "detail" /\ ConnectorTyped /\ DiscourseStands
      /\ progress \in Asking
  BY InvFacts DEF TopicDetail, Asking
<1> DEFINE item == <<listed[Len(items) + 1], TRUE>>
           made == Append(items, item)
<1>2. items \in Seq(Made) /\ listed \in Seq(Entries) /\ Len(items) \in Nat /\ Len(listed) \in Nat
      /\ Len(listed) <= limit /\ Len(listed) <= MaxListed /\ MaxTopics \in Nat
  BY <1>1, TypedFacts DEF ConnectorTyped, ConnectorTypeOK, DiscourseStands
<1>3. Len(items) < DetailBudget(listed) /\ \A i \in DOMAIN items : items[i] = <<listed[i], TRUE>>
  BY <1>1 DEF DiscourseStands
<1>4. Len(items) + 1 <= DetailBudget(listed) /\ Len(items) + 1 <= Len(listed)
  BY <1>2, <1>3 DEF DetailBudget, LesserOf
<1>5. item \in Made
  <2>1. Len(items) + 1 \in 1..Len(listed)
    BY <1>2, <1>4
  <2>2. listed[Len(items) + 1] \in Entries
    BY <1>2, <2>1
  <2>3. QED
    BY <2>2 DEF Made
<1>6. made = Append(items, <<listed[Len(items) + 1], TRUE>>)
  OBVIOUS
<1>7. item = <<listed[Len(items) + 1], TRUE>>
  OBVIOUS
<1> HIDE DEF item
<1>8. made \in Seq(Made) /\ Len(made) = Len(items) + 1 /\ DOMAIN made = 1..(Len(items) + 1)
      /\ made[Len(items) + 1] = item /\ \A i \in 1..Len(items) : made[i] = items[i]
  BY <1>2, <1>5
<1>9. Len(made) = Documents
  BY <1>1, <1>2, <1>8 DEF Documents
<1> HIDE DEF made
<1>10. ASSUME NEW i \in DOMAIN made PROVE made[i] = <<listed[i], TRUE>>
  <2>1. i \in 1..(Len(items) + 1) /\ DOMAIN items = 1..Len(items)
    BY <1>2, <1>8, <1>10
  <2>2. CASE i = Len(items) + 1
    BY <1>7, <1>8, <2>2
  <2>3. CASE i # Len(items) + 1
    <3>1. i \in 1..Len(items) /\ i \in DOMAIN items
      BY <1>2, <2>1, <2>3
    <3>2. QED
      BY <1>3, <1>8, <3>1
  <2>4. QED
    BY <2>2, <2>3
<1>11. Continue(listed, made) /\ Settled(w) /\ UNCHANGED <<asked, pinned, seen, sent>>
  BY <1>6 DEF TopicDetail
<1>12. Len(made) <= DetailBudget(listed)
  BY <1>4, <1>8
<1>13. QED
  BY <1>1, <1>2, <1>8, <1>9, <1>10, <1>11, <1>12, ContinueKeeps

(* ---- one page, and the feed ----------------------------------------------------- *)
Under(S, i) == {j \in S : j < i}

\* A finite set of numbers has an element of every rank.
LEMMA EachRankIsTaken ==
  ASSUME NEW S \in SUBSET Nat, IsFiniteSet(S), NEW n \in 1..Cardinality(S)
  PROVE  \E i \in S : Cardinality(Under(S, i)) = n - 1
<1> DEFINE Taken(k) == \E i \in S : Cardinality(Under(S, i)) = k - 1
           Missing == {k \in 1..Cardinality(S) : ~Taken(k)}
<1>1. Cardinality(S) \in Nat
  BY FS_CardinalityType
<1>2. \A i \in S : i \in Nat /\ IsFiniteSet(Under(S, i)) /\ i \notin Under(S, i)
  <2>1. \A i \in S : Under(S, i) \in SUBSET S
    BY DEF Under
  <2>2. QED
    BY <2>1, FS_Subset DEF Under
<1>3. \A i \in S : IsFiniteSet(Under(S, i) \cup {i})
                  /\ Cardinality(Under(S, i) \cup {i}) = Cardinality(Under(S, i)) + 1
  BY <1>2, FS_AddElement
<1>4. SUFFICES Missing = {}
  OBVIOUS
<1>5. SUFFICES ASSUME Missing # {} PROVE FALSE
  OBVIOUS
<1>6. Missing \in SUBSET Nat
  BY <1>1
<1> HIDE DEF Missing
<1>7. PICK k \in Missing : \A m \in Missing : k <= m
  BY <1>5, <1>6, LeastExists
<1>8. k \in 1..Cardinality(S) /\ ~Taken(k)
  BY <1>7 DEF Missing
<1>9. CASE k = 1
  <2>1. S # {}
    BY <1>1, <1>8, FS_EmptySet
  <2>2. PICK i \in S : \A j \in S : i <= j
    BY <2>1, LeastExists
  <2>3. Under(S, i) = {}
    <3>1. \A j \in S : ~(j < i)
      BY <2>2
    <3>2. QED
      BY <3>1 DEF Under
  <2>4. Cardinality(Under(S, i)) = 0
    BY <2>3, FS_EmptySet
  <2>5. QED
    BY <1>8, <1>9, <2>4
<1>10. CASE k # 1
  <2>1. k - 1 \in 1..Cardinality(S) /\ k - 1 < k
    BY <1>1, <1>8, <1>10
  <2>2. k - 1 \notin Missing
    BY <1>1, <1>7, <1>8, <2>1
  <2>3. Taken(k - 1)
    BY <2>1, <2>2 DEF Missing
  <2>4. PICK i \in S : Cardinality(Under(S, i)) = k - 1 - 1
    BY <2>3
  <2> DEFINE Above == {j \in S : i < j}
  <2>5. Above # {}
    <3>1. SUFFICES ASSUME Above = {} PROVE FALSE
      OBVIOUS
    <3>2. \A j \in S : j < i \/ j = i
      BY <3>1
    <3>3. S = Under(S, i) \cup {i}
      BY <3>2 DEF Under
    <3>4. Cardinality(S) = k - 1 - 1 + 1
      BY <1>3, <2>4, <3>3
    <3>5. QED
      BY <1>1, <1>8, <3>4
  <2>6. PICK next \in Above : \A j \in Above : next <= j
    <3>1. Above \in SUBSET Nat
      OBVIOUS
    <3> HIDE DEF Above
    <3>2. QED
      BY <2>5, <3>1, LeastExists
  <2>7. next \in S /\ next \in Nat /\ i \in Nat /\ i < next
    BY <2>6
  <2>8. \A j \in S : j < next <=> (j < i \/ j = i)
    <3>1. ASSUME NEW j \in S PROVE j < next <=> (j < i \/ j = i)
      <4>1. j \in Nat /\ (i < j => next <= j)
        BY <2>6
      <4>2. QED
        BY <2>7, <4>1
    <3>2. QED
      BY <3>1
  <2>9. Under(S, next) = Under(S, i) \cup {i}
    BY <2>8 DEF Under
  <2>10. Cardinality(Under(S, next)) = k - 1
    BY <1>3, <1>8, <2>4, <2>9
  <2>11. QED
    BY <1>8, <2>7, <2>10
<1>11. QED
  BY <1>9, <1>10

LEMMA UsableFacts ==
  ASSUME NEW list \in Lists
  PROVE  /\ Cardinality(Usable(list)) \in 0..MaxListed
         /\ \A n \in 1..Cardinality(Usable(list)) : UsableAt(list, n) \in Usable(list) /\ list[UsableAt(list, n)] \in Entries
<1>1. list \in Seq(Entries) /\ Len(list) \in 0..MaxListed /\ DOMAIN list = 1..Len(list) /\ MaxListed \in Nat
  BY ListFacts, ConnectorAssumption
<1>2. Usable(list) \in SUBSET (1..Len(list)) /\ Usable(list) \in SUBSET Nat
  BY <1>1 DEF Usable
<1>3. IsFiniteSet(1..Len(list)) /\ Cardinality(1..Len(list)) = Len(list)
  BY <1>1, FirstNumbers
<1>4. IsFiniteSet(Usable(list)) /\ Cardinality(Usable(list)) <= Len(list)
  BY <1>2, <1>3, FS_Subset
<1>5. Cardinality(Usable(list)) \in Nat
  BY <1>4, FS_CardinalityType
<1>6. ASSUME NEW n \in 1..Cardinality(Usable(list)) PROVE UsableAt(list, n) \in Usable(list)
  <2>1. \E i \in Usable(list) : Cardinality(Under(Usable(list), i)) = n - 1
    BY <1>2, <1>4, EachRankIsTaken
  <2>2. UsableAt(list, n) = CHOOSE i \in Usable(list) : Cardinality(Under(Usable(list), i)) = n - 1
    BY DEF UsableAt, Under
  <2>3. QED
    BY <2>1, <2>2
<1>7. QED
  BY <1>1, <1>2, <1>4, <1>5, <1>6

LEMMA PageListedKeeps ==
  ASSUME ConnectorInv, NEW list \in Lists, PageListed(list)
  PROVE  ConnectorInv'
<1>1. kind \in {"page", "reddit"} /\ progress = "answered" /\ ConnectorTyped /\ PageStands
  BY InvFacts DEF PageListed
<1>2. UNCHANGED <<kind, filtered, limit, seen, requests, contacts, wait, heard, purpose, target, pinned, hops>>
  BY DEF PageListed, asked, sent, Idle
<1>3. CASE kind = "page" /\ Usable(list) # DOMAIN list
  <2>1. progress' = "failed" /\ UNCHANGED <<listed, items>>
    BY <1>3 DEF PageListed, Move
  <2>2. wait' \in 0..MaxWait /\ heard' \subseteq 0..MaxWait
    BY <1>1, <1>2, WaitFacts
  <2>3. QED
    BY <1>2, <2>1, <2>2, FailureKeeps
<1>4. CASE ~(kind = "page" /\ Usable(list) # DOMAIN list)
  <2> DEFINE count == Cardinality(Usable(list))
             value(i) == <<list[UsableAt(list, i)], TRUE>>
  <2>1. progress' = "done" /\ listed' = list /\ items' = [i \in 1..count |-> value(i)]
    BY <1>4 DEF PageListed, Move
  <2>2. count \in 0..MaxListed /\ \A i \in 1..count : list[UsableAt(list, i)] \in Entries
    BY UsableFacts
  <2>3. \A i \in 1..count : value(i) \in Made
    BY <2>2 DEF Made
  <2> HIDE DEF count, value
  <2>4. count \in Nat /\ count <= MaxListed /\ MaxListed \in Nat
    BY <2>2, ConnectorAssumption
  <2>5. items' \in Seq(Made) /\ Len(items') = count
    BY <2>1, <2>3, <2>4
  <2>6. listed' \in Seq(Entries) /\ Len(listed') \in 0..MaxListed
    BY <2>1, ListFacts
  <2>7. Len(items') <= MaxListed /\ Len(listed') <= MaxListed
    BY <2>4, <2>5, <2>6
  <2>8. ConnectorTyped'
    BY <1>1, <1>2, <2>1, <2>5, <2>6, <2>7 DEF ConnectorTyped, ConnectorTypeOK
  <2>9. PageStands'
    BY <1>1, <1>2, <2>1 DEF PageStands, Asking
  <2>10. QED
    BY <1>1, <1>2, <2>1, <2>8, <2>9, KindKept
<1>5. QED
  BY <1>3, <1>4

LEMMA FeedListedKeeps ==
  ASSUME ConnectorInv, NEW list \in Lists, FeedListed(list)
  PROVE  ConnectorInv'
<1>1. kind = "feed" /\ progress = "answered" /\ purpose = "list" /\ ConnectorTyped /\ FeedStands
      /\ progress \in Asking /\ OneMore = 1
  BY InvFacts DEF FeedListed, Asking, OneMore
<1>2. UNCHANGED <<kind, filtered, limit, target, pinned, hops, items, seen, requests, contacts, wait, heard>>
      /\ purpose' = "detail" /\ listed' = Prefix(list, FetchBudget)
  BY DEF FeedListed, asked, sent
<1>3. FetchBudget \in Nat /\ FetchBudget' = FetchBudget
      /\ LesserOf(limit * Factor, GreaterOf(Cap, limit))' = LesserOf(limit * Factor, GreaterOf(Cap, limit))
  BY <1>1, <1>2, BudgetFits DEF FetchBudget, LesserOf, GreaterOf
<1>4. listed' \in Seq(Entries) /\ Len(listed') \in Nat /\ Len(listed') <= FetchBudget /\ Len(listed') <= MaxListed
  BY <1>2, <1>3, PrefixFacts
<1>5. progress' = IF listed' = <<>> THEN "done" ELSE "send"
  BY DEF FeedListed, Move
<1>6. items = <<>> /\ seen = 0 /\ requests = 1 /\ Len(items) < limit /\ Len(items) = 0
  BY <1>1 DEF FeedStands
<1>7. ConnectorTyped'
  BY <1>1, <1>2, <1>4, <1>5 DEF ConnectorTyped, ConnectorTypeOK
<1>8. listed' = <<>> => Len(listed') = 0
  OBVIOUS
<1>9. listed' # <<>> => Len(listed') > 0
  BY <1>4
<1>10. CASE progress' = "send"
  <2>1. seen' < Len(listed') /\ requests' = 1 + seen' + OneMore'
    BY <1>2, <1>4, <1>5, <1>6, <1>9, <1>10 DEF OneMore
  <2>2. FeedStands'
    BY <1>1, <1>2, <1>3, <1>4, <1>6, <1>10, <2>1 DEF FeedStands
  <2>3. QED
    BY <1>1, <1>2, <1>7, <1>10, <2>2, KindKept
<1>11. CASE progress' = "done"
  <2>1. listed' = <<>> /\ Len(listed') = 0
    BY <1>5, <1>8, <1>11
  <2>2. Len(items') <= limit' /\ (Len(items') < limit' => seen' = Len(listed'))
    BY <1>1, <1>2, <1>6, <2>1, TypedFacts
  <2>3. FeedStands'
    BY <1>1, <1>2, <1>3, <1>4, <1>11, <2>2 DEF FeedStands, Asking
  <2>4. QED
    BY <1>1, <1>2, <1>7, <1>11, <2>3, KindKept
<1>12. QED
  BY <1>5, <1>10, <1>11

LEMMA FeedStoryKeeps ==
  ASSUME ConnectorInv, NEW matches \in BOOLEAN, FeedStory(matches)
  PROVE  ConnectorInv'
<1>1. kind = "feed" /\ progress = "answered" /\ purpose = "detail" /\ ConnectorTyped /\ FeedStands
      /\ progress \in Asking /\ OneMore = 1
  BY InvFacts DEF FeedStory, Asking, OneMore
<1>2. UNCHANGED <<kind, filtered, limit, target, pinned, hops, listed, requests, contacts, wait, heard, purpose>>
      /\ seen' = seen + 1
  BY DEF FeedStory, asked, sent, Idle
<1>3. Len(items) \in Nat /\ Len(listed) \in Nat /\ seen \in Nat /\ limit \in Nat /\ requests \in Nat
      /\ MaxListed \in Nat /\ items \in Seq(Made) /\ listed \in Seq(Entries) /\ Len(listed) <= MaxListed
  BY <1>1, TypedFacts DEF ConnectorTyped, ConnectorTypeOK
<1>4. seen < Len(listed) /\ requests = 1 + seen + 1 /\ Len(items) <= seen /\ Len(items) < limit
  BY <1>1 DEF FeedStands
<1> DEFINE item == <<listed[seen + 1], TRUE>>
<1>5. item \in Made
  <2>1. seen + 1 \in 1..Len(listed)
    BY <1>3, <1>4
  <2>2. listed[seen + 1] \in Entries
    BY <1>3, <2>1
  <2>3. QED
    BY <2>2 DEF Made
<1>6. items' = items \/ items' = Append(items, item)
  BY DEF FeedStory
<1> HIDE DEF item
<1>7. items' \in Seq(Made) /\ Len(items') \in Nat /\ Len(items') <= Len(items) + 1
  BY <1>3, <1>5, <1>6
<1>8. progress' = IF seen' = Len(listed) \/ Len(items') >= limit THEN "done" ELSE "send"
  BY <1>2 DEF FeedStory, Move
<1>9. ConnectorTyped'
  <2>1. seen' \in 0..MaxListed /\ Len(items') <= MaxListed
    BY <1>2, <1>3, <1>4, <1>7
  <2>2. QED
    BY <1>1, <1>2, <1>7, <1>8, <2>1 DEF ConnectorTyped, ConnectorTypeOK
<1>10. FetchBudget' = FetchBudget
      /\ LesserOf(limit * Factor, GreaterOf(Cap, limit))' = LesserOf(limit * Factor, GreaterOf(Cap, limit))
  BY <1>2 DEF FetchBudget, LesserOf, GreaterOf
<1>11. CASE progress' = "send"
  <2>1. seen' < Len(listed) /\ Len(items') < limit /\ Len(items') <= seen' /\ OneMore' = 0 /\ requests' = 1 + seen' + OneMore'
    BY <1>2, <1>3, <1>4, <1>7, <1>8, <1>11 DEF OneMore
  <2>2. FeedStands'
    BY <1>1, <1>2, <1>10, <1>11, <2>1 DEF FeedStands
  <2>3. QED
    BY <1>1, <1>2, <1>9, <1>11, <2>2, KindKept
<1>12. CASE progress' = "done"
  <2>1. Len(items') <= limit /\ (Len(items') < limit => seen' = Len(listed))
    BY <1>2, <1>3, <1>4, <1>7, <1>8, <1>12
  <2>2. FeedStands'
    BY <1>1, <1>2, <1>10, <1>12, <2>1 DEF FeedStands, Asking
  <2>3. QED
    BY <1>1, <1>2, <1>9, <1>12, <2>2, KindKept
<1>13. QED
  BY <1>8, <1>11, <1>12

(* ---- the fetch -------------------------------------------------------------------- *)
LEMMA ConnectorStep == ConnectorInv /\ [ConnectorNext]_connectorVars => ConnectorInv'
<1> SUFFICES ASSUME ConnectorInv, [ConnectorNext]_connectorVars PROVE ConnectorInv'
  OBVIOUS
<1>1. ASSUME NEW a \in Answers, Construct(a) \/ ValidateRequestUrl(a) PROVE ConnectorInv'
  BY <1>1, ConstructKeeps, ValidateKeeps
<1>2. ASSUME NEW n \in -1..MaxAsked, FetchResult(n) \/ Fetch(n) PROVE ConnectorInv'
  <2>1. n \in Int
    OBVIOUS
  <2>2. QED
    BY <1>2, <2>1, FetchResultKeeps, FetchKeeps
<1>3. ASSUME SendRequest \/ RequestFails \/ RedditToken PROVE ConnectorInv'
  BY <1>3, SendKeeps, RequestFailsKeeps, RedditTokenKeeps
<1>4. ASSUME NEW w \in 0..MaxWait, HttpError(w) \/ TopicDetail(w) PROVE ConnectorInv'
  BY <1>4, HttpErrorKeeps, TopicDetailKeeps
<1>5. ASSUME NEW w \in 0..MaxWait, NEW to \in {Own, Other}, NEW a \in Answers, Redirected(w, to, a)
      PROVE ConnectorInv'
  BY <1>5, RedirectedKeeps
<1>6. ASSUME NEW w \in 0..MaxWait, NEW list \in Lists, TopicsListed(w, list) PROVE ConnectorInv'
  BY <1>6, TopicsListedKeeps
<1>7. ASSUME NEW list \in Lists, PageListed(list) \/ FeedListed(list) PROVE ConnectorInv'
  BY <1>7, PageListedKeeps, FeedListedKeeps
<1>8. ASSUME NEW matches \in BOOLEAN, FeedStory(matches) PROVE ConnectorInv'
  BY <1>8, FeedStoryKeeps
<1>9. CASE UNCHANGED connectorVars
  <2>1. UNCHANGED <<kind, filtered, limit, progress, purpose, target, pinned, hops, listed, items, seen,
                    requests, contacts, wait, heard>>
    BY <1>9 DEF connectorVars
  <2>2. ConnectorTyped' = ConnectorTyped /\ Untouched' = Untouched
    BY <2>1 DEF ConnectorTyped, ConnectorTypeOK, Untouched
  <2>3. DiscourseStands' = DiscourseStands
    <3>1. DetailBudget(listed)' = DetailBudget(listed) /\ AllowedFor(Documents)' = AllowedFor(Documents)
          /\ AllowedFor(1 + LesserOf(limit, MaxTopics))' = AllowedFor(1 + LesserOf(limit, MaxTopics))
          /\ OneMore' = OneMore
      BY <2>1 DEF DetailBudget, AllowedFor, Documents, LesserOf, OneMore
    <3>2. QED
      BY <2>1, <3>1 DEF DiscourseStands
  <2>4. FeedStands' = FeedStands
    BY <2>1 DEF FeedStands, FetchBudget, LesserOf, GreaterOf, OneMore
  <2>5. PageStands' = PageStands
    BY <2>1 DEF PageStands, OneMore
  <2>6. QED
    BY <2>1, <2>2, <2>3, <2>4, <2>5 DEF ConnectorInv, KindStands
<1>10. QED
  BY <1>1, <1>2, <1>3, <1>4, <1>5, <1>6, <1>7, <1>8, <1>9, Zenon DEF ConnectorNext

\* What a fetch is bound to: its types, the number of its requests, its own origin,
\* the longest wait it heard, and the items it owes for what was listed.
LEMMA ConnectorSafe == ConnectorInv => FetchKeepsTerms
<1> SUFFICES ASSUME ConnectorInv PROVE FetchKeepsTerms
  OBVIOUS
<1>1. ConnectorTypeOK
  BY InvFacts DEF ConnectorTyped
<1>2. RequestsBounded
  <2>1. kind = "discourse" => requests <= (1 + LesserOf(limit, MaxTopics)) * (MaxRedirects + 1)
    BY InvFacts DEF DiscourseStands, AllowedFor
  <2>2. kind = "feed" => requests <= 1 + LesserOf(limit * Factor, GreaterOf(Cap, limit))
    BY InvFacts DEF FeedStands
  <2>3. kind \in {"page", "reddit"} => requests <= 2
    BY InvFacts DEF PageStands
  <2>4. QED
    BY <2>1, <2>2, <2>3 DEF RequestsBounded
<1>3. OnlyOwnPublicOrigin
  BY InvFacts DEF OnlyOwnPublicOrigin, DiscourseStands
<1>4. LongestWaitKept
  BY InvFacts DEF LongestWaitKept, DiscourseStands
<1>5. ItemsAreTheFirst
  <2>1. CASE kind = "discourse" /\ progress = "done"
    <3>1. DiscourseStands /\ ConnectorTyped
      BY <2>1, InvFacts
    <3>2. Len(items) = Len(listed) /\ \A i \in DOMAIN items : items[i] = <<listed[i], i <= MaxTopics>>
      BY <2>1, <3>1 DEF DiscourseStands
    <3>3. Len(items) <= MaxResults
      BY <3>1, <3>2, TypedFacts DEF DiscourseStands
    <3>4. QED
      BY <2>1, <3>2, <3>3 DEF ItemsAreTheFirst
  <2>2. CASE kind # "discourse" \/ progress # "done"
    BY <2>2, InvFacts DEF ItemsAreTheFirst, FeedStands
  <2>3. QED
    BY <2>1, <2>2
<1>6. QED
  BY <1>1, <1>2, <1>3, <1>4, <1>5 DEF FetchKeepsTerms

\* For every source, name service and limit: a fetch sends a bounded number of
\* requests, the Discourse one only to its own origin at a public address, keeps
\* the longest retry-after it heard, and returns the items it owes (connectors/).
THEOREM FetchesKeepTerms == ConnectorSpec => []FetchKeepsTerms
<1>1. ConnectorInit => ConnectorInv
  BY InitConnector
<1>2. ConnectorInv /\ [ConnectorNext]_connectorVars => ConnectorInv'
  BY ConnectorStep
<1>3. ConnectorInv => FetchKeepsTerms
  BY ConnectorSafe
<1>4. QED
  BY <1>1, <1>2, <1>3, PTL DEF ConnectorSpec

(* ---- PacketIntegrity -------------------------------------------------------- *)
\* The entries of a manifest list each file once, with its content.
ListsAll(entries, files) ==
  /\ EachOnce(entries) /\ Paths(entries) = DOMAIN files
  /\ \E n \in Nat : DOMAIN entries = 1..n
  /\ \A i, j \in DOMAIN entries : entries[i].path = entries[j].path => i = j
  /\ \A i \in DOMAIN entries : entries[i].sha = files[entries[i].path]

\* A finite set has an enumeration, and SetToSeq is one.
LEMMA Enumeration ==
  ASSUME NEW S, IsFiniteSet(S)
  PROVE  /\ Cardinality(S) \in Nat
         /\ SetToSeq(S) \in [1..Cardinality(S) -> S]
         /\ \A i, j \in 1..Cardinality(S) : SetToSeq(S)[i] = SetToSeq(S)[j] => i = j
         /\ \A x \in S : \E i \in 1..Cardinality(S) : SetToSeq(S)[i] = x
<1> DEFINE n == Cardinality(S)
<1>1. n \in Nat /\ ExistsBijection(1..n, S)
  BY FS_CardinalityType
<1>2. PICK f : f \in Bijection(1..n, S)
  BY <1>1 DEF ExistsBijection
<1>3. f \in [1..n -> S] /\ IsInjective(f)
  BY <1>2 DEF Bijection, Injection, IsInjective
<1>4. SetToSeq(S) \in [1..n -> S] /\ IsInjective(SetToSeq(S))
  BY <1>3 DEF SetToSeq
<1>5. \A i, j \in 1..n : SetToSeq(S)[i] = SetToSeq(S)[j] => i = j
  BY <1>4 DEF IsInjective
<1>6. SetToSeq(S) \in Injection(1..n, S)
  BY <1>4 DEF Injection
<1>7. IsFiniteSet(1..n) /\ Cardinality(1..n) = n
  <2>1. IsFiniteSet(1..n) /\ Cardinality(1..n) = IF 1 > n THEN 0 ELSE n - 1 + 1
    BY <1>1, FS_Interval
  <2> HIDE DEF n
  <2>2. QED
    BY <1>1, <2>1
<1>8. SetToSeq(S) \in Surjection(1..n, S)
  BY <1>6, <1>7, FS_Injection
<1>9. \A x \in S : \E i \in 1..n : SetToSeq(S)[i] = x
  BY <1>8 DEF Surjection
<1>10. QED
  BY <1>1, <1>4, <1>5, <1>9

LEMMA EntriesList ==
  ASSUME NEW S, IsFiniteSet(S), NEW T, NEW files \in [S -> T]
  PROVE  ListsAll(EntriesOf(files), files)
<1> DEFINE names == SetToSeq(S)
           n == Cardinality(S)
           entries == EntriesOf(files)
<1>1. n \in Nat /\ names \in [1..n -> S] /\ (\A i, j \in 1..n : names[i] = names[j] => i = j)
      /\ (\A x \in S : \E i \in 1..n : names[i] = x)
  BY Enumeration
<1>2. entries = [i \in 1..n |-> [path |-> names[i], sha |-> files[names[i]]]]
  <2>1. DOMAIN files = S
    OBVIOUS
  <2>2. entries = [i \in DOMAIN names |-> [path |-> names[i], sha |-> files[names[i]]]]
    BY <2>1 DEF EntriesOf
  <2>3. QED
    BY <1>1, <2>2
<1> HIDE DEF names, n, entries
<1>3. DOMAIN entries = 1..n /\ \A i \in 1..n : entries[i].path = names[i] /\ entries[i].sha = files[names[i]]
  BY <1>2
<1>4. Len(entries) = n
  BY <1>1, <1>2
<1>5. Paths(entries) = S
  <2>1. \A i \in 1..n : names[i] \in S
    BY <1>1
  <2>2. QED
    BY <1>1, <1>3, <2>1 DEF Paths
<1>6. EachOnce(entries)
  BY <1>4, <1>5 DEF EachOnce, n
<1>7. QED
  BY <1>1, <1>3, <1>5, <1>6 DEF ListsAll, entries

\* Two files of a packet that match one manifest are alike.
LEMMA MatchesAre ==
  ASSUME NEW entries, NEW was, NEW files, ListsAll(entries, was)
  PROVE  /\ DOMAIN files = DOMAIN was =>
              (Matches(entries, files) <=> \A n \in DOMAIN was : files[n] = was[n])
         /\ Differing(entries, files) = Altered(was, files)
<1>1. PICK k \in Nat : DOMAIN entries = 1..k
  BY DEF ListsAll
<1>2. \A i \in DOMAIN entries : entries[i].path \in DOMAIN was /\ entries[i].sha = was[entries[i].path]
  BY DEF ListsAll, Paths
<1>3. \A n \in DOMAIN was : \E i \in DOMAIN entries : entries[i].path = n
  BY DEF ListsAll, Paths
<1>4. \A i, j \in DOMAIN entries : entries[i].path = entries[j].path => i = j
  BY DEF ListsAll
<1>5. DOMAIN files = DOMAIN was => (Matches(entries, files) <=> \A n \in DOMAIN was : files[n] = was[n])
  <2>1. ASSUME DOMAIN files = DOMAIN was, Matches(entries, files), NEW n \in DOMAIN was PROVE files[n] = was[n]
    <3>1. PICK i \in DOMAIN entries : entries[i].path = n
      BY <1>3
    <3>2. files[entries[i].path] = entries[i].sha
      BY <2>1 DEF Matches
    <3>3. QED
      BY <1>2, <3>1, <3>2
  <2>2. ASSUME DOMAIN files = DOMAIN was, \A n \in DOMAIN was : files[n] = was[n] PROVE Matches(entries, files)
    BY <1>2, <2>2 DEF Matches
  <2>3. QED
    BY <2>1, <2>2
<1> DEFINE Foremost(n) == CHOOSE i \in DOMAIN entries : /\ entries[i].path = n
                                                     /\ \A j \in 1..i - 1 : entries[j].path # n
<1>6. ASSUME NEW n \in DOMAIN was PROVE entries[Foremost(n)].sha = was[n]
  <2>1. PICK i \in DOMAIN entries : entries[i].path = n
    BY <1>3
  <2>2. ASSUME NEW j \in 1..i - 1 PROVE entries[j].path # n
    <3>1. j \in DOMAIN entries /\ j # i
      BY <1>1, <2>2
    <3>2. QED
      BY <1>4, <2>1, <3>1
  <2>3. Foremost(n) \in DOMAIN entries /\ entries[Foremost(n)].path = n
    BY <2>1, <2>2
  <2> HIDE DEF Foremost
  <2>4. QED
    BY <1>2, <2>3
<1>7. Differing(entries, files) = {n \in DOMAIN files \cap Paths(entries) : entries[Foremost(n)].sha # files[n]}
  BY DEF Differing
<1> HIDE DEF Foremost
<1>8. Paths(entries) = DOMAIN was
  BY DEF ListsAll
<1>9. Differing(entries, files) = Altered(was, files)
  BY <1>6, <1>7, <1>8 DEF Altered
<1>10. QED
  BY <1>5, <1>9

\* What the service stores hangs together.
Stored(c) ==
  /\ c.manifestSha = c.manifest /\ c.manifest.source = c.source /\ c.manifest.decision = c.source[1]
  /\ c.manifest.meta = c.meta /\ c.manifest.status = c.status /\ c.manifest.provider = c.provider
  /\ c.status = "not_requested" => c.provider = "none" /\ c.meta = "det"
  /\ c.files \in [Names -> Texts] /\ c.variants \in [ExpectedVariants(c.manifest) -> Texts]
  /\ ListsAll(c.manifest.files, c.files) /\ ListsAll(c.manifest.variants, c.variants)
  /\ c.manifest.count = Cardinality(Names) + 1 + Cardinality(ExpectedVariants(c.manifest))

LEMMA NothingListed == ListsAll(<<>>, <<>>) /\ <<>> \in [{} -> Texts]
<1>1. DOMAIN <<>> = {} /\ Len(<<>>) = 0 /\ 1..0 = {}
  OBVIOUS
<1>2. Paths(<<>>) = {}
  BY <1>1 DEF Paths
<1>3. QED
  BY <1>1, <1>2, FS_EmptySet DEF ListsAll, EachOnce

LEMMA CreatedStands ==
  ASSUME NEW c, IsCreated(c)
  PROVE  Stored(c) /\ PacketShape(c)
<1>0. PICK files \in [Names -> Texts], choice \in {"not_requested", "generated", "fallback"}, decision \in {"none", "d1"} :
        \E variants \in ParseEnhancedDocuments(choice) : c = CreatedPacket(files, variants, choice, decision)
  BY DEF IsCreated
<1>1. PICK variants \in ParseEnhancedDocuments(choice) : c = CreatedPacket(files, variants, choice, decision)
  BY <1>0
<1> DEFINE plain == [BuildPacketArtifacts(files, "det") EXCEPT !.source = <<decision, "rest">>, !.decision = decision]
           manifest == IF choice = "not_requested" THEN plain ELSE ManifestWithEnhancement(plain, choice, variants)
<1>2. c = [files |-> files, variants |-> variants, manifest |-> manifest, manifestSha |-> manifest,
              source |-> <<decision, "rest">>, meta |-> manifest.meta, status |-> choice,
              provider |-> manifest.provider]
  BY <1>1 DEF CreatedPacket
<1>3. /\ plain.files = EntriesOf(files) /\ plain.variants = <<>> /\ plain.count = Cardinality(Names) + 1
      /\ plain.status = "not_requested" /\ plain.provider = "none" /\ plain.meta = "det"
      /\ plain.source = <<decision, "rest">> /\ plain.decision = decision
      /\ DOMAIN plain = {"files", "variants", "count", "status", "provider", "meta", "source", "decision"}
  BY DEF BuildPacketArtifacts
<1> DEFINE wanted == ManifestWithEnhancement(plain, choice, variants)
<1> HIDE DEF plain
<1>4. /\ wanted.files = EntriesOf(files) /\ wanted.variants = EntriesOf(variants)
      /\ wanted.count = Cardinality(Names) + 1 + Cardinality(DOMAIN variants)
      /\ wanted.status = choice
      /\ wanted.source = <<decision, "rest">> /\ wanted.decision = decision
  BY <1>3 DEF ManifestWithEnhancement
<1> HIDE DEF wanted
<1>5. /\ manifest.files = EntriesOf(files) /\ manifest.status = choice
      /\ manifest.source = <<decision, "rest">> /\ manifest.decision = decision
      /\ manifest.variants = IF choice = "not_requested" THEN <<>> ELSE EntriesOf(variants)
      /\ manifest.count = IF choice = "not_requested" THEN Cardinality(Names) + 1
                          ELSE Cardinality(Names) + 1 + Cardinality(DOMAIN variants)
      /\ choice = "not_requested" => manifest.provider = "none" /\ manifest.meta = "det"
  <2>1. CASE choice = "not_requested"
    <3>1. manifest = plain
      BY <2>1
    <3>2. QED
      BY <1>3, <2>1, <3>1
  <2>2. CASE choice # "not_requested"
    <3>1. manifest = wanted
      BY <2>2 DEF wanted
    <3>2. QED
      BY <1>4, <2>2, <3>1
  <2>3. QED
    BY <2>1, <2>2
<1> HIDE DEF manifest
<1>6. /\ c.files = files /\ c.variants = variants /\ c.manifest = manifest /\ c.manifestSha = manifest
      /\ c.source = <<decision, "rest">> /\ c.meta = manifest.meta /\ c.status = choice
      /\ c.provider = manifest.provider
  BY <1>2
<1>7. ListsAll(manifest.files, files)
  BY <1>5, EntriesList, IntegrityAssumption
<1>8. /\ variants \in [ExpectedVariants(manifest) -> Texts] /\ DOMAIN variants = ExpectedVariants(manifest)
      /\ ListsAll(manifest.variants, variants)
  <2>1. CASE choice = "generated"
    <3>1. ExpectedVariants(manifest) = Variants /\ variants \in [Variants -> Texts]
      BY <1>5, <2>1 DEF ExpectedVariants, ParseEnhancedDocuments
    <3>2. manifest.variants = EntriesOf(variants)
      BY <1>5, <2>1
    <3>3. QED
      BY <3>1, <3>2, EntriesList, IntegrityAssumption
  <2>2. CASE choice # "generated"
    <3>1. ExpectedVariants(manifest) = {} /\ variants = <<>>
      BY <1>5, <2>2 DEF ExpectedVariants, ParseEnhancedDocuments
    <3>2. variants \in [{} -> Texts] /\ DOMAIN variants = {}
      BY <3>1, NothingListed
    <3>3. ListsAll(EntriesOf(variants), variants)
      BY <3>2, EntriesList, FS_EmptySet
    <3>4. QED
      BY <1>5, <3>1, <3>2, <3>3, NothingListed
  <2>3. QED
    BY <2>1, <2>2
<1>9. manifest.count = Cardinality(Names) + 1 + Cardinality(ExpectedVariants(manifest))
  <2>1. CASE choice = "not_requested"
    <3>1. ExpectedVariants(manifest) = {} /\ Cardinality({}) = 0 /\ Cardinality(Names) \in Nat
      BY <1>5, <2>1, FS_EmptySet, FS_CardinalityType, IntegrityAssumption DEF ExpectedVariants
    <3>2. QED
      BY <1>5, <2>1, <3>1
  <2>2. CASE choice # "not_requested"
    BY <1>5, <1>8, <2>2
  <2>3. QED
    BY <2>1, <2>2
<1>10. c.source[1] = decision
  BY <1>6
<1>11. Stored(c)
  BY <1>5, <1>6, <1>7, <1>8, <1>9, <1>10 DEF Stored
<1>12. files \in FileSets /\ variants \in FileSets
  <2>1. Names \in SUBSET (Names \cup Variants \cup {Alien})
        /\ ExpectedVariants(manifest) \in SUBSET (Names \cup Variants \cup {Alien})
    BY DEF ExpectedVariants
  <2>2. files \in [Names -> Texts \cup {Huge}] /\ variants \in [ExpectedVariants(manifest) -> Texts \cup {Huge}]
    BY <1>8
  <2>3. QED
    BY <2>1, <2>2 DEF FileSets
<1>13. PacketShape(c)
  <2>1. c = [x \in Columns |-> c[x]]
    BY <1>2 DEF Columns
  <2>2. QED
    BY <1>6, <1>12, <2>1 DEF PacketShape
<1>14. QED
  BY <1>11, <1>13

\* Whatever is changed behind the program's back leaves columns of their kind.
LEMMA EditsAreFiles ==
  ASSUME NEW files \in FileSets, NEW edited \in Edited(files)
  PROVE  edited \in FileSets
<1> DEFINE all == Names \cup Variants \cup {Alien}
           texts == Texts \cup {Huge}
<1>1. PICK names \in SUBSET all : files \in [names -> texts]
  BY DEF FileSets
<1>2. CASE \E n \in DOMAIN files, t \in texts : edited = [files EXCEPT ![n] = t]
  BY <1>1, <1>2 DEF FileSets
<1>3. CASE \E n \in DOMAIN files : edited = [m \in DOMAIN files \ {n} |-> files[m]]
  <2>1. PICK n \in DOMAIN files : edited = [m \in DOMAIN files \ {n} |-> files[m]]
    BY <1>3
  <2>2. names \ {n} \in SUBSET all /\ edited \in [names \ {n} -> texts]
    BY <1>1, <2>1
  <2>3. QED
    BY <2>2 DEF FileSets
<1>4. CASE \E n \in all \ DOMAIN files, t \in Texts : edited = With(files, n, t)
  <2>1. PICK n \in all \ DOMAIN files, t \in Texts : edited = With(files, n, t)
    BY <1>4
  <2>2. names \cup {n} \in SUBSET all /\ edited \in [names \cup {n} -> texts]
    BY <1>1, <2>1 DEF With
  <2>3. QED
    BY <2>2 DEF FileSets
<1>5. CASE edited \in Rewritten(files)
  BY <1>2, <1>5 DEF Rewritten
<1>6. CASE edited \in Removed(files)
  BY <1>3, <1>6 DEF Removed
<1>7. CASE edited \in Added(files)
  BY <1>4, <1>7 DEF Added
<1>8. QED
  BY <1>5, <1>6, <1>7 DEF Edited

LEMMA FilesAre ==
  ASSUME NEW f \in FileSets
  PROVE  f = [n \in DOMAIN f |-> f[n]]
<1>1. PICK S : f \in [S -> Texts \cup {Huge}]
  BY DEF FileSets
<1>2. QED
  BY <1>1

LEMMA SameFiles ==
  ASSUME NEW f \in FileSets, NEW g \in FileSets, DOMAIN f = DOMAIN g, \A n \in DOMAIN f : f[n] = g[n]
  PROVE  f = g
<1>1. \A h \in FileSets : \E names : h \in [names -> Texts \cup {Huge}]
  BY DEF FileSets
<1>2. PICK S : f \in [S -> Texts \cup {Huge}]
  BY <1>1
<1>3. PICK R : g \in [R -> Texts \cup {Huge}]
  BY <1>1
<1>4. R = S
  BY <1>2, <1>3
<1>5. f = [n \in S |-> f[n]] /\ g = [n \in S |-> g[n]] /\ \A n \in S : f[n] = g[n]
  BY <1>2, <1>3, <1>4
<1>6. QED
  BY <1>5

LEMMA ColumnsStay ==
  ASSUME NEW S, NEW f, f = [x \in S |-> f[x]], NEW c \in S, NEW v
  PROVE  /\ [f EXCEPT ![c] = v] = [x \in S |-> [f EXCEPT ![c] = v][x]]
         /\ \A x \in S : [f EXCEPT ![c] = v][x] = IF x = c THEN v ELSE f[x]
  OBVIOUS

LEMMA ChangedRow ==
  ASSUME NEW p, PacketShape(p), NEW c \in Columns, NEW v,
         c \in {"files", "variants"} => v \in FileSets
  PROVE  PacketShape([p EXCEPT ![c] = v])
<1> DEFINE q == [p EXCEPT ![c] = v]
<1>1. p = [x \in Columns |-> p[x]] /\ p.files \in FileSets /\ p.variants \in FileSets
  BY DEF PacketShape
<1>2. q = [x \in Columns |-> q[x]] /\ \A x \in Columns : q[x] = IF x = c THEN v ELSE p[x]
  BY <1>1, ColumnsStay
<1> HIDE DEF q
<1>3. "files" \in Columns /\ "variants" \in Columns
  BY DEF Columns
<1>4. q.files \in FileSets /\ q.variants \in FileSets
  BY <1>1, <1>2, <1>3
<1>5. PacketShape(q)
  BY <1>2, <1>4 DEF PacketShape
<1>6. QED
  BY <1>5 DEF q

LEMMA ZipIsFiles ==
  ASSUME NEW p, PacketShape(p)
  PROVE  FolderShape(DeterministicZip(p))
<1> DEFINE z == DeterministicZip(p)
           all == Names \cup Variants \cup {Alien}
           texts == Texts \cup {Huge}
<1>1. p.files \in FileSets /\ p.variants \in FileSets
  BY DEF PacketShape
<1>2. PICK names \in SUBSET all : p.files \in [names -> texts]
  BY <1>1 DEF FileSets
<1>3. PICK others \in SUBSET all : p.variants \in [others -> texts]
  BY <1>1 DEF FileSets
<1>4. z.files \in [names \cup others -> texts]
  BY <1>2, <1>3 DEF DeterministicZip
<1>5. names \cup others \in SUBSET all
  OBVIOUS
<1>6. z.files \in FileSets
  BY <1>4, <1>5 DEF FileSets
<1>7. QED
  BY <1>6 DEF FolderShape, DeterministicZip

LEMMA InitIntegrity == PacketIntegrityInit => IntegrityInv
<1> SUFFICES ASSUME PacketIntegrityInit PROVE IntegrityInv
  OBVIOUS
<1>1. IsCreated(packet) /\ created = packet /\ folder = Nothing /\ hits = 0
  BY DEF PacketIntegrityInit, IsCreated
<1>2. PacketShape(packet)
  BY <1>1, CreatedStands
<1>3. Nothing.files \in FileSets
  <2>1. <<>> \in [{} -> Texts \cup {Huge}] /\ {} \in SUBSET (Names \cup Variants \cup {Alien})
    BY NothingListed
  <2>2. QED
    BY <2>1 DEF FileSets, Nothing
<1>4. FolderShape(Nothing)
  BY <1>3 DEF FolderShape, Nothing
<1>5. QED
  BY <1>1, <1>2, <1>4 DEF IntegrityInv

LEMMA StepIntegrity == IntegrityInv /\ [PacketIntegrityNext]_integrityVars => IntegrityInv'
<1> SUFFICES ASSUME IntegrityInv, [PacketIntegrityNext]_integrityVars PROVE IntegrityInv'
  OBVIOUS
<1>0. /\ hits \in Nat /\ (hits = 0 => packet = created)
      /\ IsCreated(created) /\ PacketShape(packet) /\ FolderShape(folder)
  BY DEF IntegrityInv
<1>f. packet.files \in FileSets /\ packet.variants \in FileSets /\ folder.files \in FileSets
      /\ DOMAIN folder = {"files", "manifest"}
  BY <1>0 DEF PacketShape, FolderShape
<1>1. CASE CorruptRow
  <2>1. hits' \in Nat /\ hits' # 0 /\ created' = created /\ folder' = folder
    BY <1>0, <1>1 DEF CorruptRow
  <2>2. \E c \in Columns : \E v : packet' = [packet EXCEPT ![c] = v] /\ (c \in {"files", "variants"} => v \in FileSets)
    <3>1. CASE \E f \in Edited(packet.files) : packet' = [packet EXCEPT !.files = f]
      BY <1>f, <3>1, EditsAreFiles DEF Columns
    <3>2. CASE \E f \in Edited(packet.variants) : packet' = [packet EXCEPT !.variants = f]
      BY <1>f, <3>2, EditsAreFiles DEF Columns
    <3>3. CASE \E m \in EditedManifest(packet.manifest) : packet' = [packet EXCEPT !.manifest = m]
      BY <3>3 DEF Columns
    <3>4. CASE \/ packet' = [packet EXCEPT !.manifestSha = packet.manifest]
               \/ packet' = [packet EXCEPT !.source = <<"d2", "rest">>]
               \/ packet' = [packet EXCEPT !.source = <<packet.source[1], "other">>]
               \/ packet' = [packet EXCEPT !.meta = "other"]
               \/ packet' = [packet EXCEPT !.provider = "other"]
      BY <3>4 DEF Columns
    <3>5. CASE \E s \in {"not_requested", "generated", "fallback"} : packet' = [packet EXCEPT !.status = s]
      BY <3>5 DEF Columns
    <3>6. QED
      BY <1>1, <3>1, <3>2, <3>3, <3>4, <3>5 DEF CorruptRow
  <2>3. PICK c \in Columns : \E v : packet' = [packet EXCEPT ![c] = v] /\ (c \in {"files", "variants"} => v \in FileSets)
    BY <2>2
  <2>4. PICK v : packet' = [packet EXCEPT ![c] = v] /\ (c \in {"files", "variants"} => v \in FileSets)
    BY <2>3
  <2>5. PacketShape(packet')
    <3>1. PacketShape([packet EXCEPT ![c] = v])
      BY <1>0, <2>4, ChangedRow
    <3>2. QED
      BY <2>4, <3>1
  <2>6. QED
    BY <1>0, <2>1, <2>5 DEF IntegrityInv
<1>2. CASE DownloadBuildPacket
  <2>1. FolderShape(folder') /\ packet' = packet /\ created' = created /\ hits' = hits
    BY <1>0, <1>2, ZipIsFiles DEF DownloadBuildPacket
  <2>2. QED
    BY <1>0, <2>1 DEF IntegrityInv
<1>3. CASE CorruptFolder
  <2>1. hits' \in Nat /\ hits' # 0 /\ created' = created /\ packet' = packet
    BY <1>0, <1>3 DEF CorruptFolder
  <2>2. CASE \E f \in Edited(folder.files) : folder' = [folder EXCEPT !.files = f]
    <3>1. PICK f \in Edited(folder.files) : folder' = [folder EXCEPT !.files = f]
      BY <2>2
    <3>2. DOMAIN folder' = DOMAIN folder /\ folder'.files = f
      BY <1>f, <3>1
    <3>3. QED
      BY <1>0, <1>f, <2>1, <3>2, EditsAreFiles DEF IntegrityInv, FolderShape
  <2>3. CASE \E m \in EditedManifest(folder.manifest) : folder' = [folder EXCEPT !.manifest = m]
    <3>1. PICK m \in EditedManifest(folder.manifest) : folder' = [folder EXCEPT !.manifest = m]
      BY <2>3
    <3>2. DOMAIN folder' = DOMAIN folder /\ folder'.files = folder.files
      BY <1>f, <3>1
    <3>3. QED
      BY <1>0, <1>f, <2>1, <3>2 DEF IntegrityInv, FolderShape
  <2>4. QED
    BY <1>3, <2>2, <2>3 DEF CorruptFolder
<1>4. CASE UNCHANGED integrityVars
  BY <1>0, <1>4 DEF integrityVars, IntegrityInv
<1>5. QED
  BY <1>1, <1>2, <1>3, <1>4 DEF PacketIntegrityNext


\* What the invariant says of any packet, folder and creation.
LEMMA VerifiedStands ==
  ASSUME IntegrityInv
  PROVE  /\ Stored(created) /\ PacketShape(created) /\ PacketShape(packet) /\ FolderShape(folder)
         /\ IsFiniteSet(Names) /\ Cardinality(Names) \in Nat /\ Huge \notin Texts
         /\ DOMAIN created.files = Names /\ DOMAIN created.variants = ExpectedVariants(created.manifest)
         /\ Paths(created.manifest.files) = Names
         /\ Paths(created.manifest.variants) = ExpectedVariants(created.manifest)
<1>1. IsCreated(created) /\ PacketShape(packet) /\ FolderShape(folder)
  BY DEF IntegrityInv
<1>2. Stored(created) /\ PacketShape(created)
  BY <1>1, CreatedStands
<1>3. IsFiniteSet(Names) /\ Cardinality(Names) \in Nat /\ Huge \notin Texts
  BY IntegrityAssumption, FS_CardinalityType
<1>4. QED
  BY <1>1, <1>2, <1>3 DEF Stored, ListsAll

LEMMA CreatedVerifiesHolds == IntegrityInv => CreatedVerifies
<1> SUFFICES ASSUME IntegrityInv, hits = 0
             PROVE  VerifyPacketRecord(packet) /\ (packet.status = "not_requested" => InspectBuildPacket(packet))
  BY DEF CreatedVerifies
<1>1. packet = created
  BY DEF IntegrityInv
<1>2. /\ Stored(packet) /\ Huge \notin Texts /\ Cardinality(Names) \in Nat
      /\ DOMAIN packet.files = Names /\ DOMAIN packet.variants = ExpectedVariants(packet.manifest)
      /\ Paths(packet.manifest.files) = Names
      /\ Paths(packet.manifest.variants) = ExpectedVariants(packet.manifest)
  BY <1>1, VerifiedStands
<1> DEFINE m == packet.manifest
<1>3. /\ packet.manifestSha = m /\ m.source = packet.source /\ m.decision = packet.source[1]
      /\ m.meta = packet.meta /\ m.status = packet.status /\ m.provider = packet.provider
      /\ packet.status = "not_requested" => packet.provider = "none" /\ packet.meta = "det"
      /\ packet.files \in [Names -> Texts] /\ packet.variants \in [ExpectedVariants(m) -> Texts]
      /\ ListsAll(m.files, packet.files) /\ ListsAll(m.variants, packet.variants)
      /\ m.count = Cardinality(Names) + 1 + Cardinality(ExpectedVariants(m))
  BY <1>2 DEF Stored
<1> HIDE DEF m
<1>4. Matches(m.files, packet.files) /\ Matches(m.variants, packet.variants)
  BY <1>3, MatchesAre
<1>5. EachOnce(m.files) /\ EachOnce(m.variants)
  BY <1>3 DEF ListsAll
<1>6. WithinLimits(packet.files) /\ WithinLimits(packet.variants)
  BY <1>2, <1>3 DEF WithinLimits
<1>7. OriginalsMatch(packet.files, m) /\ VariantsMatch(packet.variants, m)
  BY <1>2, <1>3, <1>4, <1>5 DEF OriginalsMatch, VariantsMatch, m
<1>8. VerifyPacketRecord(packet)
  BY <1>3, <1>6, <1>7 DEF VerifyPacketRecord, VerifyPacketArtifacts, m
<1>9. ASSUME packet.status = "not_requested" PROVE InspectBuildPacket(packet)
  <2>1. ExpectedVariants(m) = {} /\ Cardinality({}) = 0
    BY <1>3, <1>9, FS_EmptySet DEF ExpectedVariants
  <2>2. m.count = Cardinality(Names) + 1
    BY <1>2, <1>3, <2>1
  <2>3. QED
    BY <1>2, <1>3, <1>4, <1>8, <1>9, <2>2 DEF InspectBuildPacket, m
<1>10. QED
  BY <1>8, <1>9

LEMMA VerifiedIsOriginalHolds == IntegrityInv => VerifiedIsOriginal
<1> SUFFICES ASSUME IntegrityInv, packet.manifestSha = created.manifestSha, VerifyPacketRecord(packet)
             PROVE  \/ packet = created
                    \/ packet.status = "not_requested" /\ [packet EXCEPT !.provider = "none"] = created
  BY DEF VerifiedIsOriginal
<1>1. /\ Stored(created) /\ PacketShape(created) /\ PacketShape(packet)
      /\ DOMAIN created.files = Names /\ DOMAIN created.variants = ExpectedVariants(created.manifest)
  BY VerifiedStands
<1>2. /\ packet.manifest = created.manifest /\ packet.source = created.source /\ packet.meta = created.meta
      /\ packet.status = created.status /\ packet.manifestSha = created.manifestSha
      /\ packet.status # "not_requested" => packet.provider = created.provider
      /\ packet.status = "not_requested" => created.provider = "none"
  BY <1>1 DEF Stored, VerifyPacketRecord
<1>3. /\ DOMAIN packet.files = Names /\ Matches(created.manifest.files, packet.files)
      /\ DOMAIN packet.variants = ExpectedVariants(created.manifest)
      /\ Matches(created.manifest.variants, packet.variants)
  BY <1>2 DEF VerifyPacketRecord, VerifyPacketArtifacts, OriginalsMatch, VariantsMatch
<1>4. ListsAll(created.manifest.files, created.files) /\ ListsAll(created.manifest.variants, created.variants)
  BY <1>1 DEF Stored
<1>5. packet.files = created.files
  <2>1. \A n \in Names : packet.files[n] = created.files[n]
    BY <1>1, <1>3, <1>4, MatchesAre
  <2>2. QED
    BY <1>1, <1>3, <2>1, SameFiles DEF PacketShape
<1>6. packet.variants = created.variants
  <2>1. \A n \in ExpectedVariants(created.manifest) : packet.variants[n] = created.variants[n]
    BY <1>1, <1>3, <1>4, MatchesAre
  <2>2. QED
    BY <1>1, <1>3, <2>1, SameFiles DEF PacketShape
<1>7. packet = [c \in Columns |-> packet[c]] /\ created = [c \in Columns |-> created[c]]
  BY <1>1 DEF PacketShape
<1>8. CASE packet.provider = created.provider
  <2>1. \A c \in Columns : packet[c] = created[c]
    BY <1>2, <1>5, <1>6, <1>8 DEF Columns
  <2>2. QED
    BY <1>7, <2>1
<1>9. CASE packet.provider # created.provider
  <2> DEFINE q == [packet EXCEPT !["provider"] = "none"]
  <2>1. "provider" \in Columns
    BY DEF Columns
  <2>2. q = [c \in Columns |-> q[c]] /\ \A c \in Columns : q[c] = IF c = "provider" THEN "none" ELSE packet[c]
    BY <1>7, <2>1, ColumnsStay
  <2>3. packet.status = "not_requested" /\ created.provider = "none"
    BY <1>2, <1>9
  <2>4. q = [packet EXCEPT !.provider = "none"]
    OBVIOUS
  <2> HIDE DEF q
  <2>5. \A c \in Columns : q[c] = created[c]
    BY <1>2, <1>5, <1>6, <2>2, <2>3 DEF Columns
  <2>6. q = created
    BY <1>7, <2>2, <2>5
  <2>7. QED
    BY <2>3, <2>4, <2>6
<1>10. QED
  BY <1>8, <1>9


LEMMA VerificationsAgreeHolds == VerificationsAgree
  BY DEF VerificationsAgree, VerifyPacketRecord, VerificationOut

LEMMA FaultsAreNamedHolds == IntegrityInv => FaultsAreNamed
<1> SUFFICES ASSUME IntegrityInv, packet.manifest = created.manifest
             PROVE  /\ MissingFiles(packet) = Gone(created.files, packet.files) \cup Gone(created.variants, packet.variants)
                    /\ UnexpectedFiles(packet) = Gone(packet.files, created.files) \cup Gone(packet.variants, created.variants)
                    /\ MismatchedFiles(packet) =
                          Altered(created.files, packet.files) \cup Altered(created.variants, packet.variants)
  BY DEF FaultsAreNamed
<1> DEFINE expected == ExpectedVariants(packet.manifest)
<1>1. /\ Stored(created)
      /\ DOMAIN created.files = Names /\ DOMAIN created.variants = expected
      /\ Paths(packet.manifest.files) = Names /\ Paths(packet.manifest.variants) = expected
  BY VerifiedStands
<1>2. ListsAll(packet.manifest.files, created.files) /\ ListsAll(packet.manifest.variants, created.variants)
  BY <1>1 DEF Stored
<1>3. /\ Differing(packet.manifest.files, packet.files) = Altered(created.files, packet.files)
      /\ Differing(packet.manifest.variants, packet.variants) = Altered(created.variants, packet.variants)
  <2>1. \A entries, was, files : ListsAll(entries, was) => Differing(entries, files) = Altered(was, files)
    BY MatchesAre
  <2>2. QED
    BY <1>2, <2>1
<1>4. MissingFiles(packet) = (Names \ (DOMAIN packet.files \cap Names))
                               \cup (expected \ (DOMAIN packet.variants \cap expected))
  BY <1>1 DEF MissingFiles
<1>5. UnexpectedFiles(packet) = (DOMAIN packet.files \ Names) \cup (DOMAIN packet.variants \ expected)
  BY DEF UnexpectedFiles
<1>6. MismatchedFiles(packet) = (Altered(created.files, packet.files) \cap Names)
                                  \cup (Altered(created.variants, packet.variants) \cap expected)
  BY <1>3 DEF MismatchedFiles
<1>7. Altered(created.files, packet.files) \subseteq Names /\ Altered(created.variants, packet.variants) \subseteq expected
  BY <1>1 DEF Altered
<1> HIDE DEF expected
<1>8. QED
  BY <1>1, <1>4, <1>5, <1>6, <1>7 DEF Gone

LEMMA FolderIsTheDownloadHolds == IntegrityInv => FolderIsTheDownload
<1> SUFFICES ASSUME IntegrityInv
             PROVE  /\ (VerifyPacketRecord(packet) /\ folder = DeterministicZip(packet)) => VerifyBuildPacketDirectory(folder)
                    /\ (VerifyBuildPacketDirectory(folder) /\ folder.manifest = created.manifest) =>
                          folder.files = DeterministicZip(created).files
  BY DEF FolderIsTheDownload
<1>1. ASSUME VerifyPacketRecord(packet), folder = DeterministicZip(packet)
      PROVE  VerifyBuildPacketDirectory(folder)
  <2> DEFINE m == packet.manifest
             expected == ExpectedVariants(m)
             originals == [n \in DOMAIN folder.files \cap Names |-> folder.files[n]]
             others == [n \in DOMAIN folder.files \cap expected |-> folder.files[n]]
  <2>1. /\ VerifyPacketArtifacts(packet.files, m, packet.variants)
        /\ DOMAIN packet.files = Names /\ DOMAIN packet.variants = expected
    BY <1>1 DEF VerifyPacketRecord, VerifyPacketArtifacts, OriginalsMatch, VariantsMatch
  <2>2. Names \cap expected = {}
    BY IntegrityAssumption DEF ExpectedVariants
  <2>3. packet.files \in FileSets /\ packet.variants \in FileSets
    BY VerifiedStands DEF PacketShape
  <2>4. /\ folder.manifest = m
        /\ folder.files = [n \in Names \cup expected |-> IF n \in Names THEN packet.files[n] ELSE packet.variants[n]]
    BY <1>1, <2>1 DEF DeterministicZip
  <2> HIDE DEF m, expected
  <2>5. DOMAIN folder.files = Names \cup expected
    BY <2>4
  <2>6. originals = packet.files
    <3>1. originals = [n \in Names |-> packet.files[n]]
      BY <2>4, <2>5
    <3>2. QED
      BY <2>1, <2>3, <3>1, FilesAre
  <2>7. others = packet.variants
    <3>1. others = [n \in expected |-> packet.variants[n]]
      BY <2>2, <2>4, <2>5
    <3>2. QED
      BY <2>1, <2>3, <3>1, FilesAre
  <2> HIDE DEF originals, others
  <2>8. UnexpectedEntries(folder) = {}
    BY <2>4, <2>5 DEF UnexpectedEntries, expected
  <2>9. VerifyPacketArtifacts(originals, m, others)
    BY <2>1, <2>6, <2>7
  <2>10. QED
    BY <2>4, <2>8, <2>9 DEF VerifyBuildPacketDirectory, originals, others, expected
<1>2. ASSUME VerifyBuildPacketDirectory(folder), folder.manifest = created.manifest
      PROVE  folder.files = DeterministicZip(created).files
  <2> DEFINE m == created.manifest
             expected == ExpectedVariants(m)
             originals == [n \in DOMAIN folder.files \cap Names |-> folder.files[n]]
             others == [n \in DOMAIN folder.files \cap expected |-> folder.files[n]]
  <2>1. /\ Stored(created) /\ PacketShape(created) /\ FolderShape(folder)
        /\ DOMAIN created.files = Names /\ DOMAIN created.variants = expected
    BY VerifiedStands
  <2>2. Names \cap expected = {}
    BY IntegrityAssumption DEF ExpectedVariants
  <2>3. VerifyPacketArtifacts(originals, m, others) /\ UnexpectedEntries(folder) = {}
    BY <1>2 DEF VerifyBuildPacketDirectory
  <2>4. DOMAIN folder.files \subseteq Names \cup expected
    BY <1>2, <2>3 DEF UnexpectedEntries
  <2>5. /\ DOMAIN originals = Names /\ Matches(m.files, originals)
        /\ DOMAIN others = expected /\ Matches(m.variants, others)
    BY <2>3 DEF VerifyPacketArtifacts, OriginalsMatch, VariantsMatch
  <2>6. DOMAIN originals = DOMAIN folder.files \cap Names /\ DOMAIN others = DOMAIN folder.files \cap expected
        /\ (\A n \in DOMAIN folder.files \cap Names : originals[n] = folder.files[n])
        /\ (\A n \in DOMAIN folder.files \cap expected : others[n] = folder.files[n])
    OBVIOUS
  <2>7. ListsAll(m.files, created.files) /\ ListsAll(m.variants, created.variants)
    BY <2>1 DEF Stored
  <2> HIDE DEF m, expected, originals, others
  <2>8. (\A n \in Names : originals[n] = created.files[n]) /\ (\A n \in expected : others[n] = created.variants[n])
    BY <2>1, <2>5, <2>7, MatchesAre
  <2>9. DOMAIN folder.files = Names \cup expected
    BY <2>4, <2>5, <2>6
  <2>10. /\ \A n \in Names : folder.files[n] = created.files[n]
         /\ \A n \in expected : folder.files[n] = created.variants[n]
    BY <2>6, <2>8, <2>9
  <2>11. DeterministicZip(created).files =
           [n \in Names \cup expected |-> IF n \in Names THEN created.files[n] ELSE created.variants[n]]
    BY <2>1 DEF DeterministicZip
  <2>12. folder.files \in FileSets /\ DeterministicZip(created).files \in FileSets
    BY <2>1, ZipIsFiles DEF FolderShape
  <2> DEFINE z == DeterministicZip(created).files
  <2>13. DOMAIN z = Names \cup expected /\ \A n \in Names \cup expected : z[n] = folder.files[n]
    BY <2>2, <2>10, <2>11
  <2> HIDE DEF z
  <2>14. folder.files = z
    BY <2>9, <2>12, <2>13, SameFiles DEF z
  <2>15. QED
    BY <2>14 DEF z
<1>3. QED
  BY <1>1, <1>2

\* A packet that verifies is the packet that was created, wherever it is verified
\* and whatever changed behind the program's back: of any contents, any number of
\* files and any number of changes, the row's verification in the database and
\* over MCP, the faults it names, and the verification of an unpacked folder.
THEOREM VerificationsAreSound == PacketIntegritySpec => []VerificationIsSound
<1>1. IntegrityInv => VerificationIsSound
  BY CreatedVerifiesHolds, VerifiedIsOriginalHolds, VerificationsAgreeHolds, FaultsAreNamedHolds,
     FolderIsTheDownloadHolds DEF VerificationIsSound
<1>2. QED
  BY <1>1, InitIntegrity, StepIntegrity, PTL DEF PacketIntegritySpec

(* ---- RunDelta ---------------------------------------------------------------- *)

LEMMA FetchFacts ==
  ASSUME NEW fetch \in Seq(Fetched)
  PROVE  /\ TextsOf(fetch) \in SUBSET Text /\ IsFiniteSet(TextsOf(fetch))
         /\ \A t \in TextsOf(fetch) :
              /\ FirstIdentity(fetch, t) \in Identity
              /\ \E i \in DOMAIN fetch : fetch[i].text = t /\ fetch[i].identity = FirstIdentity(fetch, t)
<1>1. PICK n \in Nat : fetch \in [1..n -> Fetched]
  <2>1. Len(fetch) \in Nat /\ fetch \in [1..Len(fetch) -> Fetched]
    OBVIOUS
  <2>2. QED
    BY <2>1
<1>2. \A i \in 1..n : fetch[i].identity \in Identity /\ fetch[i].text \in Text \cup {Contentless}
  BY <1>1 DEF Fetched
<1>3. DOMAIN fetch = 1..n
  BY <1>1
<1>4. TextsOf(fetch) \in SUBSET Text
  BY <1>2, <1>3 DEF TextsOf
<1>5. IsFiniteSet(TextsOf(fetch))
  <2> DEFINE all == {fetch[i].text : i \in 1..n}
             f == [i \in 1..n |-> fetch[i].text]
  <2>1. f \in Surjection(1..n, all)
    BY DEF Surjection
  <2>2. IsFiniteSet(all)
    BY <1>1, <2>1, FirstNumbers, FS_Surjection
  <2>3. TextsOf(fetch) \in SUBSET all
    BY <1>3 DEF TextsOf
  <2> HIDE DEF all
  <2>4. QED
    BY <2>2, <2>3, FS_Subset
<1>6. ASSUME NEW t \in TextsOf(fetch)
      PROVE  /\ FirstIdentity(fetch, t) \in Identity
             /\ \E i \in DOMAIN fetch : fetch[i].text = t /\ fetch[i].identity = FirstIdentity(fetch, t)
  <2> DEFINE with == {i \in DOMAIN fetch : fetch[i].text = t}
             first == CHOOSE i \in with : \A j \in with : i <= j
  <2>1. with \in SUBSET Nat /\ with # {}
    BY <1>3 DEF TextsOf
  <2>2. \E i \in with : \A j \in with : i <= j
    BY <2>1, LeastExists
  <2>3. first \in with
    BY <2>2
  <2>4. FirstIdentity(fetch, t) = fetch[first].identity
    BY DEF FirstIdentity
  <2> HIDE DEF first
  <2>5. QED
    BY <1>2, <1>3, <2>3, <2>4
<1>7. QED
  BY <1>4, <1>5, <1>6

LEMMA NoFetch == <<>> \in Seq(Fetched) /\ TextsOf(<<>>) = {}
<1>1. DOMAIN <<>> = {}
  OBVIOUS
<1>2. QED
  BY <1>1 DEF TextsOf

LEMMA EmptyMap == \A T : <<>> \in [{} -> T] /\ \A f : f = [x \in {} |-> f[x]] => f = <<>>
<1>1. DOMAIN <<>> = {} /\ <<>> = [x \in {} |-> x]
  OBVIOUS
<1>2. QED
  BY <1>1

\* A scan comes after the others and leaves them what they are.
Adds(was, now, row) ==
  /\ Len(now) = Len(was) + 1 /\ now[Len(was) + 1] = row
  /\ \A n \in 1..Len(was) : now[n] = was[n]

LEMMA Appended ==
  ASSUME NEW row \in Scans, runs \in Seq(Scans), runs' = Append(runs, row)
  PROVE  Adds(runs, runs', row) /\ runs' \in Seq(Scans)
  BY DEF Adds

\* The texts the first k scans were given.
Given(rows, k) == UNION {TextsOf(rows[m].fetch) : m \in 1..k}

LEMMA GivenEarlier ==
  ASSUME NEW k \in Nat
  PROVE  Earlier(k + 1) = Given(runs, k) /\ Earlier(k + 1)' = Given(runs', k)
<1>1. \A n : Earlier(n) = Given(runs, n - 1) /\ Earlier(n)' = Given(runs', n - 1)
  BY DEF Earlier, Given
<1>2. k + 1 - 1 = k
  OBVIOUS
<1>3. QED
  BY <1>1, <1>2

LEMMA GivenStays ==
  ASSUME NEW k \in Nat, NEW n \in Nat, n <= k, NEW rows, NEW others, \A m \in 1..k : others[m].fetch = rows[m].fetch
  PROVE  Given(others, n) = Given(rows, n)
<1>1. \A m \in 1..n : others[m].fetch = rows[m].fetch
  OBVIOUS
<1>2. QED
  BY <1>1 DEF Given

LEMMA EarlierStays ==
  ASSUME NEW k \in Nat, \A m \in 1..k : runs'[m].fetch = runs[m].fetch
  PROVE  \A n \in 1..k + 1 : Earlier(n)' = Earlier(n)
<1>1. ASSUME NEW n \in 1..k + 1 PROVE Earlier(n)' = Earlier(n)
  <2>1. PICK j \in Nat : n = j + 1 /\ j <= k
    <3>1. n - 1 \in Nat /\ n = n - 1 + 1 /\ n - 1 <= k
      OBVIOUS
    <3>2. QED
      BY <3>1
  <2>2. Given(runs', j) = Given(runs, j)
    BY <2>1, GivenStays, Zenon
  <2>3. QED
    BY <2>1, <2>2, GivenEarlier
<1>2. QED
  BY <1>1

LEMMA GivenGrows ==
  ASSUME NEW k \in Nat, NEW rows
  PROVE  Given(rows, k + 1) = Given(rows, k) \cup TextsOf(rows[k + 1].fetch)
<1>1. \A m : m \in 1..k + 1 <=> m \in 1..k \/ m = k + 1
  OBVIOUS
<1>2. \A t : t \in Given(rows, k + 1) <=> \E m \in 1..k + 1 : t \in TextsOf(rows[m].fetch)
  BY DEF Given
<1>3. \A t : t \in Given(rows, k) <=> \E m \in 1..k : t \in TextsOf(rows[m].fetch)
  BY DEF Given
<1>4. QED
  BY <1>1, <1>2, <1>3

LEMMA InitDelta == RunDeltaInit => DeltaInv
<1> SUFFICES ASSUME RunDeltaInit PROVE DeltaInv
  OBVIOUS
<1>1. runs = <<>> /\ stored = {} /\ Len(runs) = 0 /\ DOMAIN runs = {}
  BY DEF RunDeltaInit
<1>2. Earlier(Len(runs) + 1) = {}
  BY <1>1 DEF Earlier
<1>3. QED
  BY <1>1, <1>2 DEF DeltaInv

\* A scan that is added with the items it was given keeps the invariant.
LEMMA AddedStands ==
  ASSUME DeltaInv, NEW row \in Scans, runs' = Append(runs, row),
         row.items = [t \in TextsOf(row.fetch) |->
                        [identity |-> FirstIdentity(row.fetch, t), created |-> t \notin stored]],
         IsFiniteSet(DOMAIN row.threads), stored' = stored \cup TextsOf(row.fetch)
  PROVE  DeltaInv'
<1>0. PICK k \in Nat : Len(runs) = k
  BY DEF DeltaInv
<1>1. /\ runs \in Seq(Scans) /\ stored = Earlier(k + 1) /\ k \in Nat /\ DOMAIN runs = 1..k
      /\ \A n \in 1..k : ItemsStand(n) /\ IsFiniteSet(DOMAIN runs[n].threads)
  BY <1>0 DEF DeltaInv
<1>2. Adds(runs, runs', row) /\ runs' \in Seq(Scans)
  BY <1>1, Appended
<1>3. /\ Len(runs') = k + 1 /\ runs'[k + 1] = row /\ \A n \in 1..k : runs'[n] = runs[n]
      /\ DOMAIN runs' = 1..k + 1
  BY <1>0, <1>2 DEF Adds
<1>4. \A n \in 1..k + 1 : Earlier(n)' = Earlier(n)
  <2>1. \A m \in 1..k : runs'[m].fetch = runs[m].fetch
    BY <1>3
  <2>2. QED
    BY <1>0, <2>1, EarlierStays
<1>5. stored' = Earlier(Len(runs) + 1)'
  <2>1. k + 1 \in Nat /\ Len(runs') = k + 1 /\ k + 1 \in 1..k + 1
    BY <1>1, <1>3
  <2>2. Earlier(k + 1 + 1)' = Given(runs', k + 1) /\ Earlier(k + 1)' = Given(runs', k)
    BY <1>1, <2>1, GivenEarlier
  <2>3. Given(runs', k + 1) = Given(runs', k) \cup TextsOf(row.fetch)
    BY <1>1, <1>3, GivenGrows
  <2>4. Earlier(k + 1)' = stored
    BY <1>1, <1>4, <2>1
  <2>5. QED
    BY <2>1, <2>2, <2>3, <2>4
<1>6. \A n \in 1..k + 1 : ItemsStand(n)' /\ IsFiniteSet(DOMAIN runs'[n].threads)
  <2>1. ASSUME NEW n \in 1..k PROVE ItemsStand(n)' /\ IsFiniteSet(DOMAIN runs'[n].threads)
    <3>1. n \in 1..k + 1
      BY <1>1, <2>1
    <3>2. runs'[n] = runs[n] /\ Earlier(n)' = Earlier(n) /\ ItemsStand(n)
      BY <1>1, <1>3, <1>4, <3>1
    <3>3. QED
      BY <1>1, <3>2 DEF ItemsStand
  <2>2. ItemsStand(k + 1)' /\ IsFiniteSet(DOMAIN runs'[k + 1].threads)
    <3>1. Earlier(k + 1)' = stored
      BY <1>1, <1>4
    <3>2. QED
      BY <1>3, <3>1 DEF ItemsStand
  <2>3. \A n \in 1..k + 1 : n \in 1..k \/ n = k + 1
    BY <1>1
  <2>4. QED
    BY <2>1, <2>2, <2>3
<1>7. QED
  BY <1>2, <1>3, <1>5, <1>6 DEF DeltaInv

\* What a successful scan adds is a row with the items it was given.
LEMMA ScanAdds ==
  ASSUME DeltaInv, NEW fetch \in Seq(Fetched), NEW ours \in BOOLEAN, NEW done \in BOOLEAN,
         Scan(fetch, ours, done)
  PROVE  DeltaInv'
<1> DEFINE saved == SaveFetchedItems(fetch)
           row == RecordScanItems(fetch, saved, ours, done)
<1>1. /\ TextsOf(fetch) \in SUBSET Text /\ IsFiniteSet(TextsOf(fetch))
      /\ \A t \in TextsOf(fetch) : FirstIdentity(fetch, t) \in Identity
  BY FetchFacts
<1>2. saved = [t \in TextsOf(fetch) |-> [identity |-> FirstIdentity(fetch, t), created |-> t \notin stored]]
  BY DEF SaveFetchedItems
<1>3. /\ DOMAIN saved = TextsOf(fetch)
      /\ saved \in [TextsOf(fetch) -> [identity : Identity, created : BOOLEAN]]
  BY <1>1, <1>2
<1>4. stored' = stored \cup TextsOf(fetch) /\ runs' = Append(runs, row)
  BY <1>3 DEF Scan
<1> DEFINE S == DetectSignals(TextsOf(fetch))
           threads == SnapshotsOf(saved)
<1>5. S \in SUBSET (Text \cup Detached) /\ IsFiniteSet(S)
  <2>1. S \in SUBSET TextsOf(fetch)
    BY DEF DetectSignals
  <2>2. QED
    BY <1>1, <2>1, FS_Subset
<1>6. threads \in [S -> Identity] /\ DOMAIN threads = S
  <2>1. \A t \in S : t \in TextsOf(fetch) /\ saved[t].identity \in Identity
    BY <1>3 DEF DetectSignals
  <2>2. threads = [t \in S |-> saved[t].identity]
    BY <1>3 DEF SnapshotsOf
  <2> HIDE DEF S, saved, threads
  <2>3. QED
    BY <2>1, <2>2
<1>7. row = [ours |-> ours, complete |-> TRUE, done |-> done, items |-> saved, threads |-> threads, fetch |-> fetch]
  BY DEF RecordScanItems
<1> HIDE DEF saved, threads, S, row
<1>8. /\ saved \in UNION {[R -> [identity : Identity, created : BOOLEAN]] : R \in SUBSET Text}
      /\ threads \in UNION {[R -> Identity] : R \in SUBSET (Text \cup Detached)}
  BY <1>1, <1>3, <1>5, <1>6
<1>9. row \in Scans
  BY <1>7, <1>8 DEF Scans
<1>10. row.items = saved /\ row.threads = threads /\ row.fetch = fetch
  BY <1>7
<1>11. QED
  BY <1>2, <1>4, <1>5, <1>6, <1>9, <1>10, AddedStands

LEMMA FailureAdds ==
  ASSUME DeltaInv, RunFails
  PROVE  DeltaInv'
<1> DEFINE row == [ours |-> TRUE, complete |-> FALSE, done |-> FALSE, items |-> <<>>, threads |-> <<>>,
                   fetch |-> <<>>]
<1>1. runs' = Append(runs, row) /\ stored' = stored
  BY DEF RunFails
<1>2. /\ <<>> \in UNION {[R -> [identity : Identity, created : BOOLEAN]] : R \in SUBSET Text}
      /\ <<>> \in UNION {[R -> Identity] : R \in SUBSET (Text \cup Detached)}
  <2>1. {} \in SUBSET Text /\ {} \in SUBSET (Text \cup Detached)
    OBVIOUS
  <2>2. QED
    BY <2>1, EmptyMap
<1>3. row \in Scans
  BY <1>2, NoFetch DEF Scans
<1>4. row.items = [t \in TextsOf(row.fetch) |->
                     [identity |-> FirstIdentity(row.fetch, t), created |-> t \notin stored]]
  <2> DEFINE f == [t \in TextsOf(row.fetch) |->
                     [identity |-> FirstIdentity(row.fetch, t), created |-> t \notin stored]]
  <2>1. row.fetch = <<>> /\ row.items = <<>>
    OBVIOUS
  <2>2. TextsOf(row.fetch) = {}
    BY <2>1, NoFetch
  <2>3. f = [t \in {} |-> f[t]]
    BY <2>2
  <2> HIDE DEF f
  <2>4. f = <<>>
    BY <2>3, EmptyMap
  <2>5. QED
    BY <2>1, <2>4 DEF f
<1>5. IsFiniteSet(DOMAIN row.threads) /\ stored' = stored \cup TextsOf(row.fetch)
  <2>1. DOMAIN row.threads = {} /\ row.fetch = <<>>
    OBVIOUS
  <2>2. QED
    BY <1>1, <2>1, NoFetch, FS_EmptySet
<1> HIDE DEF row
<1>6. QED
  BY <1>1, <1>3, <1>4, <1>5, AddedStands

LEMMA DetachKeeps ==
  ASSUME DeltaInv, NEW n \in DOMAIN runs, NEW t \in Text, NEW d \in Detached, DetachSnapshot(n, t, d)
  PROVE  DeltaInv'
<1>0. PICK k \in Nat : Len(runs) = k
  BY DEF DeltaInv
<1>1. /\ runs \in [1..k -> Scans] /\ stored = Earlier(k + 1) /\ DOMAIN runs = 1..k
      /\ \A m \in 1..k : ItemsStand(m) /\ IsFiniteSet(DOMAIN runs[m].threads)
  BY <1>0 DEF DeltaInv
<1> DEFINE was == runs[n].threads
           now == [u \in (DOMAIN was \ {t}) \cup {d} |-> IF u = d THEN was[t] ELSE was[u]]
<1>2. /\ runs' = [runs EXCEPT ![n].threads = now] /\ stored' = stored /\ t \in DOMAIN was
  BY DEF DetachSnapshot
<1>3. was \in UNION {[R -> Identity] : R \in SUBSET (Text \cup Detached)} /\ runs[n] \in Scans
  BY <1>1 DEF Scans
<1>4. PICK R \in SUBSET (Text \cup Detached) : was \in [R -> Identity]
  BY <1>3
<1>5. now \in [(R \ {t}) \cup {d} -> Identity] /\ (R \ {t}) \cup {d} \in SUBSET (Text \cup Detached)
  BY <1>2, <1>4
<1>6. now \in UNION {[Q -> Identity] : Q \in SUBSET (Text \cup Detached)} /\ IsFiniteSet(DOMAIN now)
  <2>1. IsFiniteSet(R)
    BY <1>1, <1>4
  <2>2. IsFiniteSet((R \ {t}) \cup {d})
    BY <2>1, FS_RemoveElement, FS_AddElement
  <2>3. QED
    BY <1>5, <2>2
<1> HIDE DEF now, was
<1> DEFINE changed == [runs[n] EXCEPT !.threads = now]
<1>7. /\ changed \in Scans /\ changed.fetch = runs[n].fetch /\ changed.items = runs[n].items
      /\ changed.threads = now
  BY <1>3, <1>6 DEF Scans
<1>8. runs' = [runs EXCEPT ![n] = changed]
  BY <1>2
<1> HIDE DEF changed
<1>9. /\ runs' \in [1..k -> Scans] /\ runs'[n] = changed /\ \A m \in 1..k : m # n => runs'[m] = runs[m]
  BY <1>1, <1>7, <1>8
<1>10. /\ \A m \in 1..k : /\ runs'[m].fetch = runs[m].fetch /\ runs'[m].items = runs[m].items
                          /\ IsFiniteSet(DOMAIN runs'[m].threads)
  BY <1>1, <1>6, <1>7, <1>9
<1>11. runs' \in Seq(Scans) /\ Len(runs') = k /\ DOMAIN runs' = 1..k
  BY <1>0, <1>9
<1>12. \A j \in 1..k + 1 : Earlier(j)' = Earlier(j)
  BY <1>0, <1>10, EarlierStays
<1>13. stored' = Earlier(Len(runs) + 1)'
  <2>1. k + 1 \in 1..k + 1
    BY <1>0
  <2>2. QED
    BY <1>1, <1>2, <1>11, <1>12, <2>1
<1>14. \A m \in 1..k : ItemsStand(m)'
  <2>1. \A m \in 1..k : m \in 1..k + 1
    BY <1>0
  <2>2. QED
    BY <1>1, <1>10, <1>12, <2>1 DEF ItemsStand
<1>15. QED
  BY <1>10, <1>11, <1>13, <1>14 DEF DeltaInv

LEMMA StepDelta == DeltaInv /\ [RunDeltaNext]_deltaVars => DeltaInv'
<1> SUFFICES ASSUME DeltaInv, [RunDeltaNext]_deltaVars PROVE DeltaInv'
  OBVIOUS
<1>1. ASSUME NEW fetch \in Fetches, RunCompletes(fetch) \/ RunReportLost(fetch) PROVE DeltaInv'
  <2>1. PICK n \in Nat : fetch \in [1..n -> Fetched]
    <3>1. PICK n \in 0..MaxFetch : fetch \in [1..n -> Fetched]
      BY DEF Fetches
    <3>2. n \in Nat
      OBVIOUS
    <3>3. QED
      BY <3>1, <3>2
  <2>2. fetch \in Seq(Fetched)
    BY <2>1
  <2>3. QED
    BY <1>1, <2>2, ScanAdds DEF RunCompletes, RunReportLost
<1>2. ASSUME NEW f \in Fetched, OtherScan(f) PROVE DeltaInv'
  <2>1. <<f>> \in Seq(Fetched)
    OBVIOUS
  <2>2. QED
    BY <1>2, <2>1, ScanAdds DEF OtherScan
<1>3. CASE UNCHANGED deltaVars
  <2>1. runs' = runs /\ stored' = stored
    BY <1>3 DEF deltaVars
  <2>2. QED
    BY <2>1 DEF DeltaInv, ItemsStand, Earlier
<1>4. QED
  BY <1>1, <1>2, <1>3, FailureAdds, DetachKeeps DEF RunDeltaNext


(* What a scan reports of the items it was given, by their texts. *)
Reported(n, S) == {[identity |-> FirstIdentity(runs[n].fetch, t), text |-> t, created |-> t \notin Earlier(n)] : t \in S}

LEMMA DeltaFacts ==
  ASSUME DeltaInv
  PROVE  \A n \in DOMAIN runs :
           /\ n \in Nat /\ n > 0 /\ runs[n].fetch \in Seq(Fetched)
           /\ TextsOf(runs[n].fetch) \in SUBSET Text
           /\ ObservationsForScan(n, FALSE) = Reported(n, TextsOf(runs[n].fetch))
           /\ ObservationsForScan(n, TRUE) = Reported(n, DetectSignals(TextsOf(runs[n].fetch)))
<1> SUFFICES ASSUME NEW n \in DOMAIN runs
             PROVE  /\ n \in Nat /\ n > 0 /\ runs[n].fetch \in Seq(Fetched)
                    /\ TextsOf(runs[n].fetch) \in SUBSET Text
                    /\ ObservationsForScan(n, FALSE) = Reported(n, TextsOf(runs[n].fetch))
                    /\ ObservationsForScan(n, TRUE) = Reported(n, DetectSignals(TextsOf(runs[n].fetch)))
  OBVIOUS
<1> DEFINE f == runs[n].fetch
           texts == TextsOf(f)
           kept == runs[n].items
<1>1. PICK k \in Nat : runs \in [1..k -> Scans] /\ DOMAIN runs = 1..k
  <2>1. Len(runs) \in Nat /\ runs \in [1..Len(runs) -> Scans] /\ DOMAIN runs = 1..Len(runs)
    BY DEF DeltaInv
  <2>2. QED
    BY <2>1
<1>2. n \in Nat /\ n > 0
  BY <1>1
<1>3. f \in Seq(Fetched)
  BY <1>1 DEF Scans
<1>4. texts \in SUBSET Text
  BY <1>3, FetchFacts
<1>5. kept = [t \in texts |-> [identity |-> FirstIdentity(f, t), created |-> t \notin Earlier(n)]]
  BY DEF DeltaInv, ItemsStand
<1> HIDE DEF f, texts, kept
<1>6. /\ DOMAIN kept = texts
      /\ \A t \in texts : kept[t].identity = FirstIdentity(f, t) /\ kept[t].created = (t \notin Earlier(n))
  BY <1>5
<1>7. \A S \in SUBSET texts :
        {[identity |-> kept[t].identity, text |-> t, created |-> kept[t].created] : t \in S} = Reported(n, S)
  <2>1. SUFFICES ASSUME NEW S \in SUBSET texts
                 PROVE  {[identity |-> kept[t].identity, text |-> t, created |-> kept[t].created] : t \in S} = Reported(n, S)
    OBVIOUS
  <2>2. \A t \in S : [identity |-> kept[t].identity, text |-> t, created |-> kept[t].created]
                       = [identity |-> FirstIdentity(f, t), text |-> t, created |-> t \notin Earlier(n)]
    BY <1>6
  <2>3. Reported(n, S) = {[identity |-> FirstIdentity(f, t), text |-> t, created |-> t \notin Earlier(n)] : t \in S}
    BY DEF Reported, f
  <2>4. QED
    BY <2>2, <2>3
<1>8. texts \in SUBSET texts /\ DetectSignals(texts) \in SUBSET texts
  BY DEF DetectSignals
<1>9. /\ ObservationsForScan(n, FALSE) =
            {[identity |-> kept[t].identity, text |-> t, created |-> kept[t].created] : t \in texts}
      /\ ObservationsForScan(n, TRUE) =
            {[identity |-> kept[t].identity, text |-> t, created |-> kept[t].created] : t \in DetectSignals(texts)}
  BY <1>6 DEF ObservationsForScan, kept
<1>10. QED
  BY <1>2, <1>3, <1>4, <1>7, <1>8, <1>9 DEF f, texts

LEMMA ReportedParts ==
  ASSUME NEW n, NEW S
  PROVE  /\ Identities(Reported(n, S)) = {FirstIdentity(runs[n].fetch, t) : t \in S}
         /\ \A i : TextsBy(Reported(n, S), i) = {t \in S : FirstIdentity(runs[n].fetch, t) = i}
         /\ {o.text : o \in {p \in Reported(n, S) : p.created}} = S \ Earlier(n)
         /\ {o.text : o \in {p \in Reported(n, S) : ~p.created}} = S \cap Earlier(n)
<1> DEFINE row(t) == [identity |-> FirstIdentity(runs[n].fetch, t), text |-> t, created |-> t \notin Earlier(n)]
<1>1. \A t : /\ row(t).identity = FirstIdentity(runs[n].fetch, t) /\ row(t).text = t
             /\ row(t).created <=> t \notin Earlier(n)
  OBVIOUS
<1>2. Reported(n, S) = {row(t) : t \in S}
  BY DEF Reported
<1> HIDE DEF row
<1>3. \A o : o \in Reported(n, S) <=> \E t \in S : o = row(t)
  BY <1>2
<1>4. Identities(Reported(n, S)) = {FirstIdentity(runs[n].fetch, t) : t \in S}
  BY <1>1, <1>2 DEF Identities
<1>5. ASSUME NEW i PROVE TextsBy(Reported(n, S), i) = {t \in S : FirstIdentity(runs[n].fetch, t) = i}
  BY <1>1, <1>3 DEF TextsBy
<1>6. {o.text : o \in {p \in Reported(n, S) : p.created}} = S \ Earlier(n)
  BY <1>1, <1>3
<1>7. {o.text : o \in {p \in Reported(n, S) : ~p.created}} = S \cap Earlier(n)
  BY <1>1, <1>3
<1>8. QED
  BY <1>4, <1>5, <1>6, <1>7


LEMMA BeforeFacts ==
  ASSUME DeltaInv, NEW n \in DOMAIN runs, NEW m \in RunBefore(n)
  PROVE  /\ m \in DOMAIN runs /\ m \in 1..n - 1
         /\ ObservationsBefore(n, FALSE) = ObservationsForScan(m, FALSE)
         /\ ObservationsBefore(n, TRUE) = ObservationsForScan(m, TRUE)
         /\ TextsOf(runs[m].fetch) \subseteq Earlier(n)
<1>1. PICK k \in Nat : DOMAIN runs = 1..k
  <2>1. Len(runs) \in Nat /\ DOMAIN runs = 1..Len(runs)
    BY DEF DeltaInv
  <2>2. QED
    BY <2>1
<1>2. m \in 1..n - 1 /\ Comparable(m) /\ \A j \in m + 1..n - 1 : ~Comparable(j)
  BY DEF RunBefore
<1>3. m \in DOMAIN runs /\ n \in Nat /\ m \in Nat
  BY <1>1, <1>2
<1>4. m \in PriorRuns(n) /\ \A j \in PriorRuns(n) : j \in Nat /\ j <= m
  <2>1. ASSUME NEW j \in PriorRuns(n) PROVE j \in Nat /\ j <= m
    <3>1. j \in 1..n - 1 /\ Comparable(j)
      BY DEF PriorRuns
    <3>2. ~ (j \in m + 1..n - 1)
      BY <1>2, <3>1
    <3>3. QED
      BY <1>3, <3>1, <3>2
  <2>2. QED
    BY <1>2, <2>1 DEF PriorRuns
<1>5. LastOf(PriorRuns(n)) = m
  <2> DEFINE last == CHOOSE x \in PriorRuns(n) : \A j \in PriorRuns(n) : j <= x
  <2>1. last \in PriorRuns(n) /\ \A j \in PriorRuns(n) : j <= last
    BY <1>4
  <2>2. LastOf(PriorRuns(n)) = last
    BY DEF LastOf
  <2> HIDE DEF last
  <2>3. last \in Nat /\ last <= m /\ m <= last
    BY <1>4, <2>1
  <2>4. QED
    BY <1>3, <2>2, <2>3
<1>6. PriorRuns(n) # {}
  BY <1>4
<1>7. /\ ObservationsBefore(n, FALSE) = ObservationsForScan(m, FALSE)
      /\ ObservationsBefore(n, TRUE) = ObservationsForScan(m, TRUE)
  BY <1>5, <1>6 DEF ObservationsBefore
<1>8. TextsOf(runs[m].fetch) \subseteq Earlier(n)
  BY <1>2 DEF Earlier
<1>9. QED
  BY <1>2, <1>3, <1>7, <1>8

\* The identity a text is stored under is that of the first item with it.
LEMMA LeadFacts ==
  ASSUME NEW fetch \in Seq(Fetched)
  PROVE  /\ \A t \in TextsOf(fetch) : \E k \in Leading(fetch) : fetch[k].text = t
         /\ \A k \in Leading(fetch) : /\ fetch[k].text \in TextsOf(fetch)
                                      /\ FirstIdentity(fetch, fetch[k].text) = fetch[k].identity
<1>1. PICK n \in Nat : DOMAIN fetch = 1..n
  <2>1. Len(fetch) \in Nat /\ DOMAIN fetch = 1..Len(fetch)
    OBVIOUS
  <2>2. QED
    BY <2>1
<1>2. ASSUME NEW t \in TextsOf(fetch) PROVE \E k \in Leading(fetch) : fetch[k].text = t
  <2> DEFINE with == {i \in DOMAIN fetch : fetch[i].text = t}
  <2>1. with \in SUBSET Nat /\ with # {} /\ t # Contentless
    BY <1>1 DEF TextsOf
  <2>2. PICK k \in with : \A j \in with : k <= j
    BY <2>1, LeastExists
  <2>3. \A j \in 1..k - 1 : j \in DOMAIN fetch /\ ~(k <= j)
    BY <1>1
  <2>4. k \in Leading(fetch)
    BY <2>1, <2>2, <2>3 DEF Leading
  <2>5. QED
    BY <2>4
<1>3. ASSUME NEW k \in Leading(fetch)
      PROVE  /\ fetch[k].text \in TextsOf(fetch)
             /\ FirstIdentity(fetch, fetch[k].text) = fetch[k].identity
  <2> DEFINE with == {i \in DOMAIN fetch : fetch[i].text = fetch[k].text}
             first == CHOOSE i \in with : \A j \in with : i <= j
  <2>1. k \in 1..n /\ fetch[k].text # Contentless /\ \A j \in 1..k - 1 : fetch[j].text # fetch[k].text
    BY <1>1 DEF Leading
  <2>2. k \in with /\ with \in SUBSET (1..n)
    BY <1>1, <2>1
  <2>3. \A j \in with : k <= j
    <3>1. \A j \in with : j \in 1..n /\ ~(j \in 1..k - 1)
      BY <2>1, <2>2
    <3>2. QED
      BY <2>1, <3>1
  <2>4. first \in with /\ \A j \in with : first <= j
    BY <2>2, <2>3
  <2> HIDE DEF first
  <2>5. first = k
    BY <1>1, <2>1, <2>2, <2>3, <2>4
  <2>6. FirstIdentity(fetch, fetch[k].text) = fetch[first].identity
    BY DEF FirstIdentity, first
  <2>7. fetch[k].text \in TextsOf(fetch)
    BY <1>1, <2>1 DEF TextsOf
  <2>8. QED
    BY <2>5, <2>6, <2>7
<1>4. QED
  BY <1>2, <1>3

\* What is reported of a fetch is what its leading items are.
LEMMA LedIsReported ==
  ASSUME NEW n, runs[n].fetch \in Seq(Fetched)
  PROVE  LET obs == Reported(n, TextsOf(runs[n].fetch)) IN
         /\ Identities(obs) = SeenIn(runs[n].fetch)
         /\ \A i : TextsBy(obs, i) = LedBy(runs[n].fetch, i)
<1> DEFINE f == runs[n].fetch
           texts == TextsOf(f)
<1>1. /\ \A t \in texts : \E k \in Leading(f) : f[k].text = t
      /\ \A k \in Leading(f) : f[k].text \in texts /\ FirstIdentity(f, f[k].text) = f[k].identity
  BY LeadFacts
<1> HIDE DEF f, texts
<1>2. \A i, t : t \in LedBy(f, i) <=> \E k \in Leading(f) : f[k].identity = i /\ f[k].text = t
  BY DEF LedBy
<1>3. \A i, t : t \in LedBy(f, i) <=> t \in texts /\ FirstIdentity(f, t) = i
  BY <1>1, <1>2
<1>4. \A i : {t \in texts : FirstIdentity(f, t) = i} = LedBy(f, i)
  BY <1>3
<1>5. {FirstIdentity(f, t) : t \in texts} = SeenIn(f)
  BY <1>1 DEF SeenIn
<1>6. /\ Identities(Reported(n, texts)) = {FirstIdentity(f, t) : t \in texts}
      /\ \A i : TextsBy(Reported(n, texts), i) = {t \in texts : FirstIdentity(f, t) = i}
  BY ReportedParts DEF f
<1>7. Identities(Reported(n, texts)) = SeenIn(f) /\ \A i : TextsBy(Reported(n, texts), i) = LedBy(f, i)
  BY <1>4, <1>5, <1>6
<1>8. QED
  BY <1>7 DEF f, texts

LEMMA DeltaTermsHold == DeltaInv => DeltaTerms
<1> SUFFICES ASSUME DeltaInv, NEW n \in DOMAIN runs, HasDelta(n)
             PROVE  LET delta == EvidenceChanges(n)
                        texts == TextsOf(runs[n].fetch)
                    IN /\ delta.new = Cardinality(texts \ Earlier(n))
                       /\ delta.seenBefore = Cardinality(texts \cap Earlier(n))
                       /\ \A m \in RunBefore(n) :
                            LET now == runs[n].fetch then == runs[m].fetch IN
                            /\ delta.updated = Cardinality({i \in SeenIn(now) \cap SeenIn(then) :
                                                               LedBy(now, i) # LedBy(then, i)})
                            /\ delta.unchanged = Cardinality({i \in SeenIn(now) : LedBy(now, i) = LedBy(then, i)})
                            /\ delta.notObserved = Cardinality(SeenIn(then) \ SeenIn(now))
  BY DEF DeltaTerms
<1> DEFINE delta == EvidenceChanges(n)
           texts == TextsOf(runs[n].fetch)
           present == ObservationsForScan(n, FALSE)
           previous == ObservationsBefore(n, FALSE)
           shared == Identities(present) \cap Identities(previous)
           same == {i \in shared : TextsBy(present, i) = TextsBy(previous, i)}
<1>1. present = Reported(n, texts)
  BY DeltaFacts
<1>2. delta = ChangeCounts(present, previous)
  BY DEF EvidenceChanges
<1>3. /\ delta.new = Cardinality({o.text : o \in {p \in present : p.created}})
      /\ delta.seenBefore = Cardinality({o.text : o \in {p \in present : ~p.created}})
      /\ delta.updated = Cardinality(shared \ same)
      /\ delta.unchanged = Cardinality(same)
      /\ delta.notObserved = Cardinality(Identities(previous) \ Identities(present))
  BY <1>2 DEF ChangeCounts
<1> HIDE DEF delta, present, previous
<1>4. delta.new = Cardinality(texts \ Earlier(n)) /\ delta.seenBefore = Cardinality(texts \cap Earlier(n))
  BY <1>1, <1>3, ReportedParts
<1>5. ASSUME NEW m \in RunBefore(n)
      PROVE  /\ delta.updated = Cardinality({i \in SeenIn(runs[n].fetch) \cap SeenIn(runs[m].fetch) :
                                                LedBy(runs[n].fetch, i) # LedBy(runs[m].fetch, i)})
             /\ delta.unchanged = Cardinality({i \in SeenIn(runs[n].fetch) :
                                                LedBy(runs[n].fetch, i) = LedBy(runs[m].fetch, i)})
             /\ delta.notObserved = Cardinality(SeenIn(runs[m].fetch) \ SeenIn(runs[n].fetch))
  <2> DEFINE now == runs[n].fetch
             then == runs[m].fetch
  <2>1. m \in DOMAIN runs /\ previous = ObservationsForScan(m, FALSE)
    BY BeforeFacts DEF previous
  <2>2. previous = Reported(m, TextsOf(then))
    BY <2>1, DeltaFacts
  <2>3. now \in Seq(Fetched) /\ then \in Seq(Fetched)
    BY <2>1, DeltaFacts
  <2>4. Identities(present) = SeenIn(now) /\ \A i : TextsBy(present, i) = LedBy(now, i)
    BY <1>1, <2>3, LedIsReported
  <2>5. Identities(previous) = SeenIn(then) /\ \A i : TextsBy(previous, i) = LedBy(then, i)
    BY <2>2, <2>3, LedIsReported
  <2> HIDE DEF now, then
  <2>6. \A i \in SeenIn(now) : LedBy(now, i) = LedBy(then, i) => i \in SeenIn(then)
    BY DEF SeenIn, LedBy
  <2>7. shared \ same = {i \in SeenIn(now) \cap SeenIn(then) : LedBy(now, i) # LedBy(then, i)}
    BY <2>4, <2>5
  <2>8. same = {i \in SeenIn(now) : LedBy(now, i) = LedBy(then, i)}
    BY <2>4, <2>5, <2>6
  <2> HIDE DEF shared, same
  <2>9. QED
    BY <1>3, <2>4, <2>5, <2>7, <2>8 DEF now, then
<1>6. QED
  BY <1>4, <1>5 DEF delta


\* Two reports of the same texts under the same identities, the second with
\* nothing new: nothing changed.
LEMMA SameIsUnchanged ==
  ASSUME NEW n, NEW m, NEW S, runs[m].fetch = runs[n].fetch, S \subseteq Earlier(n)
  PROVE  LET delta == ChangeCounts(Reported(n, S), Reported(m, S)) IN
         /\ delta.new = 0 /\ delta.updated = 0 /\ delta.notObserved = 0
         /\ delta.unchanged = Cardinality(Identities(Reported(n, S)))
<1> DEFINE present == Reported(n, S)
           previous == Reported(m, S)
           delta == ChangeCounts(present, previous)
           shared == Identities(present) \cap Identities(previous)
           same == {i \in shared : TextsBy(present, i) = TextsBy(previous, i)}
<1>1. /\ delta.new = Cardinality({o.text : o \in {p \in present : p.created}})
      /\ delta.updated = Cardinality(shared \ same)
      /\ delta.unchanged = Cardinality(same)
      /\ delta.notObserved = Cardinality(Identities(previous) \ Identities(present))
  BY DEF ChangeCounts
<1>2. {o.text : o \in {p \in present : p.created}} = {}
  <2>1. {o.text : o \in {p \in present : p.created}} = S \ Earlier(n)
    BY ReportedParts
  <2>2. QED
    BY <2>1
<1>3. Identities(present) = Identities(previous) /\ \A i : TextsBy(present, i) = TextsBy(previous, i)
  <2>1. /\ Identities(present) = {FirstIdentity(runs[n].fetch, t) : t \in S}
        /\ \A i : TextsBy(present, i) = {t \in S : FirstIdentity(runs[n].fetch, t) = i}
    BY ReportedParts
  <2>2. /\ Identities(previous) = {FirstIdentity(runs[m].fetch, t) : t \in S}
        /\ \A i : TextsBy(previous, i) = {t \in S : FirstIdentity(runs[m].fetch, t) = i}
    BY ReportedParts
  <2>3. QED
    BY <2>1, <2>2
<1> HIDE DEF present, previous, delta
<1>4. same = Identities(present) /\ shared \ same = {} /\ Identities(previous) \ Identities(present) = {}
  BY <1>3
<1>5. Cardinality({}) = 0
  BY FS_EmptySet
<1> HIDE DEF shared, same
<1>6. /\ delta.new = 0 /\ delta.updated = 0 /\ delta.notObserved = 0
      /\ delta.unchanged = Cardinality(Identities(present))
  BY <1>1, <1>2, <1>4, <1>5
<1>7. QED
  BY <1>6 DEF present, previous, delta

LEMMA RepeatHolds == DeltaInv => RepeatIsUnchanged
<1> SUFFICES ASSUME DeltaInv, NEW n \in DOMAIN runs, NEW m \in RunBefore(n), runs[m].fetch = runs[n].fetch
             PROVE  LET delta == CalculateRunDelta(n) IN
                    /\ \A part \in {"evidence", "signals"} :
                         delta[part].new = 0 /\ delta[part].updated = 0 /\ delta[part].notObserved = 0
                    /\ delta.evidence.unchanged = Cardinality(Identities(ObservationsForScan(n, FALSE)))
  BY DEF RepeatIsUnchanged
<1> DEFINE texts == TextsOf(runs[n].fetch)
           delta == CalculateRunDelta(n)
<1>1. /\ m \in DOMAIN runs
      /\ ObservationsBefore(n, FALSE) = ObservationsForScan(m, FALSE)
      /\ ObservationsBefore(n, TRUE) = ObservationsForScan(m, TRUE)
      /\ texts \subseteq Earlier(n) /\ DetectSignals(texts) \subseteq Earlier(n)
  BY BeforeFacts DEF DetectSignals
<1>2. /\ ObservationsForScan(n, FALSE) = Reported(n, texts)
      /\ ObservationsForScan(n, TRUE) = Reported(n, DetectSignals(texts))
      /\ ObservationsForScan(m, FALSE) = Reported(m, texts)
      /\ ObservationsForScan(m, TRUE) = Reported(m, DetectSignals(texts))
  BY <1>1, DeltaFacts
<1>3. /\ delta.evidence = ChangeCounts(Reported(n, texts), Reported(m, texts))
      /\ delta.signals = ChangeCounts(Reported(n, DetectSignals(texts)), Reported(m, DetectSignals(texts)))
  BY <1>1, <1>2 DEF CalculateRunDelta, EvidenceChanges
<1> HIDE DEF texts, delta
<1>4. /\ delta.evidence.new = 0 /\ delta.evidence.updated = 0 /\ delta.evidence.notObserved = 0
      /\ delta.evidence.unchanged = Cardinality(Identities(Reported(n, texts)))
  BY <1>1, <1>3, SameIsUnchanged
<1>5. delta.signals.new = 0 /\ delta.signals.updated = 0 /\ delta.signals.notObserved = 0
  BY <1>1, <1>3, SameIsUnchanged
<1>6. QED
  BY <1>2, <1>4, <1>5 DEF delta

\* The threads the comparable ones of the first k runs have, those the k-th brings,
\* and those the first k runs report as new.
Counted == {n \in DOMAIN runs : Comparable(n)}
Reporting == {n \in DOMAIN runs : HasDelta(n)}
KnownUpTo(k) == UNION {DOMAIN runs[n].threads : n \in {i \in Counted : i <= k}}
NewIn(k) == DOMAIN runs[k].threads \ KnownUpTo(k - 1)
ThreadsUpTo(k) == UNION {NewIn(n) : n \in {i \in Reporting : i <= k}}

LEMMA Brought ==
  ASSUME DeltaInv, NEW L \in Nat, DOMAIN runs = 1..L, NEW n \in 1..L
  PROVE  /\ NewIn(n) \subseteq Text \cup Detached
         /\ \A t : t \in NewIn(n) <=> BroughtBy(n, t)
<1>1. DOMAIN runs[n].threads \subseteq Text \cup Detached
  <2>1. runs[n] \in Scans
    BY DEF DeltaInv
  <2>2. PICK S \in SUBSET (Text \cup Detached) : runs[n].threads \in [S -> Identity]
    BY <2>1 DEF Scans
  <2>3. QED
    BY <2>2
<1>2. {i \in Counted : i <= n - 1} = {m \in 1..n - 1 : Comparable(m)}
  BY DEF Counted
<1>3. \A t : t \in KnownUpTo(n - 1) <=> \E m \in 1..n - 1 : Comparable(m) /\ t \in DOMAIN runs[m].threads
  BY <1>2 DEF KnownUpTo
<1>4. QED
  BY <1>1, <1>3 DEF NewIn, BroughtBy

LEMMA NewThreads ==
  ASSUME DeltaInv, NEW L \in Nat, DOMAIN runs = 1..L
  PROVE  /\ ThreadsUpTo(0) = {}
         /\ ThreadsUpTo(L) = {t \in Text \cup Detached : \E n \in DOMAIN runs : HasDelta(n) /\ BroughtBy(n, t)}
         /\ \A k \in 1..L : /\ k \notin Reporting => ThreadsUpTo(k) = ThreadsUpTo(k - 1)
                           /\ ThreadsUpTo(k - 1) \cap NewIn(k) = {}
         /\ \A k \in Reporting : /\ ThreadsUpTo(k) = ThreadsUpTo(k - 1) \cup NewIn(k)
                               /\ ThreadChanges(k).new = Cardinality(NewIn(k))
<1>1. /\ Reporting \subseteq Counted /\ Counted \subseteq 1..L
      /\ \A k \in Counted : k \in Nat /\ k > 0 /\ k <= L
  BY DEF Counted, Reporting, HasDelta
<1>2. {i \in Reporting : i <= 0} = {} /\ {i \in Reporting : i <= L} = Reporting
  <2>1. \A i \in Reporting : ~(i <= 0) /\ i <= L
    BY <1>1
  <2>2. QED
    BY <2>1
<1>3. ThreadsUpTo(0) = {}
  BY <1>2 DEF ThreadsUpTo
<1>4. ThreadsUpTo(L) = {t \in Text \cup Detached : \E n \in DOMAIN runs : HasDelta(n) /\ BroughtBy(n, t)}
  <2>1. \A t : t \in ThreadsUpTo(L) <=> \E n \in Reporting : t \in NewIn(n)
    BY <1>2 DEF ThreadsUpTo
  <2>2. \A n \in Reporting : /\ n \in DOMAIN runs /\ HasDelta(n) /\ NewIn(n) \subseteq Text \cup Detached
                            /\ \A t : t \in NewIn(n) <=> BroughtBy(n, t)
    BY Brought DEF Reporting
  <2>3. \A n \in DOMAIN runs : HasDelta(n) => n \in Reporting
    BY DEF Reporting
  <2>4. QED
    BY <2>1, <2>2, <2>3
<1>5. ASSUME NEW k \in 1..L, k \notin Reporting PROVE ThreadsUpTo(k) = ThreadsUpTo(k - 1)
  <2>1. {i \in Reporting : i <= k} = {i \in Reporting : i <= k - 1}
    <3>1. \A i \in Reporting : i <= k <=> i <= k - 1
      BY <1>1, <1>5
    <3>2. QED
      BY <3>1
  <2>2. QED
    BY <2>1 DEF ThreadsUpTo
<1>6. ASSUME NEW k \in Reporting PROVE ThreadsUpTo(k) = ThreadsUpTo(k - 1) \cup NewIn(k)
  <2>1. {i \in Reporting : i <= k} = {i \in Reporting : i <= k - 1} \cup {k}
    <3>1. \A i \in Reporting : i <= k <=> i <= k - 1 \/ i = k
      BY <1>1
    <3>2. k \in Nat /\ k <= k
      BY <1>1
    <3>3. QED
      BY <3>1, <3>2
  <2>2. QED
    BY <2>1 DEF ThreadsUpTo
<1>7. ASSUME NEW k \in 1..L PROVE ThreadsUpTo(k - 1) \cap NewIn(k) = {}
  <2>1. \A n \in {i \in Reporting : i <= k - 1} : n \in {i \in Counted : i <= k - 1}
    BY <1>1
  <2>2. \A n : NewIn(n) \subseteq DOMAIN runs[n].threads
    BY DEF NewIn
  <2>3. ThreadsUpTo(k - 1) \subseteq KnownUpTo(k - 1)
    BY <2>1, <2>2 DEF ThreadsUpTo, KnownUpTo
  <2>4. QED
    BY <2>3 DEF NewIn
<1>8. ASSUME NEW k \in Reporting
      PROVE  ThreadChanges(k).new = Cardinality(NewIn(k))
  <2>1. PriorRuns(k) = {i \in Counted : i <= k - 1}
    BY <1>1 DEF PriorRuns, Counted
  <2>2. DOMAIN PriorContent(k) = UNION {DOMAIN runs[m].threads : m \in PriorRuns(k)}
    BY DEF PriorContent
  <2>3. DOMAIN PriorContent(k) = KnownUpTo(k - 1)
    BY <2>1, <2>2 DEF KnownUpTo
  <2>4. ThreadChanges(k).new = Cardinality(DOMAIN runs[k].threads \ DOMAIN PriorContent(k))
    BY DEF ThreadChanges
  <2>5. QED
    BY <2>3, <2>4 DEF NewIn
<1>9. QED
  BY <1>3, <1>4, <1>5, <1>6, <1>7, <1>8

LEMMA NewFinite ==
  ASSUME DeltaInv, NEW k \in DOMAIN runs
  PROVE  IsFiniteSet(NewIn(k))
<1>1. IsFiniteSet(DOMAIN runs[k].threads) /\ NewIn(k) \in SUBSET DOMAIN runs[k].threads
  BY DEF DeltaInv, NewIn
<1>2. QED
  BY <1>1, FS_Subset

LEMMA ThreadsFinite ==
  ASSUME DeltaInv, NEW L \in Nat, DOMAIN runs = 1..L
  PROVE  \A k \in 0..L : IsFiniteSet(ThreadsUpTo(k)) /\ Cardinality(ThreadsUpTo(k)) \in Nat
<1> DEFINE Wrong == {k \in 0..L : ~ IsFiniteSet(ThreadsUpTo(k))}
<1>1. ASSUME Wrong # {} PROVE FALSE
  <2>1. Wrong \in SUBSET Nat
    OBVIOUS
  <2>2. PICK k \in Wrong : \A j \in Wrong : k <= j
    BY <1>1, <2>1, LeastExists
  <2>3. k \in 0..L /\ ~ IsFiniteSet(ThreadsUpTo(k))
    OBVIOUS
  <2>4. k # 0
    BY <2>3, NewThreads, FS_EmptySet
  <2>5. k - 1 \in 0..L /\ ~(k <= k - 1) /\ k \in 1..L
    BY <2>3, <2>4
  <2>6. IsFiniteSet(ThreadsUpTo(k - 1))
    BY <2>2, <2>5
  <2>7. CASE k \in Reporting
    <3>1. IsFiniteSet(NewIn(k))
      BY <2>5, NewFinite
    <3>2. ThreadsUpTo(k) = ThreadsUpTo(k - 1) \cup NewIn(k)
      BY <2>7, NewThreads
    <3>3. IsFiniteSet(ThreadsUpTo(k - 1) \cup NewIn(k))
      BY <2>6, <3>1, FS_Union
    <3>4. QED
      BY <2>3, <3>2, <3>3
  <2>8. CASE k \notin Reporting
    BY <2>3, <2>5, <2>6, <2>8, NewThreads
  <2>9. QED
    BY <2>7, <2>8
<1>2. \A k \in 0..L : IsFiniteSet(ThreadsUpTo(k))
  BY <1>1
<1>3. QED
  BY <1>2, FS_CardinalityType

\* The threads of the runs so far, counted, solve the equation of the sum of what
\* each run reports as new, and nothing else does.
Sums(f, L) ==
  f = [k \in 0..L |-> IF k = 0 THEN 0
                      ELSE f[k - 1] + (IF k \in Reporting THEN ThreadChanges(k).new ELSE 0)]

LEMMA CountsGrow ==
  ASSUME DeltaInv, NEW L \in Nat, DOMAIN runs = 1..L, NEW k \in 1..L
  PROVE  Cardinality(ThreadsUpTo(k)) = Cardinality(ThreadsUpTo(k - 1))
           + (IF k \in Reporting THEN ThreadChanges(k).new ELSE 0)
<1>1. /\ k - 1 \in 0..L /\ IsFiniteSet(ThreadsUpTo(k - 1)) /\ Cardinality(ThreadsUpTo(k - 1)) \in Nat
  <2>1. k - 1 \in 0..L
    OBVIOUS
  <2>2. QED
    BY <2>1, ThreadsFinite
<1>2. CASE k \in Reporting
  <2> DEFINE new == NewIn(k)
             old == ThreadsUpTo(k - 1)
  <2>1. ThreadsUpTo(k) = old \cup new /\ old \cap new = {} /\ ThreadChanges(k).new = Cardinality(new)
    BY <1>2, NewThreads
  <2>2. IsFiniteSet(new)
    BY NewFinite
  <2> HIDE DEF new, old
  <2>3. Cardinality(old \cup new) = Cardinality(old) + Cardinality(new) - Cardinality(old \cap new)
    BY <1>1, <2>2, FS_Union DEF old
  <2>4. Cardinality(old \cap new) = 0 /\ Cardinality(new) \in Nat /\ Cardinality(old) \in Nat
    BY <1>1, <2>1, <2>2, FS_EmptySet, FS_CardinalityType DEF old
  <2>5. Cardinality(ThreadsUpTo(k)) = Cardinality(old) + Cardinality(new)
    BY <2>1, <2>3, <2>4
  <2>6. QED
    BY <1>2, <2>1, <2>5 DEF old
<1>3. CASE k \notin Reporting
  <2>1. ThreadsUpTo(k) = ThreadsUpTo(k - 1)
    BY <1>3, NewThreads
  <2>2. QED
    BY <1>1, <1>3, <2>1
<1>4. QED
  BY <1>2, <1>3

LEMMA SumIsCount ==
  ASSUME DeltaInv, NEW L \in Nat, DOMAIN runs = 1..L
  PROVE  /\ \E f : Sums(f, L)
         /\ \A f : Sums(f, L) => f[L] = Cardinality(ThreadsUpTo(L))
<1> DEFINE added(k) == IF k \in Reporting THEN ThreadChanges(k).new ELSE 0
           count(k) == Cardinality(ThreadsUpTo(k))
<1>1. count(0) = 0
  BY NewThreads, FS_EmptySet
<1>2. \A k \in 1..L : count(k) = count(k - 1) + added(k)
  BY CountsGrow
<1>3. \A f : Sums(f, L) <=> f = [k \in 0..L |-> IF k = 0 THEN 0 ELSE f[k - 1] + added(k)]
  BY DEF Sums
<1> HIDE DEF added, count
<1>4. \E f : Sums(f, L)
  <2> DEFINE g == [k \in 0..L |-> count(k)]
             h == [k \in 0..L |-> IF k = 0 THEN 0 ELSE g[k - 1] + added(k)]
  <2>1. ASSUME NEW k \in 0..L PROVE g[k] = h[k]
    <3>1. CASE k = 0
      BY <1>1, <3>1
    <3>2. CASE k # 0
      <4>1. k \in 1..L /\ k - 1 \in 0..L
        BY <3>2
      <4>2. g[k - 1] = count(k - 1) /\ g[k] = count(k)
        BY <4>1
      <4>3. QED
        BY <1>2, <3>2, <4>1, <4>2
    <3>3. QED
      BY <3>1, <3>2
  <2>2. g = h
    BY <2>1
  <2>3. Sums(g, L)
    BY <1>3, <2>2
  <2>4. QED
    BY <2>3
<1>5. ASSUME NEW f, Sums(f, L) PROVE f[L] = count(L)
  <2> DEFINE Wrong == {k \in 0..L : f[k] # count(k)}
  <2>0. f = [k \in 0..L |-> IF k = 0 THEN 0 ELSE f[k - 1] + added(k)]
    BY <1>3, <1>5
  <2>1. ASSUME Wrong # {} PROVE FALSE
    <3>1. Wrong \in SUBSET Nat
      OBVIOUS
    <3>2. PICK k \in Wrong : \A j \in Wrong : k <= j
      BY <2>1, <3>1, LeastExists
    <3>3. k \in 0..L /\ f[k] # count(k)
      OBVIOUS
    <3>4. f[k] = IF k = 0 THEN 0 ELSE f[k - 1] + added(k)
      BY <2>0, <3>3
    <3>5. k # 0
      BY <1>1, <3>3, <3>4
    <3>6. k - 1 \in 0..L /\ ~(k <= k - 1) /\ k \in 1..L
      BY <3>3, <3>5
    <3>7. f[k - 1] = count(k - 1)
      BY <3>2, <3>6
    <3>8. QED
      BY <1>2, <3>3, <3>4, <3>5, <3>6, <3>7
  <2>2. L \in 0..L
    OBVIOUS
  <2>3. QED
    BY <2>1, <2>2
<1>6. QED
  BY <1>4, <1>5 DEF count

LEMMA NewOnceHolds == DeltaInv => ThreadNewOnce
<1> SUFFICES ASSUME DeltaInv PROVE ThreadNewOnce
  OBVIOUS
<1> DEFINE L == Len(runs)
<1>1. L \in Nat /\ DOMAIN runs = 1..L
  BY DEF DeltaInv
<1> HIDE DEF L
<1>2. NewSoFar = CHOOSE f : Sums(f, L)
  <2>1. \A k \in 0..L : k # 0 => (k \in Reporting <=> HasDelta(k))
    BY <1>1 DEF Reporting
  <2>2. \A f : Sums(f, L) <=> f = [k \in 0..L |-> IF k = 0 THEN 0
                      ELSE f[k - 1] + (IF HasDelta(k) THEN ThreadChanges(k).new ELSE 0)]
    BY <2>1 DEF Sums
  <2>3. QED
    BY <2>2 DEF NewSoFar, L
<1>3. Sums(NewSoFar, L)
  BY <1>1, <1>2, SumIsCount
<1>4. NewSoFar[L] = Cardinality(ThreadsUpTo(L))
  BY <1>1, <1>3, SumIsCount
<1>5. ThreadsUpTo(L) = {t \in Text \cup Detached : \E n \in DOMAIN runs : HasDelta(n) /\ BroughtBy(n, t)}
  BY <1>1, NewThreads
<1>6. QED
  BY <1>4, <1>5 DEF ThreadNewOnce, L

\* What a run reports of its items and threads against the runs before it is what
\* the connector listed: for any sources, texts and numbers of scans, with failed
\* runs, runs that were marked failed after they had been stored, other projects'
\* scans and detached snapshots in between.
THEOREM DeltasAreTrue == RunDeltaSpec => []DeltaIsTrue
<1>1. DeltaInv => DeltaIsTrue
  BY DeltaTermsHold, RepeatHolds, NewOnceHolds DEF DeltaIsTrue
<1>2. QED
  BY <1>1, InitDelta, StepDelta, PTL DEF RunDeltaSpec
===============================================================================
