--------------------------- MODULE ThreadMatchCheck ---------------------------
(***************************************************************************)
(* The match rule against what the documentation says of it, for every set *)
(* of candidates that can be reached by adding and removing threads.  The  *)
(* documents speak of the similarity itself, the code has its floats.      *)
(***************************************************************************)
EXTENDS ThreadMatch

CONSTANTS Threads,    \* the thread ids a candidate may have
          Similarity, \* of two pieces of evidence, before any rounding
          Rounding    \* how far a computed score may be off

ASSUME ThreadsAssumption == Threads \subseteq Nat \ {NoThread}

ASSUME SimilarityAssumption ==
    /\ Rounding \in Nat /\ Rounding >= 49
    /\ Similarity \in [Evidence \X Evidence -> Nat]
    /\ \A p \in Evidence \X Evidence : Score[p] # Incomparable =>
          /\ Score[p] <= Similarity[p] + Rounding
          /\ Similarity[p] <= Score[p] + Rounding

VARIABLE cands

(* A project has no threads before its first run. *)
Init == cands = {}

(* A thread of the project becomes a candidate: a run made it, or a run of
   another scan left it with this evidence. *)
Enter(t, f) ==
    /\ \A c \in cands : c.thread # t
    /\ cands' = cands \union {[thread |-> t, evidence |-> f]}

(* A correction, or a snapshot of the same scan, takes it away. *)
Leave(c) ==
    /\ c \in cands
    /\ cands' = cands \ {c}

Next ==
    \/ \E t \in Threads, f \in Evidence : Enter(t, f)
    \/ \E c \in cands : Leave(c)

Spec == Init /\ [][Next]_cands

Lead(e, c, d) == ScoreOf(e, c) - ScoreOf(e, d) >= MatchMargin

(* The rule on the computed scores, with every other candidate for the next. *)
Warranted(e, c) ==
    IF Exact(e, cands) # {}
    THEN Exact(e, cands) = {c}
    ELSE /\ c \in Scored(e, cands)
         /\ Confident(e, c)
         /\ \A d \in Scored(e, cands) \ {c} : Lead(e, c, d)

SimilarityOf(e, c) == Similarity[<<e, c.evidence>>]

(* The rule in the words of docs/architecture.md: exact evidence joins its
   only holder; otherwise a score of 0.82 matches "only when the next candidate
   is at least 0.05 lower"; and both with so much to spare. *)
Documented(e, c, spare) ==
    IF Exact(e, cands) # {}
    THEN Exact(e, cands) = {c}
    ELSE /\ c \in Scored(e, cands)
         /\ SimilarityOf(e, c) >= 82 * Hundredth + spare
         /\ \A d \in Scored(e, cands) \ {c} :
               SimilarityOf(e, c) - SimilarityOf(e, d) >= 5 * Hundredth + spare

(* The sorted list of the code finds the candidate that leads all others, and no
   thread when none does.  And the documented rule warrants what is found, and
   is not refused, but for the rounding of two scores and a boundary: within it
   the floats decide. *)
MatchIsWarranted ==
    \A e \in Evidence :
        LET m == ChooseMatch(e, cands)
        IN  /\ m.thread # NoThread =>
                  \E c \in cands : /\ c.thread = m.thread
                                   /\ Warranted(e, c) /\ Documented(e, c, -3 * Rounding)
            /\ m.thread = NoThread =>
                  \A c \in cands : ~Warranted(e, c) /\ ~Documented(e, c, 3 * Rounding)

(* All the rule relies on: a thread is a candidate once. *)
Candidate == [thread : Threads, evidence : Evidence]
CandidatesInv ==
    /\ cands \subseteq Candidate /\ IsFiniteSet(cands)
    /\ \A c, d \in cands : c.thread = d.thread => c = d
=============================================================================
