------------------------------ MODULE ThreadMatch ------------------------------
(***************************************************************************)
(* Which opportunity thread a new snapshot joins: choose_thread_match of   *)
(* services/opportunity_threads/service.py, as operators on a set of       *)
(* candidates.  A candidate is a thread and the evidence of its current    *)
(* snapshot.                                                               *)
(*                                                                         *)
(* Score[e, f] is the float the code computes for the weighted similarity  *)
(*     0.60 centroid cosine + 0.25 evidence Jaccard + 0.15 title Jaccard   *)
(* of two pieces of evidence, or Incomparable when the two were embedded   *)
(* by different models or in different dimensions.  Floats are counted in  *)
(* units of 10^-18, of which Hundredth make 0.01 (10^16 in the code), so   *)
(* that their rounding shows: 0.86 is 13 units below 86 hundredths, 0.81   *)
(* is 53 above 81, and their difference is less than the float 0.05.  Of   *)
(* two floats this close the difference is exact.                          *)
(***************************************************************************)
EXTENDS Integers, FiniteSets

CONSTANTS Evidence, \* evidence hashes: what a cluster is made of
          Score,    \* the computed similarity of two pieces of evidence
          Hundredth

Incomparable == -1

ASSUME ScoreAssumption ==
    /\ Score \in [Evidence \X Evidence -> Nat \union {Incomparable}]
    /\ Hundredth \in Nat

NoThread == 0
(* The floats 0.82 and 0.05. *)
MatchThreshold == 82 * Hundredth - 49
MatchMargin == 5 * Hundredth + 3

AutoMethods == {"exact_evidence", "weighted_similarity"}
Methods == AutoMethods \union {"new_untracked", "new_no_candidates",
                               "new_ambiguous", "new_below_threshold"}

Match(thread, method) == [thread |-> thread, method |-> method]

ScoreOf(e, c) == Score[<<e, c.evidence>>]

Exact(e, cands) == {c \in cands : c.evidence = e}

Scored(e, cands) == {c \in cands : ScoreOf(e, c) # Incomparable}

(* The order the code sorts by: higher score first, smaller thread id among equals. *)
Before(e, c, d) ==
    \/ ScoreOf(e, c) > ScoreOf(e, d)
    \/ ScoreOf(e, c) = ScoreOf(e, d) /\ c.thread < d.thread

First(e, c, cands) == \A d \in cands \ {c} : Before(e, c, d)

(* A bug: the margin over the last of the list. *)
Leads_TheLast(e, c, cands) ==
    \/ cands = {c}
    \/ \E last \in cands \ {c} :
         /\ \A d \in cands \ {last} : Before(e, d, last)
         /\ ScoreOf(e, c) - ScoreOf(e, last) >= MatchMargin

(* A margin of the best over the second; without a second there is none to keep. *)
Leads(e, c, cands) ==
    \/ cands = {c}
    \/ \E second \in cands \ {c} :
         /\ First(e, second, cands \ {c})
         /\ ScoreOf(e, c) - ScoreOf(e, second) >= MatchMargin

Confident(e, c) == ScoreOf(e, c) >= MatchThreshold

Winners(e, cands) == {c \in cands : First(e, c, cands) /\ Confident(e, c) /\ Leads(e, c, cands)}

ThreadOf(cands) == (CHOOSE c \in cands : TRUE).thread

WeightedMatch(e, cands) ==
    CASE Winners(e, cands) # {} -> Match(ThreadOf(Winners(e, cands)), "weighted_similarity")
      [] Winners(e, cands) = {} /\ (\E c \in cands : Confident(e, c)) ->
            Match(NoThread, "new_ambiguous")
      [] OTHER -> Match(NoThread, "new_below_threshold")

ChooseMatch(e, cands) ==
    LET exact == Exact(e, cands)
    IN  CASE Cardinality(exact) = 1 -> Match(ThreadOf(exact), "exact_evidence")
          [] Cardinality(exact) > 1 -> Match(NoThread, "new_ambiguous")
          [] cands = {} -> Match(NoThread, "new_no_candidates")
          [] OTHER -> WeightedMatch(e, Scored(e, cands))
=============================================================================
