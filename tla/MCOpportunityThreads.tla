------------------------- MODULE MCOpportunityThreads -------------------------
EXTENDS OpportunityThreads, TLC

CONSTANTS c1, c2

(* Runs of one project, one of another, one manual scan. *)
MCProjectOf == [r \in Run |-> CASE r \in {"r1", "r2", "r3"} -> "p"
                                [] r = "q1" -> "q"
                                [] OTHER -> Untracked]

(* "near" and "far" are both similar to "e" but not to each other. *)
MCScore == [p \in Evidence \X Evidence |->
              Hundredth * (CASE p[1] = p[2] -> 100 [] "e" \in {p[1], p[2]} -> 90 [] OTHER -> 30)]

Symmetry == Permutations({c1, c2})
=============================================================================
