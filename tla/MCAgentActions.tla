--------------------------- MODULE MCAgentActions ---------------------------
(* AgentActions with the requests TLC tries and interchangeable calls. *)
EXTENDS AgentActions, TLC

AIRequests == [ai : BOOLEAN, expected : {0}]

Symmetry == Permutations(Call)
=============================================================================
