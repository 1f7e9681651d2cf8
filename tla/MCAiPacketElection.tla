------------------------- MODULE MCAiPacketElection -------------------------
(* AiPacketElection with the calls TLC tries: two threads of one process, one
   of another. *)
EXTENDS AiPacketElection

CONSTANTS a, b

TwoOfAOneOfB == {<<a, 1>>, <<a, 2>>, <<b, 1>>}
=============================================================================
