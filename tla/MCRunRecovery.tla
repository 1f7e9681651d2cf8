--------------------------- MODULE MCRunRecovery ---------------------------
(* RunRecovery with the calls TLC tries: who calls how often. *)
EXTENDS RunRecovery

CONSTANTS a, b, c

TwoOfAOneOfB == {<<a, 1>>, <<a, 2>>, <<b, 1>>}
=============================================================================
