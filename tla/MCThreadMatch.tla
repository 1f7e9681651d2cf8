---------------------------- MODULE MCThreadMatch ----------------------------
(* The match rule, the search and the verification of packets, side by side:   *)
(* one is chosen at the start and moves, the others keep an initial state.     *)
EXTENDS ThreadMatchCheck, EvidenceSearch, PacketIntegrity, TLC

CONSTANTS web, forum
MCMatchScore == (1 :> 1) @@ (2 :> 2)
MCFirstSource == (1 :> web) @@ (2 :> forum)

(* One new snapshot, "new", against evidence whose similarities lie on and next
   to both boundaries, with the roundings of the floats 0.77, 0.81, 0.82, 0.86,
   0.87: the lead of 0.87 over 0.82 is enough, that of 0.86 over 0.81 and of
   0.82 over 0.77 is not.  "s82low" adds up to the float before 0.82, "other"
   was embedded by another model. *)
MCEvidence == {"new", "s77", "s81", "s82", "s82low", "s86", "s87", "other"}

MCSimilarity ==
    LET ofNew == [f \in MCEvidence |->
                    CASE f = "s77" -> 77 [] f = "s81" -> 81 [] f \in {"s82", "s82low"} -> 82
                      [] f = "s86" -> 86 [] f = "s87" -> 87 [] OTHER -> 100]
    IN  [p \in MCEvidence \X MCEvidence |->
           Hundredth * (CASE p[1] = "new" -> ofNew[p[2]] [] p[2] = "new" -> ofNew[p[1]]
                          [] p[1] = p[2] -> 100 [] OTHER -> 50)]

MCRounding ==
    [f \in MCEvidence |->
       CASE f = "s77" -> 18 [] f = "s81" -> 53 [] f = "s82" -> -49 [] f = "s82low" -> -160
         [] f = "s86" -> -13 [] f = "s87" -> -4 [] OTHER -> 0]

MCScore ==
    [p \in MCEvidence \X MCEvidence |->
       IF "other" \in {p[1], p[2]} /\ p[1] # p[2] THEN Incomparable
       ELSE Similarity[p] + (CASE p[1] = "new" -> MCRounding[p[2]]
                               [] p[2] = "new" -> MCRounding[p[1]] [] OTHER -> 0)]

VARIABLE question
choiceVars == <<question, cands, searchVars, integrityVars>>

\* The packet that rests while another question is asked.
Resting == /\ packet.status = "not_requested"
           /\ packet.files = [n \in Names |-> CHOOSE x \in Texts : TRUE]
           /\ packet.source[1] = "none"

ChoicesInit ==
    /\ question \in {"match", "search", "packet"}
    /\ Init /\ EvidenceSearchInit
    /\ PacketIntegrityInit /\ (question # "packet" => Resting)

ChoicesNext ==
    \/ question = "match" /\ Next /\ UNCHANGED <<question, searchVars, integrityVars>>
    \/ question = "search" /\ EvidenceSearchNext /\ UNCHANGED <<question, cands, integrityVars>>
    \/ question = "packet" /\ PacketIntegrityNext /\ UNCHANGED <<question, cands, searchVars>>

ChoicesSpec == ChoicesInit /\ [][ChoicesNext]_choiceVars
=============================================================================
