---------------------------- MODULE MCBuildPackets ----------------------------
EXTENDS BuildPackets

MCProjectOf == [r \in Run |-> "p"]
MCScore == [p \in Evidence \X Evidence |-> Hundredth * (IF p[1] = p[2] THEN 100 ELSE 90)]
MCItemsOf == [e \in Evidence |-> Item]

(* Two checks pass without labels: a label can change the source of a packet
   without making its evidence unfit, or make it unfit. *)
MCFixedChecks == [e \in Evidence |-> 2]
=============================================================================
