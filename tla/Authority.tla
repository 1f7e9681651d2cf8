----------------------------- MODULE Authority -----------------------------
(***************************************************************************)
(* What an agent session promises to the rest of the system: an authority  *)
(* to write that a human grants once, that ends, and that never comes      *)
(* back.  AgentSessions (the lease protocol) implements it; AgentActions   *)
(* (the write executor) relies on it and on nothing else of a session.     *)
(*                                                                         *)
(* "lapsed" is an authority that time took away: the row may still say     *)
(* approved, only the clock has passed expires_at.  "closed" is one that a *)
(* transaction took away (revoked by the operator, exited by its process). *)
(***************************************************************************)
CONSTANT Session

VARIABLE auth          \* Session -> what the session may do now

Active  == {"pending", "standard", "ai"}
Granted == {"standard", "ai"}         \* approved, without / with configured AI
Ended   == {"lapsed", "closed"}

AuthTypeOK == auth \in [Session -> {"none"} \cup Active \cup Ended]

AuthInit == auth = [s \in Session |-> "none"]

Register(s) ==
  /\ auth[s] = "none"
  /\ auth' = [auth EXCEPT ![s] = "pending"]

Approve(s, grant) ==
  /\ auth[s] = "pending"
  /\ grant \in Granted
  /\ auth' = [auth EXCEPT ![s] = grant]

Close(s) ==
  /\ auth[s] \in Active
  /\ auth' = [auth EXCEPT ![s] = "closed"]

\* One instant may end several leases.
Lapse(S) ==
  /\ \A s \in S : auth[s] \in Active
  /\ auth' = [s \in Session |-> IF s \in S THEN "lapsed" ELSE auth[s]]

AuthNext ==
  \/ \E s \in Session :
       \/ Register(s)
       \/ \E grant \in Granted : Approve(s, grant)
       \/ Close(s)
  \/ \E S \in SUBSET Session : Lapse(S)

AuthSpec == AuthInit /\ [][AuthNext]_auth
=============================================================================
