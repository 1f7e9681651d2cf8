--------------------------- MODULE AgentSessions ---------------------------
(***************************************************************************)
(* The lease of an agent session (services/agent_sessions/service.py), the *)
(* REST routes the operator's UI uses on it (api/routes.py) and the        *)
(* process that holds it (mcp_server/runtime.py, lifecycle.py).            *)
(*                                                                         *)
(* Every handler runs in one transaction that holds the database write     *)
(* lock, so a handler is one step.  Time is counted in ticks; expires_at   *)
(* is kept as the ticks left on the lease, so now >= expires_at reads      *)
(* lease = 0 and no clock value is ever needed.                            *)
(***************************************************************************)
EXTENDS Naturals

CONSTANTS
  Session,        \* agent processes, one session each
  TTL,            \* SESSION_TTL, in ticks
  Interval,       \* heartbeat_interval_seconds, in ticks
  Retry,          \* delay after a heartbeat that raised, in ticks
  Attempt,        \* longest a heartbeat lasts: it may wait for the database
                  \* when it begins its transaction and when it commits
  MaxVersion      \* bound: a row this often written is only closed or lapses

ASSUME LeaseAssumption ==
  /\ TTL \in Nat \ {0}
  /\ Interval \in Nat \ {0}
  /\ Retry \in Nat \ {0}
  /\ Attempt \in Nat
  /\ Interval < TTL
  /\ Retry <= Interval
  /\ MaxVersion \in Nat \ {0}

VARIABLES
  status,         \* AgentSession.status, "none" before the row exists
  version,        \* AgentSession.version
  lease,          \* ticks until expires_at, 0 once it has passed
  wantsAI,        \* configured AI is among requested_capabilities_json
  hasAI,          \* configured AI is among approved_capabilities_json
  secret,         \* the process still holds the raw secret
  looping,        \* the heartbeat loop runs
  timer,          \* ticks until the loop's next heartbeat
  trying,         \* ticks the heartbeat that is due has been under way
  failures,       \* consecutive heartbeats that raised, counted until they
                  \* account for the loss of a lease
  silence,        \* ticks since the process last proved it holds the secret
  view,           \* the version the operator's page shows, 0 for none
  revoking        \* "idle", or how the operator's last revoke was answered

row  == <<status, version, lease, hasAI>>
proc == <<secret, looping, timer, trying, failures>>
vars == <<status, version, lease, wantsAI, hasAI, secret, looping, timer, trying,
          failures, silence, view, revoking>>

ActiveStatus   == {"pending", "approved"}
TerminalStatus == {"revoked", "expired", "exited"}
Answers        == {"idle", "revoked", "refused"}

TypeOK ==
  /\ status \in [Session -> {"none"} \cup ActiveStatus \cup TerminalStatus]
  /\ version \in [Session -> Nat]
  /\ lease \in [Session -> 0..TTL]
  /\ wantsAI \in [Session -> BOOLEAN]
  /\ hasAI \in [Session -> BOOLEAN]
  /\ secret \in [Session -> BOOLEAN]
  /\ looping \in [Session -> BOOLEAN]
  /\ timer \in [Session -> 0..Interval + Attempt]
  /\ trying \in [Session -> 0..Attempt]
  /\ failures \in [Session -> Nat]
  /\ silence \in [Session -> 0..TTL]
  /\ view \in [Session -> Nat]
  /\ revoking \in [Session -> Answers]

Init ==
  /\ status = [s \in Session |-> "none"]
  /\ version = [s \in Session |-> 0]
  /\ lease = [s \in Session |-> 0]
  /\ wantsAI = [s \in Session |-> FALSE]
  /\ hasAI = [s \in Session |-> FALSE]
  /\ secret = [s \in Session |-> FALSE]
  /\ looping = [s \in Session |-> FALSE]
  /\ timer = [s \in Session |-> 0]
  /\ trying = [s \in Session |-> 0]
  /\ failures = [s \in Session |-> 0]
  /\ silence = [s \in Session |-> 0]
  /\ view = [s \in Session |-> 0]
  /\ revoking = [s \in Session |-> "idle"]

-----------------------------------------------------------------------------
\* The row

IsActive(s) == status[s] \in ActiveStatus
Live_IgnoresLease(s) == IsActive(s)   \* a bug: the lease is not looked at
Lapsed(s)   == IsActive(s) /\ lease[s] = 0        \* now >= expires_at
Live(s)     == IsActive(s) /\ lease[s] > 0

\* Room for one more version: the bound on the counter.
Room(s) == version[s] < MaxVersion

\* The write every terminal transition does.
Finish(s, final) ==
  /\ status' = [status EXCEPT ![s] = final]
  /\ version' = [version EXCEPT ![s] = @ + 1]
  /\ UNCHANGED <<lease, hasAI>>

\* expire_session_if_needed, as every handler that meets a lapsed row
\* commits it.
Expire(s) == Lapsed(s) /\ Finish(s, "expired")

\* What _require_state does for a handler that needs an active row: a lapsed
\* lease is materialised and committed, any other inactive row is left alone.
Unusable(s) ==
  \/ Expire(s)
  \/ ~IsActive(s) /\ UNCHANGED row

Renew(s) ==
  /\ lease' = [lease EXCEPT ![s] = TTL]
  /\ version' = [version EXCEPT ![s] = @ + 1]
  /\ UNCHANGED <<status, hasAI>>

Grant(s, ai) ==
  /\ status' = [status EXCEPT ![s] = "approved"]
  /\ hasAI' = [hasAI EXCEPT ![s] = ai]
  /\ version' = [version EXCEPT ![s] = @ + 1]
  /\ UNCHANGED lease

-----------------------------------------------------------------------------
\* The process

\* The loop sleeps; what was left of the attempt may pass before, in the commit.
SleepAfter(s, delay, left) ==
  /\ \E late \in 0..left : timer' = [timer EXCEPT ![s] = delay + late]
  /\ trying' = [trying EXCEPT ![s] = 0]

\* The loop ends, and its timer and its count with it.
LoopEnds(s) ==
  /\ looping' = [looping EXCEPT ![s] = FALSE]
  /\ timer' = [timer EXCEPT ![s] = 0]
  /\ trying' = [trying EXCEPT ![s] = 0]
  /\ failures' = [failures EXCEPT ![s] = 0]

\* MCPProcessRuntime.register: the row, the secret, then the heartbeat loop.
Register(s, ai) ==
  /\ status[s] = "none"
  /\ status' = [status EXCEPT ![s] = "pending"]
  /\ version' = [version EXCEPT ![s] = 1]
  /\ lease' = [lease EXCEPT ![s] = TTL]
  /\ wantsAI' = [wantsAI EXCEPT ![s] = ai]
  /\ secret' = [secret EXCEPT ![s] = TRUE]
  /\ looping' = [looping EXCEPT ![s] = TRUE]
  /\ SleepAfter(s, Interval, Attempt)
  /\ silence' = [silence EXCEPT ![s] = 0]
  /\ UNCHANGED <<hasAI, failures, view, revoking>>

\* How long a lease may have been without a renewal when as many heartbeats in a
\* row have raised, each after a wait, and one more is under way.
Unrenewed(s) == Interval + 2 * Attempt + failures[s] * (Retry + Attempt)

Due(s) == looping[s] /\ timer[s] = 0

\* Its transaction renews a live lease; a row that is no longer active it leaves
\* so, expired on the way.
Renewed(s) == /\ Live(s) /\ Room(s)
              /\ Renew(s)
              /\ silence' = [silence EXCEPT ![s] = 0]

\* The loop's heartbeat reached the database: after a renewal it sleeps, after
\* any other answer it ends.
Heartbeat(s) ==
  /\ Due(s)
  /\ \/ /\ Renewed(s)
        /\ SleepAfter(s, Interval, Attempt - trying[s])
        /\ failures' = [failures EXCEPT ![s] = 0]
        /\ UNCHANGED looping
     \/ /\ Unusable(s)
        /\ LoopEnds(s)
        /\ UNCHANGED silence
  /\ UNCHANGED <<wantsAI, secret, view, revoking>>

\* A bug the runs must notice: the loop waits a whole interval after a failure.
HeartbeatRaises_WaitsInterval(s) ==
  /\ Due(s)
  /\ SleepAfter(s, Interval, 0)
  /\ failures' = [failures EXCEPT ![s] = IF Unrenewed(s) < TTL THEN @ + 1 ELSE @]
  /\ UNCHANGED <<row, wantsAI, secret, looping, silence, view, revoking>>

\* The loop's heartbeat raised, because the database stayed busy or was out of
\* reach, or although its commit took effect: it is repeated soon.
HeartbeatRaises(s) ==
  /\ Due(s)
  /\ \/ /\ UNCHANGED <<row, silence>>
        /\ SleepAfter(s, Retry, 0)
     \/ /\ Renewed(s) \/ (Expire(s) /\ UNCHANGED silence)
        /\ SleepAfter(s, Retry, Attempt - trying[s])
  /\ failures' = [failures EXCEPT ![s] = IF Unrenewed(s) < TTL THEN @ + 1 ELSE @]
  /\ UNCHANGED <<wantsAI, secret, looping, view, revoking>>

\* POST /agent-sessions/{id}/heartbeat: the secret and an expected version.
HeartbeatRoute(s, expected) ==
  /\ secret[s]
  /\ \/ /\ Live(s) /\ Room(s) /\ expected = version[s]
        /\ Renew(s)
        /\ silence' = [silence EXCEPT ![s] = 0]
     \/ Unusable(s) /\ UNCHANGED silence
  /\ UNCHANGED <<wantsAI, proc, view, revoking>>

\* Orderly shutdown: the secret goes first, then close() marks the row unless
\* its two-second budget runs out, which leaves the row to its lease.
Shutdown(s) ==
  /\ secret[s]
  /\ secret' = [secret EXCEPT ![s] = FALSE]
  /\ LoopEnds(s)
  /\ \/ Live(s) /\ Finish(s, "exited")
     \/ Unusable(s)
     \/ IsActive(s) /\ UNCHANGED row
  /\ UNCHANGED <<wantsAI, silence, view, revoking>>

\* The process dies.
Crash(s) ==
  /\ secret[s]
  /\ secret' = [secret EXCEPT ![s] = FALSE]
  /\ LoopEnds(s)
  /\ UNCHANGED <<row, wantsAI, silence, view, revoking>>

\* POST /agent-sessions/{id}/exit by a client that holds the secret.
ExitRoute(s, expected) ==
  /\ secret[s]
  /\ \/ Live(s) /\ expected = version[s] /\ Finish(s, "exited")
     \/ Unusable(s)
  /\ UNCHANGED <<wantsAI, proc, silence, view, revoking>>

-----------------------------------------------------------------------------
\* The operator

\* A bug the runs must notice: reading leaves a lapsed row as it is.
Read_LeavesLapsed(s) ==
  /\ status[s] # "none"
  /\ view' = [view EXCEPT ![s] = version[s]]
  /\ UNCHANGED <<row, wantsAI, proc, silence, revoking>>

\* GET /agent-sessions and /agent-sessions/{id}: the page shows what it read,
\* and a lapsed row is expired on the way.
Read(s) ==
  /\ status[s] # "none"
  /\ \/ Expire(s)
     \/ ~Lapsed(s) /\ UNCHANGED row
  /\ view' = [view EXCEPT ![s] = version'[s]]
  /\ UNCHANGED <<wantsAI, proc, silence, revoking>>

\* POST /agent-sessions/{id}/approve with the version the page shows.
\* A stale version, or AI that was not requested, changes nothing.
ApproveRoute(s, ai) ==
  /\ view[s] > 0
  /\ \/ /\ Live(s) /\ status[s] = "pending" /\ Room(s)
        /\ view[s] = version[s]
        /\ ai => wantsAI[s]
        /\ Grant(s, ai)
     \/ Unusable(s)
  /\ UNCHANGED <<wantsAI, proc, silence, view, revoking>>

\* The prompt on the process's own terminal: approve_interactive.
ApproveTTY(s, ai) ==
  /\ secret[s]
  /\ \/ /\ Live(s) /\ status[s] = "pending" /\ Room(s)
        /\ ai => wantsAI[s]
        /\ Grant(s, ai)
     \/ Unusable(s)
  /\ UNCHANGED <<wantsAI, proc, silence, view, revoking>>

\* A bug the runs must notice: a revoke that raced a heartbeat is refused.
RevokeRoute_NoRetry(s) ==
  /\ view[s] > 0
  /\ \/ /\ Live(s) /\ view[s] = version[s]
        /\ Finish(s, "revoked")
        /\ revoking' = [revoking EXCEPT ![s] = "revoked"]
     \/ /\ Unusable(s) \/ (Live(s) /\ view[s] # version[s] /\ UNCHANGED row)
        /\ revoking' = [revoking EXCEPT ![s] = "refused"]
  /\ UNCHANGED <<wantsAI, proc, silence, view>>

\* POST /agent-sessions/{id}/revoke with the version the page shows.  On a
\* version conflict the route revokes again with the version it just read
\* under the same lock, so the page's version decides nothing.
RevokeRoute(s) ==
  /\ view[s] > 0
  /\ \/ /\ Live(s)
        /\ Finish(s, "revoked")
        /\ revoking' = [revoking EXCEPT ![s] = "revoked"]
     \/ /\ Unusable(s)
        /\ revoking' = [revoking EXCEPT ![s] = "refused"]
  /\ UNCHANGED <<wantsAI, proc, silence, view>>

-----------------------------------------------------------------------------
\* Time.  The loop's timers are prompt: a heartbeat that is due is under way, and
\* no more ticks pass than it may take.
Tick ==
  /\ \A s \in Session : Due(s) => trying[s] < Attempt
  /\ \E s \in Session : IsActive(s) \/ looping[s]
  /\ lease' = [s \in Session |-> IF lease[s] > 0 THEN lease[s] - 1 ELSE 0]
  /\ silence' = [s \in Session |->
       IF status[s] # "none" /\ silence[s] < TTL THEN silence[s] + 1
       ELSE silence[s]]
  /\ timer' = [s \in Session |->
       IF looping[s] /\ timer[s] > 0 THEN timer[s] - 1 ELSE timer[s]]
  /\ trying' = [s \in Session |-> IF Due(s) THEN trying[s] + 1 ELSE trying[s]]
  /\ UNCHANGED <<status, version, wantsAI, hasAI, secret, looping, failures,
                 view, revoking>>

Next ==
  \/ \E s \in Session :
       \/ \E ai \in BOOLEAN :
            Register(s, ai) \/ ApproveRoute(s, ai) \/ ApproveTTY(s, ai)
       \/ \E expected \in 1..MaxVersion :
            HeartbeatRoute(s, expected) \/ ExitRoute(s, expected)
       \/ Heartbeat(s) \/ HeartbeatRaises(s)
       \/ Shutdown(s) \/ Crash(s)
       \/ Read(s) \/ RevokeRoute(s)
  \/ Tick

Spec == Init /\ [][Next]_vars

\* Time passes, the loop's timers fire and the operator's page polls.
FairSpec ==
  /\ Spec
  /\ WF_vars(Tick)
  /\ \A s \in Session :
       /\ WF_vars(Heartbeat(s) \/ HeartbeatRaises(s))
       /\ WF_vars(Read(s))
-----------------------------------------------------------------------------
\* Properties

\* What the row and the clock together let the session do.
AuthorityOf(s) ==
  CASE status[s] = "none" -> "none"
    [] status[s] \in {"revoked", "exited"} -> "closed"
    [] status[s] = "expired" \/ Lapsed(s) -> "lapsed"
    [] status[s] = "pending" /\ Live(s) -> "pending"
    [] status[s] = "approved" /\ Live(s) -> IF hasAI[s] THEN "ai" ELSE "standard"

authority == [s \in Session |-> AuthorityOf(s)]

A == INSTANCE Authority WITH auth <- authority

\* The lease protocol implements Authority: whatever heartbeats, approvals,
\* revokes, exits, crashes and the clock do in whatever order, an authority is
\* granted once, ends, and is never given back (service.py: _require_state
\* before every transition, effective_session_status).
ImplementsAuthority == A!AuthSpec

\* A usable lease is exactly TTL minus the time since the process last proved
\* that it holds the secret: no operator action lengthens it, so a process
\* that fell silent is without authority TTL later (service.py: only
\* register_session and heartbeat_session set expires_at).
LeaseFollowsProof ==
  \A s \in Session : Live(s) => lease[s] + silence[s] = TTL

\* Once a revoke was answered the session is over, also when a heartbeat,
\* an approval or an expiry moved the version after the operator's page was
\* read (routes.py, revoke_agent_session: "A human revoke is terminal and
\* wins a race with a routine heartbeat").
RevokeIsTerminal ==
  \A s \in Session : revoking[s] # "idle" => status[s] \in TerminalStatus

\* A process whose loop runs loses its lease to time only after so many
\* heartbeats in a row have failed that they, with the time each may have waited
\* for the database, fill what the TTL leaves beside one interval (runtime.py,
\* _acquire_session_write_lock: "so a retry can occur before the
\* two-missed-heartbeat lease expires"; lifecycle.py, _heartbeat_loop).
LeaseLostOnlyAfterOutage ==
  \A s \in Session :
    looping[s] /\ (Lapsed(s) \/ status[s] = "expired")
      => Unrenewed(s) >= TTL

\* A process that is gone, by a crash or a shutdown whose close() did not
\* finish, does not leave an open session behind: its row becomes terminal.
GoneProcessIsClosed ==
  \A s \in Session :
    (status[s] # "none" /\ ~secret[s]) ~> (status[s] \in TerminalStatus)
=============================================================================
