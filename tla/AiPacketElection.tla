--------------------------- MODULE AiPacketElection ---------------------------
(***************************************************************************)
(* create_build_packet with configured AI (services/mcp_surface/writes.py):*)
(* one request with one idempotency key, sent by several agent processes.  *)
(* The provider is paid for every call and cannot be asked what it did, so *)
(* the reservations with the correlation id of the request elect one owner *)
(* that may call it, and _recover_in_progress_ai_packet lets the others    *)
(* take over its result, or give up when it is gone.                       *)
(*                                                                         *)
(* Every transaction is one step: none is open across the provider call or *)
(* a wait.  That it may not get the write lock in time is Fault.           *)
(***************************************************************************)
EXTENDS Naturals, Sequences

CONSTANTS
  Session,        \* agent sessions; each is one process
  Call,           \* tool invocations <<session, number>>, threads of that process
  Overlap,        \* may a client retry while its call is still running?
  Stalls,         \* may a lease lapse under a process that still runs?
  Faults          \* may a transaction fail?

ASSUME ElectionAssumption ==
  /\ Call \subseteq Session \X Nat
  /\ {Overlap, Stalls, Faults} \subseteq BOOLEAN

VARIABLES
  auth,           \* the authority of each session (module Authority)
  up,             \* sessions whose process is running
  order,          \* sessions with a reservation, by created_at
  terminal,       \* the terminal event of each session's operation
  eligible,       \* whether the thread is still what the request expects
  packet,         \* whether a packet is stored
  paid,           \* times the provider was called
  pc,             \* where a call is
  verdict,        \* the terminal event a call is about to record
  answer          \* what it tells the client

A == INSTANCE Authority

sessions == <<auth, up>>
ledger   == <<order, terminal>>
world    == <<eligible, packet, paid>>
vars == <<sessions, ledger, world, pc, verdict, answer>>

Failure   == {"failed", "denied"}
Terminal  == Failure \cup {"succeeded", "indeterminate"}
Answers   == Terminal \cup {"none", "refused", "in progress", "error", "lost"}
Locations == {"idle", "reserve", "domain", "provider", "persist", "record", "recover", "done"}

Init ==
  /\ A!AuthInit
  /\ up = {}
  /\ order = <<>>
  /\ terminal = [s \in Session |-> "none"]
  /\ eligible = TRUE
  /\ packet = FALSE
  /\ paid = 0
  /\ pc = [c \in Call |-> "idle"]
  /\ verdict = [c \in Call |-> "failed"]
  /\ answer = [c \in Call |-> "none"]

-----------------------------------------------------------------------------
SessionOf(c) == c[1]
CallsOf(s)   == {c \in Call : SessionOf(c) = s}
InFlight(c)  == pc[c] \notin {"idle", "done"}
MayWrite(c)  == auth[SessionOf(c)] \in A!Granted
MyTerminal(c) == terminal[SessionOf(c)]

\* A bug the runs must notice: authorized when it was reserved, not again.
MayUseAi_AsReserved(c) == TRUE

MayUseAi(c)  == auth[SessionOf(c)] = "ai"

Reserved == {order[i] : i \in 1..Len(order)}

HasReserved(c) == SessionOf(c) \in Reserved

At(c, where) == pc[c] = where
Go(c, where) == pc' = [pc EXCEPT ![c] = where]

Reply(c, kind) ==
  /\ answer' = [answer EXCEPT ![c] = kind]
  /\ Go(c, "done")
  /\ UNCHANGED verdict

\* An exception of the mutation, or of the authorization before it.
Raise(c, kind) ==
  /\ verdict' = [verdict EXCEPT ![c] = kind]
  /\ Go(c, "record")
  /\ UNCHANGED answer

Continue(c, where) == Go(c, where) /\ UNCHANGED <<verdict, answer>>

-----------------------------------------------------------------------------
\* execute_audited_agent_action

MayStart(c) ==
  /\ SessionOf(c) \in up
  /\ Overlap \/ \A d \in CallsOf(SessionOf(c)) : ~InFlight(d)

Start(c) ==
  /\ At(c, "idle") /\ MayStart(c)
  /\ Continue(c, "reserve")
  /\ UNCHANGED <<sessions, ledger, world>>

\* A client without a result asks again.
Retry(c) ==
  /\ At(c, "done") /\ answer[c] \in {"in progress", "error"} /\ MayStart(c)
  /\ Continue(c, "reserve")
  /\ UNCHANGED <<sessions, ledger, world>>

\* A session without the AI capability is denied with its reservation made.
Reserve(c) ==
  /\ At(c, "reserve")
  /\ \/ /\ ~MayWrite(c)
        /\ Reply(c, "refused")
        /\ UNCHANGED order
     \/ /\ MayWrite(c) /\ ~HasReserved(c)
        /\ order' = Append(order, SessionOf(c))
        /\ IF MayUseAi(c) THEN Continue(c, "domain") ELSE Raise(c, "denied")
     \/ /\ MayWrite(c) /\ HasReserved(c) /\ MyTerminal(c) = "none"
        /\ Continue(c, "recover")
        /\ UNCHANGED order
     \/ /\ MayWrite(c) /\ HasReserved(c) /\ MyTerminal(c) # "none"
        /\ Reply(c, MyTerminal(c))
        /\ UNCHANGED order
  /\ UNCHANGED <<sessions, terminal, world>>

\* A bug the runs must notice: every reservation is its own owner.
Elected_Everybody(s) == s \in Reserved

\* The first reservation of the correlation id, open or not.
Elected(s) == order[1] = s

\* _create_build_packet up to the rollback before the provider call.
Domain(c) ==
  /\ At(c, "domain")
  /\ \/ /\ ~MayUseAi(c)
        /\ Raise(c, "denied")
     \/ /\ MayUseAi(c) /\ ~Elected(SessionOf(c))     \* idempotency_in_progress
        /\ Continue(c, "recover")
     \/ /\ MayUseAi(c) /\ Elected(SessionOf(c)) /\ ~eligible
        /\ Raise(c, "failed")
     \/ /\ MayUseAi(c) /\ Elected(SessionOf(c)) /\ eligible
        /\ Continue(c, "provider")
  /\ UNCHANGED <<sessions, ledger, world>>

\* No transaction is open.  A provider that fails gives a packet without its
\* documents; a packet that does not verify is an exception.
Provider(c) ==
  /\ At(c, "provider")
  /\ paid' = paid + 1
  /\ \/ Continue(c, "persist")
     \/ Raise(c, "failed")
  /\ UNCHANGED <<sessions, ledger, eligible, packet>>

\* A bug the runs must notice: the terminal event of the operation is replaced.
IsOpen_Overwrites(s) == TRUE

\* An operation has at most one terminal event.
IsOpen(s) == terminal[s] = "none"

\* The packet and its success event, in one transaction.
Persist(c) ==
  LET s == SessionOf(c)
  IN /\ At(c, "persist")
     /\ \/ /\ ~MayUseAi(c)
           /\ Raise(c, "denied")
           /\ UNCHANGED <<terminal, packet>>
        \/ /\ MayUseAi(c) /\ ~eligible
           /\ Raise(c, "failed")
           /\ UNCHANGED <<terminal, packet>>
        \/ /\ MayUseAi(c) /\ eligible /\ IsOpen(s)
           /\ packet' = TRUE
           /\ terminal' = [terminal EXCEPT ![s] = "succeeded"]
           /\ Reply(c, "succeeded")
        \/ /\ MayUseAi(c) /\ eligible /\ ~IsOpen(s)  \* InvalidActionTransition
           /\ IF terminal[s] = "succeeded" THEN Reply(c, "succeeded") ELSE Raise(c, "denied")
           /\ UNCHANGED <<terminal, packet>>
     /\ UNCHANGED <<sessions, order, eligible, paid>>

\* _record_terminal, in a transaction of its own.
Record(c) ==
  LET s == SessionOf(c)
  IN /\ At(c, "record")
     /\ \/ /\ IsOpen(s)
           /\ terminal' = [terminal EXCEPT ![s] = verdict[c]]
           /\ Reply(c, verdict[c])
        \/ /\ ~IsOpen(s)
           /\ Reply(c, "error")
           /\ UNCHANGED terminal
     /\ UNCHANGED <<sessions, order, world>>

-----------------------------------------------------------------------------
\* _recover_in_progress_ai_packet

\* "Prior" in the code: everybody else's reservations, later ones as well.
Prior(s) == Reserved \ {s}

Settled(S) == {t \in S : terminal[t] # "none"}

\* A bug the runs must notice: any terminal event is taken for a result.
Winners_Settled(S) == Settled(S)

Winners(S) == {t \in S : terminal[t] = "succeeded"}

Position(t) == CHOOSE i \in 1..Len(order) : order[i] = t
Earliest(S) == {t \in S : \A u \in S : Position(t) <= Position(u)}

\* The code of the error is copied, not whether it was a denial.
Copied(t) == IF terminal[t] = "indeterminate" THEN "indeterminate" ELSE "failed"

Gone(S) == \A t \in S : auth[t] \notin A!Active

TakeOver(c, kind) ==
  /\ terminal' = [terminal EXCEPT ![SessionOf(c)] = kind]
  /\ Reply(c, kind)

\* Nobody has a result: wait for those who may still bring one, or give up for
\* everybody.
WaitOrGiveUp(c, prior) ==
  \/ /\ prior = {} \/ ~Gone(prior)
     /\ Reply(c, "in progress")
     /\ UNCHANGED terminal
  \/ /\ prior # {} /\ Gone(prior)
     /\ terminal' = [s \in Session |-> IF s \in prior \cup {SessionOf(c)} THEN "indeterminate"
                                       ELSE terminal[s]]
     /\ Reply(c, "indeterminate")

Recover(c) ==
  LET prior == Prior(SessionOf(c))
  IN /\ At(c, "recover")
     /\ \/ /\ ~MayUseAi(c)
           /\ Reply(c, "error")
           /\ UNCHANGED terminal
        \/ /\ MayUseAi(c) /\ MyTerminal(c) # "none"
           /\ Reply(c, MyTerminal(c))
           /\ UNCHANGED terminal
        \/ /\ MayUseAi(c) /\ MyTerminal(c) = "none" /\ Winners(prior) # {}
           /\ TakeOver(c, "succeeded")
        \/ /\ MayUseAi(c) /\ MyTerminal(c) = "none"
           /\ Winners(prior) = {}
           /\ \E t \in Earliest(Settled(prior)) : TakeOver(c, Copied(t))
        \/ /\ MayUseAi(c) /\ MyTerminal(c) = "none" /\ Settled(prior) = {}
           /\ WaitOrGiveUp(c, prior)
     /\ UNCHANGED <<sessions, order, world>>

-----------------------------------------------------------------------------
\* A transaction fails and is rolled back: the exception goes where the call is.
Fault(c) ==
  /\ Faults
  /\ \/ At(c, "reserve") /\ Reply(c, "error")
     \/ At(c, "record") /\ Reply(c, "error")
     \/ At(c, "recover") /\ Reply(c, "error")
     \/ At(c, "domain") /\ Raise(c, "failed")
     \/ At(c, "persist") /\ Raise(c, "failed")
  /\ UNCHANGED <<sessions, ledger, world>>

Register(s) ==
  /\ A!Register(s)
  /\ up' = up \cup {s}
  /\ UNCHANGED <<ledger, world, pc, verdict, answer>>

Approve(s, grant) ==
  /\ A!Approve(s, grant)
  /\ UNCHANGED <<up, ledger, world, pc, verdict, answer>>

Close(s) ==
  /\ A!Close(s)
  /\ UNCHANGED <<up, ledger, world, pc, verdict, answer>>

Lapse(s) ==
  /\ Stalls \/ s \notin up
  /\ A!Lapse({s})
  /\ UNCHANGED <<up, ledger, world, pc, verdict, answer>>

\* A decision or a run raises the version or replaces the snapshot (BuildPackets
\* has the conditions that may come back).
Outdate ==
  /\ eligible
  /\ eligible' = FALSE
  /\ UNCHANGED <<sessions, ledger, packet, paid, pc, verdict, answer>>

Crash(s) ==
  LET dead == {c \in CallsOf(s) : InFlight(c)}
  IN /\ s \in up
     /\ up' = up \ {s}
     /\ pc' = [c \in Call |-> IF c \in dead THEN "done" ELSE pc[c]]
     /\ answer' = [c \in Call |-> IF c \in dead THEN "lost" ELSE answer[c]]
     /\ UNCHANGED <<auth, ledger, world, verdict>>

CallStep(c) ==
  \/ Reserve(c) \/ Domain(c) \/ Provider(c) \/ Persist(c) \/ Record(c) \/ Recover(c)
  \/ Fault(c)

Next ==
  \/ \E c \in Call : Start(c) \/ Retry(c) \/ CallStep(c)
  \/ \E s \in Session :
       Register(s) \/ Close(s) \/ Lapse(s) \/ Crash(s) \/ \E grant \in A!Granted : Approve(s, grant)
  \/ Outdate

Spec == Init /\ [][Next]_vars

-----------------------------------------------------------------------------
\* Properties

TypeOK ==
  /\ A!AuthTypeOK
  /\ up \subseteq Session
  /\ order \in Seq(Session)
  /\ \A i, j \in 1..Len(order) : order[i] = order[j] => i = j
  /\ terminal \in [Session -> {"none"} \cup Terminal]
  /\ eligible \in BOOLEAN
  /\ packet \in BOOLEAN
  /\ paid \in Nat
  /\ pc \in [Call -> Locations]
  /\ verdict \in [Call -> Failure]
  /\ answer \in [Call -> Answers]

\* However many processes send the request, with whatever retries and crashes,
\* the provider is paid at most once (writes.py, the correlation id "prevents
\* ambiguous paid-I/O retries").
PaidOnce == paid <= 1

\* A packet is in the store exactly when the ledger says that the elected owner
\* made it, and no session claims or was told a success without it.
PacketIsAudited ==
  /\ packet <=> order # <<>> /\ terminal[order[1]] = "succeeded"
  /\ \A s \in Session : terminal[s] = "succeeded" => packet
  /\ \A c \in Call : answer[c] = "succeeded" => packet

\* Once anybody has been told that it is not known what the provider did, no
\* packet appears any more: the slow owner finds its operation closed.
IndeterminateIsFinal ==
  (\E s \in Session : terminal[s] = "indeterminate") => ~packet

\* A packet is stored under the AI grant of the session that was elected, as it
\* is at that moment, however long the provider took.
StoredUnderGrant ==
  [][packet' # packet => order # <<>> /\ auth[order[1]] = "ai"]_vars

\* The inductive invariant the proofs of AiPacketElection_proofs rest on.

Entered == {"domain", "provider"}
Working == Entered \cup {"persist", "record", "recover"}

\* Only the call that made the first reservation gets past the election, and
\* of one session only the call that made its reservation gets that far.
OwnerInv ==
  /\ \A c \in Call : pc[c] \in Working => SessionOf(c) \in Reserved
  /\ \A c \in Call : pc[c] \in {"provider", "persist"} => Elected(SessionOf(c))
  /\ \A c, d \in Call :
       (pc[c] \in Entered /\ pc[d] \in Entered /\ SessionOf(c) = SessionOf(d)) => c = d

\* Until that call is at the provider, nothing was paid.
PaidInv ==
  /\ order = <<>> => paid = 0
  /\ \A c \in Call : pc[c] \in Entered /\ Elected(SessionOf(c)) => paid = 0

\* Who gives up, gives up for the owner.
GivenUpInv ==
  (\E s \in Session : terminal[s] = "indeterminate")
    => order # <<>> /\ terminal[order[1]] = "indeterminate"
=============================================================================
