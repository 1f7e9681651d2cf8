---------------------------- MODULE AgentActions ----------------------------
(***************************************************************************)
(* The audited write executor (services/agent_actions/executor.py) and its *)
(* append-only ledger (services/agent_actions/service.py), run by several  *)
(* calls at a time in several agent processes.                             *)
(*                                                                         *)
(* A call is up to three transactions: reserve the operation in the        *)
(* ledger, do the domain write together with its success event, and, when  *)
(* that failed, record the failure.  Each holds the database write lock.   *)
(* The first and the last do nothing else and are one step here; the       *)
(* domain transaction is several, with lock naming the call that holds it. *)
(*                                                                         *)
(* This is the path of the tools whose only effect is their own            *)
(* transaction (create_project, update_project, set_opportunity_decision,  *)
(* append_evidence_label and create_build_packet without AI I/O).          *)
(***************************************************************************)
EXTENDS Naturals, Sequences

CONSTANTS
  Session,        \* agent sessions; each is one process
  Key,            \* idempotency keys clients use
  Request,        \* request bodies, records of Requests
  Call,           \* tool invocations
  MaxEffects,     \* bound on the committed writes a request may expect
  NoCall

\* What the executor looks at in a request: whether it needs the configured
\* AI capability, and the version of the target it expects.
Requests == [ai : BOOLEAN, expected : 0..MaxEffects]

ASSUME CallAssumption ==
  /\ NoCall \notin Call
  /\ MaxEffects \in Nat
  /\ Request \subseteq Requests
  /\ Session # {} /\ Key # {} /\ Request # {}

VARIABLES
  auth,           \* the authority of each session (module Authority)
  up,             \* sessions whose process is running
  ledger,         \* AgentAction rows
  effects,        \* operations whose domain write is committed, in order; the
                  \* length is the version of the row they all write
  lock,           \* the call whose transaction holds the write lock, or NoCall
  pc,             \* where a call is
  operation,      \* its operation: session and key
  request,        \* its request
  verdict,        \* the terminal event it is about to record
  answer          \* what it told the client

vars == <<auth, up, ledger, effects, lock, pc, operation, request, verdict,
          answer>>
calls == <<pc, operation, request, verdict, answer>>
sessions == <<auth, up>>

A == INSTANCE Authority

\* idempotency_key_hash is made from the session and the key.
Operation == Session \X Key
Terminals == {"succeeded", "failed", "denied"}
Row == [op : Operation, event : {"reserved", "conflict", "replayed"} \cup Terminals,
        req : Request, result : Nat]

Locations == {"idle", "reserve", "domain", "mutate", "record", "done"}
Kinds == {"none", "succeeded", "replayed", "failed", "denied", "replayed error",
          "in progress", "conflict", "refused", "unknown", "lost"}

Session0 == CHOOSE s \in Session : TRUE
Key0     == CHOOSE k \in Key : TRUE
Request0 == CHOOSE r \in Request : TRUE

TypeOK ==
  /\ A!AuthTypeOK
  /\ up \subseteq Session
  /\ ledger \subseteq Row
  /\ effects \in Seq(Operation)
  /\ lock \in Call \cup {NoCall}
  /\ pc \in [Call -> Locations]
  /\ operation \in [Call -> Operation]
  /\ request \in [Call -> Request]
  /\ verdict \in [Call -> {"failed", "denied"}]
  /\ answer \in [Call -> [kind : Kinds, result : Nat]]

Init ==
  /\ A!AuthInit
  /\ up = {}
  /\ ledger = {}
  /\ effects = << >>
  /\ lock = NoCall
  /\ pc = [c \in Call |-> "idle"]
  /\ operation = [c \in Call |-> <<Session0, Key0>>]
  /\ request = [c \in Call |-> Request0]
  /\ verdict = [c \in Call |-> "failed"]
  /\ answer = [c \in Call |-> [kind |-> "none", result |-> 0]]

-----------------------------------------------------------------------------
\* The ledger

Reservation(o) == {e \in ledger : e.op = o /\ e.event = "reserved"}
Terminal(o)    == {e \in ledger : e.op = o /\ e.event \in Terminals}
Success(o)     == {e \in ledger : e.op = o /\ e.event = "succeeded"}

SessionOf(c) == operation[c][1]

Event(c, event, result) ==
  [op |-> operation[c], event |-> event, req |-> request[c], result |-> result]

\* _append_terminal refuses a second terminal event.
AppendTerminal(c, event, result) ==
  /\ Terminal(operation[c]) = {}
  /\ ledger' = ledger \cup {Event(c, event, result)}

\* _append_attempt_event copies the request of the reservation.
AppendAttempt(c, event) ==
  \E r \in Reservation(operation[c]) :
    ledger' = ledger \cup {[r EXCEPT !.event = event]}

Go(c, where) == pc' = [pc EXCEPT ![c] = where]

Reply(c, kind, result) ==
  /\ Go(c, "done")
  /\ answer' = [answer EXCEPT ![c] = [kind |-> kind, result |-> result]]

\* require_capability for the tool, and for configured AI where it is asked for.
MayWrite(c) == auth[SessionOf(c)] \in A!Granted
MayUseAI(c) == request[c].ai => auth[SessionOf(c)] = "ai"

-----------------------------------------------------------------------------
\* A client calls a tool.
Start(c, o, r) ==
  /\ pc[c] = "idle"
  /\ o[1] \in up
  /\ operation' = [operation EXCEPT ![c] = o]
  /\ request' = [request EXCEPT ![c] = r]
  /\ Go(c, "reserve")
  /\ UNCHANGED <<sessions, ledger, effects, lock, verdict, answer>>

\* Transaction 1: _authorize_and_reserve_agent_action.
Reserving(c) ==
  /\ pc[c] = "reserve" /\ lock = NoCall
  /\ UNCHANGED <<sessions, effects, lock, operation, request>>

\* The session may not write: nothing is reserved.
ReserveRefused(c) ==
  /\ Reserving(c)
  /\ ~MayWrite(c)
  /\ Reply(c, "refused", 0)
  /\ UNCHANGED <<ledger, verdict>>

\* A bug the runs must notice: a call denied configured AI is answered, and its
\* reservation forgotten.
ReserveNew_ForgetsDenial(c) ==
  /\ Reserving(c)
  /\ MayWrite(c)
  /\ Reservation(operation[c]) = {}
  /\ ledger' = ledger \cup {Event(c, "reserved", 0)}
  /\ IF MayUseAI(c) THEN Go(c, "domain") /\ UNCHANGED answer
                     ELSE Reply(c, "refused", 0)
  /\ UNCHANGED verdict

\* A new operation.  Missing AI authority still reserves it, and the call goes
\* straight to recording the denial.
ReserveNew(c) ==
  /\ Reserving(c)
  /\ MayWrite(c)
  /\ Reservation(operation[c]) = {}
  /\ ledger' = ledger \cup {Event(c, "reserved", 0)}
  /\ Go(c, IF MayUseAI(c) THEN "domain" ELSE "record")
  /\ verdict' = [verdict EXCEPT ![c] = "denied"]
  /\ UNCHANGED answer

\* The key is taken by another request.
ReserveConflict(c) ==
  /\ Reserving(c)
  /\ MayWrite(c)
  /\ \E r \in Reservation(operation[c]) : r.req # request[c]
  /\ AppendAttempt(c, "conflict")
  /\ Reply(c, "conflict", 0)
  /\ UNCHANGED verdict

\* A bug the runs must notice: the request behind the key is not compared.
ReserveAgain_AnyRequest(c) ==
  /\ Reserving(c)
  /\ MayWrite(c)
  /\ AppendAttempt(c, "replayed")
  /\ \/ /\ Terminal(operation[c]) = {}
        /\ Reply(c, "in progress", 0)
     \/ \E t \in Success(operation[c]) : Reply(c, "replayed", t.result)
     \/ /\ Terminal(operation[c]) # {}
        /\ Success(operation[c]) = {}
        /\ Reply(c, "replayed error", 0)
  /\ UNCHANGED verdict

\* A retry of this very request: in progress until it has a terminal event,
\* then whatever that event says.
ReserveAgain(c) ==
  /\ Reserving(c)
  /\ MayWrite(c)
  /\ \E r \in Reservation(operation[c]) : r.req = request[c]
  /\ AppendAttempt(c, "replayed")
  /\ \/ /\ Terminal(operation[c]) = {}
        /\ Reply(c, "in progress", 0)
     \/ \E t \in Success(operation[c]) : Reply(c, "replayed", t.result)
     \/ /\ Terminal(operation[c]) # {}
        /\ Success(operation[c]) = {}
        /\ Reply(c, "replayed error", 0)
  /\ UNCHANGED verdict

-----------------------------------------------------------------------------
\* Transaction 2: the domain write.

\* A bug the runs must notice: the authority of the reservation is trusted.
BeginDomain_NotReauthorized(c) ==
  /\ pc[c] = "domain" /\ lock = NoCall
  /\ lock' = c
  /\ Go(c, "mutate")
  /\ UNCHANGED <<sessions, ledger, effects, operation, request, verdict, answer>>

\* The session is authorized again under the lock the write will hold.
BeginDomain(c) ==
  /\ pc[c] = "domain" /\ lock = NoCall
  /\ MayWrite(c) /\ MayUseAI(c)
  /\ lock' = c
  /\ Go(c, "mutate")
  /\ UNCHANGED <<sessions, ledger, effects, operation, request, verdict, answer>>

DomainRefused(c) ==
  /\ pc[c] = "domain" /\ lock = NoCall
  /\ ~(MayWrite(c) /\ MayUseAI(c))
  /\ verdict' = [verdict EXCEPT ![c] = "denied"]
  /\ Go(c, "record")
  /\ UNCHANGED <<sessions, ledger, effects, lock, operation, request, answer>>

\* A bug the runs must notice: the write is committed before its success event.
CommitWrites_EventLater(c) ==
  /\ pc[c] = "mutate" /\ lock = c
  /\ request[c].expected = Len(effects)
  /\ effects' = Append(effects, operation[c])
  /\ lock' = NoCall
  /\ UNCHANGED <<sessions, ledger, operation, request>>

\* The mutation finds the version it expects; its write and the success event
\* are committed together.
CommitWrites(c) ==
  /\ pc[c] = "mutate" /\ lock = c
  /\ request[c].expected = Len(effects)
  /\ effects' = Append(effects, operation[c])
  /\ AppendTerminal(c, "succeeded", Len(effects'))
  /\ lock' = NoCall
  /\ UNCHANGED <<sessions, operation, request>>

Commit(c) ==
  /\ CommitWrites(c)
  /\ Reply(c, "succeeded", Len(effects'))
  /\ UNCHANGED verdict

\* The commit took effect, but commit() raised (the connection was lost).
CommitUnreported(c) ==
  /\ CommitWrites(c)
  /\ verdict' = [verdict EXCEPT ![c] = "failed"]
  /\ Go(c, "record")
  /\ UNCHANGED answer

\* The mutation raised (a stale version or any other domain error).
MutationRaises(c) ==
  /\ pc[c] = "mutate" /\ lock = c
  /\ lock' = NoCall
  /\ verdict' = [verdict EXCEPT ![c] = "failed"]
  /\ Go(c, "record")
  /\ UNCHANGED <<sessions, ledger, effects, operation, request, answer>>

-----------------------------------------------------------------------------
\* Transaction 3: _record_terminal, after the rollback.
Record(c) ==
  /\ pc[c] = "record" /\ lock = NoCall
  /\ \/ /\ AppendTerminal(c, verdict[c], 0)
        /\ Reply(c, verdict[c], 0)
     \/ /\ Terminal(operation[c]) # {}       \* InvalidActionTransition
        /\ Reply(c, "unknown", 0)
        /\ UNCHANGED ledger
  /\ UNCHANGED <<sessions, effects, lock, operation, request, verdict>>

\* The database could not be written: the client gets an error and the
\* operation keeps its reservation only.
RecordRaises(c) ==
  /\ pc[c] = "record"
  /\ Reply(c, "unknown", 0)
  /\ UNCHANGED <<sessions, ledger, effects, lock, operation, request, verdict>>

\* acquire_database_scan_write_lock_with_retry gives up while another
\* transaction holds the lock.
LockTimeout(c) ==
  /\ lock \notin {NoCall, c}
  /\ \/ /\ pc[c] \in {"reserve", "record"}
        /\ Reply(c, "unknown", 0)
        /\ UNCHANGED verdict
     \/ /\ pc[c] = "domain"
        /\ verdict' = [verdict EXCEPT ![c] = "failed"]
        /\ Go(c, "record")
        /\ UNCHANGED answer
  /\ UNCHANGED <<sessions, ledger, effects, lock, operation, request>>

-----------------------------------------------------------------------------
\* The sessions around the calls.

Register(s) ==
  /\ A!Register(s)
  /\ up' = up \cup {s}
  /\ UNCHANGED <<ledger, effects, lock, calls>>

\* Approving, revoking and leaving write the session's row under the lock.
Approve(s, grant) ==
  /\ lock = NoCall
  /\ A!Approve(s, grant)
  /\ UNCHANGED <<up, ledger, effects, lock, calls>>

Close(s) ==
  /\ lock = NoCall
  /\ A!Close(s)
  /\ UNCHANGED <<up, ledger, effects, lock, calls>>

\* Time needs no lock.
Lapse(S) ==
  /\ S # {}
  /\ A!Lapse(S)
  /\ UNCHANGED <<up, ledger, effects, lock, calls>>

\* The process dies: its open transaction rolls back, its calls never answer.
Crash(s) ==
  LET dead == {c \in Call : pc[c] \notin {"idle", "done"} /\ SessionOf(c) = s}
  IN /\ s \in up
     /\ up' = up \ {s}
     /\ lock' = IF lock \in dead THEN NoCall ELSE lock
     /\ pc' = [c \in Call |-> IF c \in dead THEN "done" ELSE pc[c]]
     /\ answer' = [c \in Call |->
          IF c \in dead THEN [kind |-> "lost", result |-> 0] ELSE answer[c]]
     /\ UNCHANGED <<auth, ledger, effects, operation, request, verdict>>

-----------------------------------------------------------------------------
CallStep(c) ==
  \/ ReserveRefused(c) \/ ReserveNew(c) \/ ReserveConflict(c) \/ ReserveAgain(c)
  \/ BeginDomain(c) \/ DomainRefused(c)
  \/ Commit(c) \/ CommitUnreported(c) \/ MutationRaises(c)
  \/ Record(c) \/ RecordRaises(c)
  \/ LockTimeout(c)

Next ==
  \/ \E c \in Call :
       \/ \E o \in Operation, r \in Request : Start(c, o, r)
       \/ CallStep(c)
  \/ \E s \in Session :
       \/ Register(s)
       \/ \E grant \in A!Granted : Approve(s, grant)
       \/ Close(s)
       \/ Crash(s)
  \/ \E S \in SUBSET Session : Lapse(S)

Spec == Init /\ [][Next]_vars

-----------------------------------------------------------------------------
\* Properties

\* What the ledger says became of an operation.
OutcomeOf(o) ==
  IF Success(o) # {} THEN "applied"
  ELSE IF Terminal(o) # {} THEN "rejected"
  ELSE IF Reservation(o) # {} THEN "open"
  ELSE "none"

outcomes == [o \in Operation |-> OutcomeOf(o)]

W == INSTANCE IdempotentWrites WITH outcome <- outcomes

\* The executor implements IdempotentWrites: a domain write and its success
\* event are one step, an operation that failed or was denied never has an
\* effect, and no retry, crash, revoke or lost commit gives it a second one
\* (executor.py: "The mutation and success event commit atomically").
ImplementsIdempotentWrites == W!WritesSpec

\* An operation has at most one of the succeeded, failed and denied events,
\* also when the executor records a failure for a commit that took effect
\* (service.py, _append_terminal).
OneTerminalEvent ==
  \A o \in Operation : \A e, f \in Terminal(o) : e = f

Positive(c) == answer[c].kind \in {"succeeded", "replayed"}
Negative(c) == answer[c].kind \in {"failed", "denied", "replayed error"}

\* Whatever calls of one operation were told, they were told the same: a
\* result names the committed write of exactly that operation and request, and
\* nobody holds a success where somebody else holds a failure.
AnswersAgree ==
  \A c \in Call : Positive(c) =>
    /\ answer[c].result \in DOMAIN effects
    /\ effects[answer[c].result] = operation[c]
    /\ \A d \in Call : operation[d] = operation[c] =>
         /\ ~Negative(d)
         /\ Positive(d) => answer[d] = [answer[c] EXCEPT !.kind = answer[d].kind]
                           /\ request[d] = request[c]

\* No domain write is committed for a session that was revoked or that left,
\* even when that happened after the operation was reserved; a lease that ran
\* out under the lock does not undo the authority the transaction began with
\* (executor.py: authorized "again while the domain transaction owns the write
\* lock").
NoEffectAfterClose ==
  [][Len(effects') > Len(effects)
       => auth[effects'[Len(effects')][1]] \in A!Granted \cup {"lapsed"}]_vars

Working(c) == pc[c] \in {"domain", "mutate", "record"}

\* "In progress" is a true answer: an operation without a terminal event has an
\* owner that is still working on it, or one that died or could not write.
NoSilentAbandon ==
  \A o \in Operation :
    Reservation(o) # {} /\ Terminal(o) = {}
      => \E c \in Call :
           /\ operation[c] = o
           /\ Working(c) \/ answer[c].kind \in {"unknown", "lost"}

\* The inductive invariant the proofs of AgentActions_proofs rest on.

\* Reservations are unique and come first; whoever works on an operation holds
\* its reservation, for its own request.
ReservationInv ==
  /\ \A o \in Operation : \A e, f \in Reservation(o) : e = f
  /\ \A o \in Operation : Terminal(o) # {} => Reservation(o) # {}
  /\ \A c \in Call : Working(c) => Event(c, "reserved", 0) \in ledger

\* Only the holder of the lock is inside a domain transaction, and its session
\* had its authority when it entered.
LockInv ==
  \A c \in Call : pc[c] = "mutate" =>
    /\ lock = c
    /\ auth[SessionOf(c)] \in A!Granted \cup {"lapsed"}

\* A success event names a committed write of its operation, for the request
\* the reservation was made with.
SuccessInv ==
  \A o \in Operation : \A t \in Success(o) :
    /\ t.result \in DOMAIN effects
    /\ effects[t.result] = o
    /\ \E r \in Reservation(o) : r.req = t.req

\* A definite answer repeats the terminal event of the call's operation.
AnswerInv ==
  \A c \in Call :
    /\ Positive(c) => \E t \in Success(operation[c]) :
                        t.result = answer[c].result /\ t.req = request[c]
    /\ Negative(c) => \E t \in Terminal(operation[c]) : t.event # "succeeded"

\* A call that was answered, or lost, takes no further step.
AnsweredInv == \A c \in Call : answer[c].kind # "none" => pc[c] = "done"
=============================================================================
