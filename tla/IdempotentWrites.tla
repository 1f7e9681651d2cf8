-------------------------- MODULE IdempotentWrites --------------------------
(***************************************************************************)
(* What the write executor promises a client of TaskSignal: an operation,  *)
(* named by the client's session and idempotency key, is opened once and   *)
(* settled at most once.  It is settled either with its effect, in one     *)
(* step, or without any effect; nothing happens to it afterwards.          *)
(***************************************************************************)
EXTENDS Sequences

CONSTANT Operation

VARIABLES
  outcome,        \* Operation -> "none", "open", "applied", "rejected"
  effects         \* the operations whose writes are committed, in order

Outcome == {"none", "open", "applied", "rejected"}

WritesTypeOK ==
  /\ outcome \in [Operation -> Outcome]
  /\ effects \in Seq(Operation)

WritesInit ==
  /\ outcome = [o \in Operation |-> "none"]
  /\ effects = << >>

Open(o) ==
  /\ outcome[o] = "none"
  /\ outcome' = [outcome EXCEPT ![o] = "open"]
  /\ UNCHANGED effects

Apply(o) ==
  /\ outcome[o] = "open"
  /\ outcome' = [outcome EXCEPT ![o] = "applied"]
  /\ effects' = Append(effects, o)

Reject(o) ==
  /\ outcome[o] = "open"
  /\ outcome' = [outcome EXCEPT ![o] = "rejected"]
  /\ UNCHANGED effects

WritesNext == \E o \in Operation : Open(o) \/ Apply(o) \/ Reject(o)

WritesSpec == WritesInit /\ [][WritesNext]_<<outcome, effects>>
=============================================================================
