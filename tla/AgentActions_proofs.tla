------------------------- MODULE AgentActions_proofs -------------------------
(***************************************************************************)
(* For any sets of sessions, keys, requests and calls: what the ledger and *)
(* the answers of the executor can be relied on for, and that the executor *)
(* implements IdempotentWrites.                                            *)
(***************************************************************************)
EXTENDS AgentActions, TLAPS

LEMMA InitTypeOK == Init => TypeOK
<1> SUFFICES ASSUME Init PROVE TypeOK
  OBVIOUS
<1>1. Session0 \in Session /\ Key0 \in Key /\ Request0 \in Request
  BY CallAssumption DEF Session0, Key0, Request0
<1>2. <<Session0, Key0>> \in Operation
  BY <1>1 DEF Operation
<1>3. A!AuthTypeOK
  BY DEF Init, A!AuthInit, A!AuthTypeOK
<1>4. effects \in Seq(Operation)
  BY DEF Init
<1>5. QED
  BY <1>1, <1>2, <1>3, <1>4 DEF Init, TypeOK, Locations, Kinds

LEMMA EventInRow ==
  ASSUME TypeOK, NEW c \in Call, NEW result \in Nat,
         NEW event \in {"reserved", "conflict", "replayed"} \cup Terminals
  PROVE  Event(c, event, result) \in Row
  BY DEF TypeOK, Event, Row

LEMMA AttemptInRow ==
  ASSUME TypeOK, NEW c \in Call, NEW event \in {"conflict", "replayed"},
         AppendAttempt(c, event)
  PROVE  ledger' \subseteq Row
  BY DEF AppendAttempt, Reservation, TypeOK, Row

LEMMA ReplyTyped ==
  ASSUME TypeOK, NEW c \in Call, NEW kind \in Kinds, NEW result \in Nat,
         Reply(c, kind, result)
  PROVE  /\ pc' \in [Call -> Locations]
         /\ answer' \in [Call -> [kind : Kinds, result : Nat]]
  BY DEF TypeOK, Reply, Go, Locations

LEMMA TerminalTyped ==
  ASSUME TypeOK, NEW c \in Call, NEW event \in Terminals, NEW result \in Nat,
         AppendTerminal(c, event, result)
  PROVE  ledger' \subseteq Row
<1>1. Event(c, event, result) \in Row
  BY EventInRow
<1>2. QED
  BY <1>1 DEF AppendTerminal, TypeOK

LEMMA CommitTyped ==
  ASSUME TypeOK, NEW c \in Call, CommitWrites(c)
  PROVE  /\ effects' \in Seq(Operation)
         /\ Len(effects') \in Nat
         /\ Len(effects') = Len(effects) + 1
         /\ ledger' \subseteq Row
<1>1. effects \in Seq(Operation) /\ operation[c] \in Operation
  BY DEF TypeOK
<1>2. effects' = Append(effects, operation[c])
  BY DEF CommitWrites
<1>3. /\ effects' \in Seq(Operation)
      /\ Len(effects') \in Nat
      /\ Len(effects') = Len(effects) + 1
  BY <1>1, <1>2
<1>4. AppendTerminal(c, "succeeded", Len(effects'))
  BY DEF CommitWrites
<1>5. ledger' \subseteq Row
  BY <1>3, <1>4, TerminalTyped DEF Terminals
<1>6. QED
  BY <1>3, <1>5

\* Every step keeps the variables in their types.
LEMMA NextTypeOK == TypeOK /\ [Next]_vars => TypeOK'
<1> SUFFICES ASSUME TypeOK, [Next]_vars PROVE TypeOK'
  OBVIOUS
<1> USE CallAssumption DEF TypeOK
<1> USE DEF Go, Reply, Reserving, sessions, calls, Locations, Kinds
<1>1. ASSUME NEW c \in Call, NEW o \in Operation, NEW r \in Request,
             Start(c, o, r)
      PROVE  TypeOK'
  BY <1>1 DEF Start, A!AuthTypeOK
<1>2. ASSUME NEW c \in Call, ReserveRefused(c) PROVE TypeOK'
  BY <1>2 DEF ReserveRefused, A!AuthTypeOK
<1>3. ASSUME NEW c \in Call, ReserveNew(c) PROVE TypeOK'
  <2>1. Event(c, "reserved", 0) \in Row
    BY EventInRow DEF Terminals
  <2>2. QED
    BY <1>3, <2>1 DEF ReserveNew, A!AuthTypeOK
<1>4. ASSUME NEW c \in Call, ReserveConflict(c) PROVE TypeOK'
  <2>1. ledger' \subseteq Row
    BY <1>4, AttemptInRow DEF ReserveConflict
  <2>2. QED
    BY <1>4, <2>1 DEF ReserveConflict, A!AuthTypeOK
<1>5. ASSUME NEW c \in Call, ReserveAgain(c) PROVE TypeOK'
  <2>1. ledger' \subseteq Row
    BY <1>5, AttemptInRow DEF ReserveAgain
  <2>2. /\ pc' \in [Call -> Locations]
        /\ answer' \in [Call -> [kind : Kinds, result : Nat]]
    <3>1. ASSUME NEW t \in Success(operation[c]),
                 Reply(c, "replayed", t.result)
          PROVE  /\ pc' \in [Call -> Locations]
                 /\ answer' \in [Call -> [kind : Kinds, result : Nat]]
      <4>1. t.result \in Nat
        BY <3>1 DEF Success, Row
      <4>2. QED
        BY <3>1, <4>1, ReplyTyped
    <3>2. ASSUME Reply(c, "in progress", 0) \/ Reply(c, "replayed error", 0)
          PROVE  /\ pc' \in [Call -> Locations]
                 /\ answer' \in [Call -> [kind : Kinds, result : Nat]]
      BY <3>2, ReplyTyped
    <3>3. QED
      BY <1>5, <3>1, <3>2 DEF ReserveAgain
  <2>3. QED
    BY <1>5, <2>1, <2>2 DEF ReserveAgain, A!AuthTypeOK
<1>6. ASSUME NEW c \in Call, BeginDomain(c) \/ DomainRefused(c) PROVE TypeOK'
  BY <1>6 DEF BeginDomain, DomainRefused, A!AuthTypeOK
<1>7. ASSUME NEW c \in Call, Commit(c) \/ CommitUnreported(c) PROVE TypeOK'
  <2>1. CommitWrites(c)
    BY <1>7 DEF Commit, CommitUnreported
  <2>2. effects' \in Seq(Operation) /\ Len(effects') \in Nat /\ ledger' \subseteq Row
    BY <2>1, CommitTyped
  <2>3. /\ pc' \in [Call -> Locations]
        /\ answer' \in [Call -> [kind : Kinds, result : Nat]]
        /\ verdict' \in [Call -> {"failed", "denied"}]
    <3>1. CASE Commit(c)
      BY <2>2, <3>1, ReplyTyped DEF Commit
    <3>2. CASE CommitUnreported(c)
      BY <3>2 DEF CommitUnreported
    <3>3. QED
      BY <1>7, <3>1, <3>2
  <2>4. UNCHANGED <<auth, up, operation, request>> /\ lock' = NoCall
    BY <2>1 DEF CommitWrites
  <2>5. QED
    BY <2>2, <2>3, <2>4 DEF A!AuthTypeOK
<1>8. ASSUME NEW c \in Call, MutationRaises(c) PROVE TypeOK'
  BY <1>8 DEF MutationRaises, A!AuthTypeOK
<1>9. ASSUME NEW c \in Call, Record(c) PROVE TypeOK'
  <2>1. ledger' \subseteq Row
    <3>1. CASE AppendTerminal(c, verdict[c], 0)
      <4>1. verdict[c] \in Terminals
        BY DEF Terminals
      <4>2. QED
        BY <3>1, <4>1, TerminalTyped
    <3>2. CASE UNCHANGED ledger
      BY <3>2
    <3>3. QED
      BY <1>9, <3>1, <3>2 DEF Record
  <2>2. /\ pc' \in [Call -> Locations]
        /\ answer' \in [Call -> [kind : Kinds, result : Nat]]
    BY <1>9, ReplyTyped DEF Record
  <2>3. UNCHANGED <<auth, up, effects, lock, operation, request, verdict>>
    BY <1>9 DEF Record
  <2>4. QED
    BY <2>1, <2>2, <2>3 DEF A!AuthTypeOK
<1>10. ASSUME NEW c \in Call, RecordRaises(c) \/ LockTimeout(c) PROVE TypeOK'
  <2>1. CASE Reply(c, "unknown", 0) /\ UNCHANGED verdict
    <3>1. /\ pc' \in [Call -> Locations]
          /\ answer' \in [Call -> [kind : Kinds, result : Nat]]
      BY <2>1, ReplyTyped
    <3>2. UNCHANGED <<auth, up, ledger, effects, lock, operation, request>>
      BY <1>10 DEF RecordRaises, LockTimeout
    <3>3. QED
      BY <2>1, <3>1, <3>2 DEF A!AuthTypeOK
  <2>2. CASE /\ LockTimeout(c)
             /\ verdict' = [verdict EXCEPT ![c] = "failed"]
             /\ Go(c, "record")
             /\ UNCHANGED answer
    BY <2>2 DEF LockTimeout, A!AuthTypeOK
  <2>3. QED
    BY <1>10, <2>1, <2>2 DEF RecordRaises, LockTimeout
<1>11. ASSUME NEW s \in Session, Register(s) PROVE TypeOK'
  BY <1>11 DEF Register, A!Register, A!AuthTypeOK, A!Active, A!Ended
<1>12. ASSUME NEW s \in Session, NEW g \in A!Granted, Approve(s, g) PROVE TypeOK'
  BY <1>12 DEF Approve, A!Approve, A!AuthTypeOK, A!Active, A!Ended, A!Granted
<1>13. ASSUME NEW s \in Session, Close(s) PROVE TypeOK'
  BY <1>13 DEF Close, A!Close, A!AuthTypeOK, A!Active, A!Ended
<1>14. ASSUME NEW s \in Session, Crash(s) PROVE TypeOK'
  BY <1>14 DEF Crash, A!AuthTypeOK
<1>15. ASSUME NEW S \in SUBSET Session, Lapse(S) PROVE TypeOK'
  BY <1>15 DEF Lapse, A!Lapse, A!AuthTypeOK, A!Active, A!Ended
<1>16. CASE UNCHANGED vars
  BY <1>16 DEF vars, A!AuthTypeOK
<1>17. QED
  BY <1>1, <1>2, <1>3, <1>4, <1>5, <1>6, <1>7, <1>8, <1>9, <1>10, <1>11,
     <1>12, <1>13, <1>14, <1>15, <1>16 DEF Next, CallStep

\* Every variable of the executor keeps its type.
THEOREM ActionsTypeCorrect == Spec => []TypeOK
  BY InitTypeOK, NextTypeOK, PTL DEF Spec

-----------------------------------------------------------------------------
\* The three ways the ledger grows.

\* conflict and replayed events are neither reservations nor terminal.
LEMMA AttemptKeeps ==
  ASSUME TypeOK, NEW c \in Call, NEW event \in {"conflict", "replayed"},
         AppendAttempt(c, event), NEW o \in Operation
  PROVE  /\ ledger \subseteq ledger'
         /\ Reservation(o)' = Reservation(o)
         /\ Terminal(o)' = Terminal(o)
         /\ Success(o)' = Success(o)
<1>1. PICK r \in Reservation(operation[c]) :
        ledger' = ledger \cup {[r EXCEPT !.event = event]}
  BY DEF AppendAttempt
<1> DEFINE new == [r EXCEPT !.event = event]
<1>2. new.event = event
  BY <1>1 DEF Reservation, TypeOK, Row
<1>3. new.event \notin {"reserved"} \cup Terminals
  BY <1>2 DEF Terminals
<1>4. \A e \in ledger' : e \in ledger \/ e = new
  BY <1>1
<1>5. QED
  BY <1>1, <1>3, <1>4 DEF Reservation, Terminal, Success, Terminals

\* A reservation touches its own operation only.
LEMMA ReservationAdds ==
  ASSUME NEW c \in Call, ledger' = ledger \cup {Event(c, "reserved", 0)},
         NEW o \in Operation
  PROVE  /\ ledger \subseteq ledger'
         /\ Reservation(o)' = IF o = operation[c]
                              THEN Reservation(o) \cup {Event(c, "reserved", 0)}
                              ELSE Reservation(o)
         /\ Terminal(o)' = Terminal(o)
         /\ Success(o)' = Success(o)
<1> DEFINE new == Event(c, "reserved", 0)
<1>1. new.op = operation[c] /\ new.event = "reserved"
  BY DEF Event
<1>2. \A e : e \in ledger' <=> e \in ledger \/ e = new
  OBVIOUS
<1> HIDE DEF new
<1>3. QED
  BY <1>1, <1>2 DEF Reservation, Terminal, Success, Terminals, new

\* A terminal event is the only one of its operation.
LEMMA TerminalAdds ==
  ASSUME NEW c \in Call, NEW event \in Terminals, NEW result,
         AppendTerminal(c, event, result), NEW o \in Operation
  PROVE  /\ ledger \subseteq ledger'
         /\ Reservation(o)' = Reservation(o)
         /\ o # operation[c] => /\ Terminal(o)' = Terminal(o)
                                /\ Success(o)' = Success(o)
         /\ o = operation[c] =>
              /\ Terminal(o) = {}
              /\ Success(o) = {}
              /\ Terminal(o)' = {Event(c, event, result)}
              /\ Success(o)' = IF event = "succeeded"
                               THEN {Event(c, event, result)} ELSE {}
<1> DEFINE new == Event(c, event, result)
<1>1. new.op = operation[c] /\ new.event = event /\ event # "reserved"
  BY DEF Event, Terminals
<1>2. \A e : e \in ledger' <=> e \in ledger \/ e = new
  BY DEF AppendTerminal
<1>3. Terminal(operation[c]) = {}
  BY DEF AppendTerminal
<1> HIDE DEF new
<1>4. ledger \subseteq ledger' /\ Reservation(o)' = Reservation(o)
  BY <1>1, <1>2 DEF Reservation
<1>5. ASSUME o # operation[c]
      PROVE  Terminal(o)' = Terminal(o) /\ Success(o)' = Success(o)
  BY <1>1, <1>2, <1>5 DEF Terminal, Success
<1>6. ASSUME o = operation[c]
      PROVE  /\ Terminal(o) = {}
             /\ Success(o) = {}
             /\ Terminal(o)' = {new}
             /\ Success(o)' = IF event = "succeeded" THEN {new} ELSE {}
  <2>1. Terminal(o) = {} /\ Success(o) = {}
    BY <1>3, <1>6 DEF Terminal, Success, Terminals
  <2>2. Terminal(o)' = {new}
    BY <1>1, <1>2, <1>6, <2>1 DEF Terminal
  <2>3. Success(o)' = IF event = "succeeded" THEN {new} ELSE {}
    BY <1>1, <1>2, <1>6, <2>1 DEF Success
  <2>4. QED
    BY <2>1, <2>2, <2>3
<1>7. QED
  BY <1>4, <1>5, <1>6 DEF new

\* A step that leaves the ledger alone leaves what is read from it alone.
LEMMA LedgerKeeps ==
  ASSUME UNCHANGED ledger, NEW o \in Operation
  PROVE  /\ Reservation(o)' = Reservation(o)
         /\ Terminal(o)' = Terminal(o)
         /\ Success(o)' = Success(o)
  BY DEF Reservation, Terminal, Success

-----------------------------------------------------------------------------
\* A step of one call moves that call only.
LEMMA OthersKeep ==
  ASSUME TypeOK, NEW c \in Call, NEW d \in Call, d # c,
         CallStep(c) \/ \E o \in Operation, r \in Request : Start(c, o, r)
  PROVE  /\ pc'[d] = pc[d] /\ answer'[d] = answer[d]
         /\ operation'[d] = operation[d] /\ request'[d] = request[d]
<1> USE DEF TypeOK, Go, Reply
<1>1. ASSUME ReserveRefused(c) \/ ReserveNew(c) \/ ReserveConflict(c)
      PROVE  /\ pc'[d] = pc[d] /\ answer'[d] = answer[d]
             /\ operation' = operation /\ request' = request
  BY <1>1 DEF ReserveRefused, ReserveNew, ReserveConflict, Reserving
<1>2. ASSUME ReserveAgain(c)
      PROVE  /\ pc'[d] = pc[d] /\ answer'[d] = answer[d]
             /\ operation' = operation /\ request' = request
  BY <1>2 DEF ReserveAgain, Reserving
<1>3. ASSUME BeginDomain(c) \/ DomainRefused(c) \/ MutationRaises(c)
      PROVE  /\ pc'[d] = pc[d] /\ answer'[d] = answer[d]
             /\ operation' = operation /\ request' = request
  BY <1>3 DEF BeginDomain, DomainRefused, MutationRaises
<1>4. ASSUME Commit(c) \/ CommitUnreported(c)
      PROVE  /\ pc'[d] = pc[d] /\ answer'[d] = answer[d]
             /\ operation' = operation /\ request' = request
  BY <1>4 DEF Commit, CommitUnreported, CommitWrites
<1>5. ASSUME Record(c) \/ RecordRaises(c) \/ LockTimeout(c)
      PROVE  /\ pc'[d] = pc[d] /\ answer'[d] = answer[d]
             /\ operation' = operation /\ request' = request
  BY <1>5 DEF Record, RecordRaises, LockTimeout
<1>6. ASSUME \E o \in Operation, r \in Request : Start(c, o, r)
      PROVE  /\ pc'[d] = pc[d] /\ answer'[d] = answer[d]
             /\ operation'[d] = operation[d] /\ request'[d] = request[d]
  BY <1>6 DEF Start
<1>7. QED
  BY <1>1, <1>2, <1>3, <1>4, <1>5, <1>6 DEF CallStep

\* Sessions, crashes and stuttering leave the ledger and the effects alone, and
\* no call starts to work because of them.
LEMMA EnvironmentKeeps ==
  ASSUME TypeOK, [Next]_vars,
         ~ \E c \in Call : \/ CallStep(c)
                           \/ \E o \in Operation, r \in Request : Start(c, o, r)
  PROVE  /\ UNCHANGED <<ledger, effects, operation, request, verdict>>
         /\ \A c \in Call : \/ pc'[c] = pc[c] /\ answer'[c] = answer[c]
                            \/ pc'[c] = "done" /\ answer'[c].kind = "lost"
<1>1. ASSUME NEW s \in Session,
             Register(s) \/ Close(s) \/ \E g \in A!Granted : Approve(s, g)
      PROVE  UNCHANGED <<ledger, effects, operation, request, verdict, pc, answer>>
  BY <1>1 DEF Register, Close, Approve, calls
<1>2. ASSUME NEW S \in SUBSET Session, Lapse(S)
      PROVE  UNCHANGED <<ledger, effects, operation, request, verdict, pc, answer>>
  BY <1>2 DEF Lapse, calls
<1>3. ASSUME NEW s \in Session, Crash(s)
      PROVE  /\ UNCHANGED <<ledger, effects, operation, request, verdict>>
             /\ \A c \in Call : \/ pc'[c] = pc[c] /\ answer'[c] = answer[c]
                                \/ pc'[c] = "done" /\ answer'[c].kind = "lost"
  BY <1>3 DEF Crash, TypeOK
<1>4. CASE UNCHANGED vars
  BY <1>4 DEF vars
<1>5. QED
  BY <1>1, <1>2, <1>3, <1>4 DEF Next

\* Whoever works holds a reservation, made with its own request.
LEMMA WorkingReserved ==
  ASSUME ReservationInv, NEW c \in Call, Working(c)
  PROVE  /\ Event(c, "reserved", 0) \in Reservation(operation[c])
         /\ Reservation(operation[c]) # {}
<1> DEFINE e == Event(c, "reserved", 0)
<1>1. e \in ledger
  BY DEF ReservationInv
<1>2. e.op = operation[c] /\ e.event = "reserved"
  BY DEF Event
<1> HIDE DEF e
<1>3. e \in Reservation(operation[c])
  BY <1>1, <1>2 DEF Reservation
<1>4. QED
  BY <1>3 DEF e

\* ReservationInv is preserved by every step.
LEMMA ReservationStep == TypeOK /\ TypeOK' /\ ReservationInv /\ [Next]_vars
                           => ReservationInv'
<1> SUFFICES ASSUME TypeOK, TypeOK', ReservationInv, [Next]_vars
             PROVE  ReservationInv'
  OBVIOUS
<1>a. \A c \in Call : operation[c] \in Operation
  BY DEF TypeOK
<1>1. ASSUME NEW c \in Call, ReserveNew(c) PROVE ReservationInv'
  <2>1. /\ ledger' = ledger \cup {Event(c, "reserved", 0)}
        /\ Reservation(operation[c]) = {}
        /\ operation' = operation /\ request' = request
    BY <1>1 DEF ReserveNew, Reserving
  <2>2. \A o \in Operation :
          /\ Reservation(o)' = IF o = operation[c]
                               THEN Reservation(o) \cup {Event(c, "reserved", 0)}
                               ELSE Reservation(o)
          /\ Terminal(o)' = Terminal(o)
    BY <2>1, ReservationAdds
  <2>3. \A o \in Operation : \A e, f \in Reservation(o)' : e = f
    BY <2>1, <2>2 DEF ReservationInv
  <2>4. \A o \in Operation : Terminal(o)' # {} => Reservation(o)' # {}
    BY <2>2 DEF ReservationInv
  <2>5. ASSUME NEW d \in Call, Working(d)' PROVE Event(d, "reserved", 0)' \in ledger'
    <3>1. Event(d, "reserved", 0)' = Event(d, "reserved", 0)
      BY <2>1 DEF Event
    <3>2. CASE d = c
      BY <2>1, <3>1, <3>2
    <3>3. CASE d # c
      <4>1. Working(d)
        BY <1>1, <2>5, <3>3, OthersKeep DEF CallStep, Working
      <4>2. QED
        BY <2>1, <3>1, <4>1 DEF ReservationInv
    <3>4. QED
      BY <3>2, <3>3
  <2>6. QED
    BY <2>3, <2>4, <2>5 DEF ReservationInv
\* The other steps add at most a terminal event of a call that works, or an
\* attempt, and let no call start to work.
<1>2. ASSUME NEW c \in Call, CallStep(c), ~ReserveNew(c)
      PROVE  ReservationInv'
  <2>1. operation' = operation /\ request' = request
    BY <1>2 DEF CallStep, ReserveRefused, ReserveConflict, ReserveAgain, Reserving,
       BeginDomain, DomainRefused, Commit, CommitUnreported, CommitWrites,
       MutationRaises, Record, RecordRaises, LockTimeout
  <2>2. Working(c)' => Working(c)
    <3>1. CASE ReserveRefused(c) \/ ReserveConflict(c) \/ ReserveAgain(c)
      BY <3>1 DEF ReserveRefused, ReserveConflict, ReserveAgain, Working, Reply,
         Go, TypeOK
    <3>2. CASE BeginDomain(c) \/ DomainRefused(c) \/ MutationRaises(c)
      BY <3>2 DEF BeginDomain, DomainRefused, MutationRaises, Working
    <3>3. CASE Commit(c) \/ CommitUnreported(c)
      BY <3>3 DEF Commit, CommitUnreported, CommitWrites, Working
    <3>4. CASE Record(c) \/ RecordRaises(c) \/ LockTimeout(c)
      BY <3>4 DEF Record, RecordRaises, LockTimeout, Working, Reply, Go, TypeOK
    <3>5. QED
      BY <1>2, <3>1, <3>2, <3>3, <3>4 DEF CallStep
  <2>3. \A o \in Operation :
          /\ ledger \subseteq ledger'
          /\ Reservation(o)' = Reservation(o)
          /\ Terminal(o)' # {} => Terminal(o) # {} \/ (o = operation[c] /\ Working(c))
    <3>1. CASE ReserveConflict(c) \/ ReserveAgain(c)
      BY <3>1, AttemptKeeps DEF ReserveConflict, ReserveAgain
    <3>2. CASE Commit(c) \/ CommitUnreported(c)
      <4>1. AppendTerminal(c, "succeeded", Len(effects')) /\ Working(c)
        BY <3>2 DEF Commit, CommitUnreported, CommitWrites, Working
      <4>2. QED
        BY <4>1, TerminalAdds DEF Terminals
    <3>3. CASE Record(c)
      <4>1. Working(c) /\ verdict[c] \in Terminals
        BY <3>3 DEF Record, Working, TypeOK, Terminals
      <4>2. CASE AppendTerminal(c, verdict[c], 0)
        BY <4>1, <4>2, TerminalAdds
      <4>3. CASE UNCHANGED ledger
        BY <4>3, LedgerKeeps
      <4>4. QED
        BY <3>3, <4>2, <4>3 DEF Record
    <3>4. CASE UNCHANGED ledger
      BY <3>4, LedgerKeeps
    <3>5. QED
      BY <1>2, <3>1, <3>2, <3>3, <3>4 DEF CallStep, ReserveRefused, BeginDomain,
         DomainRefused, MutationRaises, RecordRaises, LockTimeout
  <2>4. \A o \in Operation : \A e, f \in Reservation(o)' : e = f
    BY <2>3 DEF ReservationInv
  <2>5. Working(c) => Reservation(operation[c]) # {}
    BY WorkingReserved
  <2>6. \A o \in Operation : Terminal(o)' # {} => Reservation(o)' # {}
    BY <2>3, <2>5 DEF ReservationInv
  <2>7. ASSUME NEW d \in Call, Working(d)' PROVE Event(d, "reserved", 0)' \in ledger'
    <3>1. Event(d, "reserved", 0)' = Event(d, "reserved", 0)
      BY <2>1 DEF Event
    <3>2. Working(d)
      BY <1>2, <2>2, <2>7, OthersKeep DEF Working
    <3>3. ledger \subseteq ledger'
      BY <2>3, <1>a
    <3>4. QED
      BY <3>1, <3>2, <3>3 DEF ReservationInv
  <2>8. QED
    BY <2>4, <2>6, <2>7 DEF ReservationInv
<1>3. ASSUME NEW c \in Call, NEW o \in Operation, NEW r \in Request, Start(c, o, r)
      PROVE  ReservationInv'
  <2>1. UNCHANGED ledger
    BY <1>3 DEF Start
  <2>2. ASSUME NEW d \in Call, Working(d)' PROVE Event(d, "reserved", 0)' \in ledger'
    <3>1. d # c
      BY <1>3, <2>2 DEF Start, Go, Working, TypeOK
    <3>2. Working(d) /\ Event(d, "reserved", 0)' = Event(d, "reserved", 0)
      BY <1>3, <2>2, <3>1, OthersKeep DEF Working, Event
    <3>3. QED
      BY <2>1, <3>2 DEF ReservationInv
  <2>3. QED
    BY <2>1, <2>2, LedgerKeeps DEF ReservationInv
<1>4. ASSUME ~ \E c \in Call : \/ CallStep(c)
                              \/ \E o \in Operation, r \in Request : Start(c, o, r)
      PROVE  ReservationInv'
  <2>1. UNCHANGED <<ledger, operation, request>>
    BY <1>4, EnvironmentKeeps
  <2>2. ASSUME NEW d \in Call, Working(d)' PROVE Event(d, "reserved", 0)' \in ledger'
    <3>1. Working(d)
      BY <1>4, <2>2, EnvironmentKeeps DEF Working
    <3>2. QED
      BY <2>1, <3>1 DEF ReservationInv, Event
  <2>3. QED
    BY <2>1, <2>2, LedgerKeeps DEF ReservationInv
<1>5. QED
  BY <1>1, <1>2, <1>3, <1>4

\* Whoever works on an operation holds its unique reservation, in every state.
THEOREM ActionsReservation == Spec => []ReservationInv
<1>1. Init => ReservationInv
  BY DEF Init, ReservationInv, Reservation, Terminal, Working
<1>2. QED
  BY <1>1, ReservationStep, ActionsTypeCorrect, PTL DEF Spec

-----------------------------------------------------------------------------
\* How a step may change what the ledger says of the operations.
LEMMA LedgerSteps ==
  ASSUME TypeOK, [Next]_vars
  PROVE  \/ \A o \in Operation : /\ Reservation(o)' = Reservation(o)
                                 /\ Terminal(o)' = Terminal(o)
                                 /\ Success(o)' = Success(o)
         \/ \E c \in Call : ReserveNew(c)
         \/ \E c \in Call : /\ CommitWrites(c) /\ AppendTerminal(c, "succeeded", Len(effects'))
                            /\ Commit(c) \/ CommitUnreported(c)
         \/ \E c \in Call : Record(c) /\ AppendTerminal(c, verdict[c], 0)
<1>1. ASSUME NEW c \in Call, CallStep(c), ~ReserveNew(c),
             ~(Commit(c) \/ CommitUnreported(c)),
             ~(Record(c) /\ AppendTerminal(c, verdict[c], 0))
      PROVE  \A o \in Operation : /\ Reservation(o)' = Reservation(o)
                                 /\ Terminal(o)' = Terminal(o)
                                 /\ Success(o)' = Success(o)
  <2>1. CASE ReserveConflict(c) \/ ReserveAgain(c)
    BY <2>1, AttemptKeeps DEF ReserveConflict, ReserveAgain
  <2>2. CASE UNCHANGED ledger
    BY <2>2, LedgerKeeps
  <2>3. QED
    BY <1>1, <2>1, <2>2 DEF CallStep, ReserveRefused, BeginDomain, DomainRefused,
       MutationRaises, Record, RecordRaises, LockTimeout
<1>2. ASSUME NEW c \in Call, Commit(c) \/ CommitUnreported(c)
      PROVE  CommitWrites(c) /\ AppendTerminal(c, "succeeded", Len(effects'))
  BY <1>2 DEF Commit, CommitUnreported, CommitWrites
<1>3. ASSUME ~ \E c \in Call : CallStep(c)
      PROVE  UNCHANGED ledger
  BY <1>3, EnvironmentKeeps DEF Start
<1>4. QED
  BY <1>1, <1>2, <1>3, LedgerKeeps

\* No operation ever has two of the succeeded, failed and denied events.
THEOREM ActionsOneTerminal == Spec => []OneTerminalEvent
<1>1. Init => OneTerminalEvent
  BY DEF Init, OneTerminalEvent, Terminal
<1>2. TypeOK /\ OneTerminalEvent /\ [Next]_vars => OneTerminalEvent'
  <2> SUFFICES ASSUME TypeOK, OneTerminalEvent, [Next]_vars
               PROVE  OneTerminalEvent'
    OBVIOUS
  <2>1. ASSUME NEW c \in Call, NEW event \in Terminals, NEW result,
               AppendTerminal(c, event, result)
        PROVE  OneTerminalEvent'
    <3>1. \A o \in Operation : \/ Terminal(o)' = Terminal(o)
                               \/ Terminal(o)' = {Event(c, event, result)}
      BY <2>1, TerminalAdds
    <3>2. QED
      BY <3>1 DEF OneTerminalEvent
  <2>2. ASSUME NEW c \in Call, ReserveNew(c) PROVE OneTerminalEvent'
    <3>1. \A o \in Operation : Terminal(o)' = Terminal(o)
      BY <2>2, ReservationAdds DEF ReserveNew
    <3>2. QED
      BY <3>1 DEF OneTerminalEvent
  <2>3. ASSUME \A o \in Operation : Terminal(o)' = Terminal(o)
        PROVE  OneTerminalEvent'
    BY <2>3 DEF OneTerminalEvent
  <2>4. \A c \in Call : verdict[c] \in Terminals
    BY DEF TypeOK, Terminals
  <2>5. QED
    BY <2>1, <2>2, <2>3, <2>4, LedgerSteps DEF Terminals
<1>3. QED
  BY <1>1, <1>2, ActionsTypeCorrect, PTL DEF Spec

-----------------------------------------------------------------------------
\* The refinement of IdempotentWrites, operation by operation.
LEMMA SameOutcome ==
  ASSUME NEW o \in Operation, Reservation(o)' = Reservation(o),
         Terminal(o)' = Terminal(o), Success(o)' = Success(o)
  PROVE  OutcomeOf(o)' = OutcomeOf(o)
  BY DEF OutcomeOf

\* A new reservation opens its operation.
LEMMA ReserveOpens ==
  ASSUME TypeOK, ReservationInv, NEW c \in Call, ReserveNew(c),
         NEW o \in Operation, o = operation[c]
  PROVE  W!Open(o)
<1>1. Reservation(o) = {} /\ ledger' = ledger \cup {Event(c, "reserved", 0)}
  BY DEF ReserveNew
<1>2. Terminal(o) = {} /\ Success(o) = {}
  BY <1>1 DEF ReservationInv, Terminal, Success, Terminals
<1>3. outcomes[o] = "none"
  BY <1>1, <1>2 DEF outcomes, OutcomeOf
<1>4. Reservation(o)' # {} /\ Terminal(o)' = {} /\ Success(o)' = {}
  BY <1>1, <1>2, ReservationAdds
<1>5. OutcomeOf(o)' = "open"
  BY <1>4 DEF OutcomeOf
<1>6. ASSUME NEW p \in Operation, p # o PROVE OutcomeOf(p)' = OutcomeOf(p)
  BY <1>1, <1>6, ReservationAdds, SameOutcome
<1>7. outcomes' = [outcomes EXCEPT ![o] = "open"]
  BY <1>5, <1>6 DEF outcomes
<1>8. UNCHANGED effects
  BY DEF ReserveNew, Reserving
<1>9. QED
  BY <1>3, <1>7, <1>8 DEF W!Open

\* A terminal event settles an open operation.
LEMMA TerminalSettles ==
  ASSUME TypeOK, ReservationInv, NEW c \in Call, Working(c),
         NEW event \in Terminals, NEW result, AppendTerminal(c, event, result),
         NEW o \in Operation, o = operation[c]
  PROVE  /\ outcomes[o] = "open"
         /\ outcomes' = [outcomes EXCEPT ![o] =
                           IF event = "succeeded" THEN "applied" ELSE "rejected"]
<1>1. Reservation(o) # {}
  BY WorkingReserved
<1>2. /\ Terminal(o) = {} /\ Success(o) = {}
      /\ Terminal(o)' # {}
      /\ Success(o)' # {} <=> event = "succeeded"
  BY TerminalAdds
<1>3. outcomes[o] = "open"
  BY <1>1, <1>2 DEF outcomes, OutcomeOf
<1>4. OutcomeOf(o)' = IF event = "succeeded" THEN "applied" ELSE "rejected"
  BY <1>2 DEF OutcomeOf
<1>5. ASSUME NEW p \in Operation, p # o PROVE OutcomeOf(p)' = OutcomeOf(p)
  BY <1>5, TerminalAdds, SameOutcome
<1>6. QED
  BY <1>3, <1>4, <1>5 DEF outcomes

\* Every step of the executor is a step of IdempotentWrites or changes nothing
\* it speaks of.
LEMMA StepImplements ==
  ASSUME TypeOK, ReservationInv, [Next]_vars
  PROVE  [W!WritesNext]_<<outcomes, effects>>
<1>0. \A c \in Call : operation[c] \in Operation
  BY DEF TypeOK
<1>1. ASSUME NEW c \in Call, ReserveNew(c) PROVE W!WritesNext
  BY <1>0, <1>1, ReserveOpens DEF W!WritesNext
<1>2. ASSUME NEW c \in Call, CommitWrites(c),
             AppendTerminal(c, "succeeded", Len(effects'))
      PROVE  W!WritesNext
  <2>1. Working(c) /\ effects' = Append(effects, operation[c])
    BY <1>2 DEF CommitWrites, Working
  <2>2. PICK o \in Operation : o = operation[c]
    BY <1>0
  <2>3. outcomes[o] = "open" /\ outcomes' = [outcomes EXCEPT ![o] = "applied"]
    BY <1>2, <2>1, <2>2, TerminalSettles DEF Terminals
  <2>4. QED
    BY <2>1, <2>2, <2>3 DEF W!Apply, W!WritesNext
<1>3. ASSUME NEW c \in Call, Record(c), AppendTerminal(c, verdict[c], 0)
      PROVE  W!WritesNext
  <2>1. Working(c) /\ UNCHANGED effects
    BY <1>3 DEF Record, Working
  <2>2. verdict[c] \in Terminals /\ verdict[c] # "succeeded"
    BY DEF TypeOK, Terminals
  <2>3. PICK o \in Operation : o = operation[c]
    BY <1>0
  <2>4. outcomes[o] = "open" /\ outcomes' = [outcomes EXCEPT ![o] = "rejected"]
    BY <1>3, <2>1, <2>2, <2>3, TerminalSettles
  <2>5. QED
    BY <2>1, <2>3, <2>4 DEF W!Reject, W!WritesNext
<1>4. ASSUME \A o \in Operation : /\ Reservation(o)' = Reservation(o)
                                 /\ Terminal(o)' = Terminal(o)
                                 /\ Success(o)' = Success(o)
      PROVE  UNCHANGED outcomes
  BY <1>4, SameOutcome DEF outcomes
<1>5. ASSUME ~ \E c \in Call : Commit(c) \/ CommitUnreported(c)
      PROVE  UNCHANGED effects
  <2>1. CASE \E c \in Call : CallStep(c)
    BY <1>5, <2>1 DEF CallStep, ReserveRefused, ReserveNew, ReserveConflict,
       ReserveAgain, Reserving, BeginDomain, DomainRefused, MutationRaises,
       Record, RecordRaises, LockTimeout
  <2>2. CASE ~ \E c \in Call : CallStep(c)
    BY <2>2, EnvironmentKeeps DEF Start
  <2>3. QED
    BY <2>1, <2>2
<1>6. ASSUME NEW c \in Call, Commit(c) \/ CommitUnreported(c)
      PROVE  W!WritesNext
  BY <1>2, <1>6 DEF Commit, CommitUnreported, CommitWrites
<1>7. QED
  BY <1>1, <1>2, <1>3, <1>4, <1>5, <1>6, LedgerSteps

\* For any number of clients, keys, calls, crashes and lost commits, a domain
\* write and its success event are one step, made at most once per operation.
THEOREM ActionsImplementIdempotentWrites == Spec => ImplementsIdempotentWrites
<1>1. Init => W!WritesInit
  BY DEF Init, W!WritesInit, outcomes, OutcomeOf, Success, Terminal, Reservation
<1>2. TypeOK /\ ReservationInv /\ [Next]_vars
        => [W!WritesNext]_<<outcomes, effects>>
  BY StepImplements
<1>3. QED
  BY <1>1, <1>2, ActionsTypeCorrect, ActionsReservation, PTL
     DEF Spec, ImplementsIdempotentWrites, W!WritesSpec

-----------------------------------------------------------------------------
\* LockInv is preserved: a session is closed under the lock, so not while a
\* call of its own is inside a domain transaction.
LEMMA LockStep == TypeOK /\ LockInv /\ [Next]_vars => LockInv'
<1> SUFFICES ASSUME TypeOK, LockInv, [Next]_vars,
                    NEW d \in Call, pc'[d] = "mutate"
             PROVE  /\ lock' = d
                    /\ auth'[SessionOf(d)'] \in A!Granted \cup {"lapsed"}
  BY DEF LockInv
<1>0. d # NoCall /\ SessionOf(d) \in Session
  BY CallAssumption DEF TypeOK, SessionOf, Operation
<1> DEFINE Held == pc[d] = "mutate" /\ SessionOf(d)' = SessionOf(d)
<1>1. ASSUME Held
      PROVE  lock = d /\ auth[SessionOf(d)'] \in A!Granted \cup {"lapsed"}
  BY <1>1 DEF LockInv
<1>2. ASSUME NEW c \in Call, CallStep(c), c = d
      PROVE  lock' = d /\ auth'[SessionOf(d)'] \in A!Granted \cup {"lapsed"}
  <2>1. CASE BeginDomain(c)
    BY <1>2, <2>1 DEF BeginDomain, MayWrite, SessionOf, sessions
  <2>2. pc'[d] = "mutate" /\ ~BeginDomain(c) => FALSE
    <3>1. CASE \/ ReserveRefused(c) \/ ReserveConflict(c) \/ ReserveAgain(c)
               \/ Record(c) \/ RecordRaises(c) \/ Commit(c)
      <4>1. pc'[c] = "done"
        BY <3>1 DEF ReserveRefused, ReserveConflict, ReserveAgain, Record,
           RecordRaises, Commit, Reply, Go, TypeOK
      <4>2. QED
        BY <1>2, <4>1
    <3>2. CASE ReserveNew(c) \/ DomainRefused(c) \/ MutationRaises(c)
      BY <1>2, <3>2 DEF ReserveNew, DomainRefused, MutationRaises, Go, TypeOK
    <3>3. CASE CommitUnreported(c) \/ LockTimeout(c)
      BY <1>2, <3>3 DEF CommitUnreported, CommitWrites, LockTimeout, Reply, Go,
         TypeOK
    <3>4. ASSUME ~BeginDomain(c) PROVE FALSE
      BY <1>2, <3>1, <3>2, <3>3, <3>4 DEF CallStep
    <3>5. QED
      BY <3>4
  <2>3. QED
    BY <2>1, <2>2
<1>3. ASSUME NEW c \in Call, CallStep(c), c # d
      PROVE  lock' = d /\ auth'[SessionOf(d)'] \in A!Granted \cup {"lapsed"}
  <2>1. Held
    BY <1>3, OthersKeep DEF SessionOf
  <2>2. lock = d /\ auth[SessionOf(d)'] \in A!Granted \cup {"lapsed"}
    BY <1>1, <2>1
  <2>3. UNCHANGED auth
    BY <1>3 DEF CallStep, ReserveRefused, ReserveNew, ReserveConflict,
       ReserveAgain, Reserving, BeginDomain, DomainRefused, MutationRaises,
       Commit, CommitUnreported, CommitWrites, Record, RecordRaises, LockTimeout,
       sessions
  <2>4. UNCHANGED lock
    BY <1>0, <1>3, <2>2 DEF CallStep, ReserveRefused, ReserveNew, ReserveConflict,
       ReserveAgain, Reserving, BeginDomain, DomainRefused, MutationRaises,
       Commit, CommitUnreported, CommitWrites, Record, RecordRaises, LockTimeout
  <2>5. QED
    BY <2>2, <2>3, <2>4
<1>4. ASSUME NEW c \in Call, NEW o \in Operation, NEW r \in Request, Start(c, o, r)
      PROVE  lock' = d /\ auth'[SessionOf(d)'] \in A!Granted \cup {"lapsed"}
  <2>1. c # d
    BY <1>4 DEF Start, Go, TypeOK
  <2>2. Held
    BY <1>4, <2>1, OthersKeep DEF SessionOf
  <2>3. QED
    BY <1>1, <1>4, <2>2 DEF Start, sessions
<1>5. ASSUME NEW s \in Session,
             Register(s) \/ Close(s) \/ \E g \in A!Granted : Approve(s, g)
      PROVE  lock' = d /\ auth'[SessionOf(d)'] \in A!Granted \cup {"lapsed"}
  <2>1. Held
    BY <1>5 DEF Register, Close, Approve, calls, SessionOf
  <2>2. lock = d /\ auth[SessionOf(d)] \in A!Granted \cup {"lapsed"}
    BY <1>1, <2>1
  <2>3. Register(s)
    BY <1>0, <1>5, <2>2 DEF Close, Approve
  <2>4. s # SessionOf(d)
    BY <2>2, <2>3 DEF Register, A!Register, A!Granted
  <2>5. QED
    BY <1>0, <2>1, <2>2, <2>3, <2>4
       DEF Register, A!Register, TypeOK, A!AuthTypeOK
<1>6. ASSUME NEW S \in SUBSET Session, Lapse(S)
      PROVE  lock' = d /\ auth'[SessionOf(d)'] \in A!Granted \cup {"lapsed"}
  <2>1. Held
    BY <1>6 DEF Lapse, calls, SessionOf
  <2>2. QED
    BY <1>0, <1>1, <1>6, <2>1 DEF Lapse, A!Lapse
<1>7. ASSUME NEW s \in Session, Crash(s)
      PROVE  lock' = d /\ auth'[SessionOf(d)'] \in A!Granted \cup {"lapsed"}
  <2>1. Held
    BY <1>7 DEF Crash, TypeOK, SessionOf
  <2>2. SessionOf(d) # s
    BY <1>7, <2>1 DEF Crash, TypeOK
  <2>3. QED
    BY <1>1, <1>7, <2>1, <2>2 DEF Crash
<1>8. CASE UNCHANGED vars
  BY <1>1, <1>8 DEF vars, SessionOf
<1>9. QED
  BY <1>2, <1>3, <1>4, <1>5, <1>6, <1>7, <1>8 DEF Next

\* Whatever the operator revokes and whenever, no write of the session is
\* committed afterwards.
THEOREM ActionsNoEffectAfterClose == Spec => NoEffectAfterClose
<1>1. Init => LockInv
  BY DEF Init, LockInv
<1>2. ASSUME TypeOK, LockInv, [Next]_vars, Len(effects') > Len(effects)
      PROVE  auth[effects'[Len(effects')][1]] \in A!Granted \cup {"lapsed"}
  <2>0. effects \in Seq(Operation)
    BY <1>2 DEF TypeOK
  <2>1. PICK c \in Call : CommitWrites(c)
    <3>1. effects' # effects
      BY <1>2, <2>0
    <3>2. PICK c \in Call : CallStep(c)
      BY <1>2, <3>1, EnvironmentKeeps DEF Start
    <3>3. Commit(c) \/ CommitUnreported(c)
      BY <3>1, <3>2 DEF CallStep, ReserveRefused, ReserveNew, ReserveConflict,
         ReserveAgain, Reserving, BeginDomain, DomainRefused, MutationRaises,
         Record, RecordRaises, LockTimeout
    <3>4. QED
      BY <3>3 DEF Commit, CommitUnreported
  <2>2. pc[c] = "mutate" /\ effects' = Append(effects, operation[c])
    BY <2>1 DEF CommitWrites
  <2>3. effects'[Len(effects')] = operation[c]
    BY <1>2, <2>0, <2>2 DEF TypeOK
  <2>4. QED
    BY <1>2, <2>2, <2>3 DEF LockInv, SessionOf
<1>3. TypeOK /\ LockInv /\ [Next]_vars
        => [Len(effects') > Len(effects)
              => auth[effects'[Len(effects')][1]] \in A!Granted \cup {"lapsed"}]_vars
  BY <1>2
<1>4. QED
  BY <1>1, <1>3, LockStep, ActionsTypeCorrect, PTL DEF Spec, NoEffectAfterClose
-----------------------------------------------------------------------------
\* What one step of one call does to that call: it starts, it works on, or it
\* gets the one answer it will ever have.
LEMMA OwnStep ==
  ASSUME TypeOK, NEW c \in Call, CallStep(c)
  PROVE  /\ UNCHANGED <<operation, request>>
         /\ pc[c] \in {"reserve", "domain", "mutate", "record"}
         /\ \/ pc'[c] # "done" /\ answer'[c] = answer[c]
            \/ pc'[c] = "done" /\ answer'[c].kind # "none"
<1> USE DEF TypeOK, Go, Reply
<1>1. CASE ReserveRefused(c) \/ ReserveNew(c) \/ ReserveConflict(c)
  BY <1>1 DEF ReserveRefused, ReserveNew, ReserveConflict, Reserving
<1>2. CASE ReserveAgain(c)
  <2>1. PICK kind \in Kinds \ {"none"} : \E result : Reply(c, kind, result)
    <3>1. {"in progress", "replayed", "replayed error"} \subseteq Kinds \ {"none"}
      BY DEF Kinds
    <3>2. QED
      BY <1>2, <3>1 DEF ReserveAgain
  <2>2. UNCHANGED <<operation, request>> /\ pc[c] = "reserve"
    BY <1>2 DEF ReserveAgain, Reserving
  <2>3. pc'[c] = "done" /\ answer'[c].kind # "none"
    BY <2>1
  <2>4. QED
    BY <2>2, <2>3
<1>3. CASE BeginDomain(c) \/ DomainRefused(c) \/ MutationRaises(c)
  BY <1>3 DEF BeginDomain, DomainRefused, MutationRaises
<1>4. CASE Commit(c) \/ CommitUnreported(c)
  BY <1>4 DEF Commit, CommitUnreported, CommitWrites
<1>5. CASE Record(c)
  BY <1>5 DEF Record
<1>6. CASE RecordRaises(c) \/ LockTimeout(c)
  BY <1>6 DEF RecordRaises, LockTimeout
<1>7. QED
  BY <1>1, <1>2, <1>3, <1>4, <1>5, <1>6 DEF CallStep

\* Starting a call changes only where it is and what it is about.
LEMMA StartStep ==
  ASSUME TypeOK, NEW c \in Call, NEW o \in Operation, NEW r \in Request,
         Start(c, o, r)
  PROVE  /\ pc[c] = "idle" /\ pc'[c] = "reserve"
         /\ UNCHANGED <<answer, ledger, effects>>
  BY DEF Start, Go, TypeOK

\* An answered call stays answered.
LEMMA AnsweredStep == TypeOK /\ AnsweredInv /\ [Next]_vars => AnsweredInv'
<1> SUFFICES ASSUME TypeOK, AnsweredInv, [Next]_vars,
                    NEW d \in Call, answer'[d].kind # "none"
             PROVE  pc'[d] = "done"
  BY DEF AnsweredInv
<1>0. answer[d].kind # "none" => pc[d] = "done"
  BY DEF AnsweredInv
<1>1. ASSUME NEW c \in Call, CallStep(c) PROVE pc'[d] = "done"
  <2>1. CASE c = d
    BY <1>0, <1>1, <2>1, OwnStep
  <2>2. CASE c # d
    BY <1>0, <1>1, <2>2, OthersKeep
  <2>3. QED
    BY <2>1, <2>2
<1>2. ASSUME NEW c \in Call, NEW o \in Operation, NEW r \in Request, Start(c, o, r)
      PROVE  pc'[d] = "done"
  <2>1. CASE c = d
    BY <1>0, <1>2, <2>1, StartStep
  <2>2. CASE c # d
    BY <1>0, <1>2, <2>2, OthersKeep
  <2>3. QED
    BY <2>1, <2>2
<1>3. ASSUME ~ \E c \in Call : \/ CallStep(c)
                              \/ \E o \in Operation, r \in Request : Start(c, o, r)
      PROVE  pc'[d] = "done"
  BY <1>0, <1>3, EnvironmentKeeps
<1>4. QED
  BY <1>1, <1>2, <1>3

\* A call that was answered, or lost, takes no further step: it is told one
\* thing, once.
THEOREM ActionsAnswerOnce == Spec => []AnsweredInv
<1>1. Init => AnsweredInv
  BY DEF Init, AnsweredInv
<1>2. QED
  BY <1>1, AnsweredStep, ActionsTypeCorrect, PTL DEF Spec

\* A call that has begun keeps its operation and its request.
LEMMA BegunKeeps ==
  ASSUME TypeOK, [Next]_vars, NEW d \in Call, pc[d] # "idle"
  PROVE  operation'[d] = operation[d] /\ request'[d] = request[d]
<1>1. ASSUME NEW c \in Call, CallStep(c)
      PROVE  operation'[d] = operation[d] /\ request'[d] = request[d]
  BY <1>1, OwnStep
<1>2. ASSUME NEW c \in Call, NEW o \in Operation, NEW r \in Request, Start(c, o, r)
      PROVE  operation'[d] = operation[d] /\ request'[d] = request[d]
  <2>1. c # d
    BY <1>2, StartStep
  <2>2. QED
    BY <1>2, <2>1, OthersKeep
<1>3. QED
  BY <1>1, <1>2, EnvironmentKeeps

\* Events of an operation are never taken back.
LEMMA LedgerGrows ==
  ASSUME TypeOK, [Next]_vars, NEW o \in Operation
  PROVE  /\ Terminal(o) \subseteq Terminal(o)'
         /\ Success(o) \subseteq Success(o)'
<1>1. ASSUME NEW c \in Call, ReserveNew(c)
      PROVE  Terminal(o)' = Terminal(o) /\ Success(o)' = Success(o)
  BY <1>1, ReservationAdds DEF ReserveNew
<1>2. ASSUME NEW c \in Call, NEW event \in Terminals, NEW result,
             AppendTerminal(c, event, result)
      PROVE  Terminal(o) \subseteq Terminal(o)' /\ Success(o) \subseteq Success(o)'
  BY <1>2, TerminalAdds
<1>3. \A c \in Call : verdict[c] \in Terminals
  BY DEF TypeOK, Terminals
<1>4. QED
  BY <1>1, <1>2, <1>3, LedgerSteps DEF Terminals

-----------------------------------------------------------------------------
\* Whoever owes an operation its terminal event goes on owing it, until the
\* event is there.
Owes(c) == Working(c) \/ answer[c].kind \in {"unknown", "lost"}

LEMMA DebtStays ==
  ASSUME TypeOK, ReservationInv, AnsweredInv, [Next]_vars,
         NEW d \in Call, Owes(d), NEW o \in Operation, o = operation[d]
  PROVE  /\ operation'[d] = o
         /\ Owes(d)' \/ Terminal(o)' # {}
<1>0. pc[d] # "idle"
  BY DEF Owes, Working, AnsweredInv
<1>1. operation'[d] = o
  BY <1>0, BegunKeeps
<1>2. ASSUME CallStep(d) PROVE Owes(d)' \/ Terminal(o)' # {}
  <2>0. Working(d)
    BY <1>2, OwnStep DEF Owes, AnsweredInv
  <2>1. CASE BeginDomain(d) \/ DomainRefused(d) \/ MutationRaises(d)
    BY <2>1 DEF BeginDomain, DomainRefused, MutationRaises, Go, Owes, Working,
       TypeOK
  <2>2. CASE Commit(d) \/ CommitUnreported(d)
    <3>1. AppendTerminal(d, "succeeded", Len(effects'))
      BY <2>2 DEF Commit, CommitUnreported, CommitWrites
    <3>2. QED
      BY <3>1, TerminalAdds DEF Terminals
  <2>3. CASE Record(d)
    <3>1. CASE AppendTerminal(d, verdict[d], 0)
      <4>1. verdict[d] \in Terminals
        BY DEF TypeOK, Terminals
      <4>2. QED
        BY <3>1, <4>1, TerminalAdds
    <3>2. CASE Reply(d, "unknown", 0)
      BY <3>2 DEF Reply, Owes, TypeOK
    <3>3. QED
      BY <2>3, <3>1, <3>2 DEF Record
  <2>4. CASE RecordRaises(d)
    BY <2>4 DEF RecordRaises, Reply, Owes, TypeOK
  <2>5. CASE LockTimeout(d)
    BY <2>5 DEF LockTimeout, Reply, Go, Owes, Working, TypeOK
  <2>6. QED
    BY <1>2, <2>0, <2>1, <2>2, <2>3, <2>4, <2>5
       DEF CallStep, ReserveRefused, ReserveNew, ReserveConflict, ReserveAgain,
           Reserving, Working
<1>3. ASSUME ~CallStep(d),
             \E c \in Call : \/ CallStep(c)
                             \/ \E p \in Operation, r \in Request : Start(c, p, r)
      PROVE  Owes(d)'
  <2>1. PICK c \in Call : \/ CallStep(c)
                          \/ \E p \in Operation, r \in Request : Start(c, p, r)
    BY <1>3
  <2>2. c # d
    BY <1>0, <1>3, <2>1, StartStep
  <2>3. QED
    BY <2>1, <2>2, OthersKeep DEF Owes, Working
<1>4. ASSUME ~ \E c \in Call : \/ CallStep(c)
                              \/ \E p \in Operation, r \in Request : Start(c, p, r)
      PROVE  Owes(d)'
  BY <1>4, EnvironmentKeeps DEF Owes, Working
<1>5. QED
  BY <1>1, <1>2, <1>3, <1>4

\* An operation that has begun and has no terminal event has somebody who owes
\* it one: "in progress" is never the answer about an operation nobody runs.
THEOREM ActionsNoSilentAbandon == Spec => []NoSilentAbandon
<1>1. Init => NoSilentAbandon
  BY DEF Init, NoSilentAbandon, Reservation
<1>2. ASSUME TypeOK, ReservationInv, AnsweredInv, NoSilentAbandon, [Next]_vars
      PROVE  NoSilentAbandon'
  <2> SUFFICES ASSUME NEW o \in Operation, Reservation(o)' # {}, Terminal(o)' = {}
               PROVE  \E c \in Call : operation'[c] = o /\ Owes(c)'
    BY DEF NoSilentAbandon, Owes
  <2>1. Terminal(o) = {}
    BY <1>2, LedgerGrows
  <2>2. CASE Reservation(o) # {}
    <3>1. PICK d \in Call : operation[d] = o /\ Owes(d)
      BY <1>2, <2>1, <2>2 DEF NoSilentAbandon, Owes
    <3>2. operation'[d] = o /\ Owes(d)'
      BY <1>2, <3>1, DebtStays
    <3>3. QED
      BY <3>2
  <2>3. CASE Reservation(o) = {}
    <3>1. PICK c \in Call : ReserveNew(c)
      <4>1. ASSUME NEW c \in Call, NEW event \in Terminals, NEW result,
                   AppendTerminal(c, event, result)
            PROVE  FALSE
        BY <2>3, <4>1, TerminalAdds
      <4>2. \A c \in Call : verdict[c] \in Terminals
        BY <1>2 DEF TypeOK, Terminals
      <4>3. QED
        BY <1>2, <2>3, <4>1, <4>2, LedgerSteps DEF Terminals
    <3>2. operation[c] = o
      BY <2>3, <3>1, ReservationAdds DEF ReserveNew
    <3>3. operation'[c] = o /\ Working(c)'
      BY <1>2, <3>1, <3>2 DEF ReserveNew, Reserving, Go, Working, TypeOK
    <3>4. QED
      BY <3>3 DEF Owes
  <2>4. QED
    BY <2>2, <2>3
<1>3. QED
  BY <1>1, <1>2, ActionsTypeCorrect, ActionsReservation, ActionsAnswerOnce, PTL
     DEF Spec

-----------------------------------------------------------------------------
\* A committed write keeps its place.
LEMMA EffectsGrow ==
  ASSUME TypeOK, [Next]_vars, NEW i \in DOMAIN effects
  PROVE  i \in DOMAIN effects' /\ effects'[i] = effects[i]
<1>0. effects \in Seq(Operation)
  BY DEF TypeOK
<1>1. ASSUME NEW c \in Call, CommitWrites(c)
      PROVE  i \in DOMAIN effects' /\ effects'[i] = effects[i]
  <2>1. effects' = Append(effects, operation[c]) /\ operation[c] \in Operation
    BY <1>1 DEF CommitWrites, TypeOK
  <2>2. QED
    BY <1>0, <2>1
<1>2. ASSUME ~ \E c \in Call : CommitWrites(c)
      PROVE  UNCHANGED effects
  <2>1. CASE \E c \in Call : CallStep(c)
    BY <1>2, <2>1 DEF CallStep, ReserveRefused, ReserveNew, ReserveConflict,
       ReserveAgain, Reserving, BeginDomain, DomainRefused, MutationRaises,
       Record, RecordRaises, LockTimeout, Commit, CommitUnreported
  <2>2. CASE ~ \E c \in Call : CallStep(c)
    BY <2>2, EnvironmentKeeps DEF Start
  <2>3. QED
    BY <2>1, <2>2
<1>3. QED
  BY <1>1, <1>2

\* Reservations are never taken back.
LEMMA ReservationGrows ==
  ASSUME TypeOK, [Next]_vars, NEW o \in Operation
  PROVE  Reservation(o) \subseteq Reservation(o)'
<1>1. ASSUME NEW c \in Call, ReserveNew(c)
      PROVE  Reservation(o) \subseteq Reservation(o)'
  BY <1>1, ReservationAdds DEF ReserveNew
<1>2. ASSUME NEW c \in Call, NEW event \in Terminals, NEW result,
             AppendTerminal(c, event, result)
      PROVE  Reservation(o)' = Reservation(o)
  BY <1>2, TerminalAdds
<1>3. \A c \in Call : verdict[c] \in Terminals
  BY DEF TypeOK, Terminals
<1>4. QED
  BY <1>1, <1>2, <1>3, LedgerSteps DEF Terminals

\* The success event a commit writes names the write of that very commit.
LEMMA CommitNames ==
  ASSUME TypeOK, ReservationInv, NEW c \in Call, CommitWrites(c),
         NEW o \in Operation, o = operation[c]
  PROVE  /\ Success(o)' = {Event(c, "succeeded", Len(effects'))}
         /\ Event(c, "succeeded", Len(effects')).result = Len(effects')
         /\ Event(c, "succeeded", Len(effects')).req = request[c]
         /\ Len(effects') \in DOMAIN effects'
         /\ effects'[Len(effects')] = o
         /\ \E r \in Reservation(o) : r.req = request[c]
<1>0. effects \in Seq(Operation) /\ effects' = Append(effects, o)
  BY DEF TypeOK, CommitWrites
<1>1. Len(effects') \in DOMAIN effects' /\ effects'[Len(effects')] = o
  BY <1>0
<1>2. AppendTerminal(c, "succeeded", Len(effects'))
  BY DEF CommitWrites
<1>3. Success(o)' = {Event(c, "succeeded", Len(effects'))}
  BY <1>2, TerminalAdds DEF Terminals
<1>4. Event(c, "reserved", 0) \in Reservation(o)
  BY WorkingReserved DEF CommitWrites, Working
<1>5. Event(c, "reserved", 0).req = request[c]
  BY DEF Event
<1>6. QED
  BY <1>1, <1>3, <1>4, <1>5 DEF Event

\* Each success event names a committed write of its operation.
LEMMA SuccessStep ==
  TypeOK /\ ReservationInv /\ SuccessInv /\ [Next]_vars => SuccessInv'
<1> SUFFICES ASSUME TypeOK, ReservationInv, SuccessInv, [Next]_vars,
                    NEW o \in Operation, NEW t \in Success(o)'
             PROVE  /\ t.result \in DOMAIN effects'
                    /\ effects'[t.result] = o
                    /\ \E r \in Reservation(o)' : r.req = t.req
  BY DEF SuccessInv
<1>1. CASE t \in Success(o)
  <2>1. /\ t.result \in DOMAIN effects
        /\ effects[t.result] = o
        /\ \E r \in Reservation(o) : r.req = t.req
    BY <1>1 DEF SuccessInv
  <2>2. QED
    BY <2>1, EffectsGrow, ReservationGrows
<1>2. CASE t \notin Success(o)
  <2>1. PICK c \in Call : CommitWrites(c) /\ operation[c] = o
    <3>1. ASSUME NEW c \in Call, ReserveNew(c) PROVE Success(o)' = Success(o)
      BY <3>1, ReservationAdds DEF ReserveNew
    <3>2. ASSUME NEW c \in Call, Record(c), AppendTerminal(c, verdict[c], 0)
          PROVE  t \in Success(o)
      <4>1. verdict[c] \in Terminals /\ verdict[c] # "succeeded"
        BY DEF TypeOK, Terminals
      <4>2. QED
        BY <3>2, <4>1, TerminalAdds
    <3>3. ASSUME NEW c \in Call, AppendTerminal(c, "succeeded", Len(effects')),
                 operation[c] # o
          PROVE  Success(o)' = Success(o)
      BY <3>3, TerminalAdds DEF Terminals
    <3>4. QED
      BY <1>2, <3>1, <3>2, <3>3, LedgerSteps
  <2>2. t = Event(c, "succeeded", Len(effects'))
    BY <2>1, CommitNames
  <2>3. QED
    BY <2>1, <2>2, CommitNames, ReservationGrows
<1>3. QED
  BY <1>1, <1>2

\* A success event names a committed write of its operation, for the request
\* the operation was reserved with.
THEOREM ActionsSuccess == Spec => []SuccessInv
<1>1. Init => SuccessInv
  BY DEF Init, SuccessInv, Success
<1>2. QED
  BY <1>1, SuccessStep, ActionsTypeCorrect, ActionsReservation, PTL DEF Spec

-----------------------------------------------------------------------------
\* What a call is told when it is told something definite.
Warranted(c) ==
  /\ Positive(c) => \E t \in Success(operation[c]) :
                      t.result = answer[c].result /\ t.req = request[c]
  /\ Negative(c) => \E t \in Terminal(operation[c]) : t.event # "succeeded"

\* An answer given stays warranted: the ledger only grows.
LEMMA WarrantStays ==
  ASSUME TypeOK, AnsweredInv, [Next]_vars, NEW d \in Call, Warranted(d),
         answer'[d] = answer[d]
  PROVE  Warranted(d)'
<1>0. operation[d] \in Operation
  BY DEF TypeOK
<1>1. ASSUME Positive(d) \/ Negative(d)
      PROVE  operation'[d] = operation[d] /\ request'[d] = request[d]
  <2>1. pc[d] # "idle"
    BY <1>1 DEF Positive, Negative, AnsweredInv
  <2>2. QED
    BY <2>1, BegunKeeps
<1>2. PICK o \in Operation : o = operation[d]
  BY <1>0
<1>3. Terminal(o) \subseteq Terminal(o)' /\ Success(o) \subseteq Success(o)'
  BY LedgerGrows
<1>4. ASSUME Positive(d)'
      PROVE  \E t \in Success(operation[d])' :
               t.result = answer'[d].result /\ t.req = request'[d]
  <2>1. Positive(d) /\ operation'[d] = o /\ request'[d] = request[d]
    BY <1>1, <1>2, <1>4 DEF Positive
  <2>2. PICK t \in Success(o) : t.result = answer[d].result /\ t.req = request[d]
    BY <1>2, <2>1 DEF Warranted
  <2>3. t \in Success(operation[d])'
    BY <1>3, <2>1, <2>2 DEF Success
  <2>4. QED
    BY <2>1, <2>2, <2>3
<1>5. ASSUME Negative(d)'
      PROVE  \E t \in Terminal(operation[d])' : t.event # "succeeded"
  <2>1. Negative(d) /\ operation'[d] = o
    BY <1>1, <1>2, <1>5 DEF Negative
  <2>2. PICK t \in Terminal(o) : t.event # "succeeded"
    BY <1>2, <2>1 DEF Warranted
  <2>3. t \in Terminal(operation[d])'
    BY <1>3, <2>1, <2>2 DEF Terminal
  <2>4. QED
    BY <2>2, <2>3
<1>6. QED
  BY <1>4, <1>5 DEF Warranted

\* The operation and the request a reply is about do not move with it.
LEMMA ReplyKinds ==
  ASSUME TypeOK, NEW c \in Call, NEW kind, NEW result, Reply(c, kind, result)
  PROVE  answer'[c].kind = kind /\ answer'[c].result = result
  BY DEF Reply, TypeOK

\* A retry is told what the terminal event says, for the request it repeats.
LEMMA ReplayWarranted ==
  ASSUME TypeOK, ReservationInv, SuccessInv, NEW c \in Call, ReserveAgain(c)
  PROVE  Warranted(c)'
<1>1. PICK o \in Operation : o = operation[c]
  BY DEF TypeOK
<1>2. UNCHANGED <<operation, request>>
  BY DEF ReserveAgain, Reserving
<1>3. Success(o)' = Success(o) /\ Terminal(o)' = Terminal(o)
  BY AttemptKeeps DEF ReserveAgain
<1>4. Success(operation[c])' = Success(o) /\ Terminal(operation[c])' = Terminal(o)
  BY <1>1, <1>2, <1>3 DEF Success, Terminal
<1>5. ASSUME Reply(c, "in progress", 0) PROVE Warranted(c)'
  <2>1. answer'[c].kind = "in progress"
    BY <1>5, ReplyKinds
  <2>2. QED
    BY <2>1 DEF Warranted, Positive, Negative
<1>6. ASSUME NEW t \in Success(o), Reply(c, "replayed", t.result)
      PROVE  Warranted(c)'
  <2>1. answer'[c].kind = "replayed" /\ answer'[c].result = t.result
    BY <1>6, ReplyKinds
  <2>2. t.req = request'[c]
    <3>1. PICK r \in Reservation(o) : r.req = request[c]
      BY <1>1 DEF ReserveAgain
    <3>2. PICK q \in Reservation(o) : q.req = t.req
      BY <1>6 DEF SuccessInv
    <3>3. q = r
      BY DEF ReservationInv
    <3>4. QED
      BY <1>2, <3>1, <3>2, <3>3
  <2>3. QED
    BY <1>4, <2>1, <2>2 DEF Warranted, Positive, Negative
<1>7. ASSUME Terminal(o) # {}, Success(o) = {}, Reply(c, "replayed error", 0)
      PROVE  Warranted(c)'
  <2>1. answer'[c].kind = "replayed error"
    BY <1>7, ReplyKinds
  <2>2. \A t \in Terminal(o) : t.event # "succeeded"
    BY <1>7 DEF Terminal, Success
  <2>3. QED
    BY <1>4, <1>7, <2>1, <2>2 DEF Warranted, Positive, Negative
<1>8. \/ Reply(c, "in progress", 0)
      \/ \E t \in Success(o) : Reply(c, "replayed", t.result)
      \/ Terminal(o) # {} /\ Success(o) = {} /\ Reply(c, "replayed error", 0)
  BY <1>1, Zenon DEF ReserveAgain
<1>9. QED
  BY <1>5, <1>6, <1>7, <1>8

\* Every answer a call's own step gives is warranted.
LEMMA AnswerWarranted ==
  ASSUME TypeOK, ReservationInv, SuccessInv, NEW c \in Call, CallStep(c),
         answer'[c] # answer[c]
  PROVE  Warranted(c)'
<1>1. PICK o \in Operation : o = operation[c]
  BY DEF TypeOK
<1>2. UNCHANGED <<operation, request>>
  BY OwnStep
<1>3. ASSUME NEW kind \in Kinds, NEW result, Reply(c, kind, result),
             kind \notin {"succeeded", "replayed", "failed", "denied",
                          "replayed error"}
      PROVE  Warranted(c)'
  BY <1>3, ReplyKinds DEF Warranted, Positive, Negative
<1>4. CASE Commit(c)
  <2>1. CommitWrites(c) /\ Reply(c, "succeeded", Len(effects'))
    BY <1>4 DEF Commit
  <2>2. answer'[c].kind = "succeeded" /\ answer'[c].result = Len(effects')
    BY <2>1, ReplyKinds
  <2>3. PICK t \in Success(o)' : t.result = Len(effects') /\ t.req = request[c]
    BY <1>1, <2>1, CommitNames
  <2>4. t \in Success(operation[c])'
    BY <1>1, <1>2, <2>3 DEF Success
  <2>5. QED
    BY <1>2, <2>2, <2>3, <2>4 DEF Warranted, Positive, Negative
<1>5. ASSUME AppendTerminal(c, verdict[c], 0), Reply(c, verdict[c], 0)
      PROVE  Warranted(c)'
  <2>1. verdict[c] \in Terminals /\ verdict[c] # "succeeded"
    BY DEF TypeOK, Terminals
  <2>2. answer'[c].kind \in {"failed", "denied"}
    BY <1>5, ReplyKinds DEF TypeOK
  <2>3. Terminal(o)' = {Event(c, verdict[c], 0)}
    BY <1>1, <1>5, <2>1, TerminalAdds
  <2>4. Event(c, verdict[c], 0).event # "succeeded"
    BY <2>1 DEF Event
  <2>5. Event(c, verdict[c], 0) \in Terminal(operation[c])'
    BY <1>1, <1>2, <2>3 DEF Terminal
  <2>6. QED
    BY <2>2, <2>4, <2>5 DEF Warranted, Positive, Negative
<1>6. CASE ReserveRefused(c) \/ ReserveConflict(c)
  BY <1>3, <1>6 DEF ReserveRefused, ReserveConflict, Kinds
<1>7. CASE Record(c) \/ RecordRaises(c)
  BY <1>3, <1>5, <1>7 DEF Record, RecordRaises, Kinds
<1>8. CASE LockTimeout(c)
  BY <1>3, <1>8 DEF LockTimeout, Kinds
<1>9. CASE ReserveAgain(c)
  BY <1>9, ReplayWarranted
<1>10. QED
  BY <1>4, <1>6, <1>7, <1>8, <1>9
     DEF CallStep, ReserveNew, BeginDomain, DomainRefused, CommitUnreported,
         MutationRaises

\* Every definite answer is warranted by the ledger.
LEMMA AnswerStep ==
  TypeOK /\ ReservationInv /\ AnsweredInv /\ SuccessInv /\ AnswerInv /\ [Next]_vars
    => AnswerInv'
<1> SUFFICES ASSUME TypeOK, ReservationInv, AnsweredInv, SuccessInv, AnswerInv,
                    [Next]_vars, NEW d \in Call
             PROVE  Warranted(d)'
  BY DEF AnswerInv, Warranted
<1>1. Warranted(d)
  BY DEF AnswerInv, Warranted
<1>2. CASE answer'[d] = answer[d]
  BY <1>1, <1>2, WarrantStays
<1>3. ASSUME answer'[d] # answer[d] PROVE Warranted(d)'
  <2>1. ASSUME NEW c \in Call, CallStep(c) PROVE c = d
    BY <1>3, <2>1, OthersKeep
  <2>2. ASSUME NEW c \in Call, \E o \in Operation, r \in Request : Start(c, o, r)
        PROVE  FALSE
    BY <1>3, <2>2, StartStep
  <2>3. CASE CallStep(d)
    BY <1>3, <2>3, AnswerWarranted
  <2>4. CASE ~CallStep(d)
    <3>1. answer'[d].kind = "lost"
      BY <1>3, <2>1, <2>2, <2>4, EnvironmentKeeps
    <3>2. QED
      BY <3>1 DEF Warranted, Positive, Negative
  <2>5. QED
    BY <2>3, <2>4
<1>4. QED
  BY <1>2, <1>3

\* A definite answer repeats the terminal event of the call's operation.
THEOREM ActionsAnswers == Spec => []AnswerInv
<1>1. Init => AnswerInv
  <2>1. Init => \A c \in Call : answer[c].kind = "none"
    BY DEF Init
  <2>2. QED
    BY <2>1 DEF AnswerInv, Positive, Negative
<1>2. QED
  BY <1>1, AnswerStep, ActionsTypeCorrect, ActionsReservation, ActionsAnswerOnce,
     ActionsSuccess, PTL DEF Spec

\* Two answers with the same result, however each of them was come by.
SameAnswer(c, d) == answer[d] = [answer[c] EXCEPT !.kind = answer[d].kind]

\* Two positive answers about one operation are the same answer, whichever
\* process gave them, and no negative one stands beside them.
LEMMA AnswersAgreeHere ==
  TypeOK /\ OneTerminalEvent /\ SuccessInv /\ AnswerInv => AnswersAgree
<1> SUFFICES ASSUME TypeOK, OneTerminalEvent, SuccessInv, AnswerInv,
                    NEW c \in Call, Positive(c)
             PROVE  /\ answer[c].result \in DOMAIN effects
                    /\ effects[answer[c].result] = operation[c]
                    /\ \A d \in Call : operation[d] = operation[c] =>
                         /\ ~Negative(d)
                         /\ Positive(d) =>
                              /\ SameAnswer(c, d)
                              /\ request[d] = request[c]
  BY DEF AnswersAgree, SameAnswer
<1>1. PICK o \in Operation : o = operation[c]
  BY DEF TypeOK
<1>2. PICK t \in Success(o) : t.result = answer[c].result /\ t.req = request[c]
  BY <1>1 DEF AnswerInv
<1>3. t.result \in DOMAIN effects /\ effects[t.result] = o
  BY <1>2 DEF SuccessInv
<1>4. t \in Terminal(o) /\ t.event = "succeeded"
  BY <1>2 DEF Success, Terminal, Terminals
<1>5. ASSUME NEW d \in Call, operation[d] = o
      PROVE  /\ ~Negative(d)
             /\ Positive(d) =>
                  /\ SameAnswer(c, d)
                  /\ request[d] = request[c]
  <2>1. ASSUME Negative(d) PROVE FALSE
    <3>1. PICK u \in Terminal(o) : u.event # "succeeded"
      BY <1>5, <2>1 DEF AnswerInv
    <3>2. u = t
      BY <1>4, <3>1 DEF OneTerminalEvent
    <3>3. QED
      BY <1>4, <3>1, <3>2
  <2>2. ASSUME Positive(d)
        PROVE  /\ SameAnswer(c, d)
               /\ request[d] = request[c]
    <3>1. PICK u \in Success(o) : u.result = answer[d].result /\ u.req = request[d]
      BY <1>5, <2>2 DEF AnswerInv
    <3>2. u \in Terminal(o)
      BY <3>1 DEF Success, Terminal, Terminals
    <3>3. u = t
      BY <1>4, <3>2 DEF OneTerminalEvent
    <3>4. answer[d].result = answer[c].result /\ request[d] = request[c]
      BY <1>2, <3>1, <3>3
    <3>5. /\ answer[d] \in [kind : Kinds, result : Nat]
          /\ answer[c] \in [kind : Kinds, result : Nat]
      BY DEF TypeOK
    <3>6. QED
      BY <3>4, <3>5 DEF SameAnswer
  <2>3. QED
    BY <2>1, <2>2
<1>6. QED
  BY <1>1, <1>2, <1>3, <1>5

\* Whatever calls of one operation were told, they were told the same, by
\* however many processes, over any retries, crashes and lost commits.
THEOREM ActionsAnswersAgree == Spec => []AnswersAgree
  BY AnswersAgreeHere, ActionsTypeCorrect, ActionsOneTerminal, ActionsSuccess,
     ActionsAnswers, PTL
=============================================================================
