------------------------ MODULE AiPacketElection_proofs ------------------------
(***************************************************************************)
(* For any processes, calls, retries, crashes and failing transactions: an *)
(* AI packet request is paid for at most once, and its packet, the ledger  *)
(* and what the clients are told agree.                                    *)
(***************************************************************************)
EXTENDS AiPacketElection, TLAPS

LEMMA InitTypeOK == Init => TypeOK
<1> SUFFICES ASSUME Init PROVE TypeOK
  OBVIOUS
<1> USE DEF Init
<1>1. A!AuthTypeOK
  BY DEF A!AuthInit, A!AuthTypeOK
<1>2. order \in Seq(Session) /\ \A i, j \in 1..Len(order) : order[i] = order[j] => i = j
  OBVIOUS
<1>3. /\ terminal \in [Session -> {"none"} \cup Terminal]
      /\ pc \in [Call -> Locations]
      /\ verdict \in [Call -> Failure]
      /\ answer \in [Call -> Answers]
  BY DEF Locations, Failure, Terminal, Answers
<1>4. QED
  BY <1>1, <1>2, <1>3 DEF TypeOK

LEMMA CallsHaveSessions ==
  ASSUME NEW c \in Call PROVE SessionOf(c) \in Session
  BY ElectionAssumption DEF SessionOf

\* A new reservation comes last: nothing before it moves.
LEMMA NewReservation ==
  ASSUME TypeOK, NEW s \in Session, s \notin Reserved, order' = Append(order, s)
  PROVE  /\ order' \in Seq(Session)
         /\ \A i, j \in 1..Len(order') : order'[i] = order'[j] => i = j
         /\ Reserved' = Reserved \cup {s}
         /\ order' # <<>>
         /\ order # <<>> => order'[1] = order[1]
         /\ order = <<>> => order'[1] = s
<1>1. order \in Seq(Session) /\ Len(order) \in Nat
  BY DEF TypeOK
<1>2. /\ order' \in Seq(Session)
      /\ Len(order') = Len(order) + 1
      /\ \A i \in 1..Len(order) : order'[i] = order[i]
      /\ order'[Len(order) + 1] = s
  BY <1>1
<1>3. \A i \in 1..Len(order') : i \in 1..Len(order) \/ i = Len(order) + 1
  BY <1>1, <1>2
<1>4. \A i \in 1..Len(order) : i \in 1..Len(order') /\ order[i] # s
  BY <1>1, <1>2 DEF Reserved
<1>5. \A i, j \in 1..Len(order') : order'[i] = order'[j] => i = j
  BY <1>2, <1>3, <1>4 DEF TypeOK
<1>6. Reserved' = Reserved \cup {s}
  <2>1. Reserved' \subseteq Reserved \cup {s}
    BY <1>2, <1>3 DEF Reserved
  <2>2. Len(order) + 1 \in 1..Len(order')
    BY <1>1, <1>2
  <2>3. Reserved \cup {s} \subseteq Reserved'
    BY <1>2, <1>4, <2>2 DEF Reserved
  <2>4. QED
    BY <2>1, <2>3
<1>7. order # <<>> => order'[1] = order[1]
  <2>1. order # <<>> => 1 \in 1..Len(order)
    BY <1>1
  <2>2. QED
    BY <1>2, <2>1
<1>8. (order = <<>> => order'[1] = s) /\ order' # <<>>
  BY <1>1, <1>2
<1>9. QED
  BY <1>2, <1>5, <1>6, <1>7, <1>8

\* The three ways on.
LEMMA ReplyTyped ==
  ASSUME TypeOK, NEW c \in Call, NEW kind \in Answers, Reply(c, kind)
  PROVE  /\ pc' \in [Call -> Locations]
         /\ answer' \in [Call -> Answers]
         /\ verdict' \in [Call -> Failure]
  BY DEF TypeOK, Reply, Go, Locations, Answers

LEMMA RaiseTyped ==
  ASSUME TypeOK, NEW c \in Call, NEW kind \in Failure, Raise(c, kind)
  PROVE  /\ pc' \in [Call -> Locations]
         /\ answer' \in [Call -> Answers]
         /\ verdict' \in [Call -> Failure]
  BY DEF TypeOK, Raise, Go, Locations, Answers

LEMMA ContinueTyped ==
  ASSUME TypeOK, NEW c \in Call, NEW where \in Locations, Continue(c, where)
  PROVE  /\ pc' \in [Call -> Locations]
         /\ answer' \in [Call -> Answers]
         /\ verdict' \in [Call -> Failure]
  BY DEF TypeOK, Continue, Go, Answers

LEMMA TerminalAnswers ==
  ASSUME TypeOK, NEW c \in Call, MyTerminal(c) # "none"
  PROVE  MyTerminal(c) \in Answers
  BY CallsHaveSessions DEF TypeOK, MyTerminal, Answers

LEMMA StepTypeOK == TypeOK /\ [Next]_vars => TypeOK'
<1> SUFFICES ASSUME TypeOK, [Next]_vars PROVE TypeOK'
  OBVIOUS
<1> DEFINE Answered == /\ pc' \in [Call -> Locations]
                       /\ answer' \in [Call -> Answers]
                       /\ verdict' \in [Call -> Failure]
           Ordered  == /\ order' \in Seq(Session)
                       /\ \A i, j \in 1..Len(order') : order'[i] = order'[j] => i = j
           Ended    == terminal' \in [Session -> {"none"} \cup Terminal]
<1>0. /\ {"refused", "in progress", "error", "succeeded", "indeterminate"} \subseteq Answers
      /\ Failure \subseteq Answers
      /\ {"failed", "denied"} \subseteq Failure
      /\ {"reserve", "domain", "provider", "persist", "recover"} \subseteq Locations
  BY DEF Answers, Failure, Terminal, Locations
<1>1. ASSUME NEW c \in Call, Start(c) \/ Retry(c) PROVE TypeOK'
  <2>1. Answered
    BY <1>0, <1>1, ContinueTyped DEF Start, Retry
  <2>2. QED
    BY <1>1, <2>1 DEF TypeOK, Start, Retry, sessions, ledger, world, A!AuthTypeOK
<1>2. ASSUME NEW c \in Call, Reserve(c) PROVE TypeOK'
  <2>1. Answered
    BY <1>0, <1>2, ReplyTyped, ContinueTyped, RaiseTyped, TerminalAnswers DEF Reserve
  <2>2. Ordered
    <3>1. CASE order' = order
      BY <3>1 DEF TypeOK
    <3>2. CASE ~HasReserved(c) /\ order' = Append(order, SessionOf(c))
      BY <3>2, NewReservation, CallsHaveSessions DEF HasReserved
    <3>3. QED
      BY <1>2, <3>1, <3>2 DEF Reserve
  <2>3. QED
    BY <1>2, <2>1, <2>2 DEF TypeOK, Reserve, sessions, world, A!AuthTypeOK
<1>3. ASSUME NEW c \in Call, Domain(c) PROVE TypeOK'
  <2>1. Answered
    BY <1>0, <1>3, ContinueTyped, RaiseTyped DEF Domain
  <2>2. QED
    BY <1>3, <2>1 DEF TypeOK, Domain, sessions, ledger, world, A!AuthTypeOK
<1>4. ASSUME NEW c \in Call, Provider(c) PROVE TypeOK'
  <2>1. Answered
    BY <1>0, <1>4, ContinueTyped, RaiseTyped DEF Provider
  <2>2. paid' \in Nat
    BY <1>4 DEF TypeOK, Provider
  <2>3. QED
    BY <1>4, <2>1, <2>2 DEF TypeOK, Provider, sessions, ledger, A!AuthTypeOK
<1>5. ASSUME NEW c \in Call, Persist(c) PROVE TypeOK'
  <2>1. Answered
    BY <1>0, <1>5, ReplyTyped, RaiseTyped DEF Persist
  <2>2. Ended /\ packet' \in BOOLEAN
    BY <1>5 DEF TypeOK, Persist, Terminal
  <2>3. QED
    BY <1>5, <2>1, <2>2 DEF TypeOK, Persist, sessions, A!AuthTypeOK
<1>6. ASSUME NEW c \in Call, Record(c) PROVE TypeOK'
  <2>1. verdict[c] \in Failure
    BY DEF TypeOK
  <2>2. Answered
    BY <1>0, <1>6, <2>1, ReplyTyped DEF Record
  <2>3. Ended
    BY <1>6, <2>1 DEF TypeOK, Record, Terminal
  <2>4. QED
    BY <1>6, <2>2, <2>3 DEF TypeOK, Record, sessions, world, A!AuthTypeOK
<1>7. ASSUME NEW c \in Call, Recover(c) PROVE TypeOK'
  <2>1. \A t : Copied(t) \in {"failed", "indeterminate"}
    BY DEF Copied
  <2>2. Answered
    BY <1>0, <1>7, <2>1, ReplyTyped, TerminalAnswers DEF Recover, TakeOver, WaitOrGiveUp
  <2>3. Ended
    BY <1>7, <2>1 DEF TypeOK, Recover, TakeOver, WaitOrGiveUp, Terminal, Failure
  <2>4. QED
    BY <1>7, <2>2, <2>3 DEF TypeOK, Recover, sessions, world, A!AuthTypeOK
<1>8. ASSUME NEW c \in Call, Fault(c) PROVE TypeOK'
  <2>1. Answered
    BY <1>0, <1>8, ReplyTyped, RaiseTyped DEF Fault
  <2>2. QED
    BY <1>8, <2>1 DEF TypeOK, Fault, sessions, ledger, world, A!AuthTypeOK
<1>9. ASSUME NEW s \in Session,
             Register(s) \/ Close(s) \/ Lapse(s) \/ \E grant \in A!Granted : Approve(s, grant)
      PROVE  TypeOK'
  <2>1. A!AuthTypeOK' /\ up' \subseteq Session
    BY <1>9 DEF TypeOK, Register, Close, Lapse, Approve, A!Register, A!Close, A!Lapse,
                A!Approve, A!AuthTypeOK, A!Active, A!Granted, A!Ended
  <2>2. QED
    BY <1>9, <2>1 DEF TypeOK, Register, Close, Lapse, Approve, ledger, world
<1>10. ASSUME NEW s \in Session, Crash(s) PROVE TypeOK'
  BY <1>10 DEF TypeOK, Crash, ledger, world, A!AuthTypeOK, Locations, Answers
<1>11. CASE Outdate
  BY <1>11 DEF TypeOK, Outdate, sessions, ledger, A!AuthTypeOK
<1>12. CASE UNCHANGED vars
  BY <1>12 DEF TypeOK, vars, sessions, ledger, world, A!AuthTypeOK
<1>13. QED
  BY <1>1, <1>2, <1>3, <1>4, <1>5, <1>6, <1>7, <1>8, <1>9, <1>10, <1>11, <1>12
  DEF Next, CallStep

\* TypeOK holds for every number of processes and calls: no step writes a value
\* the tables or the protocol do not have, and no session reserves twice.
THEOREM TypeCorrect == Spec => []TypeOK
  BY InitTypeOK, StepTypeOK, PTL DEF Spec

-----------------------------------------------------------------------------
IInv == TypeOK /\ OwnerInv /\ PaidInv /\ PaidOnce /\ PacketIsAudited /\ GivenUpInv

LEMMA InitIInv == Init => IInv
<1> SUFFICES ASSUME Init PROVE IInv
  OBVIOUS
<1> USE DEF Init
<1>1. TypeOK
  BY InitTypeOK
<1>2. OwnerInv
  BY DEF OwnerInv, Working, Entered
<1>3. PaidInv /\ PaidOnce
  BY DEF PaidInv, PaidOnce, Entered
<1>4. PacketIsAudited /\ GivenUpInv
  BY DEF PacketIsAudited, GivenUpInv
<1>5. QED
  BY <1>1, <1>2, <1>3, <1>4 DEF IInv

\* Who is where. A call that changes its place without a new reservation or a
\* payment leaves the work, turns to recording or recovery, or, elected, goes
\* on to the provider.
Turns(d) ==
  \/ pc'[d] = pc[d]
  \/ pc'[d] \notin Working
  \/ SessionOf(d) \in Reserved /\ pc'[d] \in {"record", "recover"}
  \/ pc[d] = "domain" /\ pc'[d] = "provider" /\ Elected(SessionOf(d))

LEMMA TurnsKeepOwner ==
  ASSUME IInv, UNCHANGED <<order, paid>>, \A d \in Call : Turns(d)
  PROVE  OwnerInv' /\ PaidInv' /\ PaidOnce'
<1>1. Reserved' = Reserved /\ \A s : Elected(s)' <=> Elected(s)
  BY DEF Reserved, Elected
<1>2. \A d \in Call : pc'[d] \in Working => SessionOf(d) \in Reserved
  BY DEF Turns, IInv, OwnerInv, Working, Entered
<1>3. \A d \in Call : pc'[d] \in {"provider", "persist"} => Elected(SessionOf(d))
  BY DEF Turns, IInv, OwnerInv, Working, Entered
<1>4. \A d \in Call : pc'[d] \in Entered => pc[d] \in Entered
  BY DEF Turns, Working, Entered
<1>5. OwnerInv'
  BY <1>1, <1>2, <1>3, <1>4 DEF IInv, OwnerInv, SessionOf, Working, Entered
<1>6. PaidInv' /\ PaidOnce'
  BY <1>1, <1>4 DEF IInv, PaidInv, PaidOnce, SessionOf, Entered
<1>7. QED
  BY <1>5, <1>6

LEMMA ReserveKeepsOwner ==
  ASSUME IInv, NEW c \in Call, Reserve(c)
  PROVE  OwnerInv' /\ PaidInv' /\ PaidOnce'
<1> DEFINE s == SessionOf(c)
<1>0. TypeOK
  BY DEF IInv
<1>1. CASE ~HasReserved(c) /\ order' = Append(order, s)
            /\ (Continue(c, "domain") \/ Raise(c, "denied"))
  <2>1. /\ Reserved' = Reserved \cup {s}
        /\ order' # <<>>
        /\ order # <<>> => order'[1] = order[1]
        /\ order = <<>> => order'[1] = s
    BY <1>0, <1>1, NewReservation, CallsHaveSessions DEF HasReserved
  <2>2. paid' = paid
    BY DEF Reserve, world
  <2>3. /\ \A d \in Call \ {c} : pc'[d] = pc[d]
        /\ pc'[c] \in {"domain", "record"}
    BY <1>0, <1>1 DEF Continue, Raise, Go, TypeOK
  <2>4. \A d \in Call \ {c} : pc[d] \in Working => SessionOf(d) \in Reserved /\ SessionOf(d) # s
    BY <1>1, <1>0 DEF IInv, OwnerInv, HasReserved, Working, Entered
  <2>5. Reserved # {} => order # <<>>
    BY <1>0 DEF TypeOK, Reserved
  <2>6. \A d \in Call \ {c} : pc[d] \in Working => (Elected(SessionOf(d))' <=> Elected(SessionOf(d)))
    BY <2>1, <2>4, <2>5 DEF Elected, SessionOf
  <2>7. OwnerInv'
    BY <2>1, <2>3, <2>4, <2>6 DEF IInv, OwnerInv, SessionOf, Working, Entered
  <2>8. Elected(s)' => order = <<>>
    <3>1. order # <<>> => order[1] \in Reserved
      BY <1>0 DEF TypeOK, Reserved
    <3>2. s \notin Reserved
      BY <1>1 DEF HasReserved
    <3>3. QED
      BY <2>1, <3>1, <3>2 DEF Elected, SessionOf
  <2>9. PaidInv' /\ PaidOnce'
    BY <2>1, <2>2, <2>3, <2>4, <2>6, <2>8 DEF IInv, PaidInv, PaidOnce, SessionOf, Working, Entered
  <2>10. QED
    BY <2>7, <2>9
<1>2. CASE UNCHANGED order /\ \/ \E kind : Reply(c, kind)
                              \/ HasReserved(c) /\ Continue(c, "recover")
  <2>1. \A d \in Call : Turns(d)
    BY <1>0, <1>2 DEF Reply, Continue, Go, Turns, TypeOK, HasReserved, Working, Entered
  <2>2. paid' = paid
    BY DEF Reserve, world
  <2>3. QED
    BY <1>2, <2>1, <2>2, TurnsKeepOwner
<1>3. QED
  BY <1>1, <1>2 DEF Reserve

LEMMA ProviderKeepsOwner ==
  ASSUME IInv, NEW c \in Call, Provider(c)
  PROVE  OwnerInv' /\ PaidInv' /\ PaidOnce'
<1>0. TypeOK
  BY DEF IInv
<1>1. /\ pc[c] = "provider" /\ pc'[c] \in {"persist", "record"}
      /\ \A d \in Call \ {c} : pc'[d] = pc[d]
      /\ order' = order /\ paid' = paid + 1
  BY <1>0 DEF Provider, At, Continue, Raise, Go, TypeOK, ledger
<1>2. Reserved' = Reserved /\ \A s : Elected(s)' <=> Elected(s)
  BY <1>1 DEF Reserved, Elected
<1>3. Elected(SessionOf(c)) /\ SessionOf(c) \in Reserved
  BY <1>1 DEF IInv, OwnerInv, Working, Entered
<1>4. paid = 0
  BY <1>1, <1>3 DEF IInv, PaidInv, Entered
<1>5. \A d \in Call : pc'[d] \in Entered => ~Elected(SessionOf(d))
  BY <1>1, <1>3 DEF IInv, OwnerInv, Elected, Entered
<1>6. OwnerInv'
  BY <1>1, <1>2, <1>3 DEF IInv, OwnerInv, SessionOf, Working, Entered
<1>7. order # <<>>
  BY <1>0, <1>3 DEF TypeOK, Reserved
<1>8. PaidInv' /\ PaidOnce'
  BY <1>1, <1>2, <1>4, <1>5, <1>7 DEF PaidInv, PaidOnce, SessionOf
<1>9. QED
  BY <1>6, <1>8

-----------------------------------------------------------------------------
\* The ledger and the store. What the proof needs to know about the order.
LEMMA OwnerReserved ==
  ASSUME TypeOK PROVE /\ order # <<>> => order[1] \in Reserved /\ order[1] \in Session
                      /\ Reserved # {} => order # <<>>
                      /\ Reserved \subseteq Session
  BY DEF TypeOK, Reserved

\* A step without a terminal event.
LEMMA QuietKeepsLedger ==
  ASSUME IInv, UNCHANGED <<terminal, packet>>,
         \/ order' = order
         \/ \E c \in Call : ~HasReserved(c) /\ order' = Append(order, SessionOf(c)),
         \A d \in Call : \/ answer'[d] = answer[d]
                         \/ answer'[d] # "succeeded"
                         \/ terminal[SessionOf(d)] = "succeeded"
  PROVE  PacketIsAudited' /\ GivenUpInv'
<1>0. TypeOK
  BY DEF IInv
<1>1. order # <<>> => order' # <<>> /\ order'[1] = order[1]
  BY <1>0, NewReservation, CallsHaveSessions DEF HasReserved
<1>2. \A d \in Call : answer'[d] = "succeeded" => packet
  BY CallsHaveSessions DEF IInv, PacketIsAudited
<1>3. (order' # <<>> /\ terminal[order'[1]] = "succeeded") => packet
  <2>1. order' # <<>> => order'[1] \in Session
    <3>1. order' \in Seq(Session)
      BY <1>0, NewReservation, CallsHaveSessions DEF HasReserved, TypeOK
    <3>2. QED
      BY <3>1
  <2>2. QED
    BY <2>1 DEF IInv, PacketIsAudited
<1>4. QED
  BY <1>1, <1>2, <1>3 DEF IInv, PacketIsAudited, GivenUpInv

\* The terminal event of one open operation: a success has a packet or is the
\* owner's, and only who read "indeterminate" writes it.
LEMMA SettlingKeepsLedger ==
  ASSUME IInv, UNCHANGED order,
         NEW s \in Session, terminal[s] = "none",
         NEW kind \in Terminal, terminal' = [terminal EXCEPT ![s] = kind],
         packet' = (packet \/ kind = "succeeded"),
         kind = "succeeded" => packet \/ (order # <<>> /\ Elected(s)),
         kind = "indeterminate" => \E t \in Session : terminal[t] = "indeterminate",
         \A d \in Call : answer'[d] = answer[d] \/ answer'[d] = kind
  PROVE  PacketIsAudited' /\ GivenUpInv'
<1>0. TypeOK
  BY DEF IInv
<1>1. terminal'[s] = kind /\ \A t \in Session \ {s} : terminal'[t] = terminal[t]
  BY <1>0 DEF TypeOK
<1>2. order # <<>> => order[1] \in Session
  BY <1>0, OwnerReserved
<1>3. packet' <=> order # <<>> /\ terminal'[order[1]] = "succeeded"
  <2>1. CASE packet
    BY <2>1, <1>1, <1>2 DEF IInv, PacketIsAudited
  <2>2. CASE ~packet /\ kind = "succeeded"
    BY <2>2, <1>1 DEF Elected
  <2>3. CASE ~packet /\ kind # "succeeded"
    BY <2>3, <1>1, <1>2 DEF IInv, PacketIsAudited
  <2>4. QED
    BY <2>1, <2>2, <2>3
<1>4. PacketIsAudited'
  BY <1>1, <1>3 DEF IInv, PacketIsAudited
<1>5. (\E t \in Session : terminal'[t] = "indeterminate")
        => \E t \in Session : terminal[t] = "indeterminate"
  BY <1>1
<1>6. GivenUpInv'
  BY <1>1, <1>2, <1>5 DEF IInv, GivenUpInv
<1>7. QED
  BY <1>4, <1>6

\* Giving up closes the owner's operation with all the others.
LEMMA GivingUpKeepsLedger ==
  ASSUME IInv, UNCHANGED <<order, packet>>,
         Reserved # {}, \A t \in Reserved : terminal[t] = "none",
         terminal' = [s \in Session |-> IF s \in Reserved THEN "indeterminate" ELSE terminal[s]],
         \A d \in Call : answer'[d] = answer[d] \/ answer'[d] = "indeterminate"
  PROVE  PacketIsAudited' /\ GivenUpInv'
<1>0. TypeOK
  BY DEF IInv
<1>1. order # <<>> /\ order[1] \in Reserved /\ order[1] \in Session
  BY <1>0, OwnerReserved
<1>2. ~packet
  BY <1>1 DEF IInv, PacketIsAudited
<1>3. terminal'[order[1]] = "indeterminate"
  BY <1>1
<1>4. \A s \in Session : terminal'[s] # "succeeded"
  BY <1>2 DEF IInv, PacketIsAudited
<1>5. QED
  BY <1>1, <1>2, <1>3, <1>4 DEF IInv, PacketIsAudited, GivenUpInv

LEMMA RecoverKeepsLedger ==
  ASSUME IInv, NEW c \in Call, Recover(c)
  PROVE  PacketIsAudited' /\ GivenUpInv'
<1> DEFINE s     == SessionOf(c)
           prior == Prior(s)
<1>0. TypeOK /\ s \in Session /\ UNCHANGED <<order, packet>>
  BY CallsHaveSessions DEF IInv, Recover, world
<1>1. s \in Reserved
  BY DEF IInv, OwnerInv, Recover, At, Working, Entered
<1>2. prior \subseteq Session
  BY <1>0, OwnerReserved DEF Prior
<1>3. ASSUME NEW kind, Reply(c, kind)
      PROVE  \A d \in Call : answer'[d] = answer[d] \/ answer'[d] = kind
  BY <1>3, <1>0 DEF Reply, TypeOK
<1>4. CASE UNCHANGED terminal /\ (Reply(c, "error") \/ Reply(c, "in progress"))
  <2>1. \A d \in Call : answer'[d] = answer[d] \/ answer'[d] # "succeeded"
    BY <1>0, <1>4 DEF Reply, TypeOK
  <2>2. QED
    BY <1>0, <1>4, <2>1, QuietKeepsLedger
<1>5. CASE UNCHANGED terminal /\ Reply(c, MyTerminal(c))
  <2>1. \A d \in Call : \/ answer'[d] = answer[d]
                        \/ answer'[d] # "succeeded"
                        \/ terminal[SessionOf(d)] = "succeeded"
    BY <1>0, <1>5 DEF Reply, MyTerminal, TypeOK
  <2>2. QED
    BY <1>0, <1>5, <2>1, QuietKeepsLedger
<1>6. CASE terminal[s] = "none" /\ Winners(prior) # {} /\ TakeOver(c, "succeeded")
  <2>1. packet
    BY <1>2, <1>6 DEF Winners, IInv, PacketIsAudited
  <2>2. \A d \in Call : answer'[d] = answer[d] \/ answer'[d] = "succeeded"
    BY <1>3, <1>6 DEF TakeOver
  <2>3. QED
    BY <1>0, <1>6, <2>1, <2>2, SettlingKeepsLedger DEF TakeOver, Terminal, TypeOK
<1>7. ASSUME terminal[s] = "none",
             NEW t \in Earliest(Settled(prior)), TakeOver(c, Copied(t))
      PROVE  PacketIsAudited' /\ GivenUpInv'
  <2> DEFINE kind == Copied(t)
  <2>1. kind \in {"failed", "indeterminate"}
    BY DEF Copied
  <2>2. kind = "indeterminate" => \E u \in Session : terminal[u] = "indeterminate"
    BY <1>2 DEF Copied, Earliest, Settled
  <2>3. \A d \in Call : answer'[d] = answer[d] \/ answer'[d] = kind
    BY <1>3, <1>7 DEF TakeOver
  <2>4. packet' = (packet \/ kind = "succeeded")
    BY <1>0, <2>1 DEF TypeOK
  <2>5. kind \in Terminal
    BY <2>1 DEF Terminal, Failure
  <2>6. terminal' = [terminal EXCEPT ![s] = kind]
    BY <1>7 DEF TakeOver
  <2>7. QED
    BY <1>0, <1>7, <2>1, <2>2, <2>3, <2>4, <2>5, <2>6, SettlingKeepsLedger
<1>8. CASE /\ terminal[s] = "none" /\ Settled(prior) = {}
           /\ prior # {} /\ Reply(c, "indeterminate")
           /\ terminal' = [u \in Session |-> IF u \in prior \cup {s} THEN "indeterminate"
                                             ELSE terminal[u]]
  <2>1. prior \cup {s} = Reserved
    BY <1>1 DEF Prior
  <2>2. \A u \in Reserved : terminal[u] = "none"
    BY <1>8, <2>1 DEF Settled
  <2>3. \A d \in Call : answer'[d] = answer[d] \/ answer'[d] = "indeterminate"
    BY <1>3, <1>8
  <2>4. QED
    BY <1>0, <1>1, <1>8, <2>1, <2>2, <2>3, GivingUpKeepsLedger
<1>9. QED
  BY <1>4, <1>5, <1>6, <1>7, <1>8 DEF Recover, WaitOrGiveUp, MyTerminal

LEMMA PersistKeepsLedger ==
  ASSUME IInv, NEW c \in Call, Persist(c)
  PROVE  PacketIsAudited' /\ GivenUpInv'
<1> DEFINE s == SessionOf(c)
<1>0. TypeOK /\ s \in Session /\ UNCHANGED order
  BY CallsHaveSessions DEF IInv, Persist
<1>1. order # <<>> /\ Elected(s)
  BY <1>0, OwnerReserved DEF IInv, OwnerInv, Persist, At, Working, Entered
<1>2. CASE UNCHANGED <<terminal, packet>>
  <2>1. \A d \in Call : \/ answer'[d] = answer[d]
                        \/ answer'[d] # "succeeded"
                        \/ terminal[SessionOf(d)] = "succeeded"
    BY <1>0, <1>2 DEF Persist, Raise, Reply, TypeOK, IsOpen
  <2>2. QED
    BY <1>0, <1>2, <2>1, QuietKeepsLedger
<1>3. CASE /\ IsOpen(s) /\ packet' = TRUE /\ Reply(c, "succeeded")
           /\ terminal' = [terminal EXCEPT ![s] = "succeeded"]
  <2>1. \A d \in Call : answer'[d] = answer[d] \/ answer'[d] = "succeeded"
    BY <1>0, <1>3 DEF Reply, TypeOK
  <2>2. QED
    BY <1>0, <1>1, <1>3, <2>1, SettlingKeepsLedger DEF IsOpen, Terminal, TypeOK
<1>4. QED
  BY <1>2, <1>3 DEF Persist

LEMMA RecordKeepsLedger ==
  ASSUME IInv, NEW c \in Call, Record(c)
  PROVE  PacketIsAudited' /\ GivenUpInv'
<1> DEFINE s == SessionOf(c)
<1>0. TypeOK /\ s \in Session /\ UNCHANGED <<order, packet>>
  BY CallsHaveSessions DEF IInv, Record, world
<1>1. CASE UNCHANGED terminal /\ Reply(c, "error")
  <2>1. \A d \in Call : answer'[d] = answer[d] \/ answer'[d] # "succeeded"
    BY <1>0, <1>1 DEF Reply, TypeOK
  <2>2. QED
    BY <1>0, <1>1, <2>1, QuietKeepsLedger
<1>2. CASE IsOpen(s) /\ terminal' = [terminal EXCEPT ![s] = verdict[c]] /\ Reply(c, verdict[c])
  <2>1. verdict[c] \in {"failed", "denied"}
    BY <1>0 DEF TypeOK, Failure
  <2>2. packet' = (packet \/ verdict[c] = "succeeded") /\ verdict[c] \in Terminal
    BY <1>0, <2>1 DEF TypeOK, Terminal, Failure
  <2>3. \A d \in Call : answer'[d] = answer[d] \/ answer'[d] = verdict[c]
    BY <1>0, <1>2 DEF Reply, TypeOK
  <2>4. QED
    BY <1>0, <1>2, <2>1, <2>2, <2>3, SettlingKeepsLedger DEF IsOpen
<1>3. QED
  BY <1>1, <1>2 DEF Record

-----------------------------------------------------------------------------
LEMMA StepIInv == IInv /\ [Next]_vars => IInv'
<1> SUFFICES ASSUME IInv, [Next]_vars PROVE IInv'
  OBVIOUS
<1> DEFINE Owned  == OwnerInv' /\ PaidInv' /\ PaidOnce'
           Booked == PacketIsAudited' /\ GivenUpInv'
<1>0. TypeOK /\ TypeOK'
  BY StepTypeOK DEF IInv
<1>1. ASSUME NEW c \in Call, Start(c) \/ Retry(c) PROVE Owned /\ Booked
  <2>1. \A d \in Call : Turns(d)
    BY <1>0, <1>1 DEF Start, Retry, Continue, Go, Turns, TypeOK, Working, Entered
  <2>2. UNCHANGED <<order, paid, terminal, packet, answer>>
    BY <1>1 DEF Start, Retry, Continue, ledger, world
  <2>3. QED
    BY <2>1, <2>2, TurnsKeepOwner, QuietKeepsLedger
<1>2. ASSUME NEW c \in Call, Reserve(c) PROVE Owned /\ Booked
  <2>1. UNCHANGED <<terminal, packet>>
    BY <1>2 DEF Reserve, world
  <2>2. \/ order' = order
        \/ \E d \in Call : ~HasReserved(d) /\ order' = Append(order, SessionOf(d))
    BY <1>2 DEF Reserve
  <2>3. \A d \in Call : \/ answer'[d] = answer[d]
                        \/ answer'[d] # "succeeded"
                        \/ terminal[SessionOf(d)] = "succeeded"
    BY <1>0, <1>2 DEF Reserve, Reply, Raise, Continue, MyTerminal, TypeOK
  <2>4. QED
    BY <1>2, <2>1, <2>2, <2>3, ReserveKeepsOwner, QuietKeepsLedger
<1>3. ASSUME NEW c \in Call, Domain(c) PROVE Owned /\ Booked
  <2>1. SessionOf(c) \in Reserved
    BY <1>3 DEF IInv, OwnerInv, Domain, At, Working, Entered
  <2>2. \A d \in Call : Turns(d)
    BY <1>0, <1>3, <2>1 DEF Domain, At, Raise, Continue, Go, Turns, TypeOK, Working, Entered
  <2>3. UNCHANGED <<order, paid, terminal, packet, answer>>
    BY <1>3 DEF Domain, Raise, Continue, ledger, world
  <2>4. QED
    BY <2>2, <2>3, TurnsKeepOwner, QuietKeepsLedger
<1>4. ASSUME NEW c \in Call, Provider(c) PROVE Owned /\ Booked
  <2>1. UNCHANGED <<order, terminal, packet, answer>>
    BY <1>4 DEF Provider, Raise, Continue, ledger
  <2>2. QED
    BY <1>4, <2>1, ProviderKeepsOwner, QuietKeepsLedger
<1>5. ASSUME NEW c \in Call, Persist(c) PROVE Owned /\ Booked
  <2>1. SessionOf(c) \in Reserved
    BY <1>5 DEF IInv, OwnerInv, Persist, At, Working, Entered
  <2>2. \A d \in Call : Turns(d)
    BY <1>0, <1>5, <2>1 DEF Persist, At, Raise, Reply, Go, Turns, TypeOK, Working, Entered
  <2>3. UNCHANGED <<order, paid>>
    BY <1>5 DEF Persist
  <2>4. QED
    BY <1>5, <2>2, <2>3, TurnsKeepOwner, PersistKeepsLedger
<1>6. ASSUME NEW c \in Call, Record(c) PROVE Owned /\ Booked
  <2>1. \A d \in Call : Turns(d)
    BY <1>0, <1>6 DEF Record, Reply, Go, Turns, TypeOK, Working, Entered
  <2>2. UNCHANGED <<order, paid>>
    BY <1>6 DEF Record, world
  <2>3. QED
    BY <1>6, <2>1, <2>2, TurnsKeepOwner, RecordKeepsLedger
<1>7. ASSUME NEW c \in Call, Recover(c) PROVE Owned /\ Booked
  <2>1. \E kind : Reply(c, kind)
    BY <1>7 DEF Recover, TakeOver, WaitOrGiveUp
  <2>2. \A d \in Call : Turns(d)
    BY <1>0, <2>1 DEF Reply, Go, Turns, TypeOK, Working, Entered
  <2>3. UNCHANGED <<order, paid>>
    BY <1>7 DEF Recover, world
  <2>4. QED
    BY <1>7, <2>2, <2>3, TurnsKeepOwner, RecoverKeepsLedger
<1>8. ASSUME NEW c \in Call, Fault(c) PROVE Owned /\ Booked
  <2>1. pc[c] \in Working => SessionOf(c) \in Reserved
    BY DEF IInv, OwnerInv
  <2>2. \A d \in Call : Turns(d)
    BY <1>0, <1>8, <2>1 DEF Fault, At, Raise, Reply, Go, Turns, TypeOK, Working, Entered
  <2>3. \A d \in Call : answer'[d] = answer[d] \/ answer'[d] # "succeeded"
    BY <1>0, <1>8 DEF Fault, Raise, Reply, TypeOK
  <2>4. UNCHANGED <<order, paid, terminal, packet>>
    BY <1>8 DEF Fault, ledger, world
  <2>5. QED
    BY <2>2, <2>3, <2>4, TurnsKeepOwner, QuietKeepsLedger
<1>9. ASSUME NEW s \in Session, Crash(s) PROVE Owned /\ Booked
  <2>1. \A d \in Call : Turns(d)
    BY <1>9 DEF Crash, Turns, Working, Entered
  <2>2. \A d \in Call : answer'[d] = answer[d] \/ answer'[d] # "succeeded"
    BY <1>9 DEF Crash
  <2>3. UNCHANGED <<order, paid, terminal, packet>>
    BY <1>9 DEF Crash, ledger, world
  <2>4. QED
    BY <2>1, <2>2, <2>3, TurnsKeepOwner, QuietKeepsLedger
<1>10. ASSUME UNCHANGED <<order, terminal, packet, paid, pc, answer>> PROVE Owned /\ Booked
  <2>1. \A d \in Call : Turns(d)
    BY <1>10 DEF Turns
  <2>2. QED
    BY <1>10, <2>1, TurnsKeepOwner, QuietKeepsLedger
<1>11. ASSUME \/ \E s \in Session : \/ Register(s) \/ Close(s) \/ Lapse(s)
                                    \/ \E grant \in A!Granted : Approve(s, grant)
              \/ Outdate
              \/ UNCHANGED vars
       PROVE  Owned /\ Booked
  <2>1. UNCHANGED <<order, terminal, packet, paid, pc, answer>>
    BY <1>11 DEF Register, Close, Lapse, Approve, Outdate, vars, ledger, world
  <2>2. QED
    BY <1>10, <2>1
<1>12. Owned /\ Booked
  BY <1>1, <1>2, <1>3, <1>4, <1>5, <1>6, <1>7, <1>8, <1>9, <1>11 DEF Next, CallStep
<1>13. QED
  BY <1>0, <1>12 DEF IInv

LEMMA Invariance == Spec => []IInv
  BY InitIInv, StepIInv, PTL DEF Spec

\* The request is paid for at most once, whatever overlaps, stalls, fails or
\* crashes: only the call that made the first reservation reaches the provider.
THEOREM PaidAtMostOnce == Spec => []PaidOnce
<1>1. IInv => PaidOnce
  BY DEF IInv
<1>2. QED
  BY <1>1, Invariance, PTL

\* The packet in the store, the ledger of every session and what every client
\* was told of a success agree.
THEOREM PacketAudited == Spec => []PacketIsAudited
<1>1. IInv => PacketIsAudited
  BY DEF IInv
<1>2. QED
  BY <1>1, Invariance, PTL

\* A result that is declared unknown stays without a packet: giving up closes
\* the operation of the owner, and its late packet is rolled back.
THEOREM UnknownStaysUnknown == Spec => []IndeterminateIsFinal
<1>1. IInv => IndeterminateIsFinal
  BY DEF IInv, GivenUpInv, PacketIsAudited, IndeterminateIsFinal
<1>2. QED
  BY <1>1, Invariance, PTL

\* Only a step of the elected owner stores a packet, and it reads the AI grant
\* of its session in the same transaction.
THEOREM OnlyUnderGrant == Spec => StoredUnderGrant
<1>1. IInv /\ [Next]_vars => [packet' # packet => order # <<>> /\ auth[order[1]] = "ai"]_vars
  <2>1. SUFFICES ASSUME IInv, Next, packet' # packet
                 PROVE  order # <<>> /\ auth[order[1]] = "ai"
    OBVIOUS
  <2>2. PICK c \in Call : Persist(c)
    BY <2>1 DEF Next, CallStep, Start, Retry, Reserve, Domain, Provider, Record, Recover,
                Fault, Register, Close, Lapse, Approve, Crash, Outdate, ledger, world
  <2>3. MayUseAi(c)
    BY <2>1, <2>2 DEF Persist
  <2>4. SessionOf(c) \in Reserved /\ Elected(SessionOf(c))
    BY <2>1, <2>2 DEF IInv, OwnerInv, Persist, At, Working, Entered
  <2>5. QED
    BY <2>1, <2>3, <2>4, OwnerReserved DEF IInv, MayUseAi, Elected
<1>2. QED
  BY <1>1, Invariance, PTL DEF Spec, StoredUnderGrant
=============================================================================
