------------------------ MODULE AgentSessions_proofs ------------------------
(***************************************************************************)
(* For any set of sessions and any lease timing: the types, the two state  *)
(* invariants, and that the lease protocol implements Authority.           *)
(***************************************************************************)
EXTENDS AgentSessions, TLAPS

LEMMA InitTypeOK == Init => TypeOK
  BY LeaseAssumption DEF Init, TypeOK, ActiveStatus, TerminalStatus, Answers

\* A loop that goes to sleep has a timer of its type: a delay and what was left
\* of the attempt.
LEMMA SleepTypes ==
  ASSUME TypeOK, NEW s \in Session, NEW delay \in {Interval, Retry},
         NEW left \in {0, Attempt - trying[s]}, SleepAfter(s, delay, left)
  PROVE  /\ timer' \in [Session -> 0..Interval + Attempt]
         /\ trying' \in [Session -> 0..Attempt]
<1>1. left \in 0..Attempt
  BY LeaseAssumption DEF TypeOK
<1>2. PICK late \in 0..left : timer' = [timer EXCEPT ![s] = delay + late]
  BY DEF SleepAfter
<1>3. delay + late \in 0..Interval + Attempt
  BY <1>1, LeaseAssumption
<1>4. QED
  BY <1>2, <1>3, LeaseAssumption DEF SleepAfter, TypeOK

\* A heartbeat that raised had renewed the lease, expired the row or done nothing.
LEMMA RaisesHow ==
  ASSUME NEW s \in Session, HeartbeatRaises(s)
  PROVE  \/ Renewed(s)
         \/ Expire(s) /\ UNCHANGED silence
         \/ UNCHANGED row /\ UNCHANGED silence
  BY DEF HeartbeatRaises

\* Every handler and every tick keeps the variables in their types.
LEMMA NextTypeOK == TypeOK /\ [Next]_vars => TypeOK'
<1> SUFFICES ASSUME TypeOK, [Next]_vars PROVE TypeOK'
  OBVIOUS
<1> USE LeaseAssumption DEF TypeOK, ActiveStatus, TerminalStatus, Answers
<1> USE DEF Finish, Expire, Unusable, Renew, Grant, row, proc, Live, Lapsed,
            IsActive, Room
<1>1. ASSUME NEW s \in Session, NEW ai \in BOOLEAN, Register(s, ai)
      PROVE  TypeOK'
  <2>1. PICK late \in 0..Attempt : timer' = [timer EXCEPT ![s] = Interval + late]
    BY <1>1 DEF Register, SleepAfter
  <2>2. Interval + late \in 0..Interval + Attempt
    OBVIOUS
  <2>3. QED
    BY <1>1, <2>1, <2>2 DEF Register, SleepAfter
<1>2. ASSUME NEW s \in Session, NEW ai \in BOOLEAN, ApproveRoute(s, ai)
      PROVE  TypeOK'
  BY <1>2 DEF ApproveRoute
<1>3. ASSUME NEW s \in Session, NEW ai \in BOOLEAN, ApproveTTY(s, ai)
      PROVE  TypeOK'
  BY <1>3 DEF ApproveTTY
<1>4. ASSUME NEW s \in Session, NEW e \in 1..MaxVersion, HeartbeatRoute(s, e)
      PROVE  TypeOK'
  BY <1>4 DEF HeartbeatRoute
<1>5. ASSUME NEW s \in Session, NEW e \in 1..MaxVersion, ExitRoute(s, e)
      PROVE  TypeOK'
  BY <1>5 DEF ExitRoute
<1>6. ASSUME NEW s \in Session, Heartbeat(s) PROVE TypeOK'
  <2>1. CASE Renewed(s) /\ SleepAfter(s, Interval, Attempt - trying[s])
    <3>1. /\ timer' \in [Session -> 0..Interval + Attempt]
          /\ trying' \in [Session -> 0..Attempt]
      BY <2>1, SleepTypes
    <3>2. /\ looping' = looping /\ failures' \in [Session -> Nat]
          /\ silence' \in [Session -> 0..TTL]
          /\ UNCHANGED <<wantsAI, secret, view, revoking>>
      BY <1>6, <2>1 DEF Heartbeat, Renewed, LoopEnds
    <3>3. QED
      BY <2>1, <3>1, <3>2 DEF Renewed
  <2>2. CASE Unusable(s) /\ LoopEnds(s) /\ UNCHANGED silence
    <3>1. CASE Expire(s)
      BY <1>6, <2>2, <3>1 DEF Heartbeat, LoopEnds
    <3>2. CASE UNCHANGED row
      BY <1>6, <2>2, <3>2 DEF Heartbeat, LoopEnds
    <3>3. QED
      BY <2>2, <3>1, <3>2
  <2>3. QED
    BY <1>6, <2>1, <2>2 DEF Heartbeat
<1>7. ASSUME NEW s \in Session, HeartbeatRaises(s) PROVE TypeOK'
  <2>1. /\ timer' \in [Session -> 0..Interval + Attempt]
        /\ trying' \in [Session -> 0..Attempt]
    BY <1>7, SleepTypes DEF HeartbeatRaises
  <2>2. CASE Renewed(s)
    BY <1>7, <2>1, <2>2 DEF HeartbeatRaises, Renewed
  <2>3. CASE Expire(s) /\ UNCHANGED silence
    BY <1>7, <2>1, <2>3 DEF HeartbeatRaises
  <2>4. CASE UNCHANGED row /\ UNCHANGED silence
    <3>1. /\ failures' \in [Session -> Nat]
          /\ UNCHANGED <<wantsAI, secret, looping, view, revoking>>
      BY <1>7 DEF HeartbeatRaises
    <3>2. QED
      BY <2>1, <2>4, <3>1
  <2>5. QED
    BY <1>7, <2>2, <2>3, <2>4, RaisesHow
<1>8. ASSUME NEW s \in Session, Shutdown(s) PROVE TypeOK'
  BY <1>8 DEF Shutdown, LoopEnds
<1>9. ASSUME NEW s \in Session, Crash(s) PROVE TypeOK'
  BY <1>9 DEF Crash, LoopEnds
<1>10. ASSUME NEW s \in Session, Read(s) PROVE TypeOK'
  BY <1>10 DEF Read
<1>11. ASSUME NEW s \in Session, RevokeRoute(s) PROVE TypeOK'
  BY <1>11 DEF RevokeRoute
<1>12. CASE Tick
  BY <1>12 DEF Tick
<1>13. CASE UNCHANGED vars
  BY <1>13 DEF vars
<1>14. QED
  BY <1>1, <1>2, <1>3, <1>4, <1>5, <1>6, <1>7, <1>8, <1>9, <1>10, <1>11,
     <1>12, <1>13 DEF Next

\* Every variable keeps its type.
THEOREM SessionsTypeCorrect == Spec => []TypeOK
  BY InitTypeOK, NextTypeOK, PTL DEF Spec

-----------------------------------------------------------------------------
\* LeaseFollowsProof is inductive once a lease is known never to exceed TTL.
LEMMA LeaseStep == TypeOK /\ LeaseFollowsProof /\ [Next]_vars
                     => LeaseFollowsProof'
<1> SUFFICES ASSUME TypeOK, LeaseFollowsProof, [Next]_vars
             PROVE  LeaseFollowsProof'
  OBVIOUS
<1> USE LeaseAssumption DEF TypeOK, LeaseFollowsProof, ActiveStatus, TerminalStatus
<1> USE DEF Finish, Expire, Unusable, Renew, Grant, row, proc, Live, Lapsed,
            IsActive
<1>1. ASSUME NEW s \in Session, NEW ai \in BOOLEAN, Register(s, ai)
      PROVE  LeaseFollowsProof'
  BY <1>1 DEF Register
<1>2. ASSUME NEW s \in Session, NEW ai \in BOOLEAN,
             ApproveRoute(s, ai) \/ ApproveTTY(s, ai)
      PROVE  LeaseFollowsProof'
  BY <1>2 DEF ApproveRoute, ApproveTTY
<1>3. ASSUME NEW s \in Session, NEW e \in 1..MaxVersion,
             HeartbeatRoute(s, e) \/ ExitRoute(s, e)
      PROVE  LeaseFollowsProof'
  BY <1>3 DEF HeartbeatRoute, ExitRoute
<1>4. ASSUME NEW s \in Session, Heartbeat(s) PROVE LeaseFollowsProof'
  BY <1>4 DEF Heartbeat, Renewed
<1>5. ASSUME NEW s \in Session,
             HeartbeatRaises(s) \/ Crash(s) \/ Shutdown(s)
      PROVE  LeaseFollowsProof'
  BY <1>5 DEF HeartbeatRaises, Renewed, Crash, Shutdown
<1>6. ASSUME NEW s \in Session, Read(s) \/ RevokeRoute(s)
      PROVE  LeaseFollowsProof'
  BY <1>6 DEF Read, RevokeRoute
<1>7. CASE Tick
  <2> SUFFICES ASSUME NEW s \in Session, Live(s)'
               PROVE  lease'[s] + silence'[s] = TTL
    OBVIOUS
  <2>1. lease'[s] = lease[s] - 1 /\ lease[s] > 0 /\ IsActive(s)
    BY <1>7 DEF Tick
  <2>2. lease[s] + silence[s] = TTL
    BY <2>1
  <2>3. silence'[s] = silence[s] + 1
    BY <1>7, <2>1, <2>2 DEF Tick, IsActive
  <2>4. QED
    BY <2>1, <2>2, <2>3
<1>8. CASE UNCHANGED vars
  BY <1>8 DEF vars
<1>9. QED
  BY <1>1, <1>2, <1>3, <1>4, <1>5, <1>6, <1>7, <1>8 DEF Next

\* No approval, revoke, read or exit ever lengthens a lease: what is left of
\* it is TTL less the time the process has been silent.
THEOREM SessionsLeaseFollowsProof == Spec => []LeaseFollowsProof
<1>1. Init => LeaseFollowsProof
  BY DEF Init, LeaseFollowsProof, Live, IsActive, ActiveStatus
<1>2. QED
  BY <1>1, LeaseStep, SessionsTypeCorrect, PTL DEF Spec

-----------------------------------------------------------------------------
\* RevokeIsTerminal is not inductive alone: a revoke needs a row to refuse,
\* which it has because the operator's page only ever shows rows that exist.
ViewedExists == \A s \in Session : view[s] > 0 => status[s] # "none"
RevokeInv    == ViewedExists /\ RevokeIsTerminal

LEMMA RevokeStep == TypeOK /\ RevokeInv /\ [Next]_vars => RevokeInv'
<1> SUFFICES ASSUME TypeOK, RevokeInv, [Next]_vars PROVE RevokeInv'
  OBVIOUS
<1> USE DEF TypeOK, RevokeInv, ViewedExists, RevokeIsTerminal, ActiveStatus, TerminalStatus
<1> USE DEF Finish, Expire, Unusable, Renew, Grant, row, proc, Live, Lapsed,
            IsActive
<1>0. ASSUME NEW s \in Session, Register(s, TRUE) \/ Register(s, FALSE)
      PROVE  RevokeInv'
  BY <1>0 DEF Register
<1>1. ASSUME NEW s \in Session, NEW ai \in BOOLEAN,
             ApproveRoute(s, ai) \/ ApproveTTY(s, ai)
      PROVE  RevokeInv'
  BY <1>1 DEF ApproveRoute, ApproveTTY
<1>2. ASSUME NEW s \in Session, NEW e \in 1..MaxVersion,
             HeartbeatRoute(s, e) \/ ExitRoute(s, e)
      PROVE  RevokeInv'
  BY <1>2 DEF HeartbeatRoute, ExitRoute
<1>3. ASSUME NEW s \in Session,
             Heartbeat(s) \/ HeartbeatRaises(s) \/ Crash(s) \/ Shutdown(s)
      PROVE  RevokeInv'
  BY <1>3 DEF Heartbeat, HeartbeatRaises, Renewed, Crash, Shutdown
<1>4. ASSUME NEW s \in Session, Read(s) PROVE RevokeInv'
  BY <1>4 DEF Read
<1>5. ASSUME NEW s \in Session, RevokeRoute(s) PROVE RevokeInv'
  BY <1>5 DEF RevokeRoute
<1>6. CASE Tick
  BY <1>6 DEF Tick
<1>7. CASE UNCHANGED vars
  BY <1>7 DEF vars
<1>8. QED
  BY <1>0, <1>1, <1>2, <1>3, <1>4, <1>5, <1>6, <1>7 DEF Next

\* An answered revoke has ended the session, whatever raced with it.
THEOREM SessionsRevokeIsTerminal == Spec => []RevokeIsTerminal
<1>1. Init => RevokeInv
  BY DEF Init, RevokeInv, ViewedExists, RevokeIsTerminal
<1>2. RevokeInv => RevokeIsTerminal
  BY DEF RevokeInv
<1>3. QED
  BY <1>1, <1>2, RevokeStep, SessionsTypeCorrect, PTL DEF Spec

-----------------------------------------------------------------------------
\* LeaseLostOnlyAfterOutage is not inductive alone: until the failures account
\* for a whole TTL, what is left of an active lease, with an interval, the time
\* the attempts took and the delays after them, is TTL and what the loop has still
\* to sleep.  A renewal by the route lengthens the lease and moves nothing else.
Waited(s) == failures[s] * (Retry + Attempt)

Margin(s) ==
  looping[s] =>
    \/ Unrenewed(s) >= TTL
    \/ /\ status[s] # "expired"
       /\ IsActive(s) => lease[s] + Interval + Attempt + trying[s] + Waited(s)
                           >= TTL + timer[s]

MarginInv == \A s \in Session : Margin(s)

\* The two sums of the loop are numbers.
LEMMA WaitedNat ==
  ASSUME TypeOK, NEW s \in Session
  PROVE  Waited(s) \in Nat /\ Unrenewed(s) = Interval + 2 * Attempt + Waited(s)
<1>1. failures[s] \in Nat /\ Retry + Attempt \in Nat
  BY LeaseAssumption DEF TypeOK
<1>2. \A k, r \in Nat : k * r \in Nat
  OBVIOUS
<1>3. QED
  BY <1>1, <1>2 DEF Waited, Unrenewed

LEMMA WaitedNatNext ==
  ASSUME TypeOK', NEW s \in Session
  PROVE  /\ Waited(s)' \in Nat
         /\ Unrenewed(s)' = Interval + 2 * Attempt + Waited(s)'
<1>1. failures'[s] \in Nat /\ Retry + Attempt \in Nat
  BY LeaseAssumption DEF TypeOK
<1>2. \A k, r \in Nat : k * r \in Nat
  OBVIOUS
<1>3. QED
  BY <1>1, <1>2 DEF Waited, Unrenewed

\* A heartbeat that raises adds a delay and an attempt, until they account for TTL.
LEMMA WaitedGrows ==
  ASSUME TypeOK, NEW s \in Session, HeartbeatRaises(s)
  PROVE  \/ Unrenewed(s) >= TTL /\ Unrenewed(s)' = Unrenewed(s)
         \/ Waited(s)' = Waited(s) + Retry + Attempt
<1>1. CASE Unrenewed(s) < TTL
  <2>1. failures'[s] = failures[s] + 1
    BY <1>1 DEF HeartbeatRaises, TypeOK
  <2>2. \A k, r \in Nat : (k + 1) * r = k * r + r
    OBVIOUS
  <2>3. failures[s] \in Nat /\ Retry + Attempt \in Nat
    BY LeaseAssumption DEF TypeOK
  <2>4. Waited(s)' = Waited(s) + (Retry + Attempt)
    BY <2>1, <2>2, <2>3 DEF Waited
  <2>5. QED
    BY <2>4, WaitedNat, LeaseAssumption
<1>2. CASE ~(Unrenewed(s) < TTL)
  <2>1. failures'[s] = failures[s]
    BY <1>2 DEF HeartbeatRaises, TypeOK
  <2>2. Unrenewed(s) \in Nat
    BY WaitedNat, LeaseAssumption
  <2>3. QED
    BY <1>2, <2>1, <2>2, LeaseAssumption DEF Unrenewed
<1>3. QED
  BY <1>1, <1>2

\* A session keeps its margin while its loop's part of the state stays and its
\* lease is not shortened.
LEMMA MarginStays ==
  ASSUME TypeOK, NEW s \in Session, Margin(s),
         looping'[s] => /\ looping[s] /\ timer'[s] = timer[s]
                        /\ trying'[s] = trying[s] /\ failures'[s] = failures[s],
         \/ status'[s] = status[s] /\ lease'[s] = lease[s]
         \/ IsActive(s) /\ IsActive(s)' /\ lease'[s] \in {lease[s], TTL}
         \/ Lapsed(s) /\ status'[s] = "expired"
         \/ status'[s] \in {"revoked", "exited"}
  PROVE  Margin(s)'
<1> SUFFICES ASSUME looping'[s], ~(Unrenewed(s) >= TTL) PROVE Margin(s)'
  BY DEF Margin, Unrenewed
<1>1. /\ looping[s] /\ timer'[s] = timer[s] /\ trying'[s] = trying[s]
      /\ Waited(s)' = Waited(s) /\ Waited(s) \in Nat
      /\ Unrenewed(s) = Interval + 2 * Attempt + Waited(s)
  BY WaitedNat DEF Waited
<1>2. /\ timer[s] \in Nat /\ lease[s] \in Nat /\ lease[s] <= TTL
      /\ trying[s] \in Nat /\ trying[s] <= Attempt
  BY LeaseAssumption DEF TypeOK
<1>3. TTL \in Nat /\ Interval \in Nat /\ Attempt \in Nat
  BY LeaseAssumption
<1>4. CASE status'[s] = status[s] /\ lease'[s] = lease[s]
  BY <1>1, <1>4 DEF Margin, IsActive
<1>5. CASE IsActive(s) /\ IsActive(s)' /\ lease'[s] \in {lease[s], TTL}
  BY <1>1, <1>2, <1>3, <1>5 DEF Margin, IsActive, ActiveStatus
<1>6. CASE Lapsed(s) /\ status'[s] = "expired"
  BY <1>1, <1>2, <1>3, <1>6 DEF Margin, Lapsed, IsActive, ActiveStatus
<1>7. CASE status'[s] \in {"revoked", "exited"}
  BY <1>7 DEF Margin, IsActive, ActiveStatus
<1>8. QED
  BY <1>4, <1>5, <1>6, <1>7

\* Every handler and every tick keeps every session's margin.
LEMMA MarginStep == TypeOK /\ TypeOK' /\ MarginInv /\ [Next]_vars => MarginInv'
<1> SUFFICES ASSUME TypeOK, TypeOK', MarginInv, [Next]_vars, NEW t \in Session
             PROVE  Margin(t)'
  BY DEF MarginInv
<1>0. Margin(t)
  BY DEF MarginInv
<1> USE DEF Finish, Expire, Unusable, Renew, Grant, row, proc, Live, Lapsed
<1>1. ASSUME NEW s \in Session, NEW ai \in BOOLEAN, Register(s, ai)
      PROVE  Margin(t)'
  <2>1. CASE t = s
    <3>1. /\ lease'[t] = TTL /\ trying'[t] = 0 /\ status'[t] = "pending"
      BY <1>1, <2>1 DEF Register, SleepAfter, TypeOK
    <3>2. PICK late \in 0..Attempt : timer'[t] = Interval + late
      BY <1>1, <2>1 DEF Register, SleepAfter, TypeOK
    <3>3. Waited(t)' \in Nat
      BY WaitedNatNext
    <3>4. QED
      BY <3>1, <3>2, <3>3, LeaseAssumption DEF Margin
  <2>2. CASE t # s
    BY <1>0, <1>1, <2>2, MarginStays DEF Register, SleepAfter, TypeOK
  <2>3. QED
    BY <2>1, <2>2
<1>2. ASSUME NEW s \in Session, NEW ai \in BOOLEAN,
             ApproveRoute(s, ai) \/ ApproveTTY(s, ai)
      PROVE  Margin(t)'
  BY <1>0, <1>2, MarginStays
     DEF ApproveRoute, ApproveTTY, TypeOK, IsActive, ActiveStatus
<1>3. ASSUME NEW s \in Session, NEW e \in 1..MaxVersion,
             HeartbeatRoute(s, e) \/ ExitRoute(s, e)
      PROVE  Margin(t)'
  BY <1>0, <1>3, MarginStays DEF HeartbeatRoute, ExitRoute, TypeOK, IsActive
<1>4. ASSUME NEW s \in Session, Heartbeat(s) PROVE Margin(t)'
  <2>1. CASE t = s /\ Renewed(s) /\ SleepAfter(s, Interval, Attempt - trying[s])
    <3>1. /\ IsActive(t)' /\ lease'[t] = TTL /\ trying'[t] = 0
          /\ status'[t] # "expired"
      BY <2>1 DEF Renewed, SleepAfter, IsActive, ActiveStatus, TypeOK
    <3>2. PICK late \in 0..Attempt - trying[t] : timer'[t] = Interval + late
      BY <2>1 DEF SleepAfter, TypeOK
    <3>3. Waited(t)' \in Nat /\ trying[t] \in Nat
      BY WaitedNatNext, LeaseAssumption DEF TypeOK
    <3>4. QED
      BY <3>1, <3>2, <3>3, LeaseAssumption DEF Margin
  <2>2. CASE t = s /\ LoopEnds(s)
    BY <2>2 DEF LoopEnds, Margin, TypeOK
  <2>3. CASE t # s
    BY <1>0, <1>4, <2>3, MarginStays
       DEF Heartbeat, Renewed, SleepAfter, LoopEnds, TypeOK
  <2>4. QED
    BY <1>4, <2>1, <2>2, <2>3 DEF Heartbeat
<1>5. ASSUME NEW s \in Session, HeartbeatRaises(s) PROVE Margin(t)'
  <2>1. CASE t = s
    <3>1. looping[t] /\ timer[t] = 0
      BY <1>5, <2>1 DEF HeartbeatRaises, Due
    <3>2. /\ lease[t] \in Nat /\ trying[t] \in Nat /\ trying[t] <= Attempt
          /\ Waited(t) \in Nat /\ Waited(t)' \in Nat
          /\ Unrenewed(t) = Interval + 2 * Attempt + Waited(t)
          /\ Unrenewed(t)' = Interval + 2 * Attempt + Waited(t)'
      BY WaitedNat, WaitedNatNext, LeaseAssumption DEF TypeOK
    <3>3. CASE Unrenewed(t) >= TTL /\ Unrenewed(t)' = Unrenewed(t)
      BY <3>3 DEF Margin
    <3>4. CASE Unrenewed(t) >= TTL /\ Waited(t)' = Waited(t) + Retry + Attempt
      BY <3>2, <3>4, LeaseAssumption DEF Margin
    <3>5. CASE ~(Unrenewed(t) >= TTL) /\ Waited(t)' = Waited(t) + Retry + Attempt
      <4>1. CASE UNCHANGED <<row, silence>> /\ SleepAfter(s, Retry, 0)
        <5>1. /\ timer'[t] = Retry /\ trying'[t] = 0
              /\ status'[t] = status[t] /\ lease'[t] = lease[t]
          BY <2>1, <4>1, LeaseAssumption DEF SleepAfter, TypeOK
        <5>2. QED
          BY <1>0, <3>1, <3>2, <3>5, <5>1, LeaseAssumption DEF Margin, IsActive
      <4>2. CASE Renewed(s) /\ SleepAfter(s, Retry, Attempt - trying[s])
        <5>1. /\ status'[t] = status[t] /\ IsActive(t) /\ lease'[t] = TTL
              /\ trying'[t] = 0
          BY <2>1, <4>2 DEF Renewed, SleepAfter, TypeOK, IsActive
        <5>2. PICK late \in 0..Attempt - trying[t] : timer'[t] = Retry + late
          BY <2>1, <4>2 DEF SleepAfter, TypeOK
        <5>3. QED
          BY <3>2, <5>1, <5>2, LeaseAssumption
             DEF Margin, IsActive, ActiveStatus
      <4>3. CASE Expire(s)
        <5>1. IsActive(t) /\ lease[t] = 0 /\ status[t] # "expired"
          BY <2>1, <4>3 DEF IsActive, ActiveStatus
        <5>2. QED
          BY <1>0, <3>1, <3>2, <3>5, <5>1, LeaseAssumption DEF Margin
      <4>4. QED
        BY <1>5, <4>1, <4>2, <4>3 DEF HeartbeatRaises
    <3>6. QED
      BY <1>5, <2>1, <3>2, <3>3, <3>4, <3>5, WaitedGrows
  <2>2. CASE t # s
    BY <1>0, <1>5, <2>2, MarginStays DEF HeartbeatRaises, Renewed, SleepAfter, TypeOK
  <2>3. QED
    BY <2>1, <2>2
<1>6. ASSUME NEW s \in Session, Crash(s) \/ Shutdown(s) PROVE Margin(t)'
  <2>1. CASE t = s
    BY <1>6, <2>1 DEF Crash, Shutdown, LoopEnds, Margin, TypeOK
  <2>2. CASE t # s
    BY <1>0, <1>6, <2>2, MarginStays DEF Crash, Shutdown, LoopEnds, TypeOK
  <2>3. QED
    BY <2>1, <2>2
<1>7. ASSUME NEW s \in Session, Read(s) \/ RevokeRoute(s) PROVE Margin(t)'
  BY <1>0, <1>7, MarginStays DEF Read, RevokeRoute, TypeOK
<1>8. ASSUME Tick PROVE Margin(t)'
  <2> SUFFICES ASSUME looping'[t], ~(Unrenewed(t) >= TTL) PROVE Margin(t)'
    BY <1>8 DEF Margin, Unrenewed, Tick
  <2>1. /\ looping[t] /\ status'[t] = status[t] /\ Waited(t)' = Waited(t)
        /\ lease'[t] = IF lease[t] > 0 THEN lease[t] - 1 ELSE 0
        /\ timer'[t] = IF timer[t] > 0 THEN timer[t] - 1 ELSE timer[t]
        /\ trying'[t] = IF timer[t] = 0 THEN trying[t] + 1 ELSE trying[t]
    BY <1>8 DEF Tick, Due, Waited
  <2>2. /\ timer[t] \in Nat /\ lease[t] \in Nat /\ trying[t] \in Nat
        /\ Waited(t) \in Nat
    BY WaitedNat, LeaseAssumption DEF TypeOK
  <2>3. QED
    BY <1>0, <2>1, <2>2, LeaseAssumption DEF Margin, IsActive
<1>9. CASE UNCHANGED vars
  BY <1>0, <1>9, MarginStays DEF vars, proc, row
<1>10. QED
  BY <1>1, <1>2, <1>3, <1>4, <1>5, <1>6, <1>7, <1>8, <1>9 DEF Next

\* A running loop loses its lease to time only after so many heartbeats in a row
\* have raised that their delays and the time each may have waited account for the
\* whole TTL, for any such timings.
THEOREM SessionsLeaseLostOnlyAfterOutage == Spec => []LeaseLostOnlyAfterOutage
<1>1. Init => MarginInv
  BY DEF Init, MarginInv, Margin
<1>2. TypeOK /\ MarginInv => LeaseLostOnlyAfterOutage
  <2> SUFFICES ASSUME TypeOK, NEW s \in Session, Margin(s), looping[s],
                      Lapsed(s) \/ status[s] = "expired"
               PROVE  Unrenewed(s) >= TTL
    BY DEF MarginInv, LeaseLostOnlyAfterOutage
  <2>1. /\ Waited(s) \in Nat /\ timer[s] \in Nat
        /\ trying[s] \in Nat /\ trying[s] <= Attempt
        /\ Unrenewed(s) = Interval + 2 * Attempt + Waited(s)
    BY WaitedNat, LeaseAssumption DEF TypeOK
  <2>2. QED
    BY <2>1, LeaseAssumption DEF Margin, Lapsed
<1>3. QED
  BY <1>1, <1>2, MarginStep, SessionsTypeCorrect, PTL DEF Spec

-----------------------------------------------------------------------------
\* The refinement of Authority.  What a step may do to the row of one session,
\* and what it then does to its authority.
LEMMA AuthorityAt ==
  ASSUME NEW s \in Session, TypeOK
  PROVE  /\ status[s] = "none" => AuthorityOf(s) = "none"
         /\ status[s] \in {"revoked", "exited"} => AuthorityOf(s) = "closed"
         /\ status[s] = "expired" \/ Lapsed(s) => AuthorityOf(s) = "lapsed"
         /\ status[s] = "pending" /\ Live(s) => AuthorityOf(s) = "pending"
         /\ status[s] = "approved" /\ Live(s)
              => AuthorityOf(s) = IF hasAI[s] THEN "ai" ELSE "standard"
  BY DEF AuthorityOf, TypeOK, Lapsed, Live, IsActive, ActiveStatus,
         TerminalStatus

\* The same facts in the next state.
LEMMA AuthorityAtNext ==
  ASSUME NEW s \in Session, TypeOK'
  PROVE  /\ status'[s] = "none" => AuthorityOf(s)' = "none"
         /\ status'[s] \in {"revoked", "exited"} => AuthorityOf(s)' = "closed"
         /\ status'[s] = "expired" \/ Lapsed(s)' => AuthorityOf(s)' = "lapsed"
         /\ status'[s] = "pending" /\ Live(s)' => AuthorityOf(s)' = "pending"
         /\ status'[s] = "approved" /\ Live(s)'
              => AuthorityOf(s)' = IF hasAI'[s] THEN "ai" ELSE "standard"
  BY DEF AuthorityOf, TypeOK, Lapsed, Live, IsActive, ActiveStatus,
         TerminalStatus

\* A session whose row does not change keeps its authority.
LEMMA SameRow ==
  ASSUME NEW s \in Session, status'[s] = status[s], lease'[s] = lease[s],
         hasAI'[s] = hasAI[s]
  PROVE  AuthorityOf(s)' = AuthorityOf(s)
  BY DEF AuthorityOf, Lapsed, Live, IsActive

\* Expiring a lapsed row takes nothing away that time had not taken.
LEMMA UnusableKeeps ==
  ASSUME NEW s \in Session, TypeOK, TypeOK', Unusable(s)
  PROVE  authority' = authority
<1>1. ASSUME NEW t \in Session PROVE AuthorityOf(t)' = AuthorityOf(t)
  <2>1. CASE Expire(s) /\ t = s
    <3>1. AuthorityOf(s) = "lapsed"
      BY <2>1, AuthorityAt DEF Expire
    <3>2. status'[s] = "expired"
      BY <2>1 DEF Expire, Finish, TypeOK
    <3>3. QED
      BY <2>1, <3>1, <3>2, AuthorityAtNext
  <2>2. CASE Expire(s) /\ t # s
    BY <2>2, SameRow DEF Expire, Finish, TypeOK
  <2>3. CASE UNCHANGED row
    BY <2>3, SameRow DEF row
  <2>4. QED
    BY <2>1, <2>2, <2>3 DEF Unusable
<1>2. QED
  BY <1>1 DEF authority

\* Revoking or leaving a live session closes its authority.
LEMMA FinishCloses ==
  ASSUME NEW s \in Session, NEW final \in {"revoked", "exited"},
         TypeOK, TypeOK', Live(s), Finish(s, final)
  PROVE  A!Close(s)
<1>1. authority[s] \in A!Active
  BY AuthorityAt DEF A!Active, authority, Live, IsActive, ActiveStatus
<1>2. AuthorityOf(s)' = "closed"
  <2>1. status'[s] = final
    BY DEF Finish, TypeOK
  <2>2. QED
    BY <2>1, AuthorityAtNext
<1>3. ASSUME NEW t \in Session, t # s PROVE AuthorityOf(t)' = AuthorityOf(t)
  BY <1>3, SameRow DEF Finish, TypeOK
<1>4. authority' = [authority EXCEPT ![s] = "closed"]
  BY <1>2, <1>3 DEF authority
<1>5. QED
  BY <1>1, <1>4 DEF A!Close

\* Renewing a live lease changes no authority.
LEMMA RenewKeeps ==
  ASSUME NEW s \in Session, TypeOK, TypeOK', Live(s), Renew(s)
  PROVE  authority' = authority
<1>1. ASSUME NEW t \in Session PROVE AuthorityOf(t)' = AuthorityOf(t)
  <2>1. CASE t = s
    <3>1. Live(s)' /\ status'[s] = status[s] /\ hasAI'[s] = hasAI[s]
      BY LeaseAssumption DEF Renew, Live, IsActive, TypeOK
    <3>2. status[s] \in {"pending", "approved"}
      BY DEF Live, IsActive, ActiveStatus
    <3>3. QED
      BY <2>1, <3>1, <3>2, AuthorityAt, AuthorityAtNext
  <2>2. CASE t # s
    BY <2>2, SameRow DEF Renew, TypeOK
  <2>3. QED
    BY <2>1, <2>2
<1>2. QED
  BY <1>1 DEF authority

\* Approving a live pending session grants exactly what was asked for.
LEMMA GrantApproves ==
  ASSUME NEW s \in Session, NEW ai \in BOOLEAN, TypeOK, TypeOK',
         Live(s), status[s] = "pending", Grant(s, ai)
  PROVE  A!AuthNext
<1> DEFINE grant == IF ai THEN "ai" ELSE "standard"
<1>1. authority[s] = "pending"
  BY AuthorityAt DEF authority
<1>2. AuthorityOf(s)' = grant
  <2>1. status'[s] = "approved" /\ hasAI'[s] = ai /\ Live(s)'
    BY DEF Grant, Live, IsActive, ActiveStatus, TypeOK
  <2>2. QED
    BY <2>1, AuthorityAtNext
<1>3. ASSUME NEW t \in Session, t # s PROVE AuthorityOf(t)' = AuthorityOf(t)
  BY <1>3, SameRow DEF Grant, TypeOK
<1>4. authority' = [authority EXCEPT ![s] = grant]
  BY <1>2, <1>3 DEF authority
<1>5. A!Approve(s, grant)
  BY <1>1, <1>4 DEF A!Approve, A!Granted
<1>6. QED
  BY <1>5 DEF A!AuthNext, A!Granted

\* A tick ends the authority of the sessions whose last tick it was.
LEMMA TickLapses ==
  ASSUME TypeOK, TypeOK', Tick
  PROVE  A!AuthNext
<1> DEFINE S == {s \in Session : Live(s) /\ lease'[s] = 0}
<1>1. ASSUME NEW s \in S
      PROVE  authority[s] \in A!Active /\ AuthorityOf(s)' = "lapsed"
  <2>1. s \in Session /\ Live(s) /\ lease'[s] = 0 /\ status'[s] = status[s]
    BY <1>1 DEF Tick
  <2>2. authority[s] \in A!Active
    BY <2>1, AuthorityAt DEF A!Active, authority, Live, IsActive, ActiveStatus
  <2>3. Lapsed(s)'
    BY <2>1 DEF Live, Lapsed, IsActive
  <2>4. QED
    BY <2>1, <2>2, <2>3, AuthorityAtNext
<1>2. ASSUME NEW s \in Session, s \notin S
      PROVE  AuthorityOf(s)' = AuthorityOf(s)
  <2>1. status'[s] = status[s] /\ hasAI'[s] = hasAI[s]
    BY DEF Tick
  <2>2. CASE Live(s)
    <3>1. Live(s)'
      BY <1>2, <2>1, <2>2 DEF Live, IsActive, TypeOK
    <3>2. status[s] \in {"pending", "approved"}
      BY <2>2 DEF Live, IsActive, ActiveStatus
    <3>3. QED
      BY <2>1, <2>2, <3>1, <3>2, AuthorityAt, AuthorityAtNext
  <2>3. CASE IsActive(s) /\ ~Live(s)
    <3>1. lease[s] = 0 /\ lease'[s] = 0
      BY <2>3 DEF Live, Tick, TypeOK
    <3>2. QED
      BY <2>1, <3>1, SameRow
  <2>4. CASE ~IsActive(s)
    <3>1. status[s] \in {"none", "revoked", "expired", "exited"}
      BY <2>4 DEF IsActive, TypeOK, ActiveStatus, TerminalStatus
    <3>2. QED
      BY <2>1, <3>1, AuthorityAt, AuthorityAtNext
  <2>5. QED
    BY <2>2, <2>3, <2>4 DEF Live
<1>3. authority' = [s \in Session |-> IF s \in S THEN "lapsed" ELSE authority[s]]
  BY <1>1, <1>2 DEF authority
<1>4. A!Lapse(S)
  BY <1>1, <1>3 DEF A!Lapse
<1>5. QED
  BY <1>4 DEF A!AuthNext

LEMMA RegisterRegisters ==
  ASSUME NEW s \in Session, NEW ai \in BOOLEAN, TypeOK, TypeOK',
         Register(s, ai)
  PROVE  A!Register(s)
<1>1. authority[s] = "none"
  BY AuthorityAt DEF Register, authority
<1>2. AuthorityOf(s)' = "pending"
  <2>1. status'[s] = "pending" /\ lease'[s] = TTL
    BY DEF Register, TypeOK
  <2>2. Live(s)'
    BY <2>1, LeaseAssumption DEF Live, IsActive, ActiveStatus
  <2>3. QED
    BY <2>1, <2>2, AuthorityAtNext
<1>3. ASSUME NEW t \in Session, t # s PROVE AuthorityOf(t)' = AuthorityOf(t)
  <2>1. status'[t] = status[t] /\ lease'[t] = lease[t] /\ hasAI'[t] = hasAI[t]
    BY <1>3 DEF Register, TypeOK
  <2>2. QED
    BY <2>1, SameRow
<1>4. authority' = [authority EXCEPT ![s] = "pending"]
  BY <1>2, <1>3 DEF authority
<1>5. QED
  BY <1>1, <1>4 DEF A!Register

\* A step that leaves every row alone leaves every authority alone.
LEMMA RowsKeep ==
  ASSUME UNCHANGED row
  PROVE  authority' = authority
<1>1. ASSUME NEW t \in Session PROVE AuthorityOf(t)' = AuthorityOf(t)
  BY SameRow DEF row
<1>2. QED
  BY <1>1 DEF authority

\* Every handler is a step of Authority or leaves it unchanged.
LEMMA StepRefines ==
  ASSUME TypeOK, TypeOK', [Next]_vars
  PROVE  [A!AuthNext]_authority
<1>1. ASSUME NEW s \in Session, NEW ai \in BOOLEAN, Register(s, ai)
      PROVE  A!AuthNext
  BY <1>1, RegisterRegisters DEF A!AuthNext
<1>2. ASSUME NEW s \in Session, NEW ai \in BOOLEAN,
             ApproveRoute(s, ai) \/ ApproveTTY(s, ai)
      PROVE  A!AuthNext \/ authority' = authority
  <2>1. CASE Live(s) /\ status[s] = "pending" /\ Grant(s, ai)
    BY <2>1, GrantApproves
  <2>2. CASE Unusable(s)
    BY <2>2, UnusableKeeps
  <2>3. QED
    BY <1>2, <2>1, <2>2 DEF ApproveRoute, ApproveTTY
<1>3. ASSUME NEW s \in Session,
             \/ Heartbeat(s)
             \/ \E e \in 1..MaxVersion : HeartbeatRoute(s, e)
      PROVE  authority' = authority
  <2>1. CASE Live(s) /\ Renew(s)
    BY <2>1, RenewKeeps
  <2>2. CASE Unusable(s)
    BY <2>2, UnusableKeeps
  <2>3. QED
    BY <1>3, <2>1, <2>2 DEF Heartbeat, Renewed, HeartbeatRoute
<1>4. ASSUME NEW s \in Session,
             \/ Shutdown(s)
             \/ \E e \in 1..MaxVersion : ExitRoute(s, e)
      PROVE  A!AuthNext \/ authority' = authority
  <2>1. CASE Live(s) /\ Finish(s, "exited")
    BY <2>1, FinishCloses DEF A!AuthNext
  <2>2. CASE Unusable(s)
    BY <2>2, UnusableKeeps
  <2>3. CASE UNCHANGED row
    BY <2>3, RowsKeep
  <2>4. QED
    BY <1>4, <2>1, <2>2, <2>3 DEF Shutdown, ExitRoute
<1>5. ASSUME NEW s \in Session, RevokeRoute(s)
      PROVE  A!AuthNext \/ authority' = authority
  <2>1. CASE Live(s) /\ Finish(s, "revoked")
    BY <2>1, FinishCloses DEF A!AuthNext
  <2>2. CASE Unusable(s)
    BY <2>2, UnusableKeeps
  <2>3. QED
    BY <1>5, <2>1, <2>2 DEF RevokeRoute
<1>6. ASSUME NEW s \in Session, Read(s)
      PROVE  authority' = authority
  <2>1. CASE Expire(s)
    BY <2>1, UnusableKeeps DEF Unusable
  <2>2. CASE UNCHANGED row
    BY <2>2, RowsKeep
  <2>3. QED
    BY <1>6, <2>1, <2>2 DEF Read
<1>7. ASSUME NEW s \in Session, HeartbeatRaises(s) \/ Crash(s)
      PROVE  authority' = authority
  <2>1. CASE Live(s) /\ Renew(s)
    BY <2>1, RenewKeeps
  <2>2. CASE Expire(s)
    BY <2>2, UnusableKeeps DEF Unusable
  <2>3. CASE UNCHANGED row
    BY <2>3, RowsKeep
  <2>4. QED
    BY <1>7, <2>1, <2>2, <2>3 DEF HeartbeatRaises, Renewed, Crash, row
<1>8. CASE Tick
  BY <1>8, TickLapses
<1>9. CASE UNCHANGED vars
  BY <1>9, RowsKeep DEF vars, row
<1>10. QED
  BY <1>1, <1>2, <1>3, <1>4, <1>5, <1>6, <1>7, <1>8, <1>9 DEF Next

\* The lease protocol implements Authority for any number of sessions and any
\* timing: no interleaving of heartbeats, approvals, revokes, exits, crashes
\* and time gives an ended session its authority back.
THEOREM SessionsImplementAuthority == Spec => ImplementsAuthority
<1>1. ASSUME Init PROVE A!AuthInit
  <2>1. ASSUME NEW s \in Session PROVE AuthorityOf(s) = "none"
    BY <1>1, InitTypeOK, AuthorityAt DEF Init
  <2>2. QED
    BY <2>1 DEF A!AuthInit, authority
<1>2. TypeOK /\ TypeOK' /\ [Next]_vars => [A!AuthNext]_authority
  BY StepRefines
<1>3. QED
  BY <1>1, <1>2, SessionsTypeCorrect, PTL DEF Spec, ImplementsAuthority, A!AuthSpec
=============================================================================
