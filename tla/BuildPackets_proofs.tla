------------------------- MODULE BuildPackets_proofs -------------------------
(***************************************************************************)
(* For any number of requests, runs, callers, items and labels: a stored   *)
(* packet pictures an eligible thread as it is at that very moment         *)
(* (ImplementsAtomicPackets), and names the decision it was built on       *)
(* (PacketsWellFormed).  What the threads do is taken from                 *)
(* OpportunityThreads_proofs; the invariant is PacketsInv.                 *)
(***************************************************************************)
EXTENDS BuildPackets, OpportunityThreads_proofs

(* ---- what the threads do under a request ---------------------------------- *)
\* Nothing is taken back: rows stay, versions rise, and a decision that is new
\* is one on the version its thread had.
Ahead(d, f) ==
    /\ DOMAIN d.snap \subseteq DOMAIN f.snap /\ DOMAIN d.thread \subseteq DOMAIN f.thread
    /\ DOMAIN d.event \subseteq DOMAIN f.event
    /\ \A i \in DOMAIN d.event : f.event[i] = d.event[i]
    /\ \A t \in DOMAIN d.thread : d.thread[t].version <= f.thread[t].version
    /\ \A i \in DOMAIN f.event \ DOMAIN d.event :
         f.event[i].type = "decision_changed" =>
            /\ f.event[i].thread \in DOMAIN d.thread
            /\ f.event[i].version = d.thread[f.event[i].thread].version

LEMMA Versions ==
  ASSUME NEW d \in DbType
  PROVE  \A t \in DOMAIN d.thread : d.thread[t].version \in Nat \ {0}
  BY DbParts DEF ThreadType

LEMMA NothingMoves ==
  ASSUME NEW d \in DbType
  PROVE  Ahead(d, d)
  BY Versions DEF Ahead

LEMMA RunAhead ==
  ASSUME NEW d \in DbType, NEW f \in DbType, NEW r, Sound(d), Sound(f), DecisionsStand(d),
         Continues(d, r, f)
  PROVE  Ahead(d, f) /\ DecisionsStand(f)
<1>1. /\ f.event = d.event
      /\ DOMAIN d.snap \subseteq DOMAIN f.snap /\ DOMAIN d.thread \subseteq DOMAIN f.thread
      /\ \A t \in DOMAIN d.thread :
           f.thread[t].version = d.thread[t].version /\ f.thread[t].state = d.thread[t].state
  BY DEF Continues
<1>2. Ahead(d, f)
  BY <1>1, Versions DEF Ahead
<1>3. \A i \in DOMAIN d.event : d.event[i].thread \in DOMAIN d.thread
  BY DEF Sound, Filed
<1>4. ASSUME NEW t \in DOMAIN f.thread, t \notin DOMAIN d.thread
      PROVE  DecisionsOf(f, t) = {} /\ f.thread[t].state = New
  <2>1. Changes(f, t) = {} /\ DecisionsOf(f, t) = {}
    BY <1>1, <1>3, <1>4 DEF Changes, DecisionsOf
  <2>2. QED
    BY <2>1 DEF Sound, HistoryReplays, Replays
<1>5. \A t \in DOMAIN d.thread : DecisionsOf(f, t) = DecisionsOf(d, t)
  BY <1>1 DEF DecisionsOf
<1>6. DecisionsStand(f)
  BY <1>1, <1>4, <1>5 DEF DecisionsStand
<1>7. QED
  BY <1>2, <1>6

LEMMA AddsAhead ==
  ASSUME NEW d \in DbType, NEW f \in DbType, NEW x, DecisionsStand(d), Adds(d, f, x),
         DOMAIN f.thread = DOMAIN d.thread
  PROVE  Ahead(d, f) /\ DecisionsStand(f)
<1>1. /\ f.event = d.event /\ DOMAIN d.snap \subseteq DOMAIN f.snap
      /\ \A t \in DOMAIN d.thread :
           f.thread[t].version = d.thread[t].version /\ f.thread[t].state = d.thread[t].state
  BY DEF Adds, Same
<1>2. Ahead(d, f)
  BY <1>1, Versions DEF Ahead
<1>3. \A t \in DOMAIN d.thread : DecisionsOf(f, t) = DecisionsOf(d, t)
  BY <1>1 DEF DecisionsOf
<1>4. DecisionsStand(f)
  BY <1>1, <1>3 DEF DecisionsStand
<1>5. QED
  BY <1>2, <1>4

LEMMA DecidesAhead ==
  ASSUME NEW d \in DbType, NEW f \in DbType, NEW t \in DOMAIN d.thread, NEW next, NEW seen,
         DecisionsStand(d), Decides(d, f, t, next, seen)
  PROVE  Ahead(d, f) /\ DecisionsStand(f)
<1> DEFINE n == Len(d.event) + 1
<1>1. /\ DOMAIN f.event = DOMAIN d.event \cup {n}
      /\ f.event[n] = Event("decision_changed", t, d.thread[t].current, d.thread[t].state, next,
                            d.thread[t].version, seen)
      /\ \A i \in DOMAIN d.event : f.event[i] = d.event[i]
      /\ DOMAIN f.thread = DOMAIN d.thread /\ DOMAIN f.snap = DOMAIN d.snap
      /\ f.thread[t].state = next /\ f.thread[t].version = d.thread[t].version + 1
      /\ \A u \in DOMAIN d.thread \ {t} : f.thread[u] = d.thread[u]
  BY DEF Decides
<1>2. /\ f.event[n].type = "decision_changed" /\ f.event[n].thread = t /\ f.event[n].next = next
      /\ f.event[n].version = d.thread[t].version
  BY <1>1 DEF Event
<1>3. \A i \in DOMAIN d.event : i \in Nat /\ i < n
  BY DbParts
<1>4. n \in Nat
  <2>1. d.event \in Seq(EventType)
    BY DbParts
  <2>2. QED
    BY <2>1
<1> HIDE DEF n
<1>5. Ahead(d, f)
  BY <1>1, <1>2, Versions DEF Ahead
<1>6. DecisionsOf(f, t) = DecisionsOf(d, t) \cup {n}
  BY <1>1, <1>2 DEF DecisionsOf
<1>7. \A u \in DOMAIN d.thread \ {t} : DecisionsOf(f, u) = DecisionsOf(d, u)
  BY <1>1, <1>2, <1>3 DEF DecisionsOf
<1>8. ASSUME NEW i \in DecisionsOf(f, t)
      PROVE  /\ f.event[i].version < f.thread[t].version
             /\ (\A j \in DecisionsOf(f, t) : j <= i) => f.event[i].next = f.thread[t].state
  <2>1. d.thread[t].version \in Nat
    BY Versions
  <2>2. CASE i = n
    BY <1>1, <1>2, <2>1, <2>2
  <2>3. CASE i \in DecisionsOf(d, t)
    <3>1. /\ i \in DOMAIN d.event /\ f.event[i] = d.event[i]
          /\ d.event[i].version < d.thread[t].version
      BY <1>1, <2>3 DEF DecisionsStand, DecisionsOf
    <3>2. d.event[i].version \in Nat
      BY <3>1, DbParts DEF EventType
    <3>3. i < n /\ n \in DecisionsOf(f, t) /\ ~(n <= i)
      BY <1>3, <1>4, <1>6, <3>1
    <3>4. QED
      BY <1>1, <2>1, <3>1, <3>2, <3>3
  <2>4. QED
    BY <1>6, <2>2, <2>3
<1>9. ASSUME NEW u \in DOMAIN d.thread \ {t}
      PROVE  /\ DecisionsOf(f, u) = {} => f.thread[u].state = New
             /\ \A i \in DecisionsOf(f, u) :
                  /\ f.event[i].version < f.thread[u].version
                  /\ (\A j \in DecisionsOf(f, u) : j <= i) => f.event[i].next = f.thread[u].state
  <2>1. \A i \in DecisionsOf(d, u) : f.event[i] = d.event[i]
    BY <1>1 DEF DecisionsOf
  <2>2. QED
    BY <1>1, <1>7, <2>1 DEF DecisionsStand
<1>10. DecisionsStand(f)
  BY <1>1, <1>6, <1>8, <1>9 DEF DecisionsStand
<1>11. QED
  BY <1>5, <1>10

LEMMA DetachesAhead ==
  ASSUME NEW d \in DbType, NEW f \in DbType, NEW t \in DOMAIN d.thread, NEW s, NEW seen, NEW m,
         DecisionsStand(d), Sound(d), Detaches(d, f, t, s, seen, m)
  PROVE  Ahead(d, f) /\ DecisionsStand(f)
<1> DEFINE n == Len(d.event) + 1
<1>1. /\ DOMAIN f.event = DOMAIN d.event \cup {n, Len(d.event) + 2}
      /\ f.event[n].type = "snapshot_detached"
      /\ f.event[Len(d.event) + 2].type = "thread_created_by_detach"
      /\ \A i \in DOMAIN d.event : f.event[i] = d.event[i]
      /\ DOMAIN f.thread = DOMAIN d.thread \cup {NewThread(d)} /\ DOMAIN f.snap = DOMAIN d.snap
      /\ f.thread[t].state = d.thread[t].state /\ f.thread[t].version = d.thread[t].version + 1
      /\ f.thread[NewThread(d)] = Thread(d.thread[t].project, s)
      /\ \A v \in DOMAIN d.thread \ {t} : f.thread[v] = d.thread[v]
  BY DEF Detaches, Event
<1> HIDE DEF n
<1>2. NewThread(d) \notin DOMAIN d.thread /\ f.thread[NewThread(d)].state = New
  BY <1>1, DbParts DEF Thread
<1>3. \A i \in DOMAIN f.event : f.event[i].type = "decision_changed" =>
          i \in DOMAIN d.event /\ f.event[i] = d.event[i]
  BY <1>1
<1>4. \A t2 \in DOMAIN d.thread : d.thread[t2].version \in Nat
  BY Versions
<1>5. Ahead(d, f)
  BY <1>1, <1>3, <1>4 DEF Ahead
<1>6. ASSUME NEW u
      PROVE  DecisionsOf(f, u) = DecisionsOf(d, u)
  <2>1. ASSUME NEW i \in DecisionsOf(f, u) PROVE i \in DecisionsOf(d, u)
    BY <1>3 DEF DecisionsOf
  <2>2. ASSUME NEW i \in DecisionsOf(d, u) PROVE i \in DecisionsOf(f, u)
    <3>1. i \in DOMAIN d.event /\ i \in DOMAIN f.event /\ f.event[i] = d.event[i]
      BY <1>1 DEF DecisionsOf
    <3>2. QED
      BY <3>1 DEF DecisionsOf
  <2>3. QED
    BY <2>1, <2>2
<1>7. DecisionsOf(f, NewThread(d)) = {}
  <2>1. \A i \in DOMAIN d.event : d.event[i].thread \in DOMAIN d.thread
    BY DEF Sound, Filed
  <2>2. DecisionsOf(d, NewThread(d)) = {}
    BY <1>2, <2>1 DEF DecisionsOf
  <2>3. DecisionsOf(f, NewThread(d)) = DecisionsOf(d, NewThread(d))
    BY <1>6
  <2>4. QED
    BY <2>2, <2>3
<1>8. ASSUME NEW u \in DOMAIN d.thread
      PROVE  /\ DecisionsOf(f, u) = {} => f.thread[u].state = New
             /\ \A i \in DecisionsOf(f, u) :
                  /\ f.event[i].version < f.thread[u].version
                  /\ (\A j \in DecisionsOf(f, u) : j <= i) => f.event[i].next = f.thread[u].state
  <2>1. \A i \in DecisionsOf(d, u) : f.event[i] = d.event[i] /\ d.event[i].version \in Nat
    BY <1>1, DbParts DEF DecisionsOf, EventType
  <2>2. f.thread[u].state = d.thread[u].state
        /\ (f.thread[u].version = d.thread[u].version \/ f.thread[u].version = d.thread[u].version + 1)
    BY <1>1
  <2>3. QED
    BY <1>4, <1>6, <2>1, <2>2 DEF DecisionsStand
<1>9. DecisionsStand(f)
  BY <1>1, <1>2, <1>7, <1>8 DEF DecisionsStand
<1>10. QED
  BY <1>5, <1>9

LEMMA ThreadsAhead ==
  ASSUME ThreadsInv, DecisionsStand(db), [Next]_vars
  PROVE  ThreadsInv' /\ Ahead(db, db') /\ DecisionsStand(db')
<1>1. ThreadsInv'
  BY StepThreads
<1>2. db \in DbType /\ db' \in DbType /\ Sound(db) /\ Sound(db')
  BY <1>1 DEF ThreadsInv, TypeOK
<1>3. CASE db' = db
  BY <1>1, <1>2, <1>3, NothingMoves
<1>4. CASE CommitRun
  <2>1. db' = txn.db /\ Continues(db, txn.run, txn.db)
    BY <1>4 DEF CommitRun, ThreadsInv, TransactionInv
  <2>2. QED
    BY <1>1, <1>2, <2>1, RunAhead
<1>5. ASSUME NEW c \in Caller, NEW next \in Decision, Decide(c, next), db' # db
      PROVE  Ahead(db, db') /\ DecisionsStand(db')
  <2> DEFINE t == call[c].thread
             seen == call[c].state
  <2>1. call[c].at = "thread" /\ db' = Decided(db, t, next, seen)
    BY <1>5 DEF Decide, Writes
  <2>2. t \in DOMAIN db.thread /\ seen \in Decision
    BY <2>1, CallersThread
  <2>3. Decides(db, db', t, next, seen)
    BY <1>2, <2>1, <2>2, DecidedDecides
  <2>4. QED
    BY <1>2, <2>2, <2>3, DecidesAhead
<1>6. ASSUME NEW c \in Caller, NEW s \in DOMAIN db.snap, Detach(c, s)
      PROVE  Ahead(db, db') /\ DecisionsStand(db')
  <2> DEFINE t == call[c].thread
             seen == call[c].state
             m == Fallback(db, t, s)
  <2>1. call[c].at = "thread" /\ db' = Detached(db, t, s, seen) /\ MayDetach(db, t, s)
    BY <1>6 DEF Detach, Writes
  <2>2. t \in DOMAIN db.thread /\ seen \in Decision
    BY <2>1, CallersThread
  <2>3. m \in Nat \ {0}
    BY <1>2, <2>1, <2>2, FallbackNewest
  <2>4. Detaches(db, db', t, s, seen, m)
    BY <1>2, <2>1, <2>2, <2>3, DetachedDetaches
  <2>5. QED
    BY <1>2, <2>2, <2>4, DetachesAhead
<1>7. ASSUME NEW c \in Caller, NEW method \in CloneMethods, Clone(c, method)
      PROVE  Ahead(db, db') /\ DecisionsStand(db')
  <2> DEFINE t == call[c].thread
             s == call[c].snap
             x == Snapshot(t, NoRun, db.snap[s].evidence, method, call[c].state, s)
  <2>1. call[c].at = "thread" /\ s # NoSnapshot /\ db' = Cloned(db, s, t, call[c].state, method)
    BY <1>7 DEF Clone, Writes
  <2>2. t \in DOMAIN db.thread /\ call[c].state \in Decision /\ s \in DOMAIN db.snap
    BY <2>1, CallersThread
  <2>3. x \in SnapshotType
    <3>1. t \in Nat \ {0} /\ s \in Nat /\ db.snap[s] \in SnapshotType
      BY <1>2, <2>2, DbParts
    <3>2. db.snap[s].evidence \in Evidence
      BY <3>1 DEF SnapshotType
    <3>3. QED
      BY <3>1, <3>2, <2>2 DEF Snapshot, SnapshotType, AllMethods
  <2>4. x.thread = t
    BY DEF Snapshot
  <2>5. db' = Adding(db, x, NewSnapshot(db))
    BY <2>1, <2>4 DEF Cloned, Adding
  <2> HIDE DEF x, t, s
  <2>6. Adds(db, db', x) /\ DOMAIN db'.thread = DOMAIN db.thread
    BY <1>2, <2>2, <2>3, <2>4, <2>5, AddingAdds
  <2>7. QED
    BY <1>2, <2>6, AddsAhead
<1>8. \/ db' = db \/ CommitRun
      \/ \E c \in Caller :
           \/ \E next \in Decision : Decide(c, next) /\ db' # db
           \/ \E s \in DOMAIN db.snap : Detach(c, s)
           \/ \E method \in CloneMethods : Clone(c, method)
  BY DEF Next, vars, BeginRun, AttachCluster, AbortRun, ReadThread, ReadSnapshot, ReadItsThread,
         GiveUp, Conflict, Reads, Writes
<1>9. QED
  BY <1>1, <1>3, <1>4, <1>5, <1>6, <1>7, <1>8

(* ---- what is read of labels and decisions --------------------------------- *)
LEMMA NewestIn ==
  ASSUME NEW n \in Nat, NEW S \in SUBSET (1 .. n), S # {}
  PROVE  Newest(S) \in S /\ Newest(S) \in Nat /\ \A u \in S : u <= Newest(S)
<1>1. S \in SUBSET (0 .. n)
  OBVIOUS
<1>2. Newest(S) \in S /\ \A u \in S : u <= Newest(S)
  BY <1>1, NewestExists, Zenon
<1>3. \A u \in S : u \in Nat
  OBVIOUS
<1>4. QED
  BY <1>2, <1>3

Row == [actor : Actors, label : Labels]

LEMMA Rows == PacketsTypeOK => labels \in [Item -> Seq(Row)]
  BY DEF PacketsTypeOK, Row

LEMMA LabelTyped ==
  ASSUME PacketsTypeOK, NEW i \in Item, NEW actor
  PROVE  LabelBy(i, actor) \in Labels \cup {NoLabel}
<1>1. labels[i] \in Seq(Row)
  BY Rows
<1>2. CASE VersionsBy(i, actor) = {}
  BY <1>2 DEF LatestBy, LabelBy
<1>3. CASE VersionsBy(i, actor) # {}
  <2>1. VersionsBy(i, actor) \in SUBSET DOMAIN labels[i]
    BY DEF VersionsBy
  <2>2. LatestBy(i, actor) = Newest(VersionsBy(i, actor))
    BY <1>3 DEF LatestBy, Newest
  <2>3. LatestBy(i, actor) \in DOMAIN labels[i]
    <3>1. Len(labels[i]) \in Nat /\ DOMAIN labels[i] = 1 .. Len(labels[i])
      BY <1>1
    <3>2. QED
      BY <1>3, <2>1, <2>2, <3>1, NewestIn
  <2>4. labels[i][LatestBy(i, actor)].label \in Labels
    <3>1. labels[i][LatestBy(i, actor)] \in Row
      BY <1>1, <2>3
    <3>2. QED
      BY <3>1 DEF Row
  <2>5. QED
    BY <2>4 DEF LabelBy
<1>4. QED
  BY <1>2, <1>3

LEMMA DecisionEventIs ==
  ASSUME NEW t, NEW state, db \in DbType
  PROVE  LET S == {i \in DecisionsOf(db, t) : db.event[i].next = state}
         IN  /\ DecisionEvent(t, state) \in Nat
             /\ S # {} => DecisionEvent(t, state) \in S /\ \A j \in S : j <= DecisionEvent(t, state)
<1> DEFINE S == {i \in DecisionsOf(db, t) : db.event[i].next = state}
           U == {i \in DOMAIN db.event : /\ db.event[i].type = "decision_changed"
                                         /\ db.event[i].thread = t
                                         /\ db.event[i].next = state}
<1>1. S = U
  BY DEF DecisionsOf
<1>2. DecisionEvent(t, state) = IF U = {} THEN 0 ELSE Newest(U)
  BY DEF DecisionEvent, Newest
<1>3. Len(db.event) \in Nat /\ U \in SUBSET (1 .. Len(db.event))
  <2>1. db.event \in Seq(EventType)
    BY DbParts
  <2>2. Len(db.event) \in Nat /\ DOMAIN db.event = 1 .. Len(db.event)
    BY <2>1
  <2>3. QED
    BY <2>2
<1> HIDE DEF U
<1>4. U # {} => Newest(U) \in U /\ Newest(U) \in Nat /\ \A u \in U : u <= Newest(U)
  BY <1>3, NewestIn
<1>5. QED
  BY <1>1, <1>2, <1>4

LEMMA SourceTyped ==
  ASSUME PacketsTypeOK, db \in DbType, NEW t, NEW version \in Nat, NEW state \in Decision,
         NEW s \in DOMAIN db.snap, Admissible(EvidenceOf(s))
  PROVE  SourceOf(t, version, state, s) \in SourceType
<1> DEFINE e == EvidenceOf(s)
<1>1. e \in Evidence
  BY DbParts DEF EvidenceOf, SnapshotType
<1>2. Readiness(e) \in {"medium", "strong"}
  BY DEF Admissible
<1>3. DecisionEvent(t, state) \in Nat
  BY DecisionEventIs
<1>4. ItemsOf[e] \subseteq Item
  BY <1>1, PacketAssumption
<1>5. ReviewOf(e) \in [ItemsOf[e] -> Labels \cup {NoLabel}]
  BY <1>4, LabelTyped DEF ReviewOf
<1>6. ReviewOf(e) \in UNION {[ItemsOf[x] -> Labels \union {NoLabel}] : x \in Evidence}
  BY <1>1, <1>5
<1>7. QED
  BY <1>1, <1>2, <1>3, <1>6 DEF SourceOf, SourceType

(* ---- the steps ------------------------------------------------------------ *)
\* What packets say goes on to be true while the threads move on.
LEMMA PacketsStay ==
  ASSUME db \in DbType, db' \in DbType, Ahead(db, db'), PacketsTypeOK, packets' = packets,
         PacketsNameTheirDecision, PacketsPrecede
  PROVE  PacketsNameTheirDecision' /\ PacketsPrecede'
<1> SUFFICES ASSUME NEW k \in DOMAIN packets
             PROVE  /\ packets[k].thread \in DOMAIN db'.thread
                    /\ packets[k].source.version <= db'.thread[packets[k].thread].version
                    /\ packets[k].source.decision \in DOMAIN db'.event
                    /\ db'.event[packets[k].source.decision].type = "decision_changed"
                    /\ db'.event[packets[k].source.decision].thread = packets[k].thread
                    /\ db'.event[packets[k].source.decision].next = Candidate
                    /\ db'.event[packets[k].source.decision].version < packets[k].source.version
                    /\ \A i \in DOMAIN db'.event :
                         (i > packets[k].source.decision /\ db'.event[i].type = "decision_changed"
                            /\ db'.event[i].thread = packets[k].thread)
                         => db'.event[i].version >= packets[k].source.version
  BY DEF PacketsNameTheirDecision, PacketsPrecede
<1> DEFINE t == packets[k].thread
           v == packets[k].source.version
           d == packets[k].source.decision
<1>1. v \in Nat
  <2>1. packets[k] \in PacketType
    BY DEF PacketsTypeOK
  <2>2. QED
    BY <2>1 DEF PacketType, SourceType
<1>2. t \in DOMAIN db.thread /\ v <= db.thread[t].version
  BY DEF PacketsPrecede
<1>3. /\ d \in DOMAIN db.event
      /\ db.event[d].type = "decision_changed" /\ db.event[d].thread = t
      /\ db.event[d].next = Candidate /\ db.event[d].version < v
      /\ \A i \in DOMAIN db.event :
           (i > d /\ db.event[i].type = "decision_changed" /\ db.event[i].thread = t)
              => db.event[i].version >= v
  BY DEF PacketsNameTheirDecision
<1> HIDE DEF t, v, d
<1>4. db.thread[t].version \in Nat /\ db'.thread[t].version \in Nat
  BY <1>2, Versions DEF Ahead
<1>5. t \in DOMAIN db'.thread /\ v <= db'.thread[t].version
  BY <1>1, <1>2, <1>4 DEF Ahead
<1>6. d \in DOMAIN db'.event /\ db'.event[d] = db.event[d]
  BY <1>3 DEF Ahead
<1>7. ASSUME NEW i \in DOMAIN db'.event, i > d, db'.event[i].type = "decision_changed",
             db'.event[i].thread = t
      PROVE  db'.event[i].version >= v
  <2>1. CASE i \in DOMAIN db.event
    BY <1>3, <1>7, <2>1 DEF Ahead
  <2>2. CASE i \notin DOMAIN db.event
    <3>1. db'.event[i].version = db.thread[t].version
      BY <1>7, <2>2 DEF Ahead
    <3>2. QED
      BY <1>1, <1>2, <1>4, <3>1
  <2>3. QED
    BY <2>1, <2>2
<1>8. QED
  BY <1>3, <1>5, <1>6, <1>7 DEF t, v, d

LEMMA InitPackets == PacketsInit => PacketsInv
<1> SUFFICES ASSUME PacketsInit PROVE PacketsInv
  OBVIOUS
<1>1. ThreadsInv
  BY InitThreads DEF PacketsInit
<1>2. PacketsTypeOK
  BY DEF PacketsInit, PacketsTypeOK, Waiting
<1>3. PacketsNameTheirDecision /\ PacketsPrecede
  BY DEF PacketsInit, PacketsNameTheirDecision, PacketsPrecede
<1>4. RequestsHold
  BY DEF PacketsInit, RequestsHold, Waiting
<1>5. DecisionsStand(db)
  BY DEF PacketsInit, Init, EmptyDb, DecisionsStand
<1>6. QED
  BY <1>1, <1>2, <1>3, <1>4, <1>5 DEF PacketsInv, PacketsWellFormed

LEMMA ThreadsMove ==
  ASSUME PacketsInv, [Next]_vars, UNCHANGED <<labels, packets, packing>>
  PROVE  PacketsInv'
<1>1. ThreadsInv' /\ Ahead(db, db') /\ DecisionsStand(db')
  BY ThreadsAhead DEF PacketsInv
<1>2. db \in DbType /\ db' \in DbType
  BY <1>1 DEF PacketsInv, ThreadsInv, TypeOK
<1>3. PacketsTypeOK /\ PacketsNameTheirDecision /\ PacketsPrecede /\ RequestsHold
  BY DEF PacketsInv, PacketsWellFormed
<1>4. PacketsNameTheirDecision' /\ PacketsPrecede'
  BY <1>1, <1>2, <1>3, PacketsStay
<1>5. PacketsTypeOK'
  BY <1>3 DEF PacketsTypeOK
<1>6. RequestsHold'
  BY <1>1, <1>3 DEF RequestsHold, Ahead
<1>7. QED
  BY <1>1, <1>4, <1>5, <1>6 DEF PacketsInv, PacketsWellFormed

\* A step that leaves the threads alone.
LEMMA ThreadsStay ==
  ASSUME PacketsInv, UNCHANGED vars
  PROVE  ThreadsInv' /\ DecisionsStand(db)' /\ db' = db /\ db \in DbType /\ Ahead(db, db')
<1>1. ThreadsInv' /\ Ahead(db, db') /\ DecisionsStand(db')
  BY ThreadsAhead DEF PacketsInv
<1>2. QED
  BY <1>1 DEF vars, PacketsInv, ThreadsInv, TypeOK

LEMMA LabelKeeps ==
  ASSUME PacketsInv, NEW i \in Item, NEW actor \in Actors, NEW label \in Labels,
         AppendLabel(i, actor, label)
  PROVE  PacketsInv'
<1>1. UNCHANGED vars /\ packets' = packets /\ packing' = packing
  BY DEF AppendLabel
<1>2. ThreadsInv' /\ DecisionsStand(db)' /\ db' = db /\ db \in DbType /\ Ahead(db, db')
  BY <1>1, ThreadsStay
<1>3. PacketsTypeOK /\ PacketsNameTheirDecision /\ PacketsPrecede /\ RequestsHold
  BY DEF PacketsInv, PacketsWellFormed
<1> DEFINE l == [actor |-> actor, label |-> label]
<1>4. l \in Row
  BY DEF Row
<1>5. labels' = [labels EXCEPT ![i] = Append(labels[i], l)]
  BY DEF AppendLabel
<1> HIDE DEF l
<1>6. labels' \in [Item -> Seq(Row)]
  <2>1. labels \in [Item -> Seq(Row)]
    BY <1>3, Rows
  <2>2. Append(labels[i], l) \in Seq(Row)
    BY <1>4, <2>1
  <2>3. QED
    BY <1>5, <2>1, <2>2
<1>7. PacketsTypeOK'
  BY <1>1, <1>3, <1>6 DEF PacketsTypeOK, Row
<1>8. PacketsNameTheirDecision' /\ PacketsPrecede' /\ RequestsHold'
  BY <1>1, <1>2, <1>3 DEF PacketsNameTheirDecision, PacketsPrecede, RequestsHold
<1>9. QED
  BY <1>2, <1>7, <1>8 DEF PacketsInv, PacketsWellFormed

Request ==
  {Waiting}
    \union [at : {"thread"}, thread : Nat, version : Nat, snapshot : Nat]
    \union [at : {"generated"}, thread : Nat, version : Nat, snapshot : Nat, source : SourceType]

\* A request reads on, or ends.
LEMMA GoesKeeps ==
  ASSUME PacketsInv, NEW p \in Packer, NEW what \in Request, Goes(p, what),
         what.at # "idle" => what.thread \in DOMAIN db.thread /\ what.snapshot \in DOMAIN db.snap
  PROVE  PacketsInv' /\ packets' = packets
<1>1. UNCHANGED vars /\ packets' = packets /\ labels' = labels
      /\ packing' = [packing EXCEPT ![p] = what]
  BY DEF Goes
<1>2. ThreadsInv' /\ DecisionsStand(db)' /\ db' = db
  BY <1>1, ThreadsStay
<1>3. PacketsTypeOK /\ PacketsNameTheirDecision /\ PacketsPrecede /\ RequestsHold
  BY DEF PacketsInv, PacketsWellFormed
<1>4. packing \in [Packer -> Request]
  BY <1>3 DEF PacketsTypeOK, Request
<1>5. packing' \in [Packer -> Request]
  BY <1>1, <1>4
<1>6. PacketsTypeOK'
  BY <1>1, <1>3, <1>5 DEF PacketsTypeOK, Request
<1>7. RequestsHold'
  BY <1>1, <1>2, <1>3, <1>4 DEF RequestsHold
<1>8. PacketsNameTheirDecision' /\ PacketsPrecede'
  BY <1>1, <1>2, <1>3 DEF PacketsNameTheirDecision, PacketsPrecede
<1>9. QED
  BY <1>1, <1>2, <1>6, <1>7, <1>8 DEF PacketsInv, PacketsWellFormed

LEMMA ReadCandidateKeeps ==
  ASSUME PacketsInv, NEW p \in Packer, NEW t \in DOMAIN db.thread, ReadCandidate(p, t)
  PROVE  PacketsInv' /\ packets' = packets
<1> DEFINE what == [at |-> "thread", thread |-> t, version |-> db.thread[t].version,
                    snapshot |-> db.thread[t].current]
<1>1. db \in DbType /\ CurrentIsNewest(db)
  BY DEF PacketsInv, ThreadsInv, TypeOK, Sound
<1>2. t \in Nat /\ db.thread[t].version \in Nat /\ db.thread[t].current \in Nat
  BY <1>1, DbParts DEF ThreadType
<1>3. db.thread[t].current \in DOMAIN db.snap
  BY <1>1 DEF CurrentIsNewest, SnapshotsOf
<1>4. what \in Request
  BY <1>2 DEF Request
<1>5. what.thread \in DOMAIN db.thread /\ what.snapshot \in DOMAIN db.snap
  BY <1>3
<1>6. Goes(p, what)
  BY DEF ReadCandidate
<1> HIDE DEF what
<1>7. QED
  BY <1>4, <1>5, <1>6, GoesKeeps

\* What a request holds, field by field.
LEMMA RequestParts ==
  ASSUME PacketsInv, NEW p \in Packer, packing[p].at # "idle"
  PROVE  /\ packing[p].thread \in DOMAIN db.thread /\ packing[p].snapshot \in DOMAIN db.snap
         /\ packing[p].thread \in Nat /\ packing[p].version \in Nat /\ packing[p].snapshot \in Nat
         /\ packing[p].at = "generated" => packing[p].source \in SourceType
<1>1. packing[p] \in Request /\ RequestsHold
  BY DEF PacketsInv, PacketsWellFormed, PacketsTypeOK, Request
<1>2. packing[p] # Waiting
  BY DEF Waiting
<1>3. QED
  BY <1>1, <1>2 DEF Request, RequestsHold

LEMMA ReadSourceKeeps ==
  ASSUME PacketsInv, NEW p \in Packer, ReadSource(p)
  PROVE  PacketsInv' /\ packets' = packets
<1> DEFINE r == packing[p]
           source == SourceOf(r.thread, r.version, Candidate, r.snapshot)
           what == [at |-> "generated", thread |-> r.thread, version |-> r.version,
                    snapshot |-> r.snapshot, source |-> source]
<1>1. r.at = "thread" /\ Admissible(EvidenceOf(r.snapshot)) /\ Goes(p, what)
  BY DEF ReadSource
<1>2. /\ r.thread \in DOMAIN db.thread /\ r.snapshot \in DOMAIN db.snap
      /\ r.thread \in Nat /\ r.version \in Nat /\ r.snapshot \in Nat
  BY <1>1, RequestParts
<1>3. db \in DbType /\ PacketsTypeOK
  BY DEF PacketsInv, PacketsWellFormed, ThreadsInv, TypeOK
<1>4. Candidate \in Decision
  BY PacketAssumption
<1>5. source \in SourceType
  BY <1>1, <1>2, <1>3, <1>4, SourceTyped
<1> HIDE DEF source
<1>6. what \in Request
  BY <1>2, <1>5 DEF Request
<1>7. what.thread \in DOMAIN db.thread /\ what.snapshot \in DOMAIN db.snap
  BY <1>2
<1> HIDE DEF what
<1>8. QED
  BY <1>1, <1>6, <1>7, GoesKeeps

LEMMA RefuseKeeps ==
  ASSUME PacketsInv, NEW p \in Packer, Refuse(p)
  PROVE  PacketsInv' /\ packets' = packets
<1>1. Goes(p, Waiting) /\ Waiting \in Request /\ Waiting.at = "idle"
  BY DEF Refuse, Request, Waiting
<1>2. QED
  BY <1>1, GoesKeeps

\* What a request that is stored holds is still so.
LEMMA StoredIsTrue ==
  ASSUME PacketsInv, NEW p \in Packer, packing[p].at = "generated", StillTrue(packing[p])
  PROVE  /\ packing[p].thread \in DOMAIN db.thread /\ packing[p].source \in SourceType
         /\ packing[p].snapshot = db.thread[packing[p].thread].current
         /\ packing[p].snapshot \in SnapshotsOf(db, packing[p].thread)
         /\ db.thread[packing[p].thread].state = Candidate
         /\ packing[p].source = SourceOf(packing[p].thread, db.thread[packing[p].thread].version,
                                         Candidate, packing[p].snapshot)
         /\ Admissible(EvidenceOf(packing[p].snapshot))
         /\ Packet(packing[p].thread, packing[p].snapshot, packing[p].source) \in PacketType
<1> DEFINE r == packing[p]
<1>1. /\ r.thread \in DOMAIN db.thread /\ r.snapshot \in DOMAIN db.snap
      /\ r.thread \in Nat /\ r.version \in Nat /\ r.snapshot \in Nat /\ r.source \in SourceType
  BY RequestParts
<1>2. CurrentIsNewest(db)
  BY DEF PacketsInv, ThreadsInv, Sound
<1>3. /\ db.thread[r.thread].state = Candidate /\ db.thread[r.thread].current = r.snapshot
      /\ Admissible(EvidenceOf(r.snapshot))
      /\ r.source = SourceOf(r.thread, db.thread[r.thread].version, Candidate, r.snapshot)
  BY DEF StillTrue
<1>4. r.snapshot \in SnapshotsOf(db, r.thread)
  BY <1>1, <1>2, <1>3 DEF CurrentIsNewest
<1>5. Packet(r.thread, r.snapshot, r.source) \in PacketType
  BY <1>1 DEF Packet, PacketType
<1>6. QED
  BY <1>1, <1>3, <1>4, <1>5

\* The decision of a candidate is its latest decision event.
LEMMA CandidateDecided ==
  ASSUME PacketsInv, NEW t \in DOMAIN db.thread, db.thread[t].state = Candidate
  PROVE  LET d == DecisionEvent(t, Candidate)
         IN  /\ d \in DecisionsOf(db, t) /\ db.event[d].next = Candidate
             /\ db.event[d].version < db.thread[t].version
             /\ \A i \in DecisionsOf(db, t) : i <= d
<1> DEFINE D == DecisionsOf(db, t)
           S == {i \in D : db.event[i].next = Candidate}
           d == DecisionEvent(t, Candidate)
           m == Newest(D)
<1>1. db \in DbType /\ DecisionsStand(db)
  BY DEF PacketsInv, ThreadsInv, TypeOK
<1>2. D # {}
  BY <1>1, PacketAssumption DEF DecisionsStand
<1>3. Len(db.event) \in Nat /\ D \in SUBSET (1 .. Len(db.event))
  <2>1. db.event \in Seq(EventType)
    BY <1>1, DbParts
  <2>2. Len(db.event) \in Nat /\ DOMAIN db.event = 1 .. Len(db.event)
    BY <2>1
  <2>3. D \subseteq DOMAIN db.event
    BY DEF DecisionsOf
  <2>4. QED
    BY <2>2, <2>3
<1>4. \A i \in D : i \in Nat
  BY <1>3
<1> HIDE DEF D
<1>5. m \in D /\ \A u \in D : u <= m
  BY <1>2, <1>3, NewestIn, Zenon
<1> HIDE DEF m
<1>6. db.event[m].next = Candidate
  BY <1>1, <1>5 DEF DecisionsStand, D
<1>7. S # {}
  BY <1>5, <1>6
<1>8. S # {} => d \in S /\ \A j \in S : j <= d
  BY <1>1, DecisionEventIs, Zenon DEF D
<1> HIDE DEF d
<1>9. d \in D /\ db.event[d].next = Candidate /\ m <= d /\ d <= m
  BY <1>5, <1>6, <1>7, <1>8
<1>10. d = m
  BY <1>4, <1>5, <1>9
<1>11. db.event[d].version < db.thread[t].version
  BY <1>1, <1>9 DEF DecisionsStand, D
<1>12. QED
  BY <1>5, <1>9, <1>10, <1>11 DEF D, d

LEMMA StoreKeeps ==
  ASSUME PacketsInv, NEW p \in Packer, Store(p)
  PROVE  PacketsInv'
<1> DEFINE r == packing[p]
           t == packing[p].thread
           x == Packet(r.thread, r.snapshot, r.source)
           d == DecisionEvent(t, Candidate)
           k0 == Len(packets) + 1
<1>1. /\ r.at = "generated" /\ StillTrue(r) /\ UNCHANGED vars /\ labels' = labels
      /\ packets' = Append(packets, x) /\ packing' = [packing EXCEPT ![p] = Waiting]
  BY DEF Store
<1>2. /\ t \in DOMAIN db.thread /\ r.source \in SourceType /\ x \in PacketType
      /\ db.thread[t].state = Candidate
      /\ r.source = SourceOf(t, db.thread[t].version, Candidate, r.snapshot)
  BY <1>1, StoredIsTrue
<1>3. ThreadsInv' /\ DecisionsStand(db)' /\ db' = db /\ db \in DbType /\ Ahead(db, db')
  BY <1>1, ThreadsStay
<1>4. PacketsTypeOK /\ PacketsNameTheirDecision /\ PacketsPrecede /\ RequestsHold
  BY DEF PacketsInv, PacketsWellFormed
<1>5. /\ d \in DecisionsOf(db, t) /\ db.event[d].next = Candidate
      /\ db.event[d].version < db.thread[t].version
      /\ \A i \in DecisionsOf(db, t) : i <= d
  BY <1>2, CandidateDecided
<1>6. x.thread = t /\ x.source.version = db.thread[t].version /\ x.source.decision = d
  BY <1>2 DEF Packet, SourceOf
<1>7. packets \in Seq(PacketType) /\ packing \in [Packer -> Request]
  BY <1>4 DEF PacketsTypeOK, Request
<1> HIDE DEF x
<1>8. /\ packets' \in Seq(PacketType) /\ DOMAIN packets' = DOMAIN packets \cup {k0}
      /\ packets'[k0] = x /\ \A k \in DOMAIN packets : packets'[k] = packets[k]
  BY <1>1, <1>2, <1>7
<1>9. packing' \in [Packer -> Request]
  BY <1>1, <1>7 DEF Request
<1>10. PacketsTypeOK'
  BY <1>1, <1>4, <1>8, <1>9 DEF PacketsTypeOK, Request
<1>11. RequestsHold'
  BY <1>1, <1>3, <1>4, <1>7 DEF RequestsHold, Waiting
<1> HIDE DEF k0, d
<1>12. \A i \in DOMAIN db.event : i \in Nat /\ db.event[i].version \in Nat
  BY <1>3, DbParts DEF EventType
<1>13. db.thread[t].version \in Nat
  BY <1>2, <1>3, Versions
<1>14. PacketsPrecede'
  BY <1>2, <1>3, <1>4, <1>6, <1>8, <1>13 DEF PacketsPrecede
<1>15. d \in DOMAIN db.event /\ db.event[d].type = "decision_changed" /\ db.event[d].thread = t
  BY <1>5 DEF DecisionsOf
<1>16. \A i \in DOMAIN db.event :
         ~(i > d /\ db.event[i].type = "decision_changed" /\ db.event[i].thread = t)
  BY <1>5, <1>12, <1>15 DEF DecisionsOf
<1>17. PacketsNameTheirDecision'
  <2> SUFFICES ASSUME NEW k \in DOMAIN packets'
               PROVE  /\ packets'[k].source.decision \in DOMAIN db.event
                      /\ db.event[packets'[k].source.decision].type = "decision_changed"
                      /\ db.event[packets'[k].source.decision].thread = packets'[k].thread
                      /\ db.event[packets'[k].source.decision].next = Candidate
                      /\ db.event[packets'[k].source.decision].version
                           < packets'[k].source.version
                      /\ \A i \in DOMAIN db.event :
                           (i > packets'[k].source.decision
                              /\ db.event[i].type = "decision_changed"
                              /\ db.event[i].thread = packets'[k].thread)
                           => db.event[i].version >= packets'[k].source.version
    BY <1>3 DEF PacketsNameTheirDecision
  <2>1. CASE k = k0
    <3>1. packets'[k].source.decision = d /\ packets'[k].thread = t
          /\ packets'[k].source.version = db.thread[t].version
      BY <1>6, <1>8, <2>1
    <3>2. QED
      BY <1>5, <1>15, <1>16, <3>1
  <2>2. CASE k \in DOMAIN packets
    BY <1>4, <1>8, <2>2 DEF PacketsNameTheirDecision
  <2>3. QED
    BY <1>8, <2>1, <2>2
<1>18. QED
  BY <1>3, <1>10, <1>11, <1>14, <1>17 DEF PacketsInv, PacketsWellFormed

LEMMA StepPackets == PacketsInv /\ [PacketsNext]_packetVars => PacketsInv'
<1> SUFFICES ASSUME PacketsInv, [PacketsNext]_packetVars PROVE PacketsInv'
  OBVIOUS
<1>1. CASE Next /\ UNCHANGED <<labels, packets, packing>>
  BY <1>1, ThreadsMove
<1>2. CASE UNCHANGED packetVars
  BY <1>2, ThreadsMove DEF packetVars
<1>3. ASSUME NEW i \in Item, NEW actor \in Actors, NEW label \in Labels,
             AppendLabel(i, actor, label)
      PROVE  PacketsInv'
  BY <1>3, LabelKeeps
<1>4. ASSUME NEW p \in Packer,
             \/ \E t \in DOMAIN db.thread : ReadCandidate(p, t)
             \/ ReadSource(p) \/ Store(p) \/ Refuse(p)
      PROVE  PacketsInv'
  BY <1>4, ReadCandidateKeeps, ReadSourceKeeps, StoreKeeps, RefuseKeeps
<1>5. QED
  BY <1>1, <1>2, <1>3, <1>4 DEF PacketsNext

\* PacketsInv holds in every reachable state.
LEMMA PacketsAlways == PacketsSpec => []PacketsInv
<1>1. QED
  BY InitPackets, StepPackets, PTL DEF PacketsSpec

\* Every stored packet is whole and names the decision it was built on: one of
\* its own thread, for the candidate state, taken on an earlier version than the
\* packet's, with no decision after it before the packet was stored
\* (build_packets/service.py packet_source_snapshot, api/routes.py
\* create_build_packet).
THEOREM PacketsStayWellFormed == PacketsSpec => []PacketsWellFormed
<1>1. PacketsInv => PacketsWellFormed
  BY DEF PacketsInv
<1>2. QED
  BY <1>1, PacketsAlways, PTL

(* ---- the promise ----------------------------------------------------------- *)
\* What is stored is what the thread would get at that very moment.
LEMMA StoreCreates ==
  ASSUME PacketsInv, NEW p \in Packer, Store(p)
  PROVE  Atomic!Create
<1> DEFINE r == packing[p]
           t == packing[p].thread
           x == Packet(r.thread, r.snapshot, r.source)
<1>1. r.at = "generated" /\ StillTrue(r) /\ db' = db /\ labels' = labels
      /\ packets' = Append(packets, x)
  BY DEF Store, vars
<1>2. /\ t \in DOMAIN db.thread /\ x \in PacketType
      /\ r.snapshot = db.thread[t].current
      /\ r.snapshot \in SnapshotsOf(db, t)
      /\ db.thread[t].state = Candidate
      /\ r.source = SourceOf(t, db.thread[t].version, Candidate, r.snapshot)
      /\ Admissible(EvidenceOf(r.snapshot))
  BY <1>1, StoredIsTrue
<1>3. Eligible(t)
  <2>1. db.snap[r.snapshot].thread = t
    BY <1>2 DEF SnapshotsOf
  <2>2. Readiness(EvidenceOf(r.snapshot)) # "weak" /\ ~UnresolvedRisk(EvidenceOf(r.snapshot))
    BY <1>2 DEF Admissible
  <2>3. QED
    BY <1>2, <2>1, <2>2 DEF Eligible
<1>4. t \in DOMAIN Offer /\ Offer[t] = x
  BY <1>2, <1>3 DEF Offer
<1>5. x # NotEligible
  BY <1>2, NotEligibleAssumption
<1>6. Offer' = Offer
  BY <1>1 DEF Offer, Eligible, EvidenceOf, Readiness, UnresolvedRisk, SourceOf, ReviewOf,
              DecisionEvent, PassedChecks, Reviewed, LabelBy, LatestBy, VersionsBy
<1> HIDE DEF x, t
<1>7. QED
  BY <1>1, <1>4, <1>5, <1>6 DEF Atomic!Create

LEMMA StepAtomic == PacketsInv /\ [PacketsNext]_packetVars => [Atomic!Next]_<<Offer, packets>>
<1> SUFFICES ASSUME PacketsInv, [PacketsNext]_packetVars PROVE Atomic!Next
  OBVIOUS
<1>1. CASE packets' = packets
  BY <1>1 DEF Atomic!Next, Atomic!Change
<1>2. CASE \E p \in Packer : Store(p)
  BY <1>2, StoreCreates DEF Atomic!Next
<1>3. packets' = packets \/ \E p \in Packer : Store(p)
  BY DEF PacketsNext, packetVars, AppendLabel, ReadCandidate, ReadSource, Refuse, Goes
<1>4. QED
  BY <1>1, <1>2, <1>3

\* However long the generation took and whatever runs, decisions, corrections,
\* clones and labels came meanwhile, a packet that is stored is the picture of
\* an eligible thread at the moment it is stored (api/routes.py
\* create_build_packet: everything is read again under both locks).
THEOREM PacketsAreAtomic == PacketsSpec => ImplementsAtomicPackets
<1>1. PacketsInit => Atomic!Init
  BY DEF PacketsInit, Atomic!Init
<1>2. QED
  BY <1>1, PacketsAlways, StepAtomic, PTL DEF PacketsSpec, ImplementsAtomicPackets, Atomic!Spec
=============================================================================
