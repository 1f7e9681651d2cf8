--------------------- MODULE OpportunityThreads_proofs ---------------------
(***************************************************************************)
(* For any number of runs, callers, pieces of evidence and projects, and   *)
(* with no bound on the threads, snapshots and events they make: what the  *)
(* persistence of runs, the decisions of operators, their corrections and  *)
(* their clones keep true of the threads.                                  *)
(*                                                                         *)
(* The invariant is ThreadsInv: the database is sound; so is the one the   *)
(* run being persisted sees, which has gone on from it by adding to it;    *)
(* and what a caller has read was true.  Each operation is shown to keep   *)
(* one database sound, then to keep the rest.                              *)
(***************************************************************************)
EXTENDS OpportunityThreads, FiniteSetTheorems, WellFoundedInduction, TLAPS

(* ---- sequences and records ------------------------------------------------ *)
\* Names for updates that the provers would otherwise take apart.
Showing(q, t, n) == [q EXCEPT ![t].current = n]
Settled(k, next) == [k EXCEPT !.state = next, !.version = @ + 1]
FallenBack(k, n) == [k EXCEPT !.current = n, !.version = @ + 1]
Adding(d, x, n) == [d EXCEPT !.snap = Append(@, x), !.thread[x.thread].current = n]

LEMMA Appended ==
  ASSUME NEW S, NEW q \in Seq(S), NEW x \in S, NEW n, n = Len(q) + 1
  PROVE  /\ Append(q, x) \in Seq(S)
         /\ n \in Nat \ {0} /\ n \notin DOMAIN q
         /\ DOMAIN Append(q, x) = DOMAIN q \cup {n}
         /\ Append(q, x)[n] = x
         /\ \A i \in DOMAIN q : i \in Nat \ {0} /\ i < n /\ q[i] \in S /\ Append(q, x)[i] = q[i]
  OBVIOUS

LEMMA Replaced ==
  ASSUME NEW S, NEW q \in Seq(S), NEW i \in DOMAIN q, NEW x \in S, NEW w, w = [q EXCEPT ![i] = x]
  PROVE  /\ w \in Seq(S) /\ DOMAIN w = DOMAIN q /\ Len(w) = Len(q) /\ w[i] = x
         /\ \A j \in DOMAIN q \ {i} : w[j] = q[j]
  OBVIOUS

LEMMA ThreadShown ==
  ASSUME NEW q \in Seq(ThreadType), NEW t \in DOMAIN q, NEW n \in Nat \ {0}
  PROVE  /\ Showing(q, t, n) \in Seq(ThreadType) /\ DOMAIN Showing(q, t, n) = DOMAIN q
         /\ Showing(q, t, n)[t].current = n /\ Showing(q, t, n)[t].project = q[t].project
         /\ Showing(q, t, n)[t].state = q[t].state /\ Showing(q, t, n)[t].version = q[t].version
         /\ \A u \in DOMAIN q \ {t} : Showing(q, t, n)[u] = q[u]
<1> DEFINE w == Showing(q, t, n)
<1>1. q[t] \in ThreadType
  OBVIOUS
<1>2. PICK y : y = [q[t] EXCEPT !.current = n]
  OBVIOUS
<1>3. /\ y \in ThreadType /\ y.current = n /\ y.project = q[t].project
      /\ y.state = q[t].state /\ y.version = q[t].version
  BY <1>1, <1>2 DEF ThreadType
<1>4. w = [q EXCEPT ![t] = y]
  BY <1>2 DEF Showing
<1> HIDE DEF w
<1>5. /\ w \in Seq(ThreadType) /\ DOMAIN w = DOMAIN q /\ w[t] = y
      /\ \A u \in DOMAIN q \ {t} : w[u] = q[u]
  BY <1>3, <1>4, Replaced
<1>6. QED
  BY <1>3, <1>5 DEF w

LEMMA ThreadSettled ==
  ASSUME NEW k \in ThreadType, NEW next \in Decision
  PROVE  /\ Settled(k, next) \in ThreadType
         /\ Settled(k, next).state = next /\ Settled(k, next).version = k.version + 1
         /\ Settled(k, next).project = k.project /\ Settled(k, next).current = k.current
<1>1. PICK y : y = Settled(k, next)
  OBVIOUS
<1>2. y = [project |-> k.project, current |-> k.current, state |-> next, version |-> k.version + 1]
  BY <1>1 DEF ThreadType, Settled
<1>3. k.version + 1 \in Nat \ {0} /\ k.project \in Projects /\ k.current \in Nat \ {0}
  BY DEF ThreadType
<1>4. y \in ThreadType
  BY <1>2, <1>3 DEF ThreadType
<1>5. QED
  BY <1>1, <1>2, <1>4

LEMMA ThreadFellBack ==
  ASSUME NEW k \in ThreadType, NEW n \in Nat \ {0}
  PROVE  /\ FallenBack(k, n) \in ThreadType
         /\ FallenBack(k, n).current = n /\ FallenBack(k, n).version = k.version + 1
         /\ FallenBack(k, n).project = k.project /\ FallenBack(k, n).state = k.state
<1>1. PICK y : y = FallenBack(k, n)
  OBVIOUS
<1>2. y = [project |-> k.project, current |-> n, state |-> k.state, version |-> k.version + 1]
  BY <1>1 DEF ThreadType, FallenBack
<1>3. k.version + 1 \in Nat \ {0} /\ k.project \in Projects /\ k.state \in Decision
  BY DEF ThreadType
<1>4. y \in ThreadType
  BY <1>2, <1>3 DEF ThreadType
<1>5. QED
  BY <1>1, <1>2, <1>4

LEMMA SnapshotKept ==
  ASSUME NEW k \in SnapshotType, NEW next \in Decision, NEW f, f = [k EXCEPT !.state = next]
  PROVE  /\ f \in SnapshotType
         /\ f.thread = k.thread /\ f.run = k.run /\ f.evidence = k.evidence
         /\ f.method = k.method /\ f.source = k.source
  BY DEF SnapshotType

LEMMA DbParts ==
  ASSUME NEW d \in DbType
  PROVE  /\ d.snap \in Seq(SnapshotType) /\ d.thread \in Seq(ThreadType) /\ d.event \in Seq(EventType)
         /\ NewSnapshot(d) \in Nat \ {0} /\ NewSnapshot(d) \notin DOMAIN d.snap
         /\ NewThread(d) \in Nat \ {0} /\ NewThread(d) \notin DOMAIN d.thread
         /\ \A s \in DOMAIN d.snap :
              s \in Nat \ {0} /\ s < NewSnapshot(d) /\ d.snap[s] \in SnapshotType
         /\ \A t \in DOMAIN d.thread : t \in Nat \ {0} /\ d.thread[t] \in ThreadType
         /\ \A i \in DOMAIN d.event :
              i \in Nat \ {0} /\ i < Len(d.event) + 1 /\ d.event[i] \in EventType
  BY DEF DbType, NewSnapshot, NewThread

(* ---- what each operation does to the database ----------------------------- *)
\* Thread t of d is in e as it was, except for the snapshot it shows.
Same(d, e, t) ==
    /\ e.thread[t].project = d.thread[t].project
    /\ e.thread[t].state = d.thread[t].state
    /\ e.thread[t].version = d.thread[t].version

\* e is d with snapshot x added, and shown by its thread.
Adds(d, e, x) ==
    /\ DOMAIN e.snap = DOMAIN d.snap \cup {NewSnapshot(d)}
    /\ e.snap[NewSnapshot(d)] = x
    /\ \A s \in DOMAIN d.snap : e.snap[s] = d.snap[s]
    /\ e.event = d.event
    /\ \A t \in DOMAIN d.thread :
         /\ t \in DOMAIN e.thread /\ Same(d, e, t)
         /\ e.thread[t].current = IF t = x.thread THEN NewSnapshot(d) ELSE d.thread[t].current

LEMMA AddingAdds ==
  ASSUME NEW d \in DbType, NEW x \in SnapshotType, x.thread \in DOMAIN d.thread,
         NEW f, f = Adding(d, x, NewSnapshot(d))
  PROVE  f \in DbType /\ Adds(d, f, x) /\ DOMAIN f.thread = DOMAIN d.thread
<1> DEFINE t == x.thread
           n == NewSnapshot(d)
<1>1. /\ d.snap \in Seq(SnapshotType) /\ d.thread \in Seq(ThreadType) /\ d.event \in Seq(EventType)
      /\ t \in Nat \ {0} /\ n \in Nat \ {0}
  BY DbParts
<1>2. /\ f.snap = Append(d.snap, x) /\ f.event = d.event
      /\ f = [snap |-> f.snap, thread |-> f.thread, event |-> f.event]
      /\ f.thread = Showing(d.thread, t, n)
  BY <1>1 DEF DbType, Showing, Adding
<1>3. /\ f.thread \in Seq(ThreadType) /\ DOMAIN f.thread = DOMAIN d.thread
      /\ f.thread[t].current = n /\ f.thread[t].project = d.thread[t].project
      /\ f.thread[t].state = d.thread[t].state /\ f.thread[t].version = d.thread[t].version
      /\ \A u \in DOMAIN d.thread \ {t} : f.thread[u] = d.thread[u]
  BY <1>1, <1>2, ThreadShown
<1>4. /\ f.snap \in Seq(SnapshotType) /\ DOMAIN f.snap = DOMAIN d.snap \cup {n} /\ f.snap[n] = x
      /\ \A s \in DOMAIN d.snap : f.snap[s] = d.snap[s]
  <2>1. f.snap = Append(d.snap, x) /\ d.snap \in Seq(SnapshotType) /\ n = Len(d.snap) + 1
    BY <1>1, <1>2 DEF NewSnapshot
  <2> HIDE DEF n
  <2>2. QED
    BY <2>1
<1>5. f \in DbType
  BY <1>1, <1>2, <1>3, <1>4 DEF DbType
<1>6. Adds(d, f, x)
  BY <1>2, <1>3, <1>4 DEF Adds, Same
<1>7. QED
  BY <1>3, <1>5, <1>6

LEMMA OpenedAdds ==
  ASSUME NEW d \in DbType, NEW r \in Run, NEW e \in Evidence, NEW m, m.method \in Methods,
         NEW f, f = Opened(d, r, e, m),
         NEW t, t = NewThread(d),
         NEW x, x = Snapshot(t, r, e, m.method, New, NoSnapshot)
  PROVE  /\ f \in DbType /\ x \in SnapshotType /\ Adds(d, f, x)
         /\ t \notin DOMAIN d.thread /\ DOMAIN f.thread = DOMAIN d.thread \cup {t}
         /\ f.thread[t] = Thread(ProjectOf[r], NewSnapshot(d))
<1> DEFINE n == NewSnapshot(d)
           y == Thread(ProjectOf[r], n)
<1>1. /\ d.snap \in Seq(SnapshotType) /\ d.thread \in Seq(ThreadType) /\ d.event \in Seq(EventType)
      /\ t \in Nat \ {0} /\ n \in Nat \ {0}
  BY DbParts
<1>2. x \in SnapshotType /\ x.thread = t
  BY <1>1, ThreadsAssumption DEF Snapshot, SnapshotType, NoSnapshot, AllMethods
<1>3. y \in ThreadType
  BY <1>1, ThreadsAssumption DEF Thread, ThreadType, Projects
<1> HIDE DEF n, y
<1>4. f = [d EXCEPT !.snap = Append(@, x), !.thread = Append(@, y)]
  BY DEF Opened, n, y
<1>5. /\ f.snap = Append(d.snap, x) /\ f.event = d.event /\ f.thread = Append(d.thread, y)
      /\ f = [snap |-> f.snap, thread |-> f.thread, event |-> f.event]
  BY <1>4 DEF DbType
<1>6. /\ f.thread \in Seq(ThreadType) /\ DOMAIN f.thread = DOMAIN d.thread \cup {t}
      /\ t \notin DOMAIN d.thread /\ f.thread[t] = y
      /\ \A u \in DOMAIN d.thread : f.thread[u] = d.thread[u]
  BY <1>1, <1>3, <1>5, Appended DEF NewThread
<1>7. f \in DbType /\ Adds(d, f, x)
  <2>1. /\ f.snap \in Seq(SnapshotType) /\ DOMAIN f.snap = DOMAIN d.snap \cup {n} /\ f.snap[n] = x
        /\ \A s \in DOMAIN d.snap : f.snap[s] = d.snap[s]
    BY <1>1, <1>2, <1>5, Appended DEF n, NewSnapshot
  <2>2. QED
    BY <2>1, <1>1, <1>2, <1>5, <1>6 DEF DbType, Adds, Same, n
<1>8. QED
  BY <1>2, <1>6, <1>7 DEF y, n

\* f is d after the decision next on thread t, taken by one who had seen a state.
Decides(d, f, t, next, seen) ==
    /\ DOMAIN f.event = DOMAIN d.event \cup {Len(d.event) + 1}
    /\ f.event[Len(d.event) + 1] =
         Event("decision_changed", t, d.thread[t].current, d.thread[t].state, next,
               d.thread[t].version, seen)
    /\ \A i \in DOMAIN d.event : f.event[i] = d.event[i]
    /\ DOMAIN f.thread = DOMAIN d.thread /\ DOMAIN f.snap = DOMAIN d.snap
    /\ f.thread[t].state = next /\ f.thread[t].version = d.thread[t].version + 1
    /\ f.thread[t].project = d.thread[t].project /\ f.thread[t].current = d.thread[t].current
    /\ \A u \in DOMAIN d.thread \ {t} : f.thread[u] = d.thread[u]
    /\ \A s \in DOMAIN d.snap :
         /\ f.snap[s].thread = d.snap[s].thread /\ f.snap[s].run = d.snap[s].run
         /\ f.snap[s].evidence = d.snap[s].evidence

LEMMA DecidedDecides ==
  ASSUME NEW d \in DbType, NEW t \in DOMAIN d.thread, NEW next \in Decision, NEW seen \in Decision,
         NEW f, f = Decided(d, t, next, seen)
  PROVE  f \in DbType /\ Decides(d, f, t, next, seen)
<1> DEFINE ev == Event("decision_changed", t, d.thread[t].current, d.thread[t].state, next,
                       d.thread[t].version, seen)
<1>1. /\ d.snap \in Seq(SnapshotType) /\ d.thread \in Seq(ThreadType) /\ d.event \in Seq(EventType)
      /\ t \in Nat \ {0} /\ d.thread[t] \in ThreadType
  BY DbParts
<1>2. ev \in EventType
  BY <1>1 DEF Event, EventType, ThreadType
<1>3. f = [d EXCEPT !.event = Append(@, ev),
                    !.thread[t].state = next,
                    !.thread[t].version = @ + 1,
                    !.snap = [s \in DOMAIN @ |->
                      IF @[s].thread = t THEN [@[s] EXCEPT !.state = next] ELSE @[s]]]
  BY DEF Decided
<1> HIDE DEF ev
<1>4. /\ f.event = Append(d.event, ev)
      /\ f = [snap |-> f.snap, thread |-> f.thread, event |-> f.event]
  BY <1>3 DEF DbType
<1>5. f.snap = [s \in DOMAIN d.snap |->
                  IF d.snap[s].thread = t THEN [d.snap[s] EXCEPT !.state = next] ELSE d.snap[s]]
  BY <1>3 DEF DbType
<1>6. f.thread = [d.thread EXCEPT ![t].state = next, ![t].version = @ + 1]
  BY <1>3 DEF DbType
<1>7. f.thread = [d.thread EXCEPT ![t] = Settled(d.thread[t], next)]
  BY <1>6, <1>1 DEF ThreadType, Settled
<1>8. PICK y : y = Settled(d.thread[t], next)
  OBVIOUS
<1>9. /\ y \in ThreadType /\ y.state = next /\ y.version = d.thread[t].version + 1
      /\ y.project = d.thread[t].project /\ y.current = d.thread[t].current
  BY <1>1, <1>8, ThreadSettled
<1>10. /\ f.thread \in Seq(ThreadType) /\ DOMAIN f.thread = DOMAIN d.thread /\ f.thread[t] = y
       /\ \A u \in DOMAIN d.thread \ {t} : f.thread[u] = d.thread[u]
  BY <1>1, <1>7, <1>8, <1>9, Replaced
<1>11. /\ f.snap \in Seq(SnapshotType) /\ DOMAIN f.snap = DOMAIN d.snap
       /\ \A s \in DOMAIN d.snap :
              /\ f.snap[s].thread = d.snap[s].thread /\ f.snap[s].run = d.snap[s].run
              /\ f.snap[s].evidence = d.snap[s].evidence
  <2>1. ASSUME NEW s \in DOMAIN d.snap
        PROVE  /\ f.snap[s] \in SnapshotType
               /\ f.snap[s].thread = d.snap[s].thread /\ f.snap[s].run = d.snap[s].run
               /\ f.snap[s].evidence = d.snap[s].evidence
    <3>1. d.snap[s] \in SnapshotType
      BY DbParts
    <3>2. CASE d.snap[s].thread = t
      BY <3>1, <3>2, <1>5, SnapshotKept
    <3>3. CASE d.snap[s].thread # t
      BY <3>1, <3>3, <1>5
    <3>4. QED
      BY <3>2, <3>3
  <2>2. DOMAIN f.snap = 1 .. Len(d.snap) /\ Len(d.snap) \in Nat /\ DOMAIN d.snap = 1 .. Len(d.snap)
    BY <1>1, <1>5
  <2>3. f.snap \in [1 .. Len(d.snap) -> SnapshotType]
    BY <2>1, <2>2, <1>5
  <2>4. QED
    BY <2>1, <2>2, <2>3
<1>12. /\ f.event \in Seq(EventType) /\ DOMAIN f.event = DOMAIN d.event \cup {Len(d.event) + 1}
       /\ f.event[Len(d.event) + 1] = ev
       /\ \A i \in DOMAIN d.event : f.event[i] = d.event[i]
  BY <1>1, <1>2, <1>4, Appended
<1>13. f \in DbType
  BY <1>4, <1>10, <1>11, <1>12 DEF DbType
<1>14. QED
  BY <1>9, <1>10, <1>11, <1>12, <1>13 DEF Decides, ev

\* f is d after snapshot s of thread t was moved to a thread of its own; t shows n.
Detaches(d, f, t, s, seen, n) ==
    /\ DOMAIN f.event = DOMAIN d.event \cup {Len(d.event) + 1, Len(d.event) + 2}
    /\ f.event[Len(d.event) + 1] =
         Event("snapshot_detached", t, s, d.thread[t].state, d.thread[t].state,
               d.thread[t].version, seen)
    /\ f.event[Len(d.event) + 2] =
         Event("thread_created_by_detach", NewThread(d), s, New, New, 0, New)
    /\ \A i \in DOMAIN d.event : f.event[i] = d.event[i]
    /\ DOMAIN f.thread = DOMAIN d.thread \cup {NewThread(d)} /\ DOMAIN f.snap = DOMAIN d.snap
    /\ f.thread[t].state = d.thread[t].state /\ f.thread[t].version = d.thread[t].version + 1
    /\ f.thread[t].project = d.thread[t].project /\ f.thread[t].current = n
    /\ f.thread[NewThread(d)] = Thread(d.thread[t].project, s)
    /\ \A v \in DOMAIN d.thread \ {t} : f.thread[v] = d.thread[v]
    /\ f.snap[s].thread = NewThread(d)
    /\ f.snap[s].run = d.snap[s].run /\ f.snap[s].evidence = d.snap[s].evidence
    /\ \A v \in DOMAIN d.snap \ {s} : f.snap[v] = d.snap[v]

LEMMA DetachedDetaches ==
  ASSUME NEW d \in DbType, NEW t \in DOMAIN d.thread, NEW s \in DOMAIN d.snap, NEW seen \in Decision,
         NEW n, n = Fallback(d, t, s), n \in Nat \ {0},
         NEW f, f = Detached(d, t, s, seen)
  PROVE  f \in DbType /\ Detaches(d, f, t, s, seen, n)
<1> DEFINE u == NewThread(d)
           ev == Event("snapshot_detached", t, s, d.thread[t].state, d.thread[t].state,
                       d.thread[t].version, seen)
           ew == Event("thread_created_by_detach", u, s, New, New, 0, New)
<1>1. /\ d.snap \in Seq(SnapshotType) /\ d.thread \in Seq(ThreadType) /\ d.event \in Seq(EventType)
      /\ t \in Nat \ {0} /\ d.thread[t] \in ThreadType /\ d.snap[s] \in SnapshotType
      /\ s \in Nat \ {0} /\ u \in Nat \ {0}
  BY DbParts
<1>2. ev \in EventType /\ ew \in EventType
  BY <1>1, ThreadsAssumption DEF Event, EventType, ThreadType
<1>3. PICK y : y = Thread(d.thread[t].project, s)
  OBVIOUS
<1>4. y \in ThreadType
  BY <1>1, <1>3, ThreadsAssumption DEF Thread, ThreadType
<1>5. PICK g : g = Moved(d, t, s)
  OBVIOUS
<1>6. g = [d EXCEPT !.thread = Append(@, y), !.snap[s].thread = u, !.snap[s].state = New]
  BY <1>3, <1>5 DEF Moved
<1>7. /\ g.event = d.event /\ g.thread = Append(d.thread, y)
      /\ g.snap = [d.snap EXCEPT ![s].thread = u, ![s].state = New]
      /\ g = [snap |-> g.snap, thread |-> g.thread, event |-> g.event]
  BY <1>6 DEF DbType
<1>8. g.snap = [d.snap EXCEPT ![s] = [d.snap[s] EXCEPT !.thread = u, !.state = New]]
  BY <1>7, <1>1 DEF SnapshotType
<1>9. PICK x : x = [d.snap[s] EXCEPT !.thread = u, !.state = New]
  OBVIOUS
<1>10. x \in SnapshotType /\ x.thread = u /\ x.run = d.snap[s].run /\ x.evidence = d.snap[s].evidence
  BY <1>1, <1>9, ThreadsAssumption DEF SnapshotType
<1>11. g.snap = [d.snap EXCEPT ![s] = x]
  BY <1>8, <1>9
<1>12. f = [g EXCEPT !.thread[t].current = n, !.thread[t].version = @ + 1,
                     !.event = Append(Append(@, ev), ew)]
  BY <1>5 DEF Detached, Correction, Creation
<1> HIDE DEF ev, ew, u
<1>14. /\ f.snap = g.snap /\ f.event = Append(Append(g.event, ev), ew)
       /\ f.thread = [g.thread EXCEPT ![t].current = n, ![t].version = @ + 1]
       /\ f = [snap |-> f.snap, thread |-> f.thread, event |-> f.event]
  BY <1>7, <1>12
<1>15. /\ f.event \in Seq(EventType)
       /\ DOMAIN f.event = DOMAIN d.event \cup {Len(d.event) + 1, Len(d.event) + 2}
       /\ f.event[Len(d.event) + 1] = ev /\ f.event[Len(d.event) + 2] = ew
       /\ \A i \in DOMAIN d.event : f.event[i] = d.event[i]
  <2>1. f.event = Append(Append(d.event, ev), ew)
    BY <1>7, <1>14
  <2>2. d.event \in Seq(EventType) /\ ev \in EventType /\ ew \in EventType
    BY <1>1, <1>2
  <2>3. QED
    BY <2>1, <2>2
<1>16. /\ g.thread \in Seq(ThreadType) /\ DOMAIN g.thread = DOMAIN d.thread \cup {u}
       /\ u \notin DOMAIN d.thread /\ g.thread[u] = y
       /\ \A v \in DOMAIN d.thread : g.thread[v] = d.thread[v]
  BY <1>1, <1>4, <1>7, Appended DEF NewThread, u
<1>17. f.thread = [g.thread EXCEPT ![t] = FallenBack(g.thread[t], n)]
  BY <1>14, <1>16, <1>1 DEF ThreadType, FallenBack
<1>18. PICK z : z = FallenBack(g.thread[t], n)
  OBVIOUS
<1>19. /\ z \in ThreadType /\ z.current = n /\ z.version = d.thread[t].version + 1
       /\ z.project = d.thread[t].project /\ z.state = d.thread[t].state
  <2>1. g.thread[t] \in ThreadType /\ g.thread[t] = d.thread[t]
    BY <1>1, <1>16
  <2>2. n \in Nat \ {0}
    OBVIOUS
  <2>3. QED
    BY <2>1, <2>2, <1>18, ThreadFellBack
<1>20. /\ f.thread \in Seq(ThreadType) /\ DOMAIN f.thread = DOMAIN g.thread /\ f.thread[t] = z
       /\ \A v \in DOMAIN g.thread \ {t} : f.thread[v] = g.thread[v]
  BY <1>16, <1>17, <1>18, <1>19, Replaced
<1>21. /\ f.snap \in Seq(SnapshotType) /\ DOMAIN f.snap = DOMAIN d.snap /\ f.snap[s] = x
       /\ \A v \in DOMAIN d.snap \ {s} : f.snap[v] = d.snap[v]
  BY <1>1, <1>10, <1>11, <1>14, Replaced
<1>22. f \in DbType
  BY <1>14, <1>15, <1>20, <1>21 DEF DbType
<1>23. QED
  BY <1>3, <1>10, <1>15, <1>16, <1>19, <1>20, <1>21, <1>22 DEF Detaches, ev, ew, u

(* ---- what keeps a database sound ------------------------------------------ *)
LEMMA ReplaysKept ==
  ASSUME NEW d, NEW f, NEW t, Replays(d, t), Changes(f, t) = Changes(d, t),
         \A i \in Changes(d, t) : f.event[i] = d.event[i],
         f.thread[t].version = d.thread[t].version, f.thread[t].state = d.thread[t].state
  PROVE  Replays(f, t)
  BY DEF Replays

\* A change accepted at the thread's version, from the thread's decision.
LEMMA ReplaysExtended ==
  ASSUME NEW d, NEW f, NEW t, Replays(d, t), NEW k \in Nat,
         Changes(d, t) \subseteq Nat, \A i \in Changes(d, t) : i < k,
         Changes(f, t) = Changes(d, t) \cup {k},
         \A i \in Changes(d, t) : f.event[i] = d.event[i] /\ d.event[i].version \in Nat,
         d.thread[t].version \in Nat,
         f.event[k].version = d.thread[t].version, f.event[k].prev = d.thread[t].state,
         f.thread[t].version = d.thread[t].version + 1, f.event[k].next = f.thread[t].state
  PROVE  Replays(f, t)
<1>1. ASSUME NEW i \in Changes(f, t), NEW j \in Changes(f, t), i < j
      PROVE  /\ i \in Changes(d, t) /\ f.event[i] = d.event[i]
             /\ j \in Changes(d, t) => f.event[j] = d.event[j]
             /\ j \notin Changes(d, t) => j = k
  <2>1. i # k
    BY <1>1
  <2>2. QED
    BY <2>1, <1>1
<1>2. \A i, j \in Changes(f, t) : i < j => f.event[i].version < f.event[j].version
  BY <1>1 DEF Replays
<1>3. \A i \in Changes(f, t) : f.event[i].version < f.thread[t].version
  <2>1. ASSUME NEW i \in Changes(d, t) PROVE f.event[i].version < f.thread[t].version
    <3>1. d.event[i].version < d.thread[t].version /\ d.event[i].version \in Nat
      BY DEF Replays
    <3>2. QED
      BY <3>1
  <2>2. f.event[k].version < f.thread[t].version
    OBVIOUS
  <2>3. QED
    BY <2>1, <2>2
<1>4. ASSUME NEW i \in Changes(f, t), NEW j \in Changes(f, t), i < j,
             \A l \in Changes(f, t) : l <= i \/ l >= j
      PROVE  f.event[i].next = f.event[j].prev
  <2>1. CASE j \in Changes(d, t)
    <3>1. \A l \in Changes(d, t) : l <= i \/ l >= j
      BY <1>4
    <3>2. d.event[i].next = d.event[j].prev
      BY <3>1, <2>1, <1>1, <1>4 DEF Replays
    <3>3. QED
      BY <3>2, <2>1, <1>1, <1>4
  <2>2. CASE j = k
    <3>1. \A l \in Changes(d, t) : l <= i
      BY <1>4, <2>2
    <3>2. d.event[i].next = d.thread[t].state
      BY <3>1, <1>1, <1>4 DEF Replays
    <3>3. QED
      BY <3>2, <2>2, <1>1, <1>4
  <2>3. QED
    BY <2>1, <2>2, <1>1, <1>4
<1>5. \A i \in Changes(f, t) :
         (\A l \in Changes(f, t) : l <= i) => f.event[i].next = f.thread[t].state
  <2>1. ASSUME NEW i \in Changes(f, t), \A l \in Changes(f, t) : l <= i PROVE i = k
    BY <2>1
  <2>2. QED
    BY <2>1
<1>6. Changes(f, t) # {}
  OBVIOUS
<1>7. QED
  BY <1>2, <1>3, <1>4, <1>5, <1>6 DEF Replays

\* A thread that has no history yet, and the decision it begins with.
LEMMA ReplaysNothing ==
  ASSUME NEW f, NEW t, Changes(f, t) = {}, f.thread[t].state = New
  PROVE  Replays(f, t)
  BY DEF Replays

LEMMA AddsSound ==
  ASSUME NEW d \in DbType, NEW f \in DbType, Sound(d), NEW x \in SnapshotType, Adds(d, f, x),
         DOMAIN f.thread = DOMAIN d.thread \cup {x.thread},
         x.thread \notin DOMAIN d.thread =>
            f.thread[x.thread].current = NewSnapshot(d) /\ f.thread[x.thread].state = New,
         x.run # NoRun => /\ f.thread[x.thread].project = ProjectOf[x.run]
                          /\ \A s \in SnapshotsOf(d, x.thread) : d.snap[s].run # x.run
  PROVE  Sound(f)
<1> DEFINE n == NewSnapshot(d)
<1>1. /\ n \in Nat \ {0} /\ n \notin DOMAIN d.snap
      /\ \A s \in DOMAIN d.snap : s \in Nat \ {0} /\ s < n
      /\ DOMAIN f.snap = DOMAIN d.snap \cup {n} /\ f.snap[n] = x
      /\ \A s \in DOMAIN d.snap : f.snap[s] = d.snap[s]
      /\ f.event = d.event
  BY DbParts DEF Adds
<1>2. \A t \in DOMAIN d.thread :
         /\ t \in DOMAIN f.thread
         /\ f.thread[t].project = d.thread[t].project
         /\ f.thread[t].state = d.thread[t].state
         /\ f.thread[t].version = d.thread[t].version
         /\ f.thread[t].current = IF t = x.thread THEN n ELSE d.thread[t].current
  BY DEF Adds, Same
<1> HIDE DEF n
<1>3. /\ \A s \in DOMAIN d.snap : d.snap[s].thread \in DOMAIN d.thread
      /\ \A i \in DOMAIN d.event :
           d.event[i].thread \in DOMAIN d.thread /\ d.event[i].snapshot \in DOMAIN d.snap
  BY DEF Sound, Filed
<1>4. Filed(f)
  BY <1>1, <1>3 DEF Filed
<1>5. CurrentIsNewest(f)
  <2>1. ASSUME NEW t \in DOMAIN f.thread
        PROVE  /\ f.thread[t].current \in SnapshotsOf(f, t)
               /\ \A s \in SnapshotsOf(f, t) : s <= f.thread[t].current
    <3>1. CASE t = x.thread
      <4>1. f.thread[t].current = n
        BY <3>1, <1>2 DEF n
      <4>2. QED
        BY <4>1, <3>1, <1>1 DEF SnapshotsOf
    <3>2. CASE t # x.thread
      <4>1. t \in DOMAIN d.thread /\ f.thread[t].current = d.thread[t].current
        BY <3>2, <1>2
      <4>2. SnapshotsOf(f, t) = SnapshotsOf(d, t)
        BY <3>2, <1>1 DEF SnapshotsOf
      <4>3. QED
        BY <4>1, <4>2 DEF Sound, CurrentIsNewest
    <3>3. QED
      BY <3>1, <3>2
  <2>2. QED
    BY <2>1 DEF CurrentIsNewest
<1>6. RunsDoNotMerge(f)
  <2>1. ASSUME NEW s \in DOMAIN f.snap, NEW u \in DOMAIN f.snap, s # u,
               f.snap[s].run # NoRun, f.snap[s].run = f.snap[u].run
        PROVE  f.snap[s].thread # f.snap[u].thread
    <3>1. CASE s \in DOMAIN d.snap /\ u \in DOMAIN d.snap
      BY <2>1, <3>1, <1>1 DEF Sound, RunsDoNotMerge
    <3>2. CASE s = n
      BY <2>1, <3>2, <1>1 DEF SnapshotsOf
    <3>3. CASE u = n
      BY <2>1, <3>3, <1>1 DEF SnapshotsOf
    <3>4. QED
      BY <3>1, <3>2, <3>3, <1>1
  <2>2. QED
    BY <2>1 DEF RunsDoNotMerge
<1>7. ProjectsDoNotMix(f)
  <2>1. ASSUME NEW s \in DOMAIN f.snap, f.snap[s].run # NoRun
        PROVE  f.thread[f.snap[s].thread].project = ProjectOf[f.snap[s].run]
    <3>1. CASE s = n
      BY <2>1, <3>1, <1>1
    <3>2. CASE s \in DOMAIN d.snap
      BY <2>1, <3>2, <1>1, <1>2, <1>3 DEF Sound, ProjectsDoNotMix
    <3>3. QED
      BY <3>1, <3>2, <1>1
  <2>2. QED
    BY <2>1 DEF ProjectsDoNotMix
<1>8. HistoryReplays(f)
  <2>1. ASSUME NEW t \in DOMAIN f.thread PROVE Replays(f, t)
    <3>1. Changes(f, t) = Changes(d, t)
      BY <1>1 DEF Changes
    <3>2. CASE t \in DOMAIN d.thread
      <4>1. Replays(d, t)
        BY <3>2 DEF Sound, HistoryReplays
      <4>2. QED
        BY <4>1, <3>1, <3>2, <1>1, <1>2, ReplaysKept
    <3>3. CASE t \notin DOMAIN d.thread
      <4>1. Changes(d, t) = {}
        BY <3>3, <1>3 DEF Changes
      <4>2. QED
        BY <4>1, <3>1, <3>3, ReplaysNothing
    <3>4. QED
      BY <3>2, <3>3
  <2>2. QED
    BY <2>1 DEF HistoryReplays
<1>9. DecidedKnowingly(f)
  BY <1>1 DEF Sound, DecidedKnowingly
<1>10. QED
  BY <1>4, <1>5, <1>6, <1>7, <1>8, <1>9 DEF Sound

LEMMA DecidedSound ==
  ASSUME NEW d \in DbType, NEW f \in DbType, Sound(d), NEW t \in DOMAIN d.thread, NEW next,
         Decides(d, f, t, next, d.thread[t].state)
  PROVE  Sound(f)
<1> DEFINE k == Len(d.event) + 1
<1>0. d.thread[t] \in ThreadType /\ t \in Nat \ {0}
  BY DbParts
<1>1. d.thread[t].version \in Nat \ {0}
  BY <1>0 DEF ThreadType
<1>2. /\ DOMAIN f.event = DOMAIN d.event \cup {k}
      /\ \A i \in DOMAIN d.event : f.event[i] = d.event[i]
      /\ DOMAIN f.thread = DOMAIN d.thread /\ DOMAIN f.snap = DOMAIN d.snap
      /\ f.thread[t].state = next /\ f.thread[t].version = d.thread[t].version + 1
      /\ f.thread[t].project = d.thread[t].project /\ f.thread[t].current = d.thread[t].current
      /\ \A u \in DOMAIN d.thread \ {t} : f.thread[u] = d.thread[u]
      /\ \A s \in DOMAIN d.snap : f.snap[s].thread = d.snap[s].thread /\ f.snap[s].run = d.snap[s].run
  BY DEF Decides
<1>3. /\ k \in Nat
      /\ \A i \in DOMAIN d.event : i \in Nat /\ i < k /\ d.event[i].version \in Nat
  BY DbParts DEF EventType
<1>4. /\ f.event[k].thread = t /\ f.event[k].version = d.thread[t].version
      /\ f.event[k].prev = d.thread[t].state /\ f.event[k].next = next
      /\ f.event[k].seen = d.thread[t].state /\ f.event[k].snapshot = d.thread[t].current
  BY DEF Decides, Event
<1> HIDE DEF k
<1>5. \A u \in DOMAIN d.thread : SnapshotsOf(f, u) = SnapshotsOf(d, u)
  BY <1>2 DEF SnapshotsOf
<1>6. d.thread[t].current \in DOMAIN d.snap
  BY DEF Sound, CurrentIsNewest, SnapshotsOf
<1>7. Filed(f)
  BY <1>2, <1>4, <1>6 DEF Sound, Filed
<1>8. CurrentIsNewest(f)
  <2>1. \A u \in DOMAIN d.thread : f.thread[u].current = d.thread[u].current
    BY <1>2
  <2>2. QED
    BY <2>1, <1>2, <1>5 DEF Sound, CurrentIsNewest
<1>9. RunsDoNotMerge(f)
  BY <1>2 DEF Sound, RunsDoNotMerge
<1>10. ProjectsDoNotMix(f)
  <2>1. \A u \in DOMAIN d.thread : f.thread[u].project = d.thread[u].project
    BY <1>2
  <2>2. QED
    BY <2>1, <1>2 DEF Sound, ProjectsDoNotMix, Filed
<1>11. HistoryReplays(f)
  <2>1. ASSUME NEW u \in DOMAIN d.thread PROVE Replays(f, u)
    <3>1. Replays(d, u)
      BY DEF Sound, HistoryReplays
    <3>2. Changes(d, u) \subseteq DOMAIN d.event
      BY DEF Changes
    <3>3. CASE u = t
      <4>1. Changes(f, u) = Changes(d, u) \cup {k}
        BY <3>3, <1>1, <1>2, <1>4, <1>3 DEF Changes
      <4>2. QED
        BY <4>1, <3>1, <3>2, <3>3, <1>1, <1>2, <1>3, <1>4, ReplaysExtended
    <3>4. CASE u # t
      <4>1. Changes(f, u) = Changes(d, u)
        BY <3>4, <1>2, <1>4, <1>3 DEF Changes
      <4>2. QED
        BY <4>1, <3>1, <3>2, <3>4, <1>2, ReplaysKept
    <3>5. QED
      BY <3>3, <3>4
  <2>2. QED
    BY <2>1, <1>2 DEF HistoryReplays
<1>12. DecidedKnowingly(f)
  BY <1>2, <1>4 DEF Sound, DecidedKnowingly
<1>13. QED
  BY <1>2, <1>7, <1>8, <1>9, <1>10, <1>11, <1>12 DEF Sound

(* ---- the newest snapshot -------------------------------------------------- *)
Less == {ss \in Nat \X Nat : ss[1] < ss[2]}

LEMMA LeastElement ==
  ASSUME NEW T \in SUBSET Nat, T # {}
  PROVE  \E x \in T : \A y \in T : x <= y
<1>1. IsWellFoundedOn(Less, Nat)
  BY NatLessThanWellFounded DEF OpToRel, Less
<1>2. PICK x \in T : \A y \in T : ~ (<<y, x>> \in Less)
  BY <1>1, WFMin
<1>3. \A y \in T : ~(y < x)
  BY <1>2 DEF Less
<1>4. QED
  BY <1>3

LEMMA NewestExists ==
  ASSUME NEW n \in Nat, NEW S \in SUBSET (0 .. n), S # {}
  PROVE  Newest(S) \in S /\ \A u \in S : u <= Newest(S)
<1> DEFINE T == {n - s : s \in S}
<1>0. T \in SUBSET Nat /\ T # {}
  <2>1. \A s \in S : s \in 0 .. n /\ n - s \in Nat
    OBVIOUS
  <2>2. QED
    BY <2>1
<1> HIDE DEF T
<1>1. PICK x \in T : \A y \in T : x <= y
  BY <1>0, LeastElement
<1>2. PICK s \in S : x = n - s
  BY <1>1 DEF T
<1>3. \A u \in S : u <= s
  <2>1. ASSUME NEW u \in S PROVE u <= s
    <3>1. n - s <= n - u
      BY <1>1, <1>2 DEF T
    <3>2. s \in Nat /\ u \in Nat
      OBVIOUS
    <3>3. QED
      BY <3>1, <3>2
  <2>2. QED
    BY <2>1
<1>4. QED
  BY <1>3 DEF Newest

LEMMA AnotherLeft ==
  ASSUME NEW S, NEW s, Cardinality(S) >= 2
  PROVE  S \ {s} # {}
<1>1. SUFFICES ASSUME S \subseteq {s} PROVE FALSE
  OBVIOUS
<1>2. S = {} \/ S = {s}
  BY <1>1
<1>3. Cardinality({}) = 0 /\ Cardinality({s}) = 1
  BY FS_EmptySet, FS_Singleton
<1>4. QED
  BY <1>2, <1>3

LEMMA FallbackNewest ==
  ASSUME NEW d \in DbType, Sound(d), NEW t \in DOMAIN d.thread, NEW s \in DOMAIN d.snap,
         MayDetach(d, t, s), NEW n, n = Fallback(d, t, s)
  PROVE  /\ n \in SnapshotsOf(d, t) \ {s} /\ n \in Nat \ {0}
         /\ \A v \in SnapshotsOf(d, t) \ {s} : v <= n
<1>1. d.snap[s].thread = t /\ Cardinality(SnapshotsOf(d, t)) >= 2
  BY DEF MayDetach
<1>2. Len(d.snap) \in Nat /\ \A v \in DOMAIN d.snap : v \in Nat \ {0} /\ v <= Len(d.snap)
  <2>1. d.snap \in Seq(SnapshotType)
    BY DbParts
  <2>2. QED
    BY <2>1
<1>3. d.thread[t].current \in SnapshotsOf(d, t) /\ \A v \in SnapshotsOf(d, t) : v <= d.thread[t].current
  BY DEF Sound, CurrentIsNewest
<1>4. CASE d.thread[t].current = s
  <2>1. SnapshotsOf(d, t) \ {s} # {}
    BY <1>1, AnotherLeft
  <2>2. SnapshotsOf(d, t) \ {s} \in SUBSET (0 .. Len(d.snap))
    BY <1>2 DEF SnapshotsOf
  <2>3. n = Newest(SnapshotsOf(d, t) \ {s})
    BY <1>4 DEF Fallback
  <2>4. QED
    BY <2>1, <2>2, <2>3, <1>2, NewestExists DEF SnapshotsOf
<1>5. CASE d.thread[t].current # s
  BY <1>2, <1>3, <1>5 DEF Fallback, SnapshotsOf
<1>6. QED
  BY <1>4, <1>5

LEMMA DetachedSound ==
  ASSUME NEW d \in DbType, NEW f \in DbType, Sound(d), NEW t \in DOMAIN d.thread,
         NEW s \in DOMAIN d.snap, d.snap[s].thread = t,
         NEW n \in SnapshotsOf(d, t) \ {s}, \A v \in SnapshotsOf(d, t) \ {s} : v <= n,
         Detaches(d, f, t, s, d.thread[t].state, n)
  PROVE  Sound(f)
<1> DEFINE k == Len(d.event) + 1
           l == Len(d.event) + 2
           u == NewThread(d)
<1>2. /\ \A v \in DOMAIN d.snap : v \in Nat \ {0}
      /\ d.thread[t] \in ThreadType /\ t \in Nat \ {0}
      /\ u \notin DOMAIN d.thread /\ u \in Nat \ {0}
      /\ k \in Nat /\ l \in Nat /\ k < l
      /\ \A i \in DOMAIN d.event : i \in Nat /\ i < k /\ d.event[i].version \in Nat
  <2>1. d.event \in Seq(EventType)
    BY DbParts
  <2>2. \A i \in DOMAIN d.event : d.event[i].version \in Nat
    BY DbParts DEF EventType
  <2>3. k \in Nat /\ l \in Nat /\ k < l /\ \A i \in DOMAIN d.event : i \in Nat /\ i < k
    BY <2>1
  <2>4. QED
    BY <2>2, <2>3, DbParts
<1>3. d.thread[t].version \in Nat \ {0}
  BY <1>2 DEF ThreadType
<1>6. /\ DOMAIN f.event = DOMAIN d.event \cup {k, l}
      /\ \A i \in DOMAIN d.event : f.event[i] = d.event[i]
      /\ DOMAIN f.thread = DOMAIN d.thread \cup {u}
      /\ DOMAIN f.snap = DOMAIN d.snap
      /\ f.thread[t].state = d.thread[t].state /\ f.thread[t].version = d.thread[t].version + 1
      /\ f.thread[t].project = d.thread[t].project /\ f.thread[t].current = n
      /\ \A v \in DOMAIN d.thread \ {t} : f.thread[v] = d.thread[v]
      /\ f.snap[s].thread = u /\ f.snap[s].run = d.snap[s].run
      /\ \A v \in DOMAIN d.snap \ {s} : f.snap[v] = d.snap[v]
  BY DEF Detaches
<1>7. /\ f.event[k].thread = t /\ f.event[k].version = d.thread[t].version
      /\ f.event[k].prev = d.thread[t].state /\ f.event[k].next = d.thread[t].state
      /\ f.event[k].seen = d.thread[t].state /\ f.event[k].snapshot = s
      /\ f.event[l].thread = u /\ f.event[l].version = 0 /\ f.event[l].snapshot = s
      /\ f.event[l].seen = New /\ f.event[l].prev = New
  BY DEF Detaches, Event
<1>8. f.thread[u].project = d.thread[t].project /\ f.thread[u].current = s /\ f.thread[u].state = New
  BY DEF Detaches, Thread
<1> HIDE DEF k, l, u
<1>9. /\ \A v \in DOMAIN d.snap : d.snap[v].thread \in DOMAIN d.thread
      /\ \A i \in DOMAIN d.event :
           d.event[i].thread \in DOMAIN d.thread /\ d.event[i].snapshot \in DOMAIN d.snap
  BY DEF Sound, Filed
<1>10. Filed(f)
  <2>1. \A v \in DOMAIN f.snap : f.snap[v].thread \in DOMAIN f.thread
    BY <1>6, <1>9
  <2>2. \A i \in DOMAIN f.event : f.event[i].thread \in DOMAIN f.thread /\ f.event[i].snapshot \in DOMAIN f.snap
    BY <1>6, <1>7, <1>9
  <2>3. QED
    BY <2>1, <2>2 DEF Filed
<1>11. CurrentIsNewest(f)
  <2>1. ASSUME NEW v \in DOMAIN f.thread
        PROVE  /\ f.thread[v].current \in SnapshotsOf(f, v)
               /\ \A w \in SnapshotsOf(f, v) : w <= f.thread[v].current
    <3>1. CASE v = u
      <4>1. SnapshotsOf(f, v) = {s}
        BY <3>1, <1>2, <1>6, <1>9 DEF SnapshotsOf
      <4>2. QED
        BY <4>1, <3>1, <1>8, <1>2
    <3>2. CASE v = t
      <4>1. SnapshotsOf(f, v) = SnapshotsOf(d, t) \ {s}
        BY <3>2, <1>2, <1>6 DEF SnapshotsOf
      <4>2. QED
        BY <4>1, <3>2, <1>6
    <3>3. CASE v \in DOMAIN d.thread \ {t}
      <4>1. SnapshotsOf(f, v) = SnapshotsOf(d, v)
        BY <3>3, <1>2, <1>6 DEF SnapshotsOf
      <4>2. f.thread[v].current = d.thread[v].current
        BY <3>3, <1>6
      <4>3. QED
        BY <4>1, <4>2, <3>3 DEF Sound, CurrentIsNewest
    <3>4. QED
      BY <3>1, <3>2, <3>3, <1>6
  <2>2. QED
    BY <2>1 DEF CurrentIsNewest
<1>12. RunsDoNotMerge(f)
  <2>1. ASSUME NEW v \in DOMAIN f.snap, NEW w \in DOMAIN f.snap, v # w,
               f.snap[v].run # NoRun, f.snap[v].run = f.snap[w].run
        PROVE  f.snap[v].thread # f.snap[w].thread
    <3>1. d.snap[v].thread # d.snap[w].thread
      <4>1. f.snap[v].run = d.snap[v].run /\ f.snap[w].run = d.snap[w].run
        BY <1>6
      <4>2. QED
        BY <4>1, <2>1, <1>6 DEF Sound, RunsDoNotMerge
    <3>2. f.snap[v].thread = IF v = s THEN u ELSE d.snap[v].thread
      BY <1>6
    <3>3. f.snap[w].thread = IF w = s THEN u ELSE d.snap[w].thread
      BY <1>6
    <3>4. QED
      BY <2>1, <3>1, <3>2, <3>3, <1>2, <1>6, <1>9
  <2>2. QED
    BY <2>1 DEF RunsDoNotMerge
<1>13. ProjectsDoNotMix(f)
  <2>1. ASSUME NEW v \in DOMAIN f.snap, f.snap[v].run # NoRun
        PROVE  f.thread[f.snap[v].thread].project = ProjectOf[f.snap[v].run]
    <3>1. f.snap[v].run = d.snap[v].run
      BY <1>6
    <3>2. d.thread[d.snap[v].thread].project = ProjectOf[d.snap[v].run]
      BY <2>1, <3>1, <1>6 DEF Sound, ProjectsDoNotMix
    <3>3. CASE v = s
      BY <3>1, <3>2, <3>3, <1>6, <1>8
    <3>4. CASE v # s
      <4>1. f.snap[v].thread = d.snap[v].thread /\ d.snap[v].thread \in DOMAIN d.thread
        BY <3>4, <1>6, <1>9
      <4>2. f.thread[d.snap[v].thread].project = d.thread[d.snap[v].thread].project
        BY <4>1, <1>6
      <4>3. QED
        BY <3>1, <3>2, <4>1, <4>2
    <3>5. QED
      BY <3>3, <3>4
  <2>2. QED
    BY <2>1 DEF ProjectsDoNotMix
<1>14. HistoryReplays(f)
  <2>1. ASSUME NEW v \in DOMAIN f.thread PROVE Replays(f, v)
    <3>1. Changes(d, v) \subseteq DOMAIN d.event
      BY DEF Changes
    <3>2. k \notin DOMAIN d.event /\ l \notin DOMAIN d.event /\ k # l
      BY <1>2
    <3>3. CASE v = u
      <4>1. Changes(f, v) = {}
        BY <3>2, <3>3, <1>2, <1>6, <1>7, <1>9 DEF Changes
      <4>2. QED
        BY <4>1, <3>3, <1>8, ReplaysNothing
    <3>4. CASE v = t
      <4>1. Changes(f, v) = Changes(d, v) \cup {k}
        BY <3>2, <3>4, <1>2, <1>3, <1>6, <1>7 DEF Changes
      <4>2. Replays(d, v)
        BY <3>4 DEF Sound, HistoryReplays
      <4>3. QED
        BY <4>1, <4>2, <3>1, <3>4, <1>2, <1>3, <1>6, <1>7, ReplaysExtended
    <3>5. CASE v \in DOMAIN d.thread \ {t}
      <4>1. Changes(f, v) = Changes(d, v)
        BY <3>2, <3>5, <1>2, <1>6, <1>7 DEF Changes
      <4>2. Replays(d, v)
        BY <3>5 DEF Sound, HistoryReplays
      <4>3. QED
        BY <4>1, <4>2, <3>1, <3>5, <1>6, ReplaysKept
    <3>6. QED
      BY <3>3, <3>4, <3>5, <1>6
  <2>2. QED
    BY <2>1 DEF HistoryReplays
<1>15. DecidedKnowingly(f)
  BY <1>6, <1>7 DEF Sound, DecidedKnowingly
<1>16. QED
  BY <1>6, <1>10, <1>11, <1>12, <1>13, <1>14, <1>15 DEF Sound

(* ---- matching and attaching ----------------------------------------------- *)
\* A match made by itself leads to a candidate; any other opens a thread.
LEMMA MatchChosen ==
  ASSUME NEW e, NEW C
  PROVE  /\ ChooseMatch(e, C).method \in Methods
         /\ \/ ChooseMatch(e, C).thread = NoThread /\ ChooseMatch(e, C).method \notin AutoMethods
            \/ ChooseMatch(e, C).method \in AutoMethods /\ \E c \in C : ChooseMatch(e, C).thread = c.thread
<1> DEFINE Good(m) == /\ m.method \in Methods
                      /\ \/ m.thread = NoThread /\ m.method \notin AutoMethods
                         \/ m.method \in AutoMethods /\ \E c \in C : m.thread = c.thread
<1>1. \A how \in Methods \ AutoMethods : Good(Match(NoThread, how))
  BY DEF Match
<1>2. ASSUME NEW S, S \subseteq C, S # {}, NEW how \in AutoMethods PROVE Good(Match(ThreadOf(S), how))
  <2>1. (CHOOSE c \in S : TRUE) \in C
    BY <1>2
  <2>2. QED
    BY <2>1 DEF Match, ThreadOf, Methods
<1>3. {"new_ambiguous", "new_below_threshold", "new_no_candidates"} \subseteq Methods \ AutoMethods
  BY DEF Methods, AutoMethods
<1>4. {"exact_evidence", "weighted_similarity"} \subseteq AutoMethods
  BY DEF AutoMethods
<1> HIDE DEF Good
<1>5. ASSUME NEW S, S \subseteq C PROVE Good(WeightedMatch(e, S))
  <2>1. Winners(e, S) \subseteq C
    BY <1>5 DEF Winners
  <2>2. CASE Winners(e, S) # {}
    <3>1. Good(Match(ThreadOf(Winners(e, S)), "weighted_similarity"))
      BY <2>1, <2>2, <1>2, <1>4
    <3>2. QED
      BY <3>1, <2>2 DEF WeightedMatch
  <2>3. CASE Winners(e, S) = {} /\ \E c \in S : Confident(e, c)
    BY <2>3, <1>1, <1>3 DEF WeightedMatch
  <2>4. CASE Winners(e, S) = {} /\ ~ \E c \in S : Confident(e, c)
    BY <2>4, <1>1, <1>3 DEF WeightedMatch
  <2>5. QED
    BY <2>2, <2>3, <2>4
<1>6. Exact(e, C) \subseteq C /\ Scored(e, C) \subseteq C
  BY DEF Exact, Scored
<1>7. CASE Cardinality(Exact(e, C)) = 1
  <2>1. Exact(e, C) # {}
    BY <1>7, FS_EmptySet
  <2>2. Good(Match(ThreadOf(Exact(e, C)), "exact_evidence"))
    BY <2>1, <1>2, <1>4, <1>6
  <2>3. C # {} /\ ~(Cardinality(Exact(e, C)) > 1)
    BY <2>1, <1>6, <1>7
  <2>4. ChooseMatch(e, C) = Match(ThreadOf(Exact(e, C)), "exact_evidence")
    BY <2>3, <1>7 DEF ChooseMatch
  <2>5. QED
    BY <2>2, <2>4 DEF Good
<1>8. CASE Cardinality(Exact(e, C)) > 1 /\ Cardinality(Exact(e, C)) # 1
  <2>1. C # {}
    <3>1. SUFFICES ASSUME C = {} PROVE FALSE
      OBVIOUS
    <3>2. Exact(e, C) = {}
      BY <3>1, <1>6
    <3>3. Cardinality(Exact(e, C)) = 0
      BY <3>2, FS_EmptySet
    <3>4. QED
      BY <3>3, <1>8
  <2>2. ChooseMatch(e, C) = Match(NoThread, "new_ambiguous")
    BY <2>1, <1>8 DEF ChooseMatch
  <2>3. QED
    BY <2>2, <1>1, <1>3 DEF Good
<1>9. CASE ~(Cardinality(Exact(e, C)) > 1) /\ Cardinality(Exact(e, C)) # 1 /\ C = {}
  <2>1. ChooseMatch(e, C) = Match(NoThread, "new_no_candidates")
    BY <1>9 DEF ChooseMatch
  <2>2. QED
    BY <2>1, <1>1, <1>3 DEF Good
<1>10. CASE ~(Cardinality(Exact(e, C)) > 1) /\ Cardinality(Exact(e, C)) # 1 /\ C # {}
  <2>1. ChooseMatch(e, C) = WeightedMatch(e, Scored(e, C))
    BY <1>10 DEF ChooseMatch
  <2>2. QED
    BY <2>1, <1>5, <1>6 DEF Good
<1>11. QED
  BY <1>7, <1>8, <1>9, <1>10

LEMMA MatchedThread ==
  ASSUME NEW d, NEW r, NEW e, NEW m, m = MatchFor(d, r, e)
  PROVE  /\ m.method \in Methods
         /\ \/ m.thread = NoThread /\ m.method \notin AutoMethods
            \/ m.method \in AutoMethods /\ m.thread \in CandidateThreads(d, r, e)
<1>1. CASE ProjectOf[r] = Untracked
  BY <1>1 DEF MatchFor, Match, Methods, AutoMethods
<1>2. CASE ProjectOf[r] # Untracked
  <2>1. m = ChooseMatch(e, Candidates(d, r, e))
    BY <1>2 DEF MatchFor
  <2>2. \A c \in Candidates(d, r, e) : c.thread \in CandidateThreads(d, r, e)
    BY DEF Candidates
  <2>3. QED
    BY <2>1, <2>2, MatchChosen
<1>3. QED
  BY <1>1, <1>2

\* What a run attaches.
Attaches(d, f, r, e, x) ==
    /\ Adds(d, f, x) /\ x \in SnapshotType /\ x.run = r /\ x.evidence = e
    /\ x.method \in AutoMethods => x.thread \in CandidateThreads(d, r, e)
    /\ DOMAIN f.thread = DOMAIN d.thread \cup {x.thread}
    /\ x.thread \notin DOMAIN d.thread => f.thread[x.thread] = Thread(ProjectOf[r], NewSnapshot(d))
    /\ x.thread \in DOMAIN d.thread => x.thread \in CandidateThreads(d, r, e)

LEMMA AttachedAttaches ==
  ASSUME NEW d \in DbType, NEW r \in Run, NEW e \in Evidence, NEW f, f = Attached(d, r, e)
  PROVE  f \in DbType /\ \E x : Attaches(d, f, r, e, x)
<1>1. PICK m : m = MatchFor(d, r, e)
  OBVIOUS
<1>2. f = IF m.thread = NoThread THEN Opened(d, r, e, m) ELSE Joined(d, r, e, m)
  BY <1>1 DEF Attached
<1>3. /\ m.method \in Methods
      /\ \/ m.thread = NoThread /\ m.method \notin AutoMethods
         \/ m.method \in AutoMethods /\ m.thread \in CandidateThreads(d, r, e)
  BY <1>1, MatchedThread
<1>4. CandidateThreads(d, r, e) \subseteq DOMAIN d.thread /\ NoThread \notin DOMAIN d.thread
  BY DbParts DEF CandidateThreads, NoThread
<1>5. CASE m.thread = NoThread
  <2>1. f = Opened(d, r, e, m)
    BY <1>2, <1>5
  <2>2. PICK x : x = Snapshot(NewThread(d), r, e, m.method, New, NoSnapshot)
    OBVIOUS
  <2>3. /\ f \in DbType /\ x \in SnapshotType /\ Adds(d, f, x)
        /\ NewThread(d) \notin DOMAIN d.thread /\ DOMAIN f.thread = DOMAIN d.thread \cup {NewThread(d)}
        /\ f.thread[NewThread(d)] = Thread(ProjectOf[r], NewSnapshot(d))
    BY <2>1, <2>2, <1>3, OpenedAdds
  <2>4. x.thread = NewThread(d) /\ x.run = r /\ x.evidence = e /\ x.method = m.method
    BY <2>2 DEF Snapshot
  <2>5. m.method \notin AutoMethods
    BY <1>3, <1>4, <1>5
  <2>6. Attaches(d, f, r, e, x)
    BY <2>3, <2>4, <2>5 DEF Attaches
  <2>7. QED
    BY <2>3, <2>6
<1>6. CASE m.thread # NoThread
  <2>1. f = Joined(d, r, e, m) /\ m.thread \in CandidateThreads(d, r, e) /\ m.thread \in DOMAIN d.thread
    BY <1>2, <1>3, <1>4, <1>6
  <2>2. PICK x : x = Snapshot(m.thread, r, e, m.method, d.thread[m.thread].state, NoSnapshot)
    OBVIOUS
  <2>3. x.thread = m.thread /\ x.run = r /\ x.evidence = e /\ x.method = m.method
    BY <2>2 DEF Snapshot
  <2>4. x \in SnapshotType
    <3>1. d.thread[m.thread] \in ThreadType /\ m.thread \in Nat \ {0}
      BY <2>1, DbParts
    <3>2. d.thread[m.thread].state \in Decision
      BY <3>1 DEF ThreadType
    <3>3. QED
      BY <2>2, <3>1, <3>2, <1>3 DEF Snapshot, SnapshotType, NoSnapshot, AllMethods
  <2>5. f = Adding(d, x, NewSnapshot(d))
    BY <2>1, <2>2, <2>3 DEF Joined, Adding
  <2>6. f \in DbType /\ Adds(d, f, x) /\ DOMAIN f.thread = DOMAIN d.thread
    BY <2>1, <2>3, <2>4, <2>5, AddingAdds
  <2>7. Attaches(d, f, r, e, x)
    BY <2>1, <2>3, <2>4, <2>6 DEF Attaches
  <2>8. QED
    BY <2>6, <2>7
<1>7. QED
  BY <1>5, <1>6

LEMMA AttachesSound ==
  ASSUME NEW d \in DbType, NEW f \in DbType, NEW r \in Run, NEW e, NEW x, Sound(d),
         Attaches(d, f, r, e, x),
         \A s, u \in DOMAIN d.snap : s < u /\ d.snap[s].run = r => d.snap[u].run = r
  PROVE  Sound(f)
<1>1. /\ Adds(d, f, x) /\ x \in SnapshotType /\ x.run = r
      /\ DOMAIN f.thread = DOMAIN d.thread \cup {x.thread}
      /\ x.thread \notin DOMAIN d.thread => f.thread[x.thread] = Thread(ProjectOf[r], NewSnapshot(d))
      /\ x.thread \in DOMAIN d.thread => x.thread \in CandidateThreads(d, r, e)
  BY DEF Attaches
<1>2. CASE x.thread \notin DOMAIN d.thread
  <2>1. /\ f.thread[x.thread].current = NewSnapshot(d) /\ f.thread[x.thread].state = New
        /\ f.thread[x.thread].project = ProjectOf[r]
    BY <1>1, <1>2 DEF Thread
  <2>2. SnapshotsOf(d, x.thread) = {}
    BY <1>2 DEF Sound, Filed, SnapshotsOf
  <2>3. QED
    BY <1>1, <2>1, <2>2, AddsSound
<1>3. CASE x.thread \in DOMAIN d.thread
  <2>1. /\ d.thread[x.thread].project = ProjectOf[r]
        /\ d.snap[d.thread[x.thread].current].run # r
    BY <1>1, <1>3 DEF CandidateThreads
  <2>2. f.thread[x.thread].project = ProjectOf[r]
    BY <2>1, <1>1, <1>3 DEF Adds, Same
  <2>3. ASSUME NEW s \in SnapshotsOf(d, x.thread) PROVE d.snap[s].run # r
    <3>1. /\ d.thread[x.thread].current \in DOMAIN d.snap /\ s \in DOMAIN d.snap
          /\ s <= d.thread[x.thread].current
      BY <1>3 DEF Sound, CurrentIsNewest, SnapshotsOf
    <3>2. s \in Nat /\ d.thread[x.thread].current \in Nat
      BY <3>1, DbParts
    <3>3. QED
      BY <3>1, <3>2, <2>1
  <2>4. QED
    BY <1>1, <1>3, <2>2, <2>3, AddsSound
<1>4. QED
  BY <1>2, <1>3

(* ---- runs ----------------------------------------------------------------- *)
LEMMA EmptySound == EmptyDb \in DbType /\ Sound(EmptyDb)
<1>1. /\ DOMAIN EmptyDb.snap = {} /\ DOMAIN EmptyDb.thread = {} /\ DOMAIN EmptyDb.event = {}
      /\ EmptyDb \in DbType
  BY DEF EmptyDb, DbType
<1>2. QED
  BY <1>1 DEF Sound, Filed, CurrentIsNewest, RunsDoNotMerge, ProjectsDoNotMix, HistoryReplays,
              DecidedKnowingly

LEMMA InitThreads == Init => ThreadsInv
<1> SUFFICES ASSUME Init PROVE ThreadsInv
  OBVIOUS
<1>1. Idle \in CallType /\ Idle.at = "idle"
  BY ThreadsAssumption DEF Idle, CallType, NoSnapshot, NoThread
<1>2. TypeOK
  BY <1>1, EmptySound DEF Init, TypeOK
<1>3. Sound(db) /\ TransactionInv
  BY EmptySound DEF Init, TransactionInv, NoTxn
<1>4. DOMAIN db.snap = {}
  BY DEF Init, EmptyDb
<1>5. ASSUME NEW c \in Caller PROVE Holds(call[c], db)
  BY <1>1 DEF Init, Holds
<1>6. QED
  BY <1>2, <1>3, <1>4, <1>5 DEF ThreadsInv

LEMMA BeginRunKeeps ==
  ASSUME ThreadsInv, NEW r \in Run, BeginRun(r)
  PROVE  ThreadsInv'
<1>1. /\ txn' = [open |-> TRUE, run |-> r, db |-> db]
      /\ db' = db /\ persisted' = persisted /\ call' = call /\ r \notin persisted
  BY DEF BeginRun
<1>2. TypeOK'
  BY <1>1 DEF ThreadsInv, TypeOK
<1>3. Continues(db, r, db) /\ Respects(db, db)
  BY DEF Continues, Respects
<1>4. TransactionInv'
  BY <1>1, <1>3 DEF TransactionInv, ThreadsInv
<1>5. QED
  BY <1>1, <1>2, <1>4 DEF ThreadsInv

\* The transaction of a run holds what the run makes of the database.
LEMMA OpenTxn ==
  ASSUME ThreadsInv, txn.open
  PROVE  /\ txn.run \in Run /\ txn.db \in DbType /\ db \in DbType
         /\ txn = [open |-> TRUE, run |-> txn.run, db |-> txn.db]
         /\ txn.run \notin persisted /\ Sound(txn.db) /\ Sound(db)
         /\ Continues(db, txn.run, txn.db) /\ Respects(db, txn.db)
<1>1. txn \in [open : {TRUE}, run : Run, db : DbType]
  <2>1. txn \in {NoTxn} \cup [open : {TRUE}, run : Run, db : DbType]
    BY DEF ThreadsInv, TypeOK
  <2>2. NoTxn.open = FALSE
    BY DEF NoTxn
  <2>3. txn # NoTxn
    BY <2>2
  <2>4. QED
    BY <2>1, <2>3, Zenon
<1>2. /\ txn.run \in Run /\ txn.db \in DbType
      /\ txn = [open |-> TRUE, run |-> txn.run, db |-> txn.db]
  BY <1>1
<1>3. db \in DbType /\ Sound(db)
  BY DEF ThreadsInv, TypeOK
<1>4. QED
  BY <1>2, <1>3 DEF ThreadsInv, TransactionInv

LEMMA AttachKeeps ==
  ASSUME ThreadsInv, NEW e \in Evidence, AttachCluster(e)
  PROVE  ThreadsInv'
<1> DEFINE d == txn.db
           r == txn.run
           f == Attached(d, r, e)
<1>1. /\ txn.open /\ txn' = [txn EXCEPT !.db = f]
      /\ db' = db /\ persisted' = persisted /\ call' = call
  BY DEF AttachCluster
<1>2. /\ r \in Run /\ d \in DbType /\ db \in DbType
      /\ txn = [open |-> TRUE, run |-> r, db |-> d]
      /\ r \notin persisted /\ Sound(d) /\ Sound(db)
      /\ Continues(db, r, d) /\ Respects(db, d)
  BY <1>1, OpenTxn
<1> HIDE DEF d, r
<1>3. f \in DbType /\ \E x : Attaches(d, f, r, e, x)
  BY <1>2, AttachedAttaches
<1> HIDE DEF f
<1>4. PICK x : Attaches(d, f, r, e, x)
  BY <1>3
<1>5. /\ e \in Evidence
      /\ DOMAIN f.snap = DOMAIN d.snap \cup {NewSnapshot(d)} /\ f.snap[NewSnapshot(d)] = x
      /\ \A s \in DOMAIN d.snap : f.snap[s] = d.snap[s]
      /\ f.event = d.event
      /\ \A t \in DOMAIN d.thread :
           /\ t \in DOMAIN f.thread /\ f.thread[t].version = d.thread[t].version
           /\ f.thread[t].state = d.thread[t].state
      /\ x.run = r /\ x.evidence = e
      /\ x.method \in AutoMethods => x.thread \in CandidateThreads(d, r, e)
  BY <1>4 DEF Attaches, Adds, Same
<1>6. /\ NewSnapshot(d) \notin DOMAIN d.snap
      /\ \A s \in DOMAIN d.snap : s \in Nat
      /\ \A s \in DOMAIN db.snap : s \in Nat
  BY <1>2, DbParts
<1>7. /\ d.event = db.event
      /\ DOMAIN db.snap \subseteq DOMAIN d.snap /\ DOMAIN db.thread \subseteq DOMAIN d.thread
      /\ \A s \in DOMAIN d.snap :
           IF s \in DOMAIN db.snap THEN d.snap[s] = db.snap[s] ELSE d.snap[s].run = r
      /\ \A t \in DOMAIN db.thread :
           d.thread[t].version = db.thread[t].version /\ d.thread[t].state = db.thread[t].state
  BY <1>2 DEF Continues
<1>8. \A s, u \in DOMAIN d.snap : s < u /\ d.snap[s].run = r => d.snap[u].run = r
  <2>1. ASSUME NEW s \in DOMAIN d.snap, NEW u \in DOMAIN d.snap, s < u, d.snap[s].run = r
        PROVE  d.snap[u].run = r
    <3>1. s \notin DOMAIN db.snap
      <4>1. ASSUME s \in DOMAIN db.snap PROVE FALSE
        <5>1. db.snap[s].run = r
          BY <4>1, <2>1, <1>7
        <5>2. db.snap[s].run \in persisted \cup {NoRun}
          BY <4>1 DEF ThreadsInv
        <5>3. QED
          BY <5>1, <5>2, <1>2, ThreadsAssumption
      <4>2. QED
        BY <4>1
    <3>2. u \notin DOMAIN db.snap
      <4>1. db.snap \in Seq(SnapshotType)
        BY <1>2, DbParts
      <4>2. s \in Nat \ {0} /\ u \in Nat \ {0}
        BY <1>2, DbParts
      <4>3. QED
        BY <4>1, <4>2, <3>1, <2>1
    <3>3. QED
      BY <3>2, <1>7
  <2>2. QED
    BY <2>1
<1>9. Sound(f)
  BY <1>2, <1>3, <1>4, <1>8, AttachesSound
<1>10. Continues(db, r, f)
  <2>1. f.event = db.event /\ DOMAIN db.snap \subseteq DOMAIN f.snap
        /\ DOMAIN db.thread \subseteq DOMAIN f.thread
    BY <1>5, <1>7
  <2>2. \A s \in DOMAIN f.snap : IF s \in DOMAIN db.snap THEN f.snap[s] = db.snap[s] ELSE f.snap[s].run = r
    BY <1>5, <1>6, <1>7
  <2>3. \A t \in DOMAIN db.thread :
          f.thread[t].version = db.thread[t].version /\ f.thread[t].state = db.thread[t].state
    BY <1>5, <1>7
  <2>4. QED
    BY <2>1, <2>2, <2>3 DEF Continues
<1>11. Respects(db, f)
  <2>1. ASSUME NEW s \in DOMAIN f.snap \ DOMAIN db.snap, f.snap[s].method \in AutoMethods
        PROVE  ~Corrected(db, f.snap[s].thread, f.snap[s].evidence)
    <3>1. CASE s \in DOMAIN d.snap
      BY <3>1, <2>1, <1>2, <1>5 DEF Respects
    <3>2. CASE s = NewSnapshot(d)
      <4>1. x.thread \notin Excluded(d, e) /\ f.snap[s] = x
        BY <3>2, <2>1, <1>5 DEF CandidateThreads
      <4>2. ASSUME Corrected(db, x.thread, e) PROVE FALSE
        <5>1. PICK i \in DOMAIN db.event :
                 /\ db.event[i].type = "snapshot_detached" /\ db.event[i].thread = x.thread
                 /\ db.snap[db.event[i].snapshot].evidence = e
          BY <4>2 DEF Corrected
        <5>2. db.event[i].snapshot \in DOMAIN db.snap
          BY <1>2 DEF Sound, Filed
        <5>3. d.snap[d.event[i].snapshot].evidence = e
          BY <5>1, <5>2, <1>7
        <5>4. x.thread \in Excluded(d, e)
          BY <5>1, <5>3, <1>7 DEF Excluded
        <5>5. QED
          BY <5>4, <4>1
      <4>3. QED
        BY <4>1, <4>2, <1>5
    <3>3. QED
      BY <3>1, <3>2, <1>5
  <2>2. QED
    BY <2>1 DEF Respects
<1>12. txn' = [open |-> TRUE, run |-> r, db |-> f]
  BY <1>1, <1>2
<1>13. TypeOK'
  BY <1>1, <1>2, <1>3, <1>12 DEF ThreadsInv, TypeOK
<1>14. TransactionInv'
  BY <1>1, <1>2, <1>9, <1>10, <1>11, <1>12 DEF TransactionInv
<1>15. QED
  BY <1>1, <1>13, <1>14 DEF ThreadsInv

\* What a database may become under a caller that has read it.
Later(d, f) ==
    /\ DOMAIN d.snap \subseteq DOMAIN f.snap /\ DOMAIN d.thread \subseteq DOMAIN f.thread
    /\ \A t \in DOMAIN d.thread :
         \/ f.thread[t].version = d.thread[t].version /\ f.thread[t].state = d.thread[t].state
         \/ f.thread[t].version = d.thread[t].version + 1

LEMMA HoldsLater ==
  ASSUME NEW d \in DbType, NEW f \in DbType, Later(d, f), NEW k \in CallType, Holds(k, d)
  PROVE  Holds(k, f)
<1>1. CASE k.at = "thread"
  <2>1. k.thread \in DOMAIN d.thread /\ d.thread[k.thread] \in ThreadType
    BY <1>1, DbParts DEF Holds
  <2>2. d.thread[k.thread].version \in Nat /\ k.version \in Nat
    BY <2>1 DEF ThreadType, CallType
  <2>3. QED
    BY <1>1, <2>1, <2>2 DEF Holds, Later
<1>2. CASE k.at # "thread"
  BY <1>2 DEF Holds, Later
<1>3. QED
  BY <1>1, <1>2

LEMMA CommitRunKeeps ==
  ASSUME ThreadsInv, CommitRun
  PROVE  ThreadsInv' /\ Respects(db, db')
<1>1. /\ txn.open /\ db' = txn.db /\ persisted' = persisted \cup {txn.run} /\ txn' = NoTxn
      /\ call' = call
  BY DEF CommitRun
<1>2. /\ txn.run \in Run /\ txn.db \in DbType /\ db \in DbType
      /\ Sound(txn.db) /\ Continues(db, txn.run, txn.db) /\ Respects(db, txn.db)
  BY <1>1, OpenTxn
<1>3. TypeOK'
  BY <1>1, <1>2 DEF ThreadsInv, TypeOK
<1>4. Sound(db)' /\ TransactionInv'
  BY <1>1, <1>2 DEF TransactionInv, NoTxn
<1>5. Later(db, txn.db)
  BY <1>2 DEF Continues, Later
<1>6. ASSUME NEW c \in Caller PROVE Holds(call[c], db)'
  <2>1. call[c] \in CallType /\ Holds(call[c], db)
    BY DEF ThreadsInv, TypeOK
  <2>2. Holds(call[c], txn.db)
    BY <2>1, <1>2, <1>5, HoldsLater
  <2>3. QED
    BY <2>2, <1>1
<1>7. \A s \in DOMAIN db'.snap : db'.snap[s].run \in persisted' \cup {NoRun}
  <2>1. ASSUME NEW s \in DOMAIN txn.db.snap PROVE txn.db.snap[s].run \in persisted \cup {txn.run, NoRun}
    BY <1>2 DEF Continues, ThreadsInv
  <2>2. QED
    BY <2>1, <1>1
<1>8. QED
  BY <1>1, <1>2, <1>3, <1>4, <1>6, <1>7 DEF ThreadsInv

LEMMA AbortRunKeeps ==
  ASSUME ThreadsInv, AbortRun
  PROVE  ThreadsInv'
<1>1. /\ txn.open /\ db' = db /\ persisted' = persisted \cup {txn.run} /\ txn' = NoTxn
      /\ call' = call
  BY DEF AbortRun
<1>2. txn.run \in Run
  BY <1>1, OpenTxn
<1>3. TypeOK'
  BY <1>1, <1>2 DEF ThreadsInv, TypeOK
<1>4. TransactionInv'
  BY <1>1 DEF TransactionInv, NoTxn
<1>5. QED
  BY <1>1, <1>3, <1>4 DEF ThreadsInv

(* ---- callers -------------------------------------------------------------- *)
\* A caller reads something that is true of the database.
LEMMA ReadsKeep ==
  ASSUME ThreadsInv, NEW c \in Caller, NEW k \in CallType, Holds(k, db), Reads(c, k)
  PROVE  ThreadsInv'
<1>1. call' = [call EXCEPT ![c] = k] /\ db' = db /\ txn' = txn /\ persisted' = persisted
  BY DEF Reads
<1>2. TypeOK'
  BY <1>1 DEF ThreadsInv, TypeOK
<1>3. TransactionInv'
  BY <1>1 DEF ThreadsInv, TransactionInv
<1>4. \A d \in Caller : Holds(call[d], db)'
  BY <1>1 DEF ThreadsInv, TypeOK
<1>5. QED
  BY <1>1, <1>2, <1>3, <1>4 DEF ThreadsInv

LEMMA IdleHolds == Idle \in CallType /\ \A d : Holds(Idle, d)
  BY ThreadsAssumption DEF Idle, CallType, NoSnapshot, NoThread, Holds

LEMMA ThreadReadHolds ==
  ASSUME NEW d \in DbType, NEW s \in Nat, NEW t \in DOMAIN d.thread,
         s # NoSnapshot => s \in DOMAIN d.snap
  PROVE  ThreadRead(d, s, t) \in CallType /\ Holds(ThreadRead(d, s, t), d)
<1>1. t \in Nat /\ d.thread[t] \in ThreadType
  BY DbParts
<1>2. d.thread[t].version \in Nat /\ d.thread[t].state \in Decision
  BY <1>1 DEF ThreadType
<1>3. ThreadRead(d, s, t) \in CallType
  BY <1>1, <1>2 DEF ThreadRead, CallType
<1>4. Holds(ThreadRead(d, s, t), d)
  BY <1>2 DEF ThreadRead, Holds
<1>5. QED
  BY <1>3, <1>4

LEMMA ReadKeeps ==
  ASSUME ThreadsInv, NEW c \in Caller,
         \/ \E t \in DOMAIN db.thread : ReadThread(c, t)
         \/ \E s \in DOMAIN db.snap : ReadSnapshot(c, s)
         \/ ReadItsThread(c) \/ GiveUp(c)
  PROVE  ThreadsInv'
<1>1. db \in DbType /\ call[c] \in CallType /\ Holds(call[c], db) /\ Sound(db)
  BY DEF ThreadsInv, TypeOK
<1>2. CASE \E t \in DOMAIN db.thread : ReadThread(c, t)
  <2>1. PICK t \in DOMAIN db.thread : Reads(c, ThreadRead(db, NoSnapshot, t))
    BY <1>2 DEF ReadThread
  <2>2. NoSnapshot \in Nat
    BY DEF NoSnapshot
  <2>3. QED
    BY <2>1, <2>2, <1>1, ThreadReadHolds, ReadsKeep
<1>3. CASE \E s \in DOMAIN db.snap : ReadSnapshot(c, s)
  <2>1. PICK s \in DOMAIN db.snap :
           Reads(c, [Idle EXCEPT !.at = "snapshot", !.snap = s, !.thread = db.snap[s].thread])
    BY <1>3 DEF ReadSnapshot
  <2>2. PICK k : k = [Idle EXCEPT !.at = "snapshot", !.snap = s, !.thread = db.snap[s].thread]
    OBVIOUS
  <2>3. s \in Nat /\ db.snap[s].thread \in Nat /\ db.snap[s].thread \in DOMAIN db.thread
    <3>1. s \in Nat /\ db.snap[s] \in SnapshotType
      BY <1>1, DbParts
    <3>2. QED
      BY <3>1, <1>1 DEF SnapshotType, Sound, Filed
  <2>4. k = [at |-> "snapshot", snap |-> s, thread |-> db.snap[s].thread, version |-> 0, state |-> New]
    BY <2>2 DEF Idle
  <2>5. k \in CallType
    BY <2>3, <2>4, ThreadsAssumption DEF CallType
  <2>6. Holds(k, db)
    BY <2>3, <2>4 DEF Holds
  <2>7. QED
    BY <2>1, <2>2, <2>5, <2>6, ReadsKeep
<1>4. CASE ReadItsThread(c)
  <2>1. call[c].at = "snapshot" /\ Reads(c, ThreadRead(db, call[c].snap, call[c].thread))
    BY <1>4 DEF ReadItsThread
  <2>2. /\ call[c].thread \in DOMAIN db.thread /\ call[c].snap \in Nat
        /\ call[c].snap # NoSnapshot => call[c].snap \in DOMAIN db.snap
    BY <2>1, <1>1 DEF Holds, CallType
  <2>3. QED
    BY <2>1, <2>2, <1>1, ThreadReadHolds, ReadsKeep
<1>5. CASE GiveUp(c)
  BY <1>5, IdleHolds, ReadsKeep DEF GiveUp
<1>6. QED
  BY <1>2, <1>3, <1>4, <1>5

\* A write makes a sound database of a sound one, under the other callers.
LEMMA WritesKeep ==
  ASSUME ThreadsInv, NEW c \in Caller, NEW f \in DbType, Writes(c, f), Sound(f), Later(db, f),
         \A s \in DOMAIN f.snap : f.snap[s].run \in persisted \cup {NoRun}
  PROVE  ThreadsInv'
<1>1. /\ ~txn.open /\ db' = f /\ call' = [call EXCEPT ![c] = Idle]
      /\ txn' = txn /\ persisted' = persisted
  BY DEF Writes
<1>2. TypeOK'
  BY <1>1, IdleHolds DEF ThreadsInv, TypeOK
<1>3. TransactionInv'
  BY <1>1 DEF TransactionInv
<1>4. ASSUME NEW d \in Caller PROVE Holds(call[d], db)'
  <2>1. call[d] \in CallType /\ Holds(call[d], db) /\ db \in DbType
    BY DEF ThreadsInv, TypeOK
  <2>2. Holds(call[d], f)
    BY <2>1, HoldsLater
  <2>3. call'[d] = IF d = c THEN Idle ELSE call[d]
    BY <1>1 DEF ThreadsInv, TypeOK
  <2>4. QED
    BY <2>2, <2>3, <1>1, IdleHolds
<1>5. QED
  BY <1>1, <1>2, <1>3, <1>4 DEF ThreadsInv

LEMMA SameKeep ==
  ASSUME ThreadsInv, NEW c \in Caller, Writes(c, db)
  PROVE  ThreadsInv'
<1>1. db \in DbType /\ Sound(db) /\ \A s \in DOMAIN db.snap : db.snap[s].run \in persisted \cup {NoRun}
  BY DEF ThreadsInv, TypeOK
<1>2. Later(db, db)
  BY DEF Later
<1>3. QED
  BY <1>1, <1>2, WritesKeep

\* What a caller that holds the thread's version knows.
LEMMA CallersThread ==
  ASSUME ThreadsInv, NEW c \in Caller, call[c].at = "thread"
  PROVE  /\ db \in DbType /\ Sound(db) /\ call[c] \in CallType
         /\ call[c].thread \in DOMAIN db.thread /\ call[c].state \in Decision
         /\ call[c].snap # NoSnapshot => call[c].snap \in DOMAIN db.snap
         /\ VersionHolds(c) => call[c].state = db.thread[call[c].thread].state
<1>1. /\ db \in DbType /\ Sound(db) /\ call[c] \in CallType /\ Holds(call[c], db)
  BY DEF ThreadsInv, TypeOK
<1>2. QED
  BY <1>1 DEF Holds, VersionHolds, CallType

LEMMA DecideKeeps ==
  ASSUME ThreadsInv, NEW c \in Caller, NEW next \in Decision, Decide(c, next)
  PROVE  ThreadsInv' /\ DOMAIN db'.snap = DOMAIN db.snap
<1> DEFINE t == call[c].thread
<1>1. call[c].at = "thread" /\ VersionHolds(c)
      /\ Writes(c, IF db.thread[t].state = next THEN db ELSE Decided(db, t, next, call[c].state))
  BY DEF Decide
<1>2. /\ db \in DbType /\ Sound(db) /\ t \in DOMAIN db.thread /\ call[c].state \in Decision
      /\ call[c].state = db.thread[t].state
  BY <1>1, CallersThread
<1> HIDE DEF t
<1>3. CASE db.thread[t].state = next
  <2>1. Writes(c, db)
    BY <1>1, <1>3
  <2>2. QED
    BY <2>1, SameKeep DEF Writes
<1>4. CASE db.thread[t].state # next
  <2>1. PICK f : f = Decided(db, t, next, db.thread[t].state)
    OBVIOUS
  <2>2. Writes(c, f)
    BY <2>1, <1>1, <1>2, <1>4
  <2>3. f \in DbType /\ Decides(db, f, t, next, db.thread[t].state)
    BY <2>1, <1>2, DecidedDecides
  <2>4. Sound(f)
    BY <2>3, <1>2, DecidedSound
  <2>5. /\ DOMAIN f.snap = DOMAIN db.snap
        /\ \A s \in DOMAIN db.snap : f.snap[s].run = db.snap[s].run
        /\ Later(db, f)
    BY <2>3, <1>2 DEF Decides, Later
  <2>6. \A s \in DOMAIN f.snap : f.snap[s].run \in persisted \cup {NoRun}
    BY <2>5 DEF ThreadsInv
  <2>7. QED
    BY <2>2, <2>3, <2>4, <2>5, <2>6, WritesKeep DEF Writes
<1>5. QED
  BY <1>3, <1>4

LEMMA DetachKeeps ==
  ASSUME ThreadsInv, NEW c \in Caller, NEW s \in DOMAIN db.snap, Detach(c, s)
  PROVE  ThreadsInv' /\ DOMAIN db'.snap = DOMAIN db.snap
<1> DEFINE t == call[c].thread
<1>1. /\ call[c].at = "thread" /\ VersionHolds(c) /\ MayDetach(db, t, s)
      /\ Writes(c, Detached(db, t, s, call[c].state))
  BY DEF Detach
<1>2. /\ db \in DbType /\ Sound(db) /\ t \in DOMAIN db.thread /\ call[c].state \in Decision
      /\ call[c].state = db.thread[t].state
  BY <1>1, CallersThread
<1> HIDE DEF t
<1>3. PICK n : n = Fallback(db, t, s)
  OBVIOUS
<1>4. /\ n \in SnapshotsOf(db, t) \ {s} /\ n \in Nat \ {0}
      /\ \A v \in SnapshotsOf(db, t) \ {s} : v <= n
  BY <1>1, <1>2, <1>3, FallbackNewest
<1>5. PICK f : f = Detached(db, t, s, db.thread[t].state)
  OBVIOUS
<1>6. Writes(c, f)
  BY <1>1, <1>2, <1>5
<1>7. f \in DbType /\ Detaches(db, f, t, s, db.thread[t].state, n)
  BY <1>2, <1>3, <1>4, <1>5, DetachedDetaches
<1>8. db.snap[s].thread = t
  BY <1>1 DEF MayDetach
<1>9. Sound(f)
  BY <1>2, <1>4, <1>7, <1>8, DetachedSound
<1>10. /\ DOMAIN f.snap = DOMAIN db.snap
       /\ \A v \in DOMAIN db.snap : f.snap[v].run = db.snap[v].run
       /\ Later(db, f)
  BY <1>7, <1>2 DEF Detaches, Later
<1>11. \A v \in DOMAIN f.snap : f.snap[v].run \in persisted \cup {NoRun}
  BY <1>10 DEF ThreadsInv
<1>12. QED
  BY <1>6, <1>7, <1>9, <1>10, <1>11, WritesKeep DEF Writes

LEMMA CloneKeeps ==
  ASSUME ThreadsInv, NEW c \in Caller, NEW method \in CloneMethods, Clone(c, method)
  PROVE  ThreadsInv' /\ Respects(db, db')
<1> DEFINE t == call[c].thread
           s == call[c].snap
           x == Snapshot(t, NoRun, db.snap[s].evidence, method, call[c].state, s)
           f == Cloned(db, s, t, call[c].state, method)
<1>1. call[c].at = "thread" /\ s # NoSnapshot /\ Writes(c, f)
  BY DEF Clone
<1>2. /\ db \in DbType /\ Sound(db) /\ t \in DOMAIN db.thread /\ call[c].state \in Decision
      /\ s \in DOMAIN db.snap
  BY <1>1, CallersThread
<1>3. x \in SnapshotType
  <2>1. t \in Nat \ {0} /\ s \in Nat /\ db.snap[s] \in SnapshotType
    BY <1>2, DbParts
  <2>2. db.snap[s].evidence \in Evidence
    BY <2>1 DEF SnapshotType
  <2>3. QED
    BY <2>1, <2>2, <1>2 DEF Snapshot, SnapshotType, AllMethods
<1>4. x.thread = t /\ x.run = NoRun /\ x.method = method
  BY DEF Snapshot
<1>5. f = Adding(db, x, NewSnapshot(db))
  BY <1>4 DEF Cloned, Adding
<1> HIDE DEF f, x, t, s
<1>6. f \in DbType /\ Adds(db, f, x) /\ DOMAIN f.thread = DOMAIN db.thread
  BY <1>2, <1>3, <1>4, <1>5, AddingAdds
<1>7. Sound(f)
  BY <1>2, <1>3, <1>4, <1>6, AddsSound
<1>8. /\ DOMAIN f.snap = DOMAIN db.snap \cup {NewSnapshot(db)} /\ f.snap[NewSnapshot(db)] = x
      /\ \A v \in DOMAIN db.snap : f.snap[v] = db.snap[v]
      /\ Later(db, f)
  BY <1>6 DEF Adds, Same, Later
<1>9. \A v \in DOMAIN f.snap : f.snap[v].run \in persisted \cup {NoRun}
  BY <1>4, <1>8 DEF ThreadsInv
<1>10. CloneMethods \cap AutoMethods = {}
  BY DEF CloneMethods, AutoMethods
<1>11. Respects(db, f)
  BY <1>4, <1>8, <1>10 DEF Respects
<1>12. QED
  BY <1>1, <1>6, <1>7, <1>8, <1>9, <1>11, WritesKeep DEF Writes

(* ---- every step ----------------------------------------------------------- *)
LEMMA NothingFresh ==
  ASSUME DOMAIN db'.snap = DOMAIN db.snap
  PROVE  Respects(db, db')
  BY DEF Respects

LEMMA StepThreads ==
  ASSUME ThreadsInv, [Next]_vars
  PROVE  ThreadsInv' /\ Respects(db, db')
<1>1. CASE \E r \in Run : BeginRun(r)
  BY <1>1, BeginRunKeeps, NothingFresh DEF BeginRun
<1>2. CASE \E e \in Evidence : AttachCluster(e)
  BY <1>2, AttachKeeps, NothingFresh DEF AttachCluster
<1>3. CASE CommitRun
  BY <1>3, CommitRunKeeps
<1>4. CASE AbortRun
  BY <1>4, AbortRunKeeps, NothingFresh DEF AbortRun
<1>5. ASSUME NEW c \in Caller,
             \/ \E t \in DOMAIN db.thread : ReadThread(c, t)
             \/ \E s \in DOMAIN db.snap : ReadSnapshot(c, s)
             \/ ReadItsThread(c) \/ GiveUp(c)
      PROVE  ThreadsInv' /\ Respects(db, db')
  <2>1. db' = db
    BY <1>5 DEF ReadThread, ReadSnapshot, ReadItsThread, GiveUp, Reads
  <2>2. QED
    BY <2>1, <1>5, ReadKeeps, NothingFresh
<1>6. ASSUME NEW c \in Caller, \E s \in DOMAIN db.snap : Detach(c, s)
      PROVE  ThreadsInv' /\ Respects(db, db')
  BY <1>6, DetachKeeps, NothingFresh
<1>7. ASSUME NEW c \in Caller, Conflict(c)
      PROVE  ThreadsInv' /\ Respects(db, db')
  <2>1. Writes(c, db) /\ db' = db
    BY <1>7 DEF Conflict, Writes
  <2>2. QED
    BY <2>1, SameKeep, NothingFresh
<1>8. ASSUME NEW c \in Caller, \E next \in Decision : Decide(c, next)
      PROVE  ThreadsInv' /\ Respects(db, db')
  BY <1>8, DecideKeeps, NothingFresh
<1>9. ASSUME NEW c \in Caller, \E method \in CloneMethods : Clone(c, method)
      PROVE  ThreadsInv' /\ Respects(db, db')
  BY <1>9, CloneKeeps
<1>10. CASE UNCHANGED vars
  <2>1. db' = db /\ txn' = txn /\ persisted' = persisted /\ call' = call
    BY <1>10 DEF vars
  <2>2. ThreadsInv'
    BY <2>1 DEF ThreadsInv, TypeOK, TransactionInv
  <2>3. QED
    BY <2>1, <2>2, NothingFresh
<1>11. QED
  BY <1>1, <1>2, <1>3, <1>4, <1>5, <1>6, <1>7, <1>8, <1>9, <1>10 DEF Next

LEMMA ThreadsAlways == Spec => []ThreadsInv
<1>1. ThreadsInv /\ [Next]_vars => ThreadsInv'
  BY StepThreads
<1>2. QED
  BY <1>1, InitThreads, PTL DEF Spec

(* No sequence of runs, decisions, corrections and clones, whatever their
   callers had read and when, leaves a thread without a snapshot, or showing
   another than its newest. *)
THEOREM ThreadsStayWellFormed == Spec => []ThreadsWellFormed
<1>1. ThreadsInv => ThreadsWellFormed
  BY DEF ThreadsInv, ThreadsWellFormed, Sound
<1>2. QED
  BY <1>1, ThreadsAlways, PTL

(* No two clusters of one run are filed in one thread, and no evidence of one
   project, or of none, in a thread of another. *)
THEOREM ThreadsKeptSeparate == Spec => []ThreadsStaySeparate
<1>1. ThreadsInv => ThreadsStaySeparate
  BY DEF ThreadsInv, ThreadsStaySeparate, Sound
<1>2. QED
  BY <1>1, ThreadsAlways, PTL

(* The history of every thread is a chain of decisions that leads to the one
   it shows, each taken by someone who knew the one before. *)
THEOREM ThreadsHistoryIsTrue == Spec => []HistoryIsTrue
<1>1. ThreadsInv => HistoryIsTrue
  BY DEF ThreadsInv, HistoryIsTrue, Sound
<1>2. QED
  BY <1>1, ThreadsAlways, PTL

(* No run files evidence by itself in a thread that the operator took the same
   evidence out of before. *)
THEOREM ThreadsCorrectionHolds == Spec => CorrectionHolds
<1>1. ThreadsInv /\ [Next]_vars =>
        [\A s \in Fresh : db'.snap[s].method \in AutoMethods =>
            ~Corrected(db, db'.snap[s].thread, db'.snap[s].evidence)]_vars
  <2>1. ASSUME Respects(db, db')
        PROVE  \A s \in Fresh : db'.snap[s].method \in AutoMethods =>
                  ~Corrected(db, db'.snap[s].thread, db'.snap[s].evidence)
    BY <2>1 DEF Respects, Fresh
  <2>2. QED
    BY <2>1, StepThreads
<1>2. QED
  BY <1>1, ThreadsAlways, PTL DEF Spec, CorrectionHolds
=============================================================================
