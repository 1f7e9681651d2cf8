------------------------ MODULE ResearchRuns_proofs ------------------------
(***************************************************************************)
(* ResearchInv is inductive.  A step changes the tables (projects, runs,   *)
(* evidence) in one of four ways: a project is created or edited, a run is *)
(* appended, the row of one run changes and perhaps is shown, or a reset   *)
(* deletes them all; CreateKeeps to RowChanges prove RowsInv of each.      *)
(* What a request relies on, Stands, survives the steps of the others      *)
(* because projects and, but for a reset, runs stay (OthersStand), and     *)
(* because Remember only ever moves fit to an earlier time.  Then one      *)
(* lemma per action, and the properties follow from the invariant.         *)
(***************************************************************************)
EXTENDS ResearchRuns, FiniteSetTheorems, SequenceTheorems, TLAPS

(* ---- times ---------------------------------------------------------------- *)
LEMMA NextTyped ==
  ASSUME TypeOK, NEW c
  PROVE  /\ NextFrom(c) \in Times
         /\ NextFrom(c) # None <=> c = "hourly"
  BY ResearchAssumption, NoneAssumption DEF NextFrom, Times, TypeOK

LEMMA ReadyTyped ==
  ASSUME NEW f \in Forum
  PROVE  ReadyFrom(f) \in Times
  BY ResearchAssumption, NoneAssumption DEF ReadyFrom, Times, Forum

LEMMA EarlierTyped ==
  ASSUME NEW s \in Times, NEW t \in Times
  PROVE  /\ Earlier(s, t) \in Times
         /\ s # None => Earlier(s, t) # None /\ Earlier(s, t) <= s
         /\ t # None => Earlier(s, t) # None /\ Earlier(s, t) <= t
  BY ResearchAssumption, NoneAssumption DEF Earlier, Times

LEMMA RetryTyped ==
  ASSUME NEW at \in 0..MaxTime, NEW wait \in 0..MaxWait
  PROVE  RetryAfter(at, wait) \in Times
  BY ResearchAssumption, NoneAssumption DEF RetryAfter, Times

LEMMA TailOfList ==
  ASSUME NEW q \in Seq(Project), q # <<>>, Len(q) # 1
  PROVE  /\ Tail(q) \in Seq(Project) /\ Tail(q) # <<>>
         /\ \A i \in DOMAIN Tail(q) : i + 1 \in DOMAIN q /\ Tail(q)[i] = q[i + 1]
<1>1. Len(q) \in Nat /\ Len(q) # 0
  BY EmptySeq
<1>2. /\ Tail(q) \in Seq(Project) /\ Len(Tail(q)) = Len(q) - 1
      /\ \A i \in 1..Len(Tail(q)) : Tail(q)[i] = q[i + 1]
  BY HeadTailProperties
<1>3. DOMAIN q = 1..Len(q) /\ DOMAIN Tail(q) = 1..Len(Tail(q))
  BY <1>2
<1>4. \A i \in DOMAIN Tail(q) : i + 1 \in DOMAIN q
  BY <1>1, <1>2, <1>3
<1>5. Len(Tail(q)) # 0
  BY <1>1, <1>2
<1>6. QED
  BY <1>2, <1>3, <1>4, <1>5, EmptySeq

(* ---- what a request moves ------------------------------------------------- *)
\* Only one request moves in a step of its own.
Stays(q) == /\ pc'[q] = pc[q] /\ todo'[q] = todo[q] /\ view'[q] = view[q]
            /\ run'[q] = run[q] /\ reply'[q] = reply[q]

RequestTypes ==
  /\ pc \in [Request -> {"idle", "consider", "reserve", "queued", "ask", "fetch",
                         "record", "persist", "fail"}]
  /\ todo \in [Request -> Seq(Project)]
  /\ view \in [Request -> Forum \cup {None}]
  /\ run \in [Request -> (Project \X (1..MaxRuns)) \cup {None, Gone}]
  /\ reply \in [Request -> Replies]

LEMMA TypesOfRequests == TypeOK => RequestTypes
  BY DEF TypeOK, RequestTypes

LEMMA FinishMoves ==
  ASSUME RequestTypes, NEW r \in Request, Finish(r)
  PROVE  /\ RequestTypes' /\ \A q \in Request \ {r} : Stays(q)
         /\ pc'[r] = "idle" /\ todo'[r] = <<>> /\ view'[r] = None /\ run'[r] = None
<1>1. NoReply \in Replies
  BY ResearchAssumption DEF NoReply, Replies
<1>2. QED
  BY <1>1 DEF RequestTypes, Finish, Go, Stays

LEMMA AdvanceMoves ==
  ASSUME RequestTypes, NEW r \in Request, NEW seen \in Forum \cup {None},
         todo[r] # <<>>, Advance(r, seen)
  PROVE  /\ RequestTypes' /\ \A q \in Request \ {r} : Stays(q)
         /\ run'[r] = None
         /\ \/ pc'[r] = "idle" /\ todo'[r] = <<>> /\ view'[r] = None
            \/ /\ pc'[r] = "consider" /\ view'[r] = seen
               /\ todo'[r] \in Seq(Project) /\ todo'[r] # <<>>
               /\ \A i \in DOMAIN todo'[r] : \E j \in DOMAIN todo[r] : todo'[r][i] = todo[r][j]
<1>1. CASE Len(todo[r]) = 1
  BY <1>1, FinishMoves DEF Advance
<1>2. CASE Len(todo[r]) # 1
  <2>1. NoReply \in Replies
    BY ResearchAssumption DEF NoReply, Replies
  <2>2. /\ todo[r] \in Seq(Project) /\ Tail(todo[r]) \in Seq(Project) /\ Tail(todo[r]) # <<>>
        /\ \A i \in DOMAIN Tail(todo[r]) :
              i + 1 \in DOMAIN todo[r] /\ Tail(todo[r])[i] = todo[r][i + 1]
    <3>1. todo[r] \in Seq(Project)
      BY DEF RequestTypes
    <3>2. QED
      BY <1>2, <3>1, TailOfList
  <2>3. /\ pc' = [pc EXCEPT ![r] = "consider"] /\ todo' = [todo EXCEPT ![r] = Tail(todo[r])]
        /\ view' = [view EXCEPT ![r] = seen] /\ run' = [run EXCEPT ![r] = None]
        /\ reply' = [reply EXCEPT ![r] = NoReply]
    BY <1>2 DEF Advance, Go
  <2>4. /\ pc'[r] = "consider" /\ todo'[r] = Tail(todo[r]) /\ view'[r] = seen /\ run'[r] = None
        /\ \A q \in Request \ {r} : Stays(q)
    BY <2>3 DEF RequestTypes, Stays
  <2>5. RequestTypes'
    BY <2>1, <2>2, <2>3 DEF RequestTypes
  <2>6. QED
    BY <2>2, <2>4, <2>5
<1>3. QED
  BY <1>1, <1>2

(* ---- what a step does to the tables --------------------------------------- *)
TableTypes ==
  /\ clock \in 0..MaxTime
  /\ project \in [Project -> {None} \cup ProjectRow]
  /\ runs \in [Project -> Seq(RunRow)]
  /\ items \subseteq Item

Tables == TableTypes /\ RowsInv

TablesGrow ==
  \A p \in Project : /\ project[p] # None => project'[p] # None
                     /\ DOMAIN runs[p] \subseteq DOMAIN runs'[p]

\* One row of the runs gets another content.
Touches(p, n, row) == runs' = [runs EXCEPT ![p] = [runs[p] EXCEPT ![n] = row]]

LEMMA TouchedRows ==
  ASSUME TableTypes, NEW p \in Project, NEW n \in DOMAIN runs[p], NEW row \in RunRow,
         Touches(p, n, row)
  PROVE  /\ runs' \in [Project -> Seq(RunRow)]
         /\ \A q \in Project \ {p} : runs'[q] = runs[q]
         /\ DOMAIN runs'[p] = DOMAIN runs[p] /\ Len(runs'[p]) = Len(runs[p])
         /\ runs'[p][n] = row
         /\ \A m \in DOMAIN runs[p] \ {n} : runs'[p][m] = runs[p][m]
<1>1. runs[p] \in Seq(RunRow) /\ runs \in [Project -> Seq(RunRow)]
  BY DEF TableTypes
<1> DEFINE s == [runs[p] EXCEPT ![n] = row]
<1>2. DOMAIN runs[p] = 1..Len(runs[p])
  BY <1>1
<1>3. /\ s \in Seq(RunRow) /\ Len(s) = Len(runs[p])
      /\ \A j \in 1..Len(runs[p]) : s[j] = IF j = n THEN row ELSE runs[p][j]
  BY <1>1, <1>2, ExceptSeq
<1>4. DOMAIN s = 1..Len(runs[p])
  BY <1>3
<1>5. runs' = [runs EXCEPT ![p] = s]
  BY DEF Touches
<1> HIDE DEF s
<1>6. QED
  BY <1>1, <1>2, <1>3, <1>4, <1>5

Shown(k, n, t) == [k EXCEPT !.last = n, !.next = t]

LEMMA RowShown ==
  ASSUME NEW k \in ProjectRow, NEW n \in 0..MaxRuns, NEW t \in Times
  PROVE  /\ Shown(k, n, t) \in ProjectRow /\ Shown(k, n, t).last = n /\ Shown(k, n, t).next = t
         /\ Shown(k, n, t).enabled = k.enabled /\ Shown(k, n, t).cadence = k.cadence
  BY DEF ProjectRow, Shown

LEMMA MarkedLatest ==
  ASSUME TableTypes, NEW p \in Project, NEW n \in 1..MaxRuns, project[p] # None, MarkLatest(p, n)
  PROVE  /\ project' \in [Project -> {None} \cup ProjectRow]
         /\ \A q \in Project \ {p} : project'[q] = project[q]
         /\ project'[p] \in ProjectRow
         /\ n = Len(runs[p]) => project'[p].last = n
         /\ n # Len(runs[p]) => project' = project
         /\ project'[p].enabled = project[p].enabled /\ project'[p].cadence = project[p].cadence
         /\ \/ project'[p].next = project[p].next
            \/ project'[p].next # None <=> project[p].cadence = "hourly"
<1>1. project[p] \in ProjectRow /\ project \in [Project -> {None} \cup ProjectRow]
  BY DEF TableTypes
<1>2. CASE n # Len(runs[p])
  BY <1>1, <1>2 DEF MarkLatest
<1>3. CASE n = Len(runs[p])
  <2> DEFINE next == NextFrom(project[p].cadence)
             row == Shown(project[p], n, next)
  <2>1. next \in Times /\ (next # None <=> project[p].cadence = "hourly")
    BY ResearchAssumption, NoneAssumption DEF NextFrom, Times, TableTypes
  <2>2. project' = [project EXCEPT ![p] = row]
    BY <1>3 DEF MarkLatest, Shown
  <2> HIDE DEF next
  <2>3. /\ row \in ProjectRow /\ row.last = n /\ row.next = next
        /\ row.enabled = project[p].enabled /\ row.cadence = project[p].cadence
    <3>1. n \in 0..MaxRuns
      BY ResearchAssumption
    <3>2. QED
      BY <1>1, <2>1, <3>1, RowShown
  <2> HIDE DEF row
  <2>4. /\ project' \in [Project -> {None} \cup ProjectRow]
        /\ \A q \in Project \ {p} : project'[q] = project[q]
        /\ project'[p] = row
    BY <1>1, <2>2, <2>3
  <2>5. QED
    BY <1>3, <2>1, <2>3, <2>4
<1>4. QED
  BY <1>2, <1>3

\* A run's row may change like this.
Fitting(p, n, row) ==
  /\ row.new \subseteq items' /\ items \subseteq items' /\ items' \subseteq Item
  /\ row.status = "completed" => row.whole
  /\ ~row.whole => row.new = {}
  /\ \A q \in Project : \A m \in DOMAIN runs[q] :
       q # p \/ m # n => row.new \cap runs[q][m].new = {}

LEMMA RowChanges ==
  ASSUME Tables, NEW p \in Project, NEW n \in DOMAIN runs[p], n <= MaxRuns, NEW row \in RunRow,
         Touches(p, n, row), Fitting(p, n, row), clock' = clock,
         \/ row.status \notin {"completed", "failed"} /\ project' = project
         \/ MarkLatest(p, n)
  PROVE  Tables' /\ TablesGrow
<1>1. /\ runs' \in [Project -> Seq(RunRow)]
      /\ \A q \in Project \ {p} : runs'[q] = runs[q]
      /\ DOMAIN runs'[p] = DOMAIN runs[p] /\ Len(runs'[p]) = Len(runs[p])
      /\ runs'[p][n] = row
      /\ \A m \in DOMAIN runs[p] \ {n} : runs'[p][m] = runs[p][m]
  BY TouchedRows DEF Tables
<1>2. runs[p] \in Seq(RunRow) /\ DOMAIN runs[p] = 1..Len(runs[p]) /\ runs[p] # <<>>
  <2>1. runs[p] \in Seq(RunRow)
    BY DEF Tables, TableTypes
  <2>2. QED
    BY <2>1
<1>3. project[p] # None /\ project[p] \in ProjectRow
  BY <1>2 DEF Tables, TableTypes, RowsInv
<1>4. n \in 1..MaxRuns
  BY <1>2
<1>5. /\ project' \in [Project -> {None} \cup ProjectRow]
      /\ \A q \in Project \ {p} : project'[q] = project[q]
      /\ project'[p] \in ProjectRow
      /\ n = Len(runs[p]) /\ row.status \in {"completed", "failed"} => project'[p].last = n
      /\ n # Len(runs[p]) => project' = project
      /\ project'[p].enabled = project[p].enabled /\ project'[p].cadence = project[p].cadence
      /\ \/ project'[p].next = project[p].next
         \/ project'[p].next # None <=> project[p].cadence = "hourly"
  <2>1. CASE MarkLatest(p, n)
    BY <1>3, <1>4, <2>1, MarkedLatest DEF Tables
  <2>2. CASE row.status \notin {"completed", "failed"} /\ project' = project
    BY <1>3, <2>2 DEF Tables, TableTypes
  <2>3. QED
    BY <2>1, <2>2
<1>6. TableTypes'
  BY <1>1, <1>5 DEF Tables, TableTypes, Fitting
<1>7. TablesGrow
  BY <1>1, <1>3, <1>5, NoneAssumption DEF TablesGrow
<1>8. \A q \in Project : runs'[q] # <<>> => project'[q] # None
  BY <1>1, <1>3, <1>5, NoneAssumption DEF Tables, RowsInv
<1>9. \A q \in Project : \A m \in DOMAIN runs'[q] : runs'[q][m].new \subseteq items'
  BY <1>1 DEF Tables, RowsInv, Fitting
<1>10. NewestRunIsShown'
  <2> SUFFICES ASSUME NEW q \in Project, Len(runs'[q]) > 0,
                      runs'[q][Len(runs'[q])].status \in {"completed", "failed"}
               PROVE  project'[q].last = Len(runs'[q])
    BY DEF NewestRunIsShown
  <2>1. CASE q # p
    BY <1>1, <1>5, <2>1 DEF Tables, RowsInv, NewestRunIsShown
  <2>2. CASE q = p /\ n = Len(runs[p])
    BY <1>1, <1>5, <2>2
  <2>3. CASE q = p /\ n # Len(runs[p])
    <3>1. Len(runs[p]) \in DOMAIN runs[p] \ {n}
      BY <1>1, <1>2, <2>3
    <3>2. runs'[p][Len(runs[p])] = runs[p][Len(runs[p])] /\ project' = project
      BY <1>1, <1>5, <2>3, <3>1
    <3>3. QED
      BY <1>1, <2>3, <3>2 DEF Tables, RowsInv, NewestRunIsShown
  <2>4. QED
    BY <2>1, <2>2, <2>3
<1>11. EnabledStaysScheduled'
  BY <1>3, <1>5 DEF Tables, RowsInv, EnabledStaysScheduled, Enabled
<1>12. NewInOneRun'
  <2>1. \A q \in Project : \A m \in DOMAIN runs'[q] :
          /\ runs'[q][m].status = "completed" => runs'[q][m].whole
          /\ ~runs'[q][m].whole => runs'[q][m].new = {}
    BY <1>1 DEF Tables, RowsInv, NewInOneRun, Fitting
  <2>2. ASSUME NEW q \in Project, NEW o \in Project, NEW m \in DOMAIN runs'[q], NEW k \in DOMAIN runs'[o],
               q # o \/ m # k
        PROVE  runs'[q][m].new \cap runs'[o][k].new = {}
    <3>1. CASE q = p /\ m = n
      BY <1>1, <2>2, <3>1 DEF Fitting
    <3>2. CASE o = p /\ k = n
      BY <1>1, <2>2, <3>2 DEF Fitting
    <3>3. CASE ~(q = p /\ m = n) /\ ~(o = p /\ k = n)
      <4>1. m \in DOMAIN runs[q] /\ k \in DOMAIN runs[o]
        BY <1>1
      <4>2. runs'[q][m] = runs[q][m] /\ runs'[o][k] = runs[o][k]
        BY <1>1, <3>3, <4>1
      <4>3. <<q, m>> # <<o, k>>
        BY <2>2
      <4>4. QED
        BY <4>1, <4>2, <4>3 DEF Tables, RowsInv, NewInOneRun
    <3>4. QED
      BY <3>1, <3>2, <3>3
  <2>3. QED
    BY <2>1, <2>2 DEF NewInOneRun
<1>13. QED
  BY <1>6, <1>7, <1>8, <1>9, <1>10, <1>11, <1>12 DEF Tables, RowsInv

LEMMA CreateKeeps ==
  ASSUME Tables, NEW p \in Project, CreateProject(p)
  PROVE  Tables' /\ TablesGrow
<1>1. PICK cadence \in {"manual", "hourly"}, enabled \in BOOLEAN :
        project' = [project EXCEPT ![p] =
          [enabled |-> enabled, cadence |-> cadence, next |-> NextFrom(cadence), last |-> 0]]
  BY DEF CreateProject
<1> DEFINE row == [enabled |-> enabled, cadence |-> cadence, next |-> NextFrom(cadence), last |-> 0]
<1>2. NextFrom(cadence) \in Times /\ (NextFrom(cadence) # None <=> cadence = "hourly")
  BY ResearchAssumption, NoneAssumption DEF NextFrom, Times, Tables, TableTypes
<1>3. row \in ProjectRow
  BY <1>2, ResearchAssumption DEF ProjectRow
<1>4. row.next = NextFrom(cadence) /\ row.cadence = cadence
  OBVIOUS
<1>5. project' = [project EXCEPT ![p] = row]
  BY <1>1
<1> HIDE DEF row
<1>6. /\ project' \in [Project -> {None} \cup ProjectRow] /\ project'[p] = row
      /\ \A q \in Project \ {p} : project'[q] = project[q]
      /\ project[p] = None /\ runs' = runs /\ items' = items /\ clock' = clock
  BY <1>3, <1>5 DEF Tables, TableTypes, CreateProject
<1>7. runs[p] = <<>>
  BY <1>6 DEF Tables, RowsInv
<1>8. NewestRunIsShown'
  BY <1>6, <1>7 DEF Tables, RowsInv, NewestRunIsShown
<1>9. EnabledStaysScheduled'
  BY <1>2, <1>4, <1>6 DEF Tables, RowsInv, EnabledStaysScheduled, Enabled
<1>10. QED
  BY <1>3, <1>6, <1>7, <1>8, <1>9, NoneAssumption
  DEF Tables, TableTypes, RowsInv, NewInOneRun, TablesGrow

EditedRow(k, e, c, t) == [k EXCEPT !.enabled = e, !.cadence = c, !.next = t]

LEMMA RowEdited ==
  ASSUME NEW k \in ProjectRow, NEW e \in BOOLEAN, NEW c \in {"manual", "hourly"}, NEW t \in Times
  PROVE  /\ EditedRow(k, e, c, t) \in ProjectRow
         /\ EditedRow(k, e, c, t).last = k.last /\ EditedRow(k, e, c, t).next = t
         /\ EditedRow(k, e, c, t).enabled = e /\ EditedRow(k, e, c, t).cadence = c
  BY DEF ProjectRow, EditedRow

LEMMA UpdateKeeps ==
  ASSUME Tables, NEW p \in Project, UpdateProject(p)
  PROVE  Tables' /\ TablesGrow
<1>1. PICK cadence \in {"manual", "hourly"}, enabled \in BOOLEAN :
        project' = [project EXCEPT ![p] =
          [project[p] EXCEPT !.enabled = enabled, !.cadence = cadence,
                             !.next = IF enabled THEN NextFrom(cadence) ELSE None]]
  BY DEF UpdateProject
<1> DEFINE next == IF enabled THEN NextFrom(cadence) ELSE None
           row == EditedRow(project[p], enabled, cadence, next)
<1>2. next \in Times /\ (enabled => (next # None <=> cadence = "hourly"))
  BY ResearchAssumption, NoneAssumption DEF NextFrom, Times, Tables, TableTypes
<1>3. project[p] \in ProjectRow
  BY DEF Tables, TableTypes, UpdateProject
<1>4. project' = [project EXCEPT ![p] = row]
  BY <1>1 DEF EditedRow
<1> HIDE DEF next
<1>5. /\ row \in ProjectRow /\ row.last = project[p].last /\ row.next = next
      /\ row.enabled = enabled /\ row.cadence = cadence
  BY <1>2, <1>3, RowEdited
<1> HIDE DEF row
<1>6. /\ project' \in [Project -> {None} \cup ProjectRow] /\ project'[p] = row
      /\ \A q \in Project \ {p} : project'[q] = project[q]
      /\ runs' = runs /\ items' = items /\ clock' = clock
  BY <1>4, <1>5 DEF Tables, TableTypes, UpdateProject
<1>7. NewestRunIsShown'
  BY <1>5, <1>6 DEF Tables, RowsInv, NewestRunIsShown
<1>8. EnabledStaysScheduled'
  BY <1>2, <1>5, <1>6 DEF Tables, RowsInv, EnabledStaysScheduled, Enabled
<1>9. QED
  BY <1>5, <1>6, <1>7, <1>8, NoneAssumption
  DEF Tables, TableTypes, RowsInv, NewInOneRun, TablesGrow

LEMMA TablesUnchanged ==
  ASSUME Tables, project' = project, runs' = runs, items \subseteq items', items' \subseteq Item,
         clock' \in 0..MaxTime
  PROVE  Tables' /\ TablesGrow
<1>1. NewestRunIsShown' /\ EnabledStaysScheduled' /\ NewInOneRun'
  BY DEF Tables, RowsInv, NewestRunIsShown, EnabledStaysScheduled, NewInOneRun, Enabled
<1>2. QED
  BY <1>1 DEF Tables, TableTypes, RowsInv, TablesGrow

LEMMA ResetKeeps ==
  ASSUME Tables, ResetDemo
  PROVE  Tables' /\ \A p \in Project : project[p] # None => project'[p] # None
<1>1. \A p \in Project : project[p] \in ProjectRow =>
        LET row == [project[p] EXCEPT !.last = 0] IN
        /\ row \in ProjectRow /\ row.next = project[p].next
        /\ row.enabled = project[p].enabled /\ row.cadence = project[p].cadence
  BY ResearchAssumption DEF ProjectRow
<1>2. \A p \in Project :
        /\ project[p] = None => project'[p] = None
        /\ project[p] # None => /\ project'[p] \in ProjectRow /\ project'[p].next = project[p].next
                               /\ project'[p].enabled = project[p].enabled
                               /\ project'[p].cadence = project[p].cadence
  BY <1>1 DEF ResetDemo, Tables, TableTypes
<1>3. /\ project' \in [Project -> {None} \cup ProjectRow]
      /\ runs' = [p \in Project |-> <<>>] /\ items' = {} /\ clock' = clock
  BY <1>2 DEF ResetDemo, Tables, TableTypes
<1>4. \A p \in Project : runs'[p] = <<>>
  BY <1>3
<1>5. runs' \in [Project -> Seq(RunRow)]
  BY <1>3
<1>6. EnabledStaysScheduled'
  BY <1>2 DEF Tables, RowsInv, EnabledStaysScheduled, Enabled
<1>7. NewestRunIsShown' /\ NewInOneRun'
  BY <1>4 DEF NewestRunIsShown, NewInOneRun
<1>8. QED
  BY <1>2, <1>3, <1>4, <1>5, <1>6, <1>7, NoneAssumption DEF Tables, TableTypes, RowsInv

Queued == [status |-> "queued", whole |-> FALSE, new |-> {}, lost |-> FALSE]

LEMMA ReserveKeeps ==
  ASSUME Tables, NEW p \in Project, project[p] # None,
         runs' = [runs EXCEPT ![p] = Append(runs[p], Queued)],
         project' = project, items' = items, clock' = clock
  PROVE  Tables' /\ TablesGrow /\ Len(runs[p]) + 1 \in DOMAIN runs'[p]
<1>1. runs[p] \in Seq(RunRow) /\ Queued \in RunRow
  BY DEF Tables, TableTypes, Queued, RunRow
<1> DEFINE s == Append(runs[p], Queued)
<1>2. /\ s \in Seq(RunRow) /\ Len(s) = Len(runs[p]) + 1 /\ DOMAIN s = 1..Len(runs[p]) + 1
      /\ DOMAIN runs[p] = 1..Len(runs[p]) /\ Len(runs[p]) \in Nat
      /\ s[Len(runs[p]) + 1] = Queued /\ \A m \in 1..Len(runs[p]) : s[m] = runs[p][m]
  BY <1>1
<1> HIDE DEF s
<1>3. /\ runs' \in [Project -> Seq(RunRow)] /\ runs'[p] = s
      /\ \A q \in Project \ {p} : runs'[q] = runs[q]
  BY <1>2 DEF Tables, TableTypes, s
<1>4. Queued.status = "queued" /\ Queued.whole = FALSE /\ Queued.new = {}
  BY DEF Queued
<1>5. \A q \in Project : \A m \in DOMAIN runs'[q] :
        \/ m \in DOMAIN runs[q] /\ runs'[q][m] = runs[q][m]
        \/ runs'[q][m] = Queued
  BY <1>2, <1>3
<1>6. NewestRunIsShown'
  <2>1. runs'[p][Len(runs'[p])].status = "queued"
    BY <1>2, <1>3, <1>4
  <2>2. QED
    BY <1>3, <2>1 DEF Tables, RowsInv, NewestRunIsShown
<1>7. EnabledStaysScheduled'
  BY DEF Tables, RowsInv, EnabledStaysScheduled, Enabled
<1>8. NewInOneRun'
  <2>1. \A q \in Project : \A m \in DOMAIN runs'[q] :
          /\ runs'[q][m].status = "completed" => runs'[q][m].whole
          /\ ~runs'[q][m].whole => runs'[q][m].new = {}
    BY <1>4, <1>5 DEF Tables, RowsInv, NewInOneRun
  <2>2. ASSUME NEW q \in Project, NEW o \in Project, NEW m \in DOMAIN runs'[q], NEW k \in DOMAIN runs'[o],
               <<q, m>> # <<o, k>>
        PROVE  runs'[q][m].new \cap runs'[o][k].new = {}
    BY <1>4, <1>5, <2>2 DEF Tables, RowsInv, NewInOneRun
  <2>3. QED
    BY <2>1, <2>2 DEF NewInOneRun
<1>9. \A q \in Project : /\ runs'[q] # <<>> => project'[q] # None
                         /\ DOMAIN runs[q] \subseteq DOMAIN runs'[q]
                         /\ \A n \in DOMAIN runs'[q] : runs'[q][n].new \subseteq items'
  BY <1>2, <1>3, <1>4, <1>5 DEF Tables, RowsInv
<1>10. QED
  BY <1>2, <1>3, <1>6, <1>7, <1>8, <1>9 DEF Tables, TableTypes, RowsInv, TablesGrow

(* ---- what a request relies on --------------------------------------------- *)
Counters == forum \in Forum /\ faults \in 0..MaxFaults /\ edits \in 0..MaxEdits

Histories == wanted \in [Request -> SUBSET Project] /\ fit \in [Request -> Times]

LEMMA TypesInParts == TypeOK <=> TableTypes /\ RequestTypes /\ Counters /\ Histories
  BY DEF TypeOK, TableTypes, RequestTypes, Counters, Histories

Stands(r) == ListStands(r) /\ RunStands(r) /\ ViewStands(r)

LEMMA Remembered ==
  ASSUME TypeOK, forum' \in Forum, Remember
  PROVE  /\ Histories'
         /\ \A r \in Request :
              /\ pc'[r] = "idle" => fit'[r] = None
              /\ pc'[r] # "idle" /\ ReadyFrom(forum') # None
                   => fit'[r] # None /\ fit'[r] <= ReadyFrom(forum')
              /\ pc'[r] # "idle" /\ pc[r] # "idle"
                   => /\ wanted[r] \subseteq wanted'[r]
                      /\ fit[r] # None => fit'[r] # None /\ fit'[r] <= fit[r]
              /\ pc'[r] # "idle" /\ pc[r] = "idle"
                   => \A p \in Project : Enabled(p) => p \in wanted'[r]
<1>1. forum \in Forum /\ \A r \in Request : fit[r] \in Times
  BY DEF TypeOK
<1>2. ReadyFrom(forum) \in Times /\ ReadyFrom(forum') \in Times
  BY <1>1, ReadyTyped
<1> DEFINE before(r) == IF pc[r] = "idle" THEN ReadyFrom(forum) ELSE fit[r]
           now == ReadyFrom(forum')
<1>3. \A r \in Request : before(r) \in Times
  BY <1>1, <1>2
<1>4. fit' = [r \in Request |-> IF pc'[r] = "idle" THEN None ELSE Earlier(now, before(r))]
  BY DEF Remember
<1>5. \A r \in Request : pc[r] # "idle" => before(r) = fit[r]
  OBVIOUS
<1>6. now \in Times
  BY <1>2
<1> HIDE DEF before, now
<1>7. \A r \in Request :
        /\ Earlier(now, before(r)) \in Times
        /\ now # None => Earlier(now, before(r)) # None /\ Earlier(now, before(r)) <= now
        /\ before(r) # None => Earlier(now, before(r)) # None /\ Earlier(now, before(r)) <= before(r)
  BY <1>3, <1>6, EarlierTyped
<1>8. \A r \in Request :
         fit'[r] = IF pc'[r] = "idle" THEN None ELSE Earlier(now, before(r))
  BY <1>4
<1>9. None \in Times
  BY DEF Times
<1>10. fit' \in [Request -> Times]
  BY <1>4, <1>7, <1>9
<1>11. \A r \in Request :
        /\ pc'[r] = "idle" => fit'[r] = None
        /\ pc'[r] # "idle" /\ now # None => fit'[r] # None /\ fit'[r] <= now
        /\ pc'[r] # "idle" /\ pc[r] # "idle" /\ fit[r] # None => fit'[r] # None /\ fit'[r] <= fit[r]
  BY <1>5, <1>7, <1>8
<1>12. wanted' = [r \in Request |->
         IF pc'[r] = "idle" THEN {}
         ELSE {p \in Project : Enabled(p)'} \cup
              (IF pc[r] = "idle" THEN {p \in Project : Enabled(p)} ELSE wanted[r])]
  BY DEF Remember
<1>13. \A r \in Request : wanted[r] \subseteq Project
  BY DEF TypeOK
<1>14. wanted' \in [Request -> SUBSET Project]
  BY <1>12, <1>13
<1>15. \A r \in Request :
         /\ pc'[r] # "idle" /\ pc[r] # "idle" => wanted[r] \subseteq wanted'[r]
         /\ pc'[r] # "idle" /\ pc[r] = "idle" => \A p \in Project : Enabled(p) => p \in wanted'[r]
  BY <1>12
<1>16. QED
  BY <1>10, <1>11, <1>14, <1>15 DEF Histories, now

\* A step of the request that leaves it with a part of its list.
LEMMA ListKept ==
  ASSUME TypeOK, forum' \in Forum, Remember, NEW r \in Request, ListStands(r),
         \A p \in Project : project[p] # None => project'[p] # None,
         pc[r] # "idle", pc'[r] # "idle", todo'[r] # <<>>,
         \A i \in DOMAIN todo'[r] : \E j \in DOMAIN todo[r] : todo'[r][i] = todo[r][j]
  PROVE  ListStands(r)'
<1>1. todo[r] \in Seq(Project)
  BY DEF TypeOK
<1>2. \A j \in DOMAIN todo[r] : todo[r][j] \in Project
  BY <1>1
<1>3. wanted[r] \subseteq wanted'[r]
  BY Remembered
<1>4. QED
  BY <1>2, <1>3 DEF ListStands, At

LEMMA ListDropped ==
  ASSUME NEW r \in Request, pc'[r] = "idle", todo'[r] = <<>>
  PROVE  ListStands(r)'
  BY DEF ListStands, At

\* What a session holds of the forum goes on to be so.
LEMMA ViewKept ==
  ASSUME TypeOK, forum' \in Forum, Remember, NEW r \in Request, ViewStands(r),
         clock' \in 0..MaxTime, clock <= clock', pc[r] # "idle", pc'[r] # "idle",
         view'[r] = view[r] \/ (view'[r] = forum /\ forum' = forum)
  PROVE  view'[r] # None /\ ReadyFrom(view'[r]) # None
           => fit'[r] # None /\ (fit'[r] <= clock' \/ fit'[r] <= ReadyFrom(view'[r]))
<1>1. /\ fit[r] # None => fit'[r] # None /\ fit'[r] <= fit[r]
      /\ ReadyFrom(forum') # None => fit'[r] # None /\ fit'[r] <= ReadyFrom(forum')
      /\ fit'[r] \in Times
  BY Remembered DEF Histories
<1>2. fit[r] \in Times /\ clock \in Nat /\ clock' \in Nat /\ view[r] \in Forum \cup {None}
  BY DEF TypeOK
<1>3. view[r] # None => ReadyFrom(view[r]) \in Times
  BY <1>2, ReadyTyped
<1>4. CASE view'[r] = view[r]
  BY <1>1, <1>2, <1>3, <1>4, NoneAssumption DEF ViewStands, Times
<1>5. CASE view'[r] = forum /\ forum' = forum
  BY <1>1, <1>5
<1>6. QED
  BY <1>4, <1>5

\* A request that does not move goes on to rely on what it relied on.
LEMMA OthersStand ==
  ASSUME TypeOK, forum' \in Forum, Remember, TablesGrow, clock' \in 0..MaxTime, clock <= clock',
         NEW r \in Request, Stands(r), Stays(r)
  PROVE  Stands(r)'
<1>1. CASE pc[r] = "idle"
  <2>1. /\ todo[r] = <<>> /\ view[r] = None /\ run[r] = None
    BY <1>1 DEF Stands, ListStands, RunStands, ViewStands, At
  <2>2. QED
    BY <1>1, <2>1 DEF Stays, Stands, ListStands, RunStands, ViewStands, At
<1>2. CASE pc[r] # "idle"
  <2>1. ListStands(r)'
    <3>1. todo[r] # <<>>
      BY <1>2 DEF Stands, ListStands, At
    <3>2. QED
      BY <1>2, <3>1, ListKept DEF Stays, Stands, TablesGrow
  <2>2. RunStands(r)'
    <3>1. Current(r)' = Current(r)
      BY DEF Stays, Current
    <3>2. run[r] \notin {None, Gone} => Current(r) \in Project
      <4>1. run[r] \in (Project \X (1..MaxRuns)) \cup {None, Gone}
        BY DEF TypeOK
      <4>2. QED
        BY <4>1 DEF Stands, RunStands
    <3>3. QED
      BY <3>1, <3>2 DEF Stays, Stands, RunStands, At, TablesGrow
  <2>3. ViewStands(r)'
    <3>1. Current(r)' = Current(r) /\ pc'[r] = pc[r] /\ view'[r] = view[r]
      BY DEF Stays, Current
    <3>2. view'[r] # None /\ ReadyFrom(view'[r]) # None
             => fit'[r] # None /\ (fit'[r] <= clock' \/ fit'[r] <= ReadyFrom(view'[r]))
      BY <1>2, <3>1, ViewKept DEF Stands
    <3>3. fit[r] # None => fit'[r] # None /\ fit'[r] <= fit[r]
      BY <1>2, <3>1, Remembered
    <3>4. fit[r] \in Times /\ fit'[r] \in Times /\ clock \in Nat /\ clock' \in Nat
      BY Remembered DEF TypeOK, Histories
    <3>5. fit[r] # None /\ fit[r] <= clock => fit'[r] # None /\ fit'[r] <= clock'
      BY <3>3, <3>4, NoneAssumption DEF Times
    <3>6. QED
      BY <1>2, <3>1, <3>2, <3>5 DEF Stands, ViewStands, At
  <2>4. QED
    BY <2>1, <2>2, <2>3 DEF Stands
<1>3. QED
  BY <1>1, <1>2

(* ---- the steps of a request ----------------------------------------------- *)
\* What every step keeps, but for the history and the request that moves.
Moves(r) ==
  /\ Tables' /\ TablesGrow /\ RequestTypes' /\ Counters' /\ clock <= clock'
  /\ \A q \in Request \ {r} : Stays(q)

LEMMA InParts ==
  ASSUME ResearchInv
  PROVE  /\ TypeOK /\ Tables /\ TableTypes /\ RequestTypes /\ Counters
         /\ \A r \in Request : Stands(r) /\ ListStands(r) /\ RunStands(r) /\ ViewStands(r)
  BY TypesInParts DEF ResearchInv, Tables, Stands

LEMMA CurrentProject ==
  ASSUME ResearchInv, NEW r \in Request, pc[r] # "idle"
  PROVE  /\ todo[r] \in Seq(Project) /\ todo[r] # <<>>
         /\ 1 \in DOMAIN todo[r] /\ Current(r) = todo[r][1]
         /\ Current(r) \in Project /\ project[Current(r)] # None
<1>1. todo[r] \in Seq(Project) /\ todo[r] # <<>>
  BY InParts DEF RequestTypes, ListStands, At
<1>2. 1 \in DOMAIN todo[r] /\ Head(todo[r]) = todo[r][1] /\ todo[r][1] \in Project
  BY <1>1
<1>3. project[todo[r][1]] # None
  BY <1>2, InParts DEF ListStands
<1>4. QED
  BY <1>1, <1>2, <1>3 DEF Current

LEMMA AtRun ==
  ASSUME ResearchInv, NEW r \in Request, pc[r] \notin {"idle", "consider", "reserve"}, run[r] # Gone
  PROVE  /\ run[r][1] = Current(r) /\ run[r][1] \in Project
         /\ run[r][2] \in DOMAIN runs[run[r][1]] /\ run[r][2] \in 1..MaxRuns
         /\ run[r][2] <= MaxRuns
<1>1. run[r] \in (Project \X (1..MaxRuns)) \cup {None, Gone} /\ RunStands(r)
  BY InParts DEF RequestTypes
<1>2. run[r] # None
  BY <1>1 DEF RunStands
<1>3. run[r] \in Project \X (1..MaxRuns)
  BY <1>1, <1>2
<1>4. run[r][1] \in Project /\ run[r][2] \in 1..MaxRuns
  BY <1>3
<1>5. run[r][1] = Current(r) /\ run[r][2] \in DOMAIN runs[Current(r)]
  BY <1>1, <1>2 DEF RunStands
<1>6. QED
  BY <1>4, <1>5

LEMMA SeenForum ==
  ASSUME ResearchInv, NEW r \in Request, NEW seen \in Seen(r)
  PROVE  /\ seen \in Forum \cup {None}
         /\ seen = view[r] \/ seen = forum
         /\ Current(r) \in OnForum => seen # None
<1>1. forum \in Forum /\ view[r] \in Forum \cup {None}
  BY InParts DEF Counters, RequestTypes
<1>2. QED
  BY <1>1 DEF Seen

\* The request goes on to its next project, or ends.
LEMMA AdvanceKeeps ==
  ASSUME ResearchInv, Remember, NEW r \in Request, pc[r] # "idle", NEW seen \in Forum \cup {None},
         Advance(r, seen), Counters', TablesGrow, clock' = clock,
         seen = None \/ seen = view[r] \/ (seen = forum /\ forum' = forum)
  PROVE  RequestTypes' /\ (\A q \in Request \ {r} : Stays(q)) /\ Stands(r)'
<1>1. RequestTypes /\ todo[r] # <<>> /\ TypeOK /\ ListStands(r) /\ ViewStands(r)
  BY CurrentProject, InParts
<1>2. /\ RequestTypes' /\ \A q \in Request \ {r} : Stays(q)
      /\ run'[r] = None
      /\ \/ pc'[r] = "idle" /\ todo'[r] = <<>> /\ view'[r] = None
         \/ /\ pc'[r] = "consider" /\ view'[r] = seen
            /\ todo'[r] \in Seq(Project) /\ todo'[r] # <<>>
            /\ \A i \in DOMAIN todo'[r] : \E j \in DOMAIN todo[r] : todo'[r][i] = todo[r][j]
  BY <1>1, AdvanceMoves
<1>3. CASE pc'[r] = "idle" /\ todo'[r] = <<>> /\ view'[r] = None
  BY <1>2, <1>3 DEF Stands, ListStands, RunStands, ViewStands, At
<1>4. CASE /\ pc'[r] = "consider" /\ view'[r] = seen
           /\ todo'[r] \in Seq(Project) /\ todo'[r] # <<>>
           /\ \A i \in DOMAIN todo'[r] : \E j \in DOMAIN todo[r] : todo'[r][i] = todo[r][j]
  <2>1. forum' \in Forum
    BY DEF Counters
  <2>2. ListStands(r)'
    BY <1>1, <1>4, <2>1, ListKept DEF TablesGrow
  <2>3. clock' \in 0..MaxTime /\ clock <= clock'
    BY <1>1 DEF TypeOK
  <2>4. view'[r] # None /\ ReadyFrom(view'[r]) # None
           => fit'[r] # None /\ (fit'[r] <= clock' \/ fit'[r] <= ReadyFrom(view'[r]))
    BY <1>1, <1>4, <2>1, <2>3, ViewKept
  <2>5. RunStands(r)' /\ ViewStands(r)'
    BY <1>2, <1>4, <2>4 DEF RunStands, ViewStands, At
  <2>6. QED
    BY <1>2, <2>2, <2>5 DEF Stands
<1>5. QED
  BY <1>2, <1>3, <1>4

LEMMA FinishKeeps ==
  ASSUME ResearchInv, NEW r \in Request, Finish(r)
  PROVE  RequestTypes' /\ (\A q \in Request \ {r} : Stays(q)) /\ Stands(r)'
<1>1. /\ RequestTypes' /\ \A q \in Request \ {r} : Stays(q)
      /\ pc'[r] = "idle" /\ todo'[r] = <<>> /\ view'[r] = None /\ run'[r] = None
  BY FinishMoves, InParts
<1>2. QED
  BY <1>1 DEF Stands, ListStands, RunStands, ViewStands, At

LEMMA TablesStay ==
  ASSUME ResearchInv, UNCHANGED <<clock, project, runs, items>>
  PROVE  Tables' /\ TablesGrow /\ clock <= clock'
<1>1. Tables /\ clock' \in 0..MaxTime /\ items \subseteq items' /\ items' \subseteq Item
  BY InParts DEF TableTypes
<1>2. QED
  BY <1>1, TablesUnchanged

\* A step of the request within its current project.
LEMMA WithinKeeps ==
  ASSUME ResearchInv, Remember, NEW r \in Request, pc[r] # "idle", pc'[r] # "idle",
         todo'[r] = todo[r], TablesGrow, Counters', clock' = clock,
         view'[r] = view[r] \/ (view'[r] = forum /\ forum' = forum)
  PROVE  /\ ListStands(r)' /\ Current(r)' = Current(r)
         /\ view'[r] # None /\ ReadyFrom(view'[r]) # None
               => fit'[r] # None /\ (fit'[r] <= clock' \/ fit'[r] <= ReadyFrom(view'[r]))
         /\ fit[r] # None /\ fit[r] <= clock => fit'[r] # None /\ fit'[r] <= clock'
<1>1. TypeOK /\ ListStands(r) /\ ViewStands(r) /\ forum' \in Forum
  BY InParts DEF Counters
<1>2. todo[r] # <<>> /\ clock' \in 0..MaxTime /\ clock <= clock'
  BY <1>1, CurrentProject DEF TypeOK
<1>3. ListStands(r)'
  BY <1>1, <1>2, ListKept DEF TablesGrow
<1>4. view'[r] # None /\ ReadyFrom(view'[r]) # None
         => fit'[r] # None /\ (fit'[r] <= clock' \/ fit'[r] <= ReadyFrom(view'[r]))
  BY <1>1, <1>2, ViewKept
<1>5. fit[r] # None => fit'[r] # None /\ fit'[r] <= fit[r]
  BY <1>1, Remembered
<1>6. fit[r] \in Times /\ fit'[r] \in Times /\ clock \in Nat
  BY <1>1, Remembered DEF TypeOK, Histories
<1>7. fit[r] # None /\ fit[r] <= clock => fit'[r] # None /\ fit'[r] <= clock'
  BY <1>5, <1>6, NoneAssumption DEF Times
<1>8. Current(r)' = Current(r)
  BY DEF Current
<1>9. QED
  BY <1>3, <1>4, <1>7, <1>8

LEMMA ConsiderKeeps ==
  ASSUME ResearchInv, Remember, NEW r \in Request, Consider(r)
  PROVE  Moves(r) /\ Stands(r)'
<1>1. PICK seen \in Seen(r) :
        IF Current(r) \in OnForum /\ ~CanRun(seen)
        THEN Advance(r, seen)
        ELSE /\ view' = [view EXCEPT ![r] = seen] /\ Go(r, "reserve")
             /\ UNCHANGED <<todo, run, reply>>
  BY DEF Consider
<1>2. /\ UNCHANGED <<edits, clock, project, runs, forum, items, faults>> /\ pc[r] = "consider"
  BY DEF Consider, At
<1>3. Tables' /\ TablesGrow /\ clock <= clock' /\ Counters' /\ clock' = clock /\ forum' = forum
  BY <1>2, TablesStay, InParts DEF Counters
<1>4. seen \in Forum \cup {None} /\ (seen = view[r] \/ seen = forum) /\ pc[r] # "idle"
  BY <1>2, SeenForum
<1>5. CASE Current(r) \in OnForum /\ ~CanRun(seen)
  <2>1. Advance(r, seen)
    BY <1>1, <1>5
  <2>2. RequestTypes' /\ (\A q \in Request \ {r} : Stays(q)) /\ Stands(r)'
    BY <1>3, <1>4, <2>1, AdvanceKeeps
  <2>3. QED
    BY <1>3, <2>2 DEF Moves
<1>6. CASE ~(Current(r) \in OnForum /\ ~CanRun(seen))
  <2>1. /\ view' = [view EXCEPT ![r] = seen] /\ pc' = [pc EXCEPT ![r] = "reserve"]
        /\ todo' = todo /\ run' = run /\ reply' = reply
    BY <1>1, <1>6 DEF Go
  <2>2. RequestTypes /\ RunStands(r)
    BY InParts
  <2>3. RequestTypes'
    BY <1>4, <2>1, <2>2 DEF RequestTypes
  <2>4. (\A q \in Request \ {r} : Stays(q)) /\ pc'[r] = "reserve" /\ view'[r] = seen
    BY <2>1, <2>2 DEF RequestTypes, Stays
  <2>5. run[r] = None
    BY <1>2, <2>2 DEF RunStands
  <2>6. /\ ListStands(r)' /\ Current(r)' = Current(r)
        /\ view'[r] # None /\ ReadyFrom(view'[r]) # None
              => fit'[r] # None /\ (fit'[r] <= clock' \/ fit'[r] <= ReadyFrom(view'[r]))
    BY <1>3, <1>4, <2>1, <2>4, WithinKeeps
  <2>7. QED
    BY <1>3, <2>1, <2>3, <2>4, <2>5, <2>6 DEF Moves, Stands, RunStands, ViewStands, At
<1>7. QED
  BY <1>5, <1>6

LEMMA ReserveStands ==
  ASSUME ResearchInv, Remember, NEW r \in Request, Reserve(r)
  PROVE  Moves(r) /\ Stands(r)'
<1> DEFINE p == Current(r)
           n == Len(runs[p]) + 1
<1>1. /\ pc[r] = "reserve" /\ pc' = [pc EXCEPT ![r] = "queued"] /\ run' = [run EXCEPT ![r] = <<p, n>>]
      /\ UNCHANGED <<edits, clock, project, forum, items, todo, view, reply, faults>>
      /\ Len(runs[p]) < MaxRuns
      /\ runs' = [runs EXCEPT ![p] = Append(runs[p], Queued)]
  BY DEF Reserve, At, Go, Queued
<1>2. /\ p \in Project /\ project[p] # None /\ runs[p] \in Seq(RunRow)
      /\ RequestTypes /\ Counters /\ Tables
  BY <1>1, CurrentProject, InParts DEF TableTypes
<1>3. n \in 1..MaxRuns
  BY <1>1, <1>2, ResearchAssumption
<1>4. Tables' /\ TablesGrow /\ n \in DOMAIN runs'[p]
  BY <1>1, <1>2, ReserveKeeps
<1>5. Counters' /\ clock <= clock' /\ clock' = clock
  BY <1>1, <1>2 DEF Counters, Tables, TableTypes
<1>6. <<p, n>> \in Project \X (1..MaxRuns)
  BY <1>2, <1>3
<1>7. <<p, n>> \notin {None, Gone}
  BY <1>2, <1>3, NoneAssumption
<1>8. RequestTypes'
  BY <1>1, <1>2, <1>6 DEF RequestTypes
<1>9. (\A q \in Request \ {r} : Stays(q)) /\ pc'[r] = "queued" /\ run'[r] = <<p, n>>
  BY <1>1, <1>2 DEF RequestTypes, Stays
<1>10. /\ ListStands(r)' /\ Current(r)' = p
       /\ view'[r] # None /\ ReadyFrom(view'[r]) # None
              => fit'[r] # None /\ (fit'[r] <= clock' \/ fit'[r] <= ReadyFrom(view'[r]))
  BY <1>1, <1>4, <1>5, <1>9, WithinKeeps
<1> HIDE DEF n, p
<1>11. RunStands(r)' /\ ViewStands(r)'
  BY <1>4, <1>7, <1>9, <1>10 DEF RunStands, ViewStands, At
<1>12. QED
  BY <1>4, <1>5, <1>8, <1>9, <1>10, <1>11 DEF Moves, Stands

\* The request ends, and nothing else happens.
LEMMA EndsQuietly ==
  ASSUME ResearchInv, NEW r \in Request, Finish(r), Counters',
         UNCHANGED <<clock, project, runs, items>>
  PROVE  Moves(r) /\ Stands(r)'
  BY FinishKeeps, TablesStay DEF Moves

LEMMA FaultKeeps ==
  ASSUME ResearchInv, Fault \/ UNCHANGED faults, UNCHANGED <<edits, forum>>
  PROVE  Counters'
<1>1. Counters
  BY InParts
<1>2. QED
  BY <1>1, ResearchAssumption DEF Counters, Fault

LEMMA ReserveRaisesStands ==
  ASSUME ResearchInv, NEW r \in Request, ReserveRaises(r)
  PROVE  Moves(r) /\ Stands(r)'
<1>1. Counters'
  BY FaultKeeps DEF ReserveRaises
<1>2. QED
  BY <1>1, EndsQuietly DEF ReserveRaises

LEMMA FailRaisesStands ==
  ASSUME ResearchInv, NEW r \in Request, FailRaises(r)
  PROVE  Moves(r) /\ Stands(r)'
<1>1. Counters'
  BY FaultKeeps DEF FailRaises
<1>2. QED
  BY <1>1, EndsQuietly DEF FailRaises

Marked(row, status) == [row EXCEPT !.status = status]

LEMMA MarkFits ==
  ASSUME Tables, NEW p \in Project, NEW n \in DOMAIN runs[p], NEW status \in {"running", "failed"},
         items' = items
  PROVE  /\ Marked(runs[p][n], status) \in RunRow
         /\ Marked(runs[p][n], status).status = status
         /\ Fitting(p, n, Marked(runs[p][n], status))
<1>1. runs[p][n] \in RunRow /\ items \subseteq Item
  BY DEF Tables, TableTypes
<1> DEFINE row == Marked(runs[p][n], status)
<1>2. /\ row \in RunRow /\ row.status = status
      /\ row.whole = runs[p][n].whole /\ row.new = runs[p][n].new
  BY <1>1 DEF Marked, RunRow
<1> HIDE DEF row
<1>3. /\ row.new \subseteq items
      /\ ~row.whole => row.new = {}
  BY <1>2 DEF Tables, RowsInv, NewInOneRun
<1>4. \A q \in Project : \A m \in DOMAIN runs[q] :
        q # p \/ m # n => row.new \cap runs[q][m].new = {}
  <2> SUFFICES ASSUME NEW q \in Project, NEW m \in DOMAIN runs[q], q # p \/ m # n
               PROVE  runs[p][n].new \cap runs[q][m].new = {}
    BY <1>2
  <2>1. <<p, n>> # <<q, m>>
    OBVIOUS
  <2>2. QED
    BY <2>1 DEF Tables, RowsInv, NewInOneRun
<1>5. Fitting(p, n, row)
  BY <1>1, <1>2, <1>3, <1>4 DEF Fitting
<1>6. QED
  BY <1>2, <1>5 DEF row

LEMMA BeginStands ==
  ASSUME ResearchInv, Remember, NEW r \in Request, Begin(r)
  PROVE  Moves(r) /\ Stands(r)'
<1>1. /\ pc[r] = "queued" /\ UNCHANGED <<edits, clock, project, forum, items, todo, view, run, reply, faults>>
      /\ RequestTypes /\ Counters /\ Tables /\ RunStands(r)
  BY InParts DEF Begin, At
<1>2. Counters' /\ clock' = clock /\ clock <= clock'
  BY <1>1 DEF Counters, Tables, TableTypes
<1>3. CASE run[r] = Gone
  <2>1. pc' = [pc EXCEPT ![r] = "fail"] /\ runs' = runs
    BY <1>3 DEF Begin, Go
  <2>2. Tables' /\ TablesGrow
    BY <1>1, <2>1, TablesStay
  <2>3. RequestTypes' /\ (\A q \in Request \ {r} : Stays(q)) /\ pc'[r] = "fail"
    BY <1>1, <2>1 DEF RequestTypes, Stays
  <2>4. /\ ListStands(r)'
        /\ view'[r] # None /\ ReadyFrom(view'[r]) # None
               => fit'[r] # None /\ (fit'[r] <= clock' \/ fit'[r] <= ReadyFrom(view'[r]))
    BY <1>1, <1>2, <2>2, <2>3, WithinKeeps
  <2>5. QED
    BY <1>1, <1>2, <1>3, <2>2, <2>3, <2>4, NoneAssumption
    DEF Moves, Stands, RunStands, ViewStands, At
<1>4. CASE run[r] # Gone
  <2> DEFINE p == run[r][1]
             n == run[r][2]
             row == Marked(runs[p][n], "running")
  <2>1. pc' = [pc EXCEPT ![r] = "ask"] /\ runs' = [runs EXCEPT ![p][n].status = "running"]
    BY <1>4 DEF Begin, Go
  <2>2. p = Current(r) /\ p \in Project /\ n \in DOMAIN runs[p] /\ n <= MaxRuns
    BY <1>1, <1>4, AtRun
  <2>3. row \in RunRow /\ row.status = "running" /\ Fitting(p, n, row)
    BY <1>1, <2>2, MarkFits
  <2>4. Touches(p, n, row)
    BY <2>1 DEF Touches, Marked
  <2> HIDE DEF row
  <2>5. Tables' /\ TablesGrow
    BY <1>1, <1>2, <2>2, <2>3, <2>4, RowChanges
  <2>6. RequestTypes' /\ (\A q \in Request \ {r} : Stays(q)) /\ pc'[r] = "ask"
    BY <1>1, <2>1 DEF RequestTypes, Stays
  <2>7. /\ ListStands(r)' /\ Current(r)' = Current(r)
        /\ view'[r] # None /\ ReadyFrom(view'[r]) # None
               => fit'[r] # None /\ (fit'[r] <= clock' \/ fit'[r] <= ReadyFrom(view'[r]))
    BY <1>1, <1>2, <2>5, <2>6, WithinKeeps
  <2>8. run[r] # None /\ n \in DOMAIN runs'[p]
    BY <1>1, <2>2, <2>5 DEF RunStands, TablesGrow
  <2>9. RunStands(r)' /\ ViewStands(r)'
    BY <1>1, <2>2, <2>6, <2>7, <2>8 DEF RunStands, ViewStands, At
  <2>10. QED
    BY <1>2, <2>5, <2>6, <2>7, <2>9 DEF Moves, Stands
<1>5. QED
  BY <1>3, <1>4

\* A step of a request at a run that leaves the tables and its list alone.
AtARun == {"queued", "ask", "fetch", "record", "persist", "fail"}

LEMMA RunStays ==
  ASSUME ResearchInv, NEW r \in Request, pc[r] \in AtARun, pc'[r] \in AtARun, TablesGrow,
         run' = run, todo' = todo,
         pc'[r] = "record" => Current(r) \in OnForum /\ reply'[r].at # None
  PROVE  RunStands(r)'
<1>1. RunStands(r) /\ Current(r)' = Current(r)
  BY InParts DEF Current
<1>2. run[r] # None
  BY <1>1 DEF RunStands, AtARun
<1>3. run[r] # Gone => run[r][1] = Current(r) /\ Current(r) \in Project /\ run[r][2] \in DOMAIN runs[Current(r)]
  BY AtRun DEF AtARun
<1>4. run[r] # Gone => run[r][2] \in DOMAIN runs'[Current(r)]
  BY <1>3 DEF TablesGrow
<1>5. QED
  BY <1>1, <1>2, <1>3, <1>4 DEF RunStands, At, AtARun

LEMMA AskStands ==
  ASSUME ResearchInv, Remember, NEW r \in Request, Ask(r)
  PROVE  Moves(r) /\ Stands(r)'
<1>1. /\ pc[r] = "ask"
      /\ UNCHANGED <<edits, clock, project, runs, forum, items, todo, run, reply, faults>>
  BY DEF Ask, At
<1>2. PICK seen \in Seen(r) :
        /\ view' = [view EXCEPT ![r] = seen]
        /\ Go(r, IF Current(r) \notin OnForum \/ CanRun(seen) THEN "fetch" ELSE "fail")
  BY DEF Ask
<1> DEFINE where == IF Current(r) \notin OnForum \/ CanRun(seen) THEN "fetch" ELSE "fail"
<1>3. pc' = [pc EXCEPT ![r] = where]
  BY <1>2 DEF Go
<1>4. where = "fetch" /\ Current(r) \in OnForum => CanRun(seen)
  OBVIOUS
<1>5. where \in {"fetch", "fail"}
  OBVIOUS
<1> HIDE DEF where
<1>6. /\ seen \in Forum \cup {None} /\ (seen = view[r] \/ seen = forum)
      /\ Current(r) \in OnForum => seen # None
  BY SeenForum
<1>7. RequestTypes /\ Counters
  BY InParts
<1>8. Tables' /\ TablesGrow /\ Counters' /\ clock' = clock /\ clock <= clock'
  BY <1>1, <1>7, TablesStay DEF Counters
<1>9. RequestTypes'
  BY <1>1, <1>2, <1>3, <1>5, <1>6, <1>7 DEF RequestTypes
<1>10. (\A q \in Request \ {r} : Stays(q)) /\ pc'[r] = where /\ view'[r] = seen
  BY <1>1, <1>2, <1>3, <1>7 DEF RequestTypes, Stays
<1>11. pc'[r] \in {"fetch", "fail"}
  BY <1>5, <1>10
<1>12. /\ ListStands(r)' /\ Current(r)' = Current(r)
       /\ view'[r] # None /\ ReadyFrom(view'[r]) # None
               => fit'[r] # None /\ (fit'[r] <= clock' \/ fit'[r] <= ReadyFrom(view'[r]))
  BY <1>1, <1>6, <1>8, <1>10, <1>11, WithinKeeps
<1>13. RunStands(r)'
  BY <1>1, <1>8, <1>11, RunStays DEF AtARun
<1>14. CanRun(seen) /\ seen \in Forum => ReadyFrom(seen) # None /\ ReadyFrom(seen) \in Nat /\ ReadyFrom(seen) <= clock
  BY <1>8, NoneAssumption, ResearchAssumption DEF CanRun, ReadyFrom, Forum, Times, Tables, TableTypes
<1>15. pc'[r] = "fetch" /\ Current(r) \in OnForum => fit'[r] # None /\ fit'[r] <= clock'
  <2> SUFFICES ASSUME pc'[r] = "fetch", Current(r) \in OnForum
               PROVE  fit'[r] # None /\ fit'[r] <= clock'
    OBVIOUS
  <2>1. CanRun(seen) /\ seen \in Forum /\ seen # None
    BY <1>4, <1>6, <1>10
  <2>2. ReadyFrom(seen) # None /\ ReadyFrom(seen) \in Nat /\ ReadyFrom(seen) <= clock
    BY <1>14, <2>1
  <2>3. fit'[r] # None /\ (fit'[r] <= clock' \/ fit'[r] <= ReadyFrom(seen))
    BY <1>10, <1>12, <2>1, <2>2
  <2>4. fit'[r] \in Times /\ clock' \in Nat /\ clock \in Nat
    BY <1>7, <1>8, InParts, Remembered DEF Histories, TypeOK, Counters
  <2>5. QED
    BY <1>8, <2>2, <2>3, <2>4, NoneAssumption DEF Times
<1>16. ViewStands(r)'
  BY <1>6, <1>10, <1>11, <1>12, <1>15 DEF ViewStands, At
<1>17. QED
  BY <1>8, <1>9, <1>10, <1>12, <1>13, <1>16 DEF Moves, Stands

\* What the connector brought.
Got(ok, S, w) == [ok |-> ok, items |-> S, wait |-> w, at |-> clock]

LEMMA GotTyped ==
  ASSUME TypeOK, NEW ok \in BOOLEAN, NEW S \in SUBSET Item, NEW w \in 0..MaxWait
  PROVE  Got(ok, S, w) \in Replies /\ Got(ok, S, w).at # None
  BY NoneAssumption, ResearchAssumption DEF Got, Replies, TypeOK

LEMMA AnswerStands ==
  ASSUME ResearchInv, Remember, NEW r \in Request, Answer(r)
  PROVE  Moves(r) /\ Stands(r)'
<1>1. /\ pc[r] = "fetch"
      /\ UNCHANGED <<edits, clock, project, runs, forum, items, todo, view, run, faults>>
  BY DEF Answer, At
<1>2. RequestTypes /\ Counters /\ TypeOK /\ ViewStands(r)
  BY InParts
<1>3. PICK ok \in BOOLEAN, S \in SUBSET Item, w \in 0..MaxWait,
           where \in {"record", "persist", "fail"} :
        /\ reply' = [reply EXCEPT ![r] = Got(ok, S, w)] /\ pc' = [pc EXCEPT ![r] = where]
        /\ where = "record" => Current(r) \in OnForum
  <2>1. 0 \in 0..MaxWait
    BY ResearchAssumption
  <2>2. CASE \E S \in SUBSET Item, w \in (IF Current(r) \in OnForum THEN 0..MaxWait ELSE {0}) :
               /\ reply' = [reply EXCEPT ![r] = Got(TRUE, S, w)]
               /\ Go(r, IF Current(r) \in OnForum THEN "record" ELSE "persist")
    BY <2>1, <2>2 DEF Go
  <2>3. CASE \E w \in (IF Current(r) \in OnForum THEN 0..MaxWait ELSE {0}) :
               /\ reply' = [reply EXCEPT ![r] = Got(FALSE, {}, w)]
               /\ Go(r, "fail")
    BY <2>1, <2>3 DEF Go
  <2>4. QED
    BY <2>2, <2>3 DEF Answer, Got
<1>4. Got(ok, S, w) \in Replies /\ Got(ok, S, w).at # None
  BY <1>2, GotTyped
<1>5. Tables' /\ TablesGrow /\ Counters' /\ clock' = clock /\ clock <= clock'
  BY <1>1, <1>2, TablesStay DEF Counters
<1>6. RequestTypes'
  BY <1>1, <1>2, <1>3, <1>4 DEF RequestTypes
<1>7. (\A q \in Request \ {r} : Stays(q)) /\ pc'[r] = where /\ reply'[r].at # None /\ view'[r] = view[r]
  BY <1>1, <1>2, <1>3, <1>4 DEF RequestTypes, Stays
<1>8. /\ ListStands(r)' /\ Current(r)' = Current(r)
      /\ view'[r] # None /\ ReadyFrom(view'[r]) # None
               => fit'[r] # None /\ (fit'[r] <= clock' \/ fit'[r] <= ReadyFrom(view'[r]))
      /\ fit[r] # None /\ fit[r] <= clock => fit'[r] # None /\ fit'[r] <= clock'
  <2>1. pc[r] # "idle" /\ pc'[r] # "idle" /\ todo'[r] = todo[r]
    BY <1>1, <1>3, <1>7
  <2>2. QED
    BY <1>5, <1>7, <2>1, WithinKeeps
<1>9. RunStands(r)'
  BY <1>1, <1>3, <1>5, <1>7, RunStays DEF AtARun
<1>10. Current(r) \in OnForum => view'[r] # None /\ fit'[r] # None /\ fit'[r] <= clock'
  BY <1>1, <1>2, <1>7, <1>8 DEF ViewStands
<1>11. pc'[r] # "idle" /\ pc'[r] # "fetch"
  BY <1>3, <1>7
<1>12. ViewStands(r)'
  BY <1>7, <1>8, <1>10, <1>11 DEF ViewStands, At
<1>13. QED
  BY <1>5, <1>6, <1>7, <1>8, <1>9, <1>12 DEF Moves, Stands

LEMMA RetriesTyped ==
  ASSUME NEW f \in Forum, NEW retry \in Times
  PROVE  /\ [f EXCEPT !.retry = retry] \in Forum
         /\ \A held : RecordDiscourseSuccess(f, held, retry) \in Forum
  BY DEF Forum, RecordDiscourseSuccess

LEMMA RecordStands ==
  ASSUME ResearchInv, Remember, NEW r \in Request, RecordSuccess(r)
  PROVE  Moves(r) /\ Stands(r)'
<1> DEFINE retry == RetryAfter(reply[r].at, reply[r].wait)
           seen == [view[r] EXCEPT !.retry = retry]
<1>1. /\ pc[r] = "record" /\ pc' = [pc EXCEPT ![r] = "persist"] /\ view' = [view EXCEPT ![r] = seen]
      /\ UNCHANGED <<edits, clock, project, runs, items, todo, run, reply, faults>>
      /\ \E held \in {view[r].retry, forum.retry} : forum' = RecordDiscourseSuccess(forum, held, retry)
  BY DEF RecordSuccess, At, Go
<1>2. RequestTypes /\ Counters /\ TypeOK /\ ViewStands(r) /\ ListStands(r) /\ RunStands(r)
  BY InParts
<1>3. Current(r) \in OnForum /\ reply[r].at # None
  BY <1>1, <1>2 DEF RunStands, At
<1>4. view[r] \in Forum /\ fit[r] # None /\ fit[r] <= clock
  BY <1>1, <1>2, <1>3 DEF ViewStands, RequestTypes
<1>5. reply[r].at \in 0..MaxTime /\ reply[r].wait \in 0..MaxWait
  BY <1>2, <1>3 DEF RequestTypes, Replies
<1>6. retry \in Times
  BY <1>5, RetryTyped
<1> HIDE DEF retry
<1>7. seen \in Forum
  BY <1>4, <1>6, RetriesTyped
<1>8. forum' \in Forum
  BY <1>1, <1>2, <1>6, RetriesTyped DEF Counters
<1> HIDE DEF seen
<1>9. Tables' /\ TablesGrow /\ clock' = clock /\ clock <= clock'
  BY <1>1, TablesStay
<1>10. Counters'
  BY <1>1, <1>2, <1>8 DEF Counters
<1>11. RequestTypes'
  BY <1>1, <1>2, <1>7 DEF RequestTypes
<1>12. (\A q \in Request \ {r} : Stays(q)) /\ pc'[r] = "persist" /\ todo'[r] = todo[r]
  BY <1>1, <1>2 DEF RequestTypes, Stays
<1>13. ListStands(r)'
  <2>1. todo[r] # <<>>
    BY <1>1, CurrentProject
  <2>2. QED
    BY <1>1, <1>2, <1>8, <1>9, <1>12, <2>1, ListKept DEF TablesGrow
<1>14. fit'[r] # None /\ fit'[r] <= clock'
  <2>1. /\ fit[r] # None => fit'[r] # None /\ fit'[r] <= fit[r]
        /\ fit'[r] \in Times
    BY <1>1, <1>2, <1>8, <1>12, Remembered DEF Histories
  <2>2. fit[r] \in Times /\ clock \in Nat
    BY <1>2 DEF TypeOK
  <2>3. QED
    BY <1>4, <1>9, <2>1, <2>2, NoneAssumption DEF Times
<1>15. RunStands(r)'
  BY <1>1, <1>9, <1>12, RunStays DEF AtARun
<1>16. ViewStands(r)'
  BY <1>12, <1>14 DEF ViewStands, At
<1>17. QED
  BY <1>9, <1>10, <1>11, <1>12, <1>13, <1>15, <1>16 DEF Moves, Stands

\* The request fails at what it is doing; its handler comes next.
LEMMA FailsNext ==
  ASSUME ResearchInv, Remember, NEW r \in Request, pc[r] = "persist",
         pc' = [pc EXCEPT ![r] = "fail"], UNCHANGED <<todo, view, run, reply>>,
         Tables', TablesGrow, Counters', clock' = clock
  PROVE  Moves(r) /\ Stands(r)'
<1>1. RequestTypes /\ TypeOK
  BY InParts
<1>2. RequestTypes'
  BY <1>1 DEF RequestTypes
<1>3. (\A q \in Request \ {r} : Stays(q)) /\ pc'[r] = "fail" /\ todo'[r] = todo[r] /\ view'[r] = view[r]
  BY <1>1 DEF RequestTypes, Stays
<1>4. /\ ListStands(r)'
      /\ view'[r] # None /\ ReadyFrom(view'[r]) # None
               => fit'[r] # None /\ (fit'[r] <= clock' \/ fit'[r] <= ReadyFrom(view'[r]))
  BY <1>3, WithinKeeps
<1>5. RunStands(r)'
  BY <1>3, RunStays DEF AtARun
<1>6. ViewStands(r)'
  BY <1>3, <1>4 DEF ViewStands, At
<1>7. clock <= clock'
  BY <1>1 DEF TypeOK
<1>8. QED
  BY <1>2, <1>3, <1>4, <1>5, <1>6, <1>7 DEF Moves, Stands

LEMMA PersistRaisesStands ==
  ASSUME ResearchInv, Remember, NEW r \in Request, PersistRaises(r)
  PROVE  Moves(r) /\ Stands(r)'
<1>1. Counters'
  BY FaultKeeps DEF PersistRaises
<1>2. Tables' /\ TablesGrow
  BY TablesStay DEF PersistRaises
<1>3. QED
  BY <1>1, <1>2, FailsNext DEF PersistRaises, At, Go

\* Storing the evidence of a run that is still there.
LEMMA StoreKeeps ==
  ASSUME ResearchInv, NEW r \in Request, pc[r] = "persist", run[r] # Gone, clock' = clock,
         NEW raised \in BOOLEAN, Store(r, raised)
  PROVE  Tables' /\ TablesGrow
<1> DEFINE p == run[r][1]
           n == run[r][2]
           fresh == reply[r].items \ items
           row == [status |-> "completed", whole |-> TRUE, new |-> fresh, lost |-> raised]
<1>1. /\ p \in Project /\ n \in DOMAIN runs[p] /\ n <= MaxRuns /\ Tables
  BY AtRun, InParts
<1>2. /\ items' = items \cup reply[r].items /\ runs' = [runs EXCEPT ![p][n] = row] /\ MarkLatest(p, n)
  BY DEF Store
<1>3. reply[r].items \subseteq Item
  BY InParts DEF RequestTypes, Replies
<1>4. row \in RunRow /\ row.status = "completed" /\ row.whole = TRUE /\ row.new = fresh
  BY <1>3 DEF RunRow
<1>5. Touches(p, n, row)
  BY <1>2 DEF Touches
<1> HIDE DEF row
<1>6. Fitting(p, n, row)
  BY <1>1, <1>2, <1>3, <1>4 DEF Fitting, Tables, TableTypes, RowsInv
<1>7. QED
  BY <1>1, <1>2, <1>4, <1>5, <1>6, RowChanges

LEMMA PersistStands ==
  ASSUME ResearchInv, Remember, NEW r \in Request, Persist(r)
  PROVE  Moves(r) /\ Stands(r)'
<1>1. /\ pc[r] = "persist" /\ run[r] # Gone /\ Store(r, FALSE) /\ Advance(r, view[r])
      /\ UNCHANGED <<edits, clock, forum, faults>>
  BY DEF Persist, At
<1>2. Tables' /\ TablesGrow
  BY <1>1, StoreKeeps
<1>3. Counters' /\ clock <= clock' /\ view[r] \in Forum \cup {None}
  BY <1>1, InParts DEF Counters, RequestTypes, TableTypes
<1>4. RequestTypes' /\ (\A q \in Request \ {r} : Stays(q)) /\ Stands(r)'
  BY <1>1, <1>2, <1>3, AdvanceKeeps
<1>5. QED
  BY <1>2, <1>3, <1>4 DEF Moves

LEMMA LoseReportStands ==
  ASSUME ResearchInv, Remember, NEW r \in Request, LoseReport(r)
  PROVE  Moves(r) /\ Stands(r)'
<1>1. /\ pc[r] = "persist" /\ run[r] # Gone /\ Store(r, TRUE) /\ pc' = [pc EXCEPT ![r] = "fail"]
      /\ UNCHANGED <<edits, clock, forum, todo, view, run, reply>> /\ Fault
  BY DEF LoseReport, At, Go
<1>2. Tables' /\ TablesGrow
  BY <1>1, StoreKeeps
<1>3. Counters'
  BY <1>1, FaultKeeps
<1>4. QED
  BY <1>1, <1>2, <1>3, FailsNext

LEMMA FailStands ==
  ASSUME ResearchInv, Remember, NEW r \in Request, Fail(r)
  PROVE  Moves(r) /\ Stands(r)'
<1>1. pc[r] = "fail" /\ UNCHANGED <<edits, clock, items, faults>> /\ Counters /\ Tables /\ RequestTypes
  BY InParts DEF Fail, At
<1>2. CASE run[r] = Gone
  <2>1. Finish(r) /\ UNCHANGED <<project, runs, forum>>
    BY <1>2 DEF Fail
  <2>2. Counters'
    BY <1>1, <2>1 DEF Counters
  <2>3. QED
    BY <1>1, <2>1, <2>2, EndsQuietly
<1>3. CASE run[r] # Gone
  <2> DEFINE p == run[r][1]
             n == run[r][2]
             row == Marked(runs[p][n], "failed")
  <2>1. /\ runs' = [runs EXCEPT ![p][n].status = "failed"] /\ MarkLatest(p, n)
        /\ forum' = IF Current(r) \in OnForum /\ reply[r].at # None /\ ~reply[r].ok
                    THEN RecordDiscourseFailure(forum, reply[r].wait)
                    ELSE forum
        /\ Advance(r, None)
    BY <1>3 DEF Fail
  <2>2. p \in Project /\ n \in DOMAIN runs[p] /\ n <= MaxRuns
    BY <1>1, <1>3, AtRun
  <2>3. row \in RunRow /\ row.status = "failed" /\ Fitting(p, n, row)
    BY <1>1, <2>2, MarkFits
  <2>4. Touches(p, n, row)
    BY <2>1 DEF Touches, Marked
  <2> HIDE DEF row
  <2>5. Tables' /\ TablesGrow
    BY <1>1, <2>1, <2>2, <2>3, <2>4, RowChanges
  <2>6. forum' \in Forum
    <3>1. reply[r].wait \in 0..MaxWait /\ clock \in 0..MaxTime /\ forum \in Forum
      BY <1>1 DEF RequestTypes, Replies, Counters, Tables, TableTypes
    <3>2. RetryAfter(clock, reply[r].wait) \in Times
      BY <3>1, RetryTyped
    <3>3. RecordDiscourseFailure(forum, reply[r].wait) \in Forum
      BY <3>1, <3>2, RetriesTyped DEF RecordDiscourseFailure
    <3>4. QED
      BY <2>1, <3>1, <3>3
  <2>7. Counters'
    BY <1>1, <2>6 DEF Counters
  <2>8. RequestTypes' /\ (\A q \in Request \ {r} : Stays(q)) /\ Stands(r)'
    BY <1>1, <2>1, <2>5, <2>7, AdvanceKeeps
  <2>9. clock <= clock'
    BY <1>1 DEF Tables, TableTypes
  <2>10. QED
    BY <2>5, <2>7, <2>8, <2>9 DEF Moves
<1>4. QED
  BY <1>2, <1>3

(* ---- a request begins ----------------------------------------------------- *)
LEMMA BeginsList ==
  ASSUME ResearchInv, Remember, NEW r \in Request, pc[r] = "idle",
         NEW list \in Seq(Project), list # <<>>, \A i \in DOMAIN list : Enabled(list[i]),
         todo' = [todo EXCEPT ![r] = list], pc' = [pc EXCEPT ![r] = "consider"],
         UNCHANGED <<edits, clock, project, runs, forum, items, view, run, reply, faults>>
  PROVE  Moves(r) /\ Stands(r)'
<1>1. RequestTypes /\ Counters /\ TypeOK /\ ViewStands(r) /\ RunStands(r)
  BY InParts
<1>2. run[r] = None /\ view[r] = None
  BY <1>1 DEF RunStands, ViewStands, At
<1>3. Tables' /\ TablesGrow /\ Counters' /\ clock <= clock'
  BY <1>1, TablesStay DEF Counters
<1>4. RequestTypes'
  BY <1>1 DEF RequestTypes
<1>5. /\ \A q \in Request \ {r} : Stays(q)
      /\ pc'[r] = "consider" /\ todo'[r] = list /\ view'[r] = None /\ run'[r] = None
  BY <1>1, <1>2 DEF RequestTypes, Stays
<1>6. forum' \in Forum
  BY <1>1 DEF Counters
<1>7. \A p \in Project : Enabled(p) => p \in wanted'[r]
  BY <1>1, <1>5, <1>6, Remembered
<1>8. \A i \in DOMAIN list : list[i] \in Project
  OBVIOUS
<1>9. ListStands(r)'
  BY <1>5, <1>7, <1>8 DEF ListStands, At, Enabled
<1>10. RunStands(r)' /\ ViewStands(r)'
  BY <1>5 DEF RunStands, ViewStands, At
<1>11. QED
  BY <1>3, <1>4, <1>5, <1>9, <1>10 DEF Moves, Stands

LEMMA RunProjectStands ==
  ASSUME ResearchInv, Remember, NEW r \in Request, NEW p \in Project, RunProject(r, p)
  PROVE  Moves(r) /\ Stands(r)'
<1> DEFINE list == <<p>>
<1>1. list \in Seq(Project) /\ list # <<>> /\ \A i \in DOMAIN list : list[i] = p
  OBVIOUS
<1>2. /\ pc[r] = "idle" /\ Enabled(p) /\ todo' = [todo EXCEPT ![r] = list]
      /\ pc' = [pc EXCEPT ![r] = "consider"]
      /\ UNCHANGED <<edits, clock, project, runs, forum, items, view, run, reply, faults>>
  BY DEF RunProject, At, Go
<1> HIDE DEF list
<1>3. \A i \in DOMAIN list : Enabled(list[i])
  BY <1>1, <1>2
<1>4. QED
  BY <1>1, <1>2, <1>3, BeginsList

LEMMA RunDueStands ==
  ASSUME ResearchInv, Remember, NEW r \in Request, RunDue(r)
  PROVE  Moves(r) /\ Stands(r)'
<1> DEFINE D == {p \in Project : Due(p)}
           n == Cardinality(D)
<1>1. PICK list \in DueLists : todo' = [todo EXCEPT ![r] = list]
  BY DEF RunDue
<1>2. /\ pc[r] = "idle" /\ pc' = [pc EXCEPT ![r] = "consider"] /\ D # {}
      /\ UNCHANGED <<edits, clock, project, runs, forum, items, view, run, reply, faults>>
  BY DEF RunDue, At, Go
<1>3. list \in [1..n -> D]
  BY DEF DueLists
<1>4. n \in Nat /\ n # 0
  <2>1. IsFiniteSet(D)
    BY ResearchAssumption, FS_Subset
  <2>2. QED
    BY <1>2, <2>1, FS_CardinalityType, FS_EmptySet
<1>5. \A p \in D : p \in Project /\ Enabled(p)
  BY DEF Due
<1> HIDE DEF n, D
<1>6. list \in Seq(Project) /\ Len(list) = n /\ DOMAIN list = 1..n
  BY <1>3, <1>4, <1>5
<1>7. list # <<>>
  BY <1>4, <1>6
<1>8. \A i \in DOMAIN list : Enabled(list[i])
  BY <1>3, <1>5
<1>9. QED
  BY <1>1, <1>2, <1>6, <1>7, <1>8, BeginsList

LEMMA WorkStands ==
  ASSUME ResearchInv, Remember, NEW r \in Request, Work(r)
  PROVE  Moves(r) /\ Stands(r)'
  BY ConsiderKeeps, ReserveStands, ReserveRaisesStands, BeginStands, AskStands, AnswerStands,
     RecordStands, PersistStands, LoseReportStands, PersistRaisesStands, FailStands, FailRaisesStands
  DEF Work

(* ---- everything else ------------------------------------------------------ *)
\* What the others change: no request moves, unless all of them end or are reset.
Around == Tables' /\ Counters' /\ RequestTypes' /\ \A q \in Request : Stands(q)'

LEMMA RestStand ==
  ASSUME ResearchInv, Remember, TablesGrow, Tables', Counters', clock <= clock', UNCHANGED requests
  PROVE  Around
<1>1. TypeOK /\ RequestTypes /\ \A q \in Request : Stands(q)
  BY InParts
<1>2. RequestTypes' /\ \A q \in Request : Stays(q)
  BY <1>1 DEF requests, RequestTypes, Stays
<1>3. forum' \in Forum /\ clock' \in 0..MaxTime
  BY DEF Counters, Tables, TableTypes
<1>4. \A q \in Request : Stands(q)'
  BY <1>1, <1>2, <1>3, OthersStand
<1>5. QED
  BY <1>2, <1>4 DEF Around

LEMMA ForumTyped ==
  ASSUME NEW f \in Forum, NEW b \in BOOLEAN
  PROVE  /\ [f EXCEPT !.authorized = b] \in Forum
         /\ [f EXCEPT !.enabled = ~@] \in Forum
  BY DEF Forum

LEMMA EditsCounted ==
  ASSUME ResearchInv, Edit, faults' = faults, forum' \in Forum
  PROVE  Counters'
<1>1. Counters
  BY InParts
<1>2. QED
  BY <1>1, ResearchAssumption DEF Counters, Edit

LEMMA OperatorKeeps ==
  ASSUME ResearchInv, Remember,
         \/ \E p \in Project : CreateProject(p) \/ UpdateProject(p)
         \/ AuthorizeForum \/ RevokeForum \/ UpdateSource
         \/ OtherScan \/ Tick
  PROVE  Around
<1>1. Tables /\ Counters /\ forum \in Forum /\ clock \in 0..MaxTime
  BY InParts DEF Counters, TableTypes
<1>2. CASE \E p \in Project : CreateProject(p)
  <2>1. PICK p \in Project : CreateProject(p)
    BY <1>2
  <2>2. Tables' /\ TablesGrow
    BY <1>1, <2>1, CreateKeeps
  <2>3. Counters' /\ clock <= clock' /\ UNCHANGED requests
    BY <1>1, <2>1 DEF CreateProject, Counters
  <2>4. QED
    BY <2>2, <2>3, RestStand
<1>3. CASE \E p \in Project : UpdateProject(p)
  <2>1. PICK p \in Project : UpdateProject(p)
    BY <1>3
  <2>2. Tables' /\ TablesGrow
    BY <1>1, <2>1, UpdateKeeps
  <2>3. Edit /\ UNCHANGED <<clock, forum, requests, faults>>
    BY <2>1 DEF UpdateProject
  <2>4. Counters' /\ clock <= clock'
    BY <1>1, <2>3, EditsCounted
  <2>5. QED
    BY <2>2, <2>3, <2>4, RestStand
<1>4. CASE AuthorizeForum \/ RevokeForum \/ UpdateSource
  <2>1. UNCHANGED <<clock, project, runs, items, requests, faults>> /\ Edit
    BY <1>4 DEF AuthorizeForum, RevokeForum, UpdateSource
  <2>2. forum' \in Forum
    BY <1>1, <1>4, ForumTyped DEF AuthorizeForum, RevokeForum, UpdateSource
  <2>3. Counters'
    BY <2>1, <2>2, EditsCounted
  <2>4. QED
    BY <2>1, <2>3, TablesStay, RestStand
<1>5. CASE OtherScan
  <2>1. /\ UNCHANGED <<clock, project, runs, forum, requests, faults>> /\ Edit
        /\ items \subseteq items' /\ items' \subseteq Item
    BY <1>1, <1>5 DEF OtherScan, Tables, TableTypes
  <2>2. Tables' /\ TablesGrow
    BY <1>1, <2>1, TablesUnchanged
  <2>3. Counters'
    BY <1>1, <2>1, EditsCounted
  <2>4. clock <= clock'
    BY <1>1, <2>1
  <2>5. QED
    BY <2>1, <2>2, <2>3, <2>4, RestStand
<1>6. CASE Tick
  <2>1. /\ clock' \in 0..MaxTime /\ clock <= clock'
        /\ UNCHANGED <<edits, project, runs, forum, items, requests, faults>>
    BY <1>1, <1>6, ResearchAssumption DEF Tick
  <2>2. items \subseteq items' /\ items' \subseteq Item
    BY <1>1, <2>1 DEF Tables, TableTypes
  <2>3. Tables' /\ TablesGrow
    BY <1>1, <2>1, <2>2, TablesUnchanged
  <2>4. Counters'
    BY <1>1, <2>1 DEF Counters
  <2>5. QED
    BY <2>1, <2>3, <2>4, RestStand
<1>7. QED
  BY <1>2, <1>3, <1>4, <1>5, <1>6

LEMMA CrashKeeps ==
  ASSUME ResearchInv, Crash
  PROVE  Around
<1>1. Tables' /\ Counters'
  BY TablesStay, FaultKeeps DEF Crash
<1>2. NoReply \in Replies
  BY ResearchAssumption DEF NoReply, Replies
<1>3. RequestTypes'
  BY <1>2 DEF Crash, RequestTypes
<1>4. \A r \in Request : pc'[r] = "idle" /\ todo'[r] = <<>> /\ view'[r] = None /\ run'[r] = None
  BY DEF Crash
<1>5. \A r \in Request : Stands(r)'
  BY <1>4 DEF Stands, ListStands, RunStands, ViewStands, At
<1>6. QED
  BY <1>1, <1>3, <1>5 DEF Around

LEMMA ResetStands ==
  ASSUME ResearchInv, Remember, ResetDemo
  PROVE  Around
<1>1. /\ UNCHANGED <<edits, clock, forum, pc, todo, view, reply>> /\ Fault
      /\ run' = [r \in Request |-> IF run[r] = None THEN None ELSE Gone]
  BY DEF ResetDemo
<1>2. Tables' /\ \A p \in Project : project[p] # None => project'[p] # None
  BY InParts, ResetKeeps
<1>3. Counters'
  BY <1>1, FaultKeeps
<1>4. RequestTypes'
  BY <1>1, InParts DEF RequestTypes
<1>5. TypeOK /\ forum' \in Forum /\ clock' \in 0..MaxTime /\ clock <= clock'
  BY <1>1, <1>3, InParts DEF Counters, TypeOK
<1>6. ASSUME NEW r \in Request
      PROVE  Stands(r)'
  <2>1. ListStands(r) /\ RunStands(r) /\ ViewStands(r)
    BY InParts
  <2>2. RunStands(r)'
    BY <1>1, <2>1, NoneAssumption DEF RunStands, At, Current
  <2>3. CASE pc[r] = "idle"
    <3>1. todo[r] = <<>> /\ view[r] = None
      BY <2>1, <2>3 DEF ListStands, ViewStands, At
    <3>2. QED
      BY <1>1, <2>2, <2>3, <3>1 DEF Stands, ListStands, ViewStands, At
  <2>4. CASE pc[r] # "idle"
    <3>1. todo[r] # <<>>
      BY <2>4, CurrentProject
    <3>2. ListStands(r)'
      BY <1>1, <1>2, <1>5, <2>1, <2>4, <3>1, ListKept
    <3>3. view'[r] # None /\ ReadyFrom(view'[r]) # None
             => fit'[r] # None /\ (fit'[r] <= clock' \/ fit'[r] <= ReadyFrom(view'[r]))
      BY <1>1, <1>5, <2>1, <2>4, ViewKept
    <3>4. fit[r] # None /\ fit[r] <= clock => fit'[r] # None /\ fit'[r] <= clock'
      <4>1. fit[r] # None => fit'[r] # None /\ fit'[r] <= fit[r]
        BY <1>1, <1>5, <2>4, Remembered
      <4>2. fit[r] \in Times /\ fit'[r] \in Times /\ clock \in Nat
        BY <1>5, Remembered DEF TypeOK, Histories
      <4>3. QED
        BY <1>1, <4>1, <4>2, NoneAssumption DEF Times
    <3>5. ViewStands(r)'
      BY <1>1, <2>1, <2>4, <3>3, <3>4 DEF ViewStands, At, Current
    <3>6. QED
      BY <2>2, <3>2, <3>5 DEF Stands
  <2>5. QED
    BY <2>3, <2>4
<1>7. QED
  BY <1>2, <1>3, <1>4, <1>6 DEF Around

(* ---- the invariant -------------------------------------------------------- *)
LEMMA ResearchInvInit == Init => ResearchInv
<1> SUFFICES ASSUME Init PROVE ResearchInv
  OBVIOUS
<1>1. NoReply \in Replies
  BY ResearchAssumption DEF NoReply, Replies
<1>2. TypeOK
  BY <1>1, ResearchAssumption DEF Init, TypeOK, Forum, Times
<1>3. RowsInv
  BY DEF Init, RowsInv, NewestRunIsShown, EnabledStaysScheduled, Enabled, NewInOneRun
<1>4. \A r \in Request : ListStands(r) /\ RunStands(r) /\ ViewStands(r)
  BY NoneAssumption DEF Init, ListStands, RunStands, ViewStands, At
<1>5. QED
  BY <1>2, <1>3, <1>4 DEF ResearchInv

LEMMA RequestKeeps ==
  ASSUME ResearchInv, Remember, NEW r \in Request, Moves(r), Stands(r)'
  PROVE  Around
<1>1. /\ TypeOK /\ TablesGrow /\ clock <= clock' /\ \A q \in Request \ {r} : Stays(q)
      /\ Tables' /\ Counters' /\ RequestTypes'
  BY InParts DEF Moves
<1>2. forum' \in Forum /\ clock' \in 0..MaxTime
  BY <1>1 DEF Counters, Tables, TableTypes
<1>3. \A q \in Request : Stands(q)
  BY InParts
<1>4. \A q \in Request \ {r} : Stands(q)'
  BY <1>1, <1>2, <1>3, OthersStand
<1>5. QED
  BY <1>1, <1>4 DEF Around

LEMMA StepKeeps ==
  ASSUME ResearchInv, Step, Remember
  PROVE  Around
<1>1. CASE \/ \E p \in Project : CreateProject(p) \/ UpdateProject(p)
           \/ AuthorizeForum \/ RevokeForum \/ UpdateSource \/ OtherScan \/ Tick
  BY <1>1, OperatorKeeps
<1>2. CASE ResetDemo
  BY <1>2, ResetStands
<1>3. CASE Crash
  BY <1>3, CrashKeeps
<1>4. CASE \E r \in Request : (\E p \in Project : RunProject(r, p)) \/ RunDue(r) \/ Work(r)
  <2>1. PICK r \in Request : (\E p \in Project : RunProject(r, p)) \/ RunDue(r) \/ Work(r)
    BY <1>4
  <2>2. Moves(r) /\ Stands(r)'
    BY <2>1, RunProjectStands, RunDueStands, WorkStands
  <2>3. QED
    BY <2>2, RequestKeeps
<1>5. QED
  BY <1>1, <1>2, <1>3, <1>4 DEF Step

LEMMA ResearchInvKept == ResearchInv /\ [Next]_vars => ResearchInv'
<1> SUFFICES ASSUME ResearchInv, [Next]_vars PROVE ResearchInv'
  OBVIOUS
<1>1. CASE Next
  <2>1. Step /\ Remember
    BY <1>1 DEF Next
  <2>2. Around
    BY <2>1, StepKeeps
  <2>3. forum' \in Forum /\ TypeOK
    BY <2>2, InParts DEF Around, Counters
  <2>4. Histories'
    BY <2>1, <2>3, Remembered
  <2>5. TypeOK'
    BY <2>2, <2>4, TypesInParts DEF Around, Tables, TableTypes, RequestTypes, Counters, Histories, TypeOK
  <2>6. QED
    BY <2>2, <2>5 DEF Around, Tables, ResearchInv, Stands
<1>2. CASE UNCHANGED vars
  BY <1>2 DEF vars, requests, history, ResearchInv, TypeOK, RowsInv, NewestRunIsShown,
     EnabledStaysScheduled, NewInOneRun, Enabled, ListStands, RunStands, ViewStands, At, Current
<1>3. QED
  BY <1>1, <1>2

\* What the rows, the lists of the requests and what their sessions hold have to
\* do with each other stays so in every step of reserve_scan_job, process_scan,
\* its handler, run-due and everything that happens under them.
THEOREM ResearchInvariant == Spec => []ResearchInv
  BY ResearchInvInit, ResearchInvKept, PTL DEF Spec

(* ---- whose run it is ------------------------------------------------------ *)
\* The row of the run a request works on.
Row(r) == runs[run[r][1]][run[r][2]]

LEMMA OwnRow ==
  ASSUME ResearchInv, NEW r \in Request, run[r] \notin {None, Gone}
  PROVE  /\ run[r] = <<run[r][1], run[r][2]>>
         /\ run[r][1] \in Project /\ run[r][2] \in DOMAIN runs[run[r][1]]
         /\ pc[r] \notin {"idle", "consider", "reserve"}
<1>1. run[r] \in (Project \X (1..MaxRuns)) \cup {None, Gone} /\ RunStands(r)
  BY InParts DEF RequestTypes
<1>2. run[r] \in Project \X (1..MaxRuns)
  BY <1>1
<1>3. QED
  BY <1>1, <1>2 DEF RunStands

\* No row changes, and no request gets another run.
LEMMA OwnStays ==
  ASSUME OwnInv, runs' = runs,
         \A r \in Request : \/ run'[r] \in {None, Gone}
                            \/ run'[r] = run[r] /\ (pc[r] = "fail" => pc'[r] = "fail")
  PROVE  OwnInv'
  BY DEF OwnInv, At

\* One row changes: that of a request's run, which it may let go.
LEMMA OwnTouched ==
  ASSUME ResearchInv, OwnInv, NEW r \in Request, run[r] \notin {None, Gone},
         NEW row \in RunRow, Touches(run[r][1], run[r][2], row),
         row.status = "failed" /\ row.whole => row.lost,
         \A q \in Request \ {r} : Stays(q),
         \/ run'[r] = None
         \/ run'[r] = run[r] /\ (row.whole => row.lost /\ pc'[r] = "fail")
  PROVE  OwnInv'
<1> DEFINE p == run[r][1]
           n == run[r][2]
<1>1. p \in Project /\ n \in DOMAIN runs[p] /\ run[r] = <<p, n>> /\ TableTypes
  BY OwnRow, InParts
<1>2. /\ \A q \in Project \ {p} : runs'[q] = runs[q]
      /\ DOMAIN runs'[p] = DOMAIN runs[p] /\ runs'[p][n] = row
      /\ \A m \in DOMAIN runs[p] \ {n} : runs'[p][m] = runs[p][m]
  BY <1>1, TouchedRows
<1>3. \A q, o \in Request : run'[q] = run'[o] /\ run'[q] \notin {None, Gone} => q = o
  BY DEF OwnInv, Stays
<1>4. ASSUME NEW q \in Request, run'[q] \notin {None, Gone}
      PROVE  Row(q)'.whole => Row(q)'.lost /\ pc'[q] = "fail"
  <2>1. CASE q = r
    BY <1>2, <1>4, <2>1 DEF Row
  <2>2. CASE q # r
    <3>1. run'[q] = run[q] /\ pc'[q] = pc[q] /\ run[q] # run[r]
      BY <1>4, <2>2 DEF OwnInv, Stays
    <3>2. /\ run[q] = <<run[q][1], run[q][2]>>
          /\ run[q][1] \in Project /\ run[q][2] \in DOMAIN runs[run[q][1]]
      BY <1>4, <3>1, OwnRow
    <3>3. run[q][1] # p \/ run[q][2] # n
      BY <1>1, <3>1, <3>2
    <3>4. runs'[run[q][1]][run[q][2]] = runs[run[q][1]][run[q][2]]
      BY <1>2, <3>2, <3>3
    <3>5. QED
      BY <1>4, <3>1, <3>4 DEF OwnInv, Row, At
  <2>3. QED
    BY <2>1, <2>2
<1>5. ASSUME NEW q \in Project, NEW m \in DOMAIN runs'[q],
             runs'[q][m].status = "failed", runs'[q][m].whole
      PROVE  runs'[q][m].lost
  BY <1>1, <1>2, <1>5 DEF OwnInv
<1>6. QED
  BY <1>3, <1>4, <1>5 DEF OwnInv, Row, At

\* A request that is through with its run, or with its list, lets go of it.
LEMMA LetsGo ==
  ASSUME ResearchInv, NEW r \in Request, pc[r] # "idle", NEW seen,
         Finish(r) \/ Advance(r, seen)
  PROVE  run'[r] = None /\ \A q \in Request \ {r} : Stays(q)
<1>1. RequestTypes /\ todo[r] # <<>>
  BY CurrentProject, InParts
<1>2. QED
  BY <1>1 DEF Finish, Advance, Go, RequestTypes, Stays

\* A step between the transactions, or one that changes no run.
LEMMA QuietOwns ==
  ASSUME ResearchInv, OwnInv, NEW r \in Request,
         \/ Consider(r) \/ ReserveRaises(r) \/ Ask(r) \/ Answer(r) \/ RecordSuccess(r)
         \/ PersistRaises(r) \/ FailRaises(r) \/ RunDue(r) \/ \E p \in Project : RunProject(r, p)
  PROVE  OwnInv'
<1>1. runs' = runs
  BY DEF Consider, ReserveRaises, Ask, Answer, RecordSuccess, PersistRaises, FailRaises, RunDue,
     RunProject
<1>2. RequestTypes
  BY InParts
<1>3. CASE \/ ReserveRaises(r) \/ FailRaises(r)
           \/ Consider(r) /\ \E seen \in Seen(r) : Advance(r, seen)
  <2>1. pc[r] # "idle"
    BY <1>3 DEF ReserveRaises, FailRaises, Consider, At
  <2>2. run'[r] = None /\ \A q \in Request \ {r} : Stays(q)
    BY <1>3, <2>1, LetsGo DEF ReserveRaises, FailRaises
  <2>3. QED
    BY <1>1, <2>2, OwnStays DEF Stays
<1>4. CASE ~ \/ ReserveRaises(r) \/ FailRaises(r)
             \/ Consider(r) /\ \E seen \in Seen(r) : Advance(r, seen)
  <2>1. run' = run /\ pc[r] # "fail" /\ \E where : pc' = [pc EXCEPT ![r] = where]
    BY <1>4 DEF Consider, Ask, Answer, RecordSuccess, PersistRaises, RunDue, RunProject, At, Go
  <2>2. \A q \in Request : pc[q] = "fail" => pc'[q] = "fail"
    BY <1>2, <2>1 DEF RequestTypes
  <2>3. QED
    BY <1>1, <2>1, <2>2, OwnStays
<1>5. QED
  BY <1>3, <1>4

LEMMA ReserveOwns ==
  ASSUME ResearchInv, OwnInv, NEW r \in Request, Reserve(r)
  PROVE  OwnInv'
<1> DEFINE p == Current(r)
           n == Len(runs[p]) + 1
<1>1. /\ pc[r] = "reserve" /\ pc' = [pc EXCEPT ![r] = "queued"] /\ run' = [run EXCEPT ![r] = <<p, n>>]
      /\ runs' = [runs EXCEPT ![p] = Append(runs[p], Queued)]
  BY DEF Reserve, At, Go, Queued
<1>2. p \in Project /\ runs[p] \in Seq(RunRow) /\ RequestTypes /\ TableTypes
  BY <1>1, CurrentProject, InParts DEF TableTypes
<1> DEFINE s == Append(runs[p], Queued)
<1>3. /\ DOMAIN runs[p] = 1..Len(runs[p]) /\ Len(runs[p]) \in Nat
      /\ DOMAIN s = 1..n /\ s[n] = Queued /\ \A m \in DOMAIN runs[p] : s[m] = runs[p][m]
  BY <1>2
<1> HIDE DEF s
<1>4. runs'[p] = s /\ \A q \in Project \ {p} : runs'[q] = runs[q]
  BY <1>1, <1>2 DEF s, TableTypes
<1>5. n \notin DOMAIN runs[p] /\ DOMAIN s = DOMAIN runs[p] \cup {n}
  BY <1>3
<1> HIDE DEF n
<1>6. Queued.status = "queued" /\ Queued.whole = FALSE
  BY DEF Queued
<1>7. run'[r] = <<p, n>> /\ pc'[r] = "queued"
      /\ \A q \in Request \ {r} : run'[q] = run[q] /\ pc'[q] = pc[q]
  BY <1>1, <1>2 DEF RequestTypes
<1> HIDE DEF p
<1>8. ASSUME NEW q \in Request \ {r}, run[q] \notin {None, Gone}
      PROVE  run[q] # <<p, n>> /\ Row(q)' = Row(q)
  <2>1. /\ run[q] = <<run[q][1], run[q][2]>>
        /\ run[q][1] \in Project /\ run[q][2] \in DOMAIN runs[run[q][1]]
    BY <1>8, OwnRow
  <2>2. run[q][1] # p \/ run[q][2] # n
    BY <1>5, <2>1
  <2>3. run[q] # <<p, n>>
    BY <2>1, <2>2
  <2>4. runs'[run[q][1]][run[q][2]] = runs[run[q][1]][run[q][2]]
    <3>1. CASE run[q][1] = p
      <4>1. run[q][2] \in DOMAIN runs[p]
        BY <2>1, <3>1
      <4>2. runs'[p][run[q][2]] = runs[p][run[q][2]]
        BY <1>3, <1>4, <4>1
      <4>3. QED
        BY <3>1, <4>2
    <3>2. CASE run[q][1] # p
      BY <1>4, <2>1, <3>2
    <3>3. QED
      BY <3>1, <3>2
  <2>5. QED
    BY <1>7, <2>3, <2>4 DEF Row
<1>9. \A q, o \in Request : run'[q] = run'[o] /\ run'[q] \notin {None, Gone} => q = o
  BY <1>7, <1>8 DEF OwnInv
<1>10. ASSUME NEW q \in Request, run'[q] \notin {None, Gone}
       PROVE  Row(q)'.whole => Row(q)'.lost /\ pc'[q] = "fail"
  <2>1. CASE q = r
    <3>1. run'[r][1] = p /\ run'[r][2] = n
      BY <1>7
    <3>2. Row(r)' = s[n]
      BY <1>4, <3>1 DEF Row
    <3>3. ~Row(r)'.whole
      BY <1>3, <1>6, <3>2
    <3>4. QED
      BY <2>1, <3>3
  <2>2. CASE q # r
    <3>1. run'[q] = run[q] /\ pc'[q] = pc[q] /\ run[q] \notin {None, Gone}
      BY <1>7, <1>10, <2>2
    <3>2. Row(q)' = Row(q)
      BY <1>8, <2>2, <3>1
    <3>3. Row(q).whole => Row(q).lost /\ pc[q] = "fail"
      BY <3>1 DEF OwnInv, Row, At
    <3>4. QED
      BY <3>1, <3>2, <3>3
  <2>3. QED
    BY <2>1, <2>2
<1>11. ASSUME NEW q \in Project, NEW m \in DOMAIN runs'[q],
              runs'[q][m].status = "failed", runs'[q][m].whole
       PROVE  runs'[q][m].lost
  BY <1>2, <1>3, <1>4, <1>5, <1>6, <1>11 DEF OwnInv
<1>12. QED
  BY <1>9, <1>10, <1>11 DEF OwnInv, Row, At

LEMMA BeginOwns ==
  ASSUME ResearchInv, OwnInv, NEW r \in Request, Begin(r)
  PROVE  OwnInv'
<1>1. pc[r] = "queued" /\ run' = run /\ RequestTypes /\ Tables /\ items' = items
  BY InParts DEF Begin, At
<1>2. CASE run[r] = Gone
  <2>1. pc' = [pc EXCEPT ![r] = "fail"] /\ runs' = runs
    BY <1>2 DEF Begin, Go
  <2>2. \A q \in Request : pc[q] = "fail" => pc'[q] = "fail"
    BY <1>1, <2>1 DEF RequestTypes
  <2>3. QED
    BY <1>1, <2>1, <2>2, OwnStays
<1>3. CASE run[r] # Gone
  <2> DEFINE p == run[r][1]
             n == run[r][2]
             row == Marked(runs[p][n], "running")
  <2>1. /\ runs' = [runs EXCEPT ![p][n].status = "running"] /\ pc' = [pc EXCEPT ![r] = "ask"]
        /\ UNCHANGED <<todo, view, reply>>
    BY <1>3 DEF Begin, Go
  <2>2. p \in Project /\ n \in DOMAIN runs[p] /\ run[r] # None
    BY <1>1, <1>3, AtRun, InParts DEF RunStands
  <2>3. row \in RunRow /\ row.status = "running"
    BY <1>1, <2>2, MarkFits
  <2>4. row.whole = runs[p][n].whole /\ ~runs[p][n].whole
    <3>1. runs[p][n] \in RunRow
      BY <1>1, <2>2 DEF Tables, TableTypes
    <3>2. ~runs[p][n].whole
      BY <1>1, <1>3, <2>2 DEF OwnInv, At
    <3>3. QED
      BY <3>1, <3>2 DEF Marked, RunRow
  <2>5. Touches(p, n, row)
    BY <2>1 DEF Touches, Marked
  <2> HIDE DEF row
  <2>6. \A q \in Request \ {r} : Stays(q)
    BY <1>1, <2>1 DEF RequestTypes, Stays
  <2>7. QED
    BY <1>1, <1>3, <2>2, <2>3, <2>4, <2>5, <2>6, OwnTouched
<1>4. QED
  BY <1>2, <1>3

LEMMA StoreOwns ==
  ASSUME ResearchInv, OwnInv, NEW r \in Request, Persist(r) \/ LoseReport(r)
  PROVE  OwnInv'
<1> DEFINE p == run[r][1]
           n == run[r][2]
           row(raised) == [status |-> "completed", whole |-> TRUE,
                           new |-> reply[r].items \ items, lost |-> raised]
<1>1. pc[r] = "persist" /\ run[r] # Gone /\ RequestTypes
  BY InParts DEF Persist, LoseReport, At
<1>2. run[r] \notin {None, Gone}
  BY <1>1, InParts DEF RunStands
<1>3. reply[r].items \subseteq Item
  BY <1>1 DEF RequestTypes, Replies
<1>4. \A raised \in BOOLEAN : /\ row(raised) \in RunRow /\ row(raised).status = "completed"
                              /\ row(raised).lost = raised
  BY <1>3 DEF RunRow
<1>5. \A raised \in BOOLEAN : Store(r, raised) => Touches(p, n, row(raised))
  BY DEF Store, Touches
<1> HIDE DEF row
<1>6. CASE Persist(r)
  <2>1. Store(r, FALSE) /\ Advance(r, view[r])
    BY <1>6 DEF Persist
  <2>2. run'[r] = None /\ \A q \in Request \ {r} : Stays(q)
    BY <1>1, <2>1, LetsGo
  <2>3. row(FALSE) \in RunRow /\ row(FALSE).status = "completed" /\ Touches(p, n, row(FALSE))
    BY <1>4, <1>5, <2>1
  <2>4. QED
    BY <1>2, <2>2, <2>3, OwnTouched
<1>7. CASE LoseReport(r)
  <2>1. Store(r, TRUE) /\ pc' = [pc EXCEPT ![r] = "fail"] /\ UNCHANGED <<todo, view, run, reply>>
    BY <1>7 DEF LoseReport, Go
  <2>2. pc'[r] = "fail" /\ run'[r] = run[r] /\ \A q \in Request \ {r} : Stays(q)
    BY <1>1, <2>1 DEF RequestTypes, Stays
  <2>3. /\ row(TRUE) \in RunRow /\ row(TRUE).status = "completed" /\ row(TRUE).lost
        /\ Touches(p, n, row(TRUE))
    BY <1>4, <1>5, <2>1
  <2>4. QED
    BY <1>2, <2>2, <2>3, OwnTouched
<1>8. QED
  BY <1>6, <1>7

LEMMA FailOwns ==
  ASSUME ResearchInv, OwnInv, NEW r \in Request, Fail(r)
  PROVE  OwnInv'
<1>1. pc[r] = "fail" /\ RequestTypes /\ Tables /\ items' = items
  BY InParts DEF Fail, At
<1>2. run'[r] = None /\ \A q \in Request \ {r} : Stays(q)
  BY <1>1, LetsGo DEF Fail
<1>3. CASE run[r] = Gone
  <2>1. runs' = runs
    BY <1>3 DEF Fail
  <2>2. QED
    BY <1>2, <2>1, OwnStays DEF Stays
<1>4. CASE run[r] # Gone
  <2> DEFINE p == run[r][1]
             n == run[r][2]
             row == Marked(runs[p][n], "failed")
  <2>1. runs' = [runs EXCEPT ![p][n].status = "failed"]
    BY <1>4 DEF Fail
  <2>2. p \in Project /\ n \in DOMAIN runs[p] /\ run[r] # None
    BY <1>1, <1>4, AtRun, InParts DEF RunStands
  <2>3. row \in RunRow
    BY <1>1, <2>2, MarkFits
  <2>4. row.whole => row.lost
    <3>1. runs[p][n] \in RunRow
      BY <1>1, <2>2 DEF Tables, TableTypes
    <3>2. row.whole = runs[p][n].whole /\ row.lost = runs[p][n].lost
      BY <3>1 DEF Marked, RunRow
    <3>3. QED
      BY <1>4, <2>2, <3>2 DEF OwnInv
  <2>5. Touches(p, n, row)
    BY <2>1 DEF Touches, Marked
  <2> HIDE DEF row
  <2>6. QED
    BY <1>2, <1>4, <2>2, <2>3, <2>4, <2>5, OwnTouched
<1>5. QED
  BY <1>3, <1>4

LEMMA OwnInvKept == ResearchInv /\ OwnInv /\ [Next]_vars => OwnInv'
<1> SUFFICES ASSUME ResearchInv, OwnInv, [Next]_vars PROVE OwnInv'
  OBVIOUS
<1>1. ASSUME NEW r \in Request, (\E p \in Project : RunProject(r, p)) \/ RunDue(r) \/ Work(r)
      PROVE  OwnInv'
  BY <1>1, QuietOwns, ReserveOwns, BeginOwns, StoreOwns, FailOwns DEF Work
<1>2. CASE UNCHANGED <<runs, run, pc>>
  BY <1>2, OwnStays
<1>3. CASE \/ \E p \in Project : CreateProject(p) \/ UpdateProject(p)
           \/ AuthorizeForum \/ RevokeForum \/ UpdateSource \/ OtherScan \/ Tick
  BY <1>2, <1>3 DEF CreateProject, UpdateProject, AuthorizeForum, RevokeForum, UpdateSource,
     OtherScan, Tick, requests
<1>4. CASE ResetDemo
  <2>1. /\ \A p \in Project : DOMAIN runs'[p] = {}
        /\ \A r \in Request : run'[r] \in {None, Gone}
    BY <1>4 DEF ResetDemo
  <2>2. QED
    BY <2>1 DEF OwnInv
<1>5. CASE Crash
  <2>1. runs' = runs /\ \A r \in Request : run'[r] = None
    BY <1>5 DEF Crash
  <2>2. QED
    BY <2>1, OwnStays
<1>6. CASE UNCHANGED vars
  BY <1>2, <1>6 DEF vars, requests
<1>7. QED
  BY <1>1, <1>3, <1>4, <1>5, <1>6 DEF Next, Step

(* ---- what follows --------------------------------------------------------- *)
\* The rows keep their types, and once the newest run of a project has an end the
\* project shows it: whoever deletes or edits under the runs, and in whatever
\* order they end (mark_latest_project_run).
THEOREM ResearchRowsWellFormed == Spec => []RunsWellFormed
<1>1. ResearchInv => RunsWellFormed
  BY DEF ResearchInv, RowsInv, RunsWellFormed
<1>2. QED
  BY <1>1, ResearchInvariant, PTL

\* An enabled project with a cadence always has a next run, and a manual one none
\* (next_run_at_from, at creation, at an edit of the schedule and at a run's end).
THEOREM ResearchStaysScheduled == Spec => []EnabledStaysScheduled
<1>1. ResearchInv => EnabledStaysScheduled
  BY DEF ResearchInv, RowsInv
<1>2. QED
  BY <1>1, ResearchInvariant, PTL

\* Evidence is new in one run only, the runs compared with each other are whole
\* (process_scan, calculate_run_delta), and a run that failed has new evidence only
\* when the commit of that evidence raised although it took effect.
THEOREM ResearchNewOnce == Spec => []NewOnce
<1>1. Init => OwnInv
  <2> SUFFICES ASSUME Init PROVE OwnInv
    OBVIOUS
  <2>1. \A p \in Project : DOMAIN runs[p] = {}
    BY DEF Init
  <2>2. QED
    BY <2>1 DEF Init, OwnInv
<1>2. ResearchInv /\ OwnInv => NewOnce
  BY DEF ResearchInv, RowsInv, OwnInv, NewOnce
<1>3. QED
  BY <1>1, <1>2, OwnInvKept, ResearchInvariant, PTL DEF Spec

\* A run is one of a project that was enabled since its request began, and the
\* forum is asked only by a request during which the forum was, at one moment,
\* enabled and authorized with a retry-after that is over by now
\* (validate_project_source_binding, discourse_readiness).
THEOREM ResearchOnlyTheWanted == Spec => []OnlyTheWantedIsRun
<1>1. ResearchInv => OnlyTheWantedIsRun
  <2> SUFFICES ASSUME ResearchInv, NEW r \in Request
               PROVE  /\ run[r] \notin {None, Gone} => Current(r) \in wanted[r]
                      /\ At(r, "fetch") /\ Current(r) \in OnForum => fit[r] # None /\ fit[r] <= clock
    BY DEF OnlyTheWantedIsRun
  <2>1. ListStands(r) /\ RunStands(r) /\ ViewStands(r)
    BY InParts
  <2>2. run[r] \notin {None, Gone} => pc[r] # "idle"
    BY <2>1 DEF RunStands
  <2>3. pc[r] # "idle" => Current(r) \in wanted[r]
    BY <2>1, CurrentProject DEF ListStands
  <2>4. QED
    BY <2>1, <2>2, <2>3 DEF ViewStands, At
<1>2. QED
  BY <1>1, ResearchInvariant, PTL
=============================================================================
