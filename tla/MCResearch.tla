----------------------------- MODULE MCResearch -----------------------------
(***************************************************************************)
(* ResearchRuns with three casts TLC tries one beside the other: two       *)
(* requests on one project, one request on the project that reads the      *)
(* forum, and one request on both projects, which nobody edits.            *)
(***************************************************************************)
EXTENDS ResearchRuns

CONSTANTS plain, watching, r1, r2, ev

VARIABLE cast

castVars == <<vars, cast>>

Casts == {[projects |-> {plain}, requests |-> {r1, r2}, edits |-> MaxEdits, items |-> Item],
          [projects |-> {watching}, requests |-> {r1}, edits |-> MaxEdits, items |-> {}],
          [projects |-> {plain, watching}, requests |-> {r1}, edits |-> 0, items |-> {}]}

InCast == /\ \A x \in Project \ cast.projects : project[x] = None
          /\ \A x \in Request \ cast.requests : pc[x] = "idle"
          /\ edits <= cast.edits
          /\ cast.projects \cap OnForum = {} => forum.enabled /\ forum.authorized
          /\ \A x \in Request : reply[x].items \subseteq cast.items

CastInit == Init /\ cast \in Casts
CastNext == Next /\ UNCHANGED cast /\ InCast'

CastSpec ==
  /\ CastInit
  /\ [][CastNext]_castVars
  /\ \A x \in Request : WF_castVars(Work(x) /\ Remember /\ UNCHANGED cast)
  /\ SF_castVars((\E x \in cast.requests : RunDue(x)) /\ Remember /\ UNCHANGED cast)
=============================================================================
