----------------------------- MODULE BuildPackets -----------------------------
(***************************************************************************)
(* Creating a build packet (api/routes.py create_build_packet and the same *)
(* path of _create_build_packet in services/mcp_surface/writes.py) while   *)
(* runs, decisions, corrections, clones (OpportunityThreads) and evidence  *)
(* labels (services/evidence_review/service.py) go on.                     *)
(*                                                                         *)
(* A packet is made of SELECTs that take no lock, then of generation that  *)
(* may call a model provider, and is stored in a second transaction that   *)
(* reads everything again under both locks.                                *)
(***************************************************************************)
EXTENDS OpportunityThreads

CONSTANTS
    Candidate,    \* the decision with state build_candidate (one note of it)
    Item,         \* evidence items
    ItemsOf,      \* the items of a piece of evidence
    FixedChecks,  \* readiness checks it passes that no label changes: 0 .. 3
    Packer,       \* packet requests in flight
    MaxLabels,    \* bound on the labels of an item
    MaxPackets,   \* bound on the packets stored
    NotEligible

VARIABLES
    labels,       \* the append-only labels of each item; the version is the position
    packets,      \* stored packets, never changed
    packing       \* what each request has read so far

ASSUME PacketAssumption ==
    /\ Candidate \in Decision \ {New}
    /\ ItemsOf \in [Evidence -> SUBSET Item]
    /\ \A e \in Evidence : IsFiniteSet(ItemsOf[e]) /\ ItemsOf[e] # {}
    /\ FixedChecks \in [Evidence -> 0 .. 3]
    /\ {MaxLabels, MaxPackets} \subseteq Nat

packetVars == <<vars, labels, packets, packing>>

Actors == {"human", "agent"}
Labels == {"reviewed", "sensitive_risk"}  \* every label but sensitive_risk reads alike here
NoLabel == "none"
Waiting == [at |-> "idle"]

PacketsInit ==
    /\ Init
    /\ labels = [i \in Item |-> <<>>]
    /\ packets = <<>>
    /\ packing = [p \in Packer |-> Waiting]

----------------------------------------------------------------------------
(* Evidence review. *)

VersionsBy(i, actor) == {k \in DOMAIN labels[i] : labels[i][k].actor = actor}

(* Version of the actor's latest label of an item, 0 without one. *)
LatestBy(i, actor) ==
    IF VersionsBy(i, actor) = {} THEN 0
    ELSE CHOOSE k \in VersionsBy(i, actor) : \A j \in VersionsBy(i, actor) : j <= k

LabelBy(i, actor) ==
    IF LatestBy(i, actor) = 0 THEN NoLabel ELSE labels[i][LatestBy(i, actor)].label

(* A human's word stands until a human changes it; an agent's warning until a
   human answers it. *)
UnresolvedRisk(e) ==
    \E i \in ItemsOf[e] :
        \/ LabelBy(i, "human") = "sensitive_risk"
        \/ LabelBy(i, "agent") = "sensitive_risk" /\ LatestBy(i, "agent") > LatestBy(i, "human")

Reviewed(e) == {i \in ItemsOf[e] : LabelBy(i, "human") # NoLabel}

PassedChecks(e) ==
    FixedChecks[e] + (IF 2 * Cardinality(Reviewed(e)) >= Cardinality(ItemsOf[e]) THEN 1 ELSE 0)

Readiness(e) ==
    CASE \E i \in ItemsOf[e] : LabelBy(i, "human") = "sensitive_risk" -> "weak"
      [] OTHER -> CASE PassedChecks(e) = 4 -> "strong"
                    [] PassedChecks(e) \in {2, 3} -> "medium"
                    [] OTHER -> "weak"

(* The caller's expected version, when it sends one, is compared under the
   write lock; the append is one step of it. *)
AppendLabel(i, actor, label) ==
    /\ ~txn.open
    /\ Len(labels[i]) < MaxLabels
    /\ labels' = [labels EXCEPT ![i] = Append(@, [actor |-> actor, label |-> label])]
    /\ UNCHANGED <<vars, packets, packing>>

----------------------------------------------------------------------------
(* What a packet says: packet_source_snapshot and the ids stored with it. *)

(* A bug: the latest event of the thread, whatever it was. *)
DecisionEvent_AnyType(t, state) ==
    LET S == {i \in DOMAIN db.event : db.event[i].thread = t}
    IN  IF S = {} THEN 0 ELSE CHOOSE i \in S : \A j \in S : j <= i

(* The latest event that led to this decision. *)
DecisionEvent(t, state) ==
    LET S == {i \in DOMAIN db.event :
                /\ db.event[i].type = "decision_changed"
                /\ db.event[i].thread = t
                /\ db.event[i].next = state}
    IN  IF S = {} THEN 0 ELSE CHOOSE i \in S : \A j \in S : j <= i

ReviewOf(e) == [i \in ItemsOf[e] |-> LabelBy(i, "human")]

EvidenceOf(s) == db.snap[s].evidence

SourceOf(t, version, state, s) ==
    [version |-> version, state |-> state, evidence |-> EvidenceOf(s),
     decision |-> DecisionEvent(t, state),
     readiness |-> Readiness(EvidenceOf(s)), review |-> ReviewOf(EvidenceOf(s))]

Packet(t, s, source) == [thread |-> t, snapshot |-> s, source |-> source]

Admissible(e) == ~UnresolvedRisk(e) /\ Readiness(e) \in {"medium", "strong"}

----------------------------------------------------------------------------
(* A request. *)

Goes(p, what) ==
    /\ packing' = [packing EXCEPT ![p] = what]
    /\ UNCHANGED <<vars, labels, packets>>

ReadCandidate(p, t) ==
    /\ packing[p].at = "idle"
    /\ t \in DOMAIN db.thread
    /\ db.thread[t].state = Candidate
    /\ Goes(p, [at |-> "thread", thread |-> t, version |-> db.thread[t].version,
                snapshot |-> db.thread[t].current])

(* The thread row stays as it was read; snapshot, labels and events are new
   SELECTs.  Without readiness, or with a risk nobody resolved: 409. *)
ReadSource(p) ==
    LET r == packing[p]
    IN  /\ r.at = "thread"
        /\ db.snap[r.snapshot].thread = r.thread
        /\ Admissible(EvidenceOf(r.snapshot))
        /\ Goes(p, [at |-> "generated", thread |-> r.thread, version |-> r.version,
                    snapshot |-> r.snapshot,
                    source |-> SourceOf(r.thread, r.version, Candidate, r.snapshot)])

(* A bug: only the source is compared, and an agent's warning is no part of it. *)
StillTrue_NotAdmissible(r) ==
    /\ db.thread[r.thread].state = Candidate
    /\ db.thread[r.thread].current = r.snapshot
    /\ db.thread[r.thread].version = r.version
    /\ SourceOf(r.thread, db.thread[r.thread].version, db.thread[r.thread].state, r.snapshot)
         = r.source

StillTrue(r) ==
    /\ db.thread[r.thread].state = Candidate
    /\ db.thread[r.thread].current = r.snapshot
    /\ db.thread[r.thread].version = r.version
    /\ Admissible(EvidenceOf(r.snapshot))
    /\ SourceOf(r.thread, db.thread[r.thread].version, db.thread[r.thread].state, r.snapshot)
         = r.source

Store(p) ==
    /\ packing[p].at = "generated"
    /\ ~txn.open
    /\ StillTrue(packing[p])
    /\ Len(packets) < MaxPackets
    /\ packets' = Append(packets, Packet(packing[p].thread, packing[p].snapshot,
                                         packing[p].source))
    /\ packing' = [packing EXCEPT ![p] = Waiting]
    /\ UNCHANGED <<vars, labels>>

(* Any 4xx or 5xx: a conflict, a failed generation, a failed commit. *)
Refuse(p) ==
    /\ packing[p].at # "idle"
    /\ Goes(p, Waiting)

PacketsNext ==
    \/ Next /\ UNCHANGED <<labels, packets, packing>>
    \/ \E i \in Item, actor \in Actors, label \in Labels : AppendLabel(i, actor, label)
    \/ \E p \in Packer :
         \/ \E t \in DOMAIN db.thread : ReadCandidate(p, t)
         \/ ReadSource(p) \/ Store(p) \/ Refuse(p)

PacketsSpec == PacketsInit /\ [][PacketsNext]_packetVars

----------------------------------------------------------------------------
SourceType ==
    [version : Nat, state : Decision, evidence : Evidence, decision : Nat,
     readiness : {"medium", "strong"},
     review : UNION {[ItemsOf[e] -> Labels \union {NoLabel}] : e \in Evidence}]

PacketType == [thread : Nat, snapshot : Nat, source : SourceType]

ASSUME NotEligibleAssumption == NotEligible \notin PacketType

PacketsTypeOK ==
    /\ labels \in [Item -> Seq([actor : Actors, label : Labels])]
    /\ packets \in Seq(PacketType)
    /\ packing \in [Packer ->
         {Waiting}
           \union [at : {"thread"}, thread : Nat, version : Nat, snapshot : Nat]
           \union [at : {"generated"}, thread : Nat, version : Nat, snapshot : Nat,
                   source : SourceType]]

(* What a thread would get now, from the rules alone. *)
Eligible(t) ==
    LET s == db.thread[t].current
        e == EvidenceOf(s)
    IN  /\ db.thread[t].state = Candidate
        /\ db.snap[s].thread = t
        /\ Readiness(e) # "weak"
        /\ ~UnresolvedRisk(e)

Offer ==
    [t \in DOMAIN db.thread |->
        IF Eligible(t)
        THEN Packet(t, db.thread[t].current,
                    SourceOf(t, db.thread[t].version, Candidate, db.thread[t].current))
        ELSE NotEligible]

Atomic == INSTANCE AtomicPackets WITH offer <- Offer

(* A stored packet pictures an eligible thread as it is at that very moment,
   however long the generation took and whatever happened meanwhile. *)
ImplementsAtomicPackets == Atomic!Spec

(* The decision event a packet names was taken before it by someone who saw
   what it replaced, and its thread still stood by it when it was stored. *)
PacketsNameTheirDecision ==
    \A k \in DOMAIN packets :
        LET d == packets[k].source.decision
        IN  /\ d \in DOMAIN db.event
            /\ db.event[d].type = "decision_changed"
            /\ db.event[d].thread = packets[k].thread
            /\ db.event[d].next = Candidate
            /\ db.event[d].version < packets[k].source.version
            /\ \A i \in DOMAIN db.event :
                 (i > d /\ db.event[i].type = "decision_changed"
                    /\ db.event[i].thread = packets[k].thread)
                 => db.event[i].version >= packets[k].source.version

(* Packets and labels have their types, and every stored packet can be traced
   to the decision it was built on. *)
PacketsWellFormed == PacketsTypeOK /\ PacketsNameTheirDecision

----------------------------------------------------------------------------
(* The inductive invariant behind these properties. *)

DecisionsOf(d, t) ==
    {i \in DOMAIN d.event : d.event[i].type = "decision_changed" /\ d.event[i].thread = t}

(* The decision of a thread is what its latest decision event left, whatever
   corrections came after it. *)
DecisionsStand(d) ==
    \A t \in DOMAIN d.thread :
        /\ DecisionsOf(d, t) = {} => d.thread[t].state = New
        /\ \A i \in DecisionsOf(d, t) :
             /\ d.event[i].version < d.thread[t].version
             /\ (\A j \in DecisionsOf(d, t) : j <= i) => d.event[i].next = d.thread[t].state

(* A request holds what a thread and a snapshot were. *)
RequestsHold ==
    \A p \in Packer : packing[p].at # "idle" =>
        packing[p].thread \in DOMAIN db.thread /\ packing[p].snapshot \in DOMAIN db.snap

(* No version is taken back, so that a later decision is one on a later version. *)
PacketsPrecede ==
    \A k \in DOMAIN packets :
        /\ packets[k].thread \in DOMAIN db.thread
        /\ packets[k].source.version <= db.thread[packets[k].thread].version

PacketsInv ==
    /\ ThreadsInv /\ PacketsWellFormed
    /\ DecisionsStand(db) /\ RequestsHold /\ PacketsPrecede

=============================================================================
