------------------------------- MODULE Sources -------------------------------
(* Scan sources and the forum hosts they are authorized for.  The routes that   *)
(* update, authorize, revoke and delete a source, or bind a project to it, read *)
(* first and write later; the reads are outside the write transaction, so what  *)
(* a request has read may be stale when it commits, and only the constraints of *)
(* the tables stand between two of them.                                        *)
(*                                                                              *)
(* A source id is never used again.  Of a source's columns only its type is     *)
(* kept, a Discourse forum or a feed; a source that is disabled, or a binding    *)
(* that is refused for that, is a request that was never made.                   *)
EXTENDS Naturals

CONSTANTS SourceId, BoundProject, Caller,
          Spelling,   \* what an operator may type as an origin
          HostOf,     \* its canonical host and port,
          Rejected,   \* ... or that it is no public HTTPS origin
          Unset

Host == {HostOf[o] : o \in Spelling} \ {Rejected}

ASSUME SourcesAssumption == Unset \notin Host \cup SourceId \cup {Rejected}

VARIABLES type,      \* per source: its type, or unborn or deleted
          host,      \* per source: the host of its authorization row, or Unset
          terms,     \* the sources whose authorization stands
          scanned,   \* the sources a scan job refers to
          boundTo,   \* per project: its source, or Unset
          boundType, \* per project: its source_type
          call       \* per caller: the request, what it has read, its answer
tables == <<type, host, terms, scanned, boundTo, boundType>>
sourcesVars == <<type, host, terms, scanned, boundTo, boundType, call>>

Kinds == {"discourse", "feed"}
Live(s) == type[s] \in Kinds

Operations == {"none", "authorize", "authorized", "revoke", "delete", "update", "bind"}
Calls == [op : Operations, on : SourceId \cup {Unset},
          asked : [host : Host \cup {Unset}, kind : Kinds],
          read : [host : Host \cup {Unset}, terms : BOOLEAN]]
NoAsk == [host |-> Unset, kind |-> "feed"]
NoRead == [host |-> Unset, terms |-> FALSE]
NoCall == [op |-> "none", on |-> Unset, asked |-> NoAsk, read |-> NoRead]

SourcesInit ==
    /\ type = [s \in SourceId |-> "unborn"]
    /\ host = [s \in SourceId |-> Unset]
    /\ terms = {} /\ scanned = {}
    /\ boundTo = [p \in BoundProject |-> Unset]
    /\ boundType = [p \in BoundProject |-> "feed"]
    /\ call = [c \in Caller |-> NoCall]

(* ---- the constraints of the tables ---------------------------------------- *)
ForeignKey(s) == Live(s)

Unreferenced(s) == s \notin scanned /\ \A p \in BoundProject : boundTo[p] # s

HostFree(s, h) == \A t \in SourceId \ {s} : host[t] # h

\* A plausible bug: the row is merged instead of inserted.
MergedRow(s) == TRUE

PrimaryKeyFree(s) == host[s] = Unset

(* ---- a request reads ------------------------------------------------------ *)
ImmutableOrigin(s, h) == host[s] \notin {Unset, h}

\* A request that is not refused at once (404, 409, 422) keeps what it has read.
Begin(c, op, s, asked, read) ==
    /\ call[c].op \in {"none", "authorized"}
    /\ Live(s)
    /\ call' = [call EXCEPT ![c] = [op |-> op, on |-> s, asked |-> asked, read |-> read]]
    /\ UNCHANGED tables

StateOf(s) == [host |-> host[s], terms |-> s \in terms]

CanonicalizeDiscourseOrigin(o) == HostOf[o]
DiscourseSource(s) == type[s] = "discourse"

AuthorizeSourceHost(c, s, o) ==
    LET h == CanonicalizeDiscourseOrigin(o) IN
    /\ DiscourseSource(s)
    /\ h # Rejected
    /\ ~ImmutableOrigin(s, h)
    /\ Begin(c, "authorize", s, [NoAsk EXCEPT !.host = h], StateOf(s))

RevokeSourceAuthorization(c, s) == DiscourseSource(s) /\ Begin(c, "revoke", s, NoAsk, StateOf(s))

DeleteSource(c, s) == Begin(c, "delete", s, NoAsk, NoRead)

\* A plausible bug: a source may become another connector.
UpdateAnySource(c, s, kind) == Begin(c, "update", s, [NoAsk EXCEPT !.kind = kind], NoRead)

UpdateSource(c, s, kind) ==
    /\ kind = type[s]
    /\ Begin(c, "update", s, [NoAsk EXCEPT !.kind = kind], NoRead)

\* A new project takes a source of its own type that is ready for it.
CreateResearchProject(c, s, kind) ==
    /\ kind = type[s]
    /\ DiscourseSource(s) => s \in terms
    /\ Begin(c, "bind", s, [NoAsk EXCEPT !.kind = kind], NoRead)

(* ---- a request writes ----------------------------------------------------- *)
\* A caller remembers the host it was told is authorized, until it asks again.
Reply(c, status) ==
    call' = [call EXCEPT ![c] = IF call[c].op = "authorize" /\ status = 200
                                THEN [op |-> "authorized", on |-> call[c].on,
                                      asked |-> call[c].asked, read |-> NoRead]
                                ELSE NoCall]

CreateSource(s, kind) ==
    /\ type[s] = "unborn"
    /\ type' = [type EXCEPT ![s] = kind]
    /\ UNCHANGED <<host, terms, scanned, boundTo, boundType, call>>

ScanSource(s) ==
    /\ Live(s)
    /\ scanned' = scanned \cup {s}
    /\ UNCHANGED <<type, host, terms, boundTo, boundType, call>>

\* No authorization row was there: it is inserted, or the tables refuse it.
InsertAuthorization(c) ==
    LET s == call[c].on h == call[c].asked.host IN
    /\ call[c].op = "authorize" /\ call[c].read.host = Unset
    /\ IF ForeignKey(s) /\ PrimaryKeyFree(s) /\ HostFree(s, h)
       THEN /\ host' = [host EXCEPT ![s] = h]
            /\ terms' = terms \cup {s}
            /\ Reply(c, 200)
       ELSE Reply(c, 409) /\ UNCHANGED <<host, terms>>
    /\ UNCHANGED <<type, scanned, boundTo, boundType>>

\* One was: its times are set where none were; the answer reads it again.
RenewAuthorization(c) ==
    LET s == call[c].on IN
    /\ call[c].op = "authorize" /\ call[c].read.host # Unset
    /\ IF host[s] = Unset
       THEN Reply(c, 500) /\ UNCHANGED terms
       ELSE Reply(c, 200) /\ terms' = IF call[c].read.terms THEN terms ELSE terms \cup {s}
    /\ UNCHANGED <<type, host, scanned, boundTo, boundType>>

\* Without a row nothing is written, and of times that were not set none are.
CommitRevocation(c) ==
    LET s == call[c].on IN
    /\ call[c].op = "revoke"
    /\ IF call[c].read.host # Unset /\ host[s] = Unset
       THEN Reply(c, 500) /\ UNCHANGED terms
       ELSE Reply(c, 200) /\ terms' = IF call[c].read.terms THEN terms \ {s} ELSE terms
    /\ UNCHANGED <<type, host, scanned, boundTo, boundType>>

\* The authorization row goes with its source; a source already gone is no error.
CommitDeletion(c) ==
    LET s == call[c].on IN
    /\ call[c].op = "delete"
    /\ IF Unreferenced(s)
       THEN /\ type' = [type EXCEPT ![s] = "deleted"]
            /\ host' = [host EXCEPT ![s] = Unset]
            /\ terms' = terms \ {s}
            /\ Reply(c, 200)
       ELSE Reply(c, 409) /\ UNCHANGED <<type, host, terms>>
    /\ UNCHANGED <<scanned, boundTo, boundType>>

CommitUpdate(c) ==
    LET s == call[c].on IN
    /\ call[c].op = "update"
    /\ IF Live(s)
       THEN /\ type' = [type EXCEPT ![s] = call[c].asked.kind]
            /\ Reply(c, 200)
       ELSE Reply(c, 500) /\ UNCHANGED type
    /\ UNCHANGED <<host, terms, scanned, boundTo, boundType>>

CommitProject(c, p) ==
    LET s == call[c].on IN
    /\ call[c].op = "bind" /\ boundTo[p] = Unset
    /\ IF ForeignKey(s)
       THEN /\ boundTo' = [boundTo EXCEPT ![p] = s]
            /\ boundType' = [boundType EXCEPT ![p] = call[c].asked.kind]
            /\ Reply(c, 200)
       ELSE Reply(c, 500) /\ UNCHANGED <<boundTo, boundType>>
    /\ UNCHANGED <<type, host, terms, scanned>>

Reads(c) ==
    \E s \in SourceId :
       \/ \E o \in Spelling : AuthorizeSourceHost(c, s, o)
       \/ RevokeSourceAuthorization(c, s) \/ DeleteSource(c, s)
       \/ \E kind \in Kinds : UpdateSource(c, s, kind) \/ CreateResearchProject(c, s, kind)

Writes(c) ==
    \/ InsertAuthorization(c) \/ RenewAuthorization(c) \/ CommitRevocation(c)
    \/ CommitDeletion(c) \/ CommitUpdate(c)
    \/ \E p \in BoundProject : CommitProject(c, p)

SourcesNext ==
    \/ \E c \in Caller : Reads(c) \/ Writes(c)
    \/ \E s \in SourceId : ScanSource(s) \/ \E kind \in Kinds : CreateSource(s, kind)

SourcesSpec == SourcesInit /\ [][SourcesNext]_sourcesVars

(* ---- properties ----------------------------------------------------------- *)
SourcesTypeOK ==
    /\ type \in [SourceId -> Kinds \cup {"unborn", "deleted"}]
    /\ host \in [SourceId -> Host \cup {Unset}]
    /\ terms \subseteq SourceId /\ scanned \subseteq SourceId
    /\ boundTo \in [BoundProject -> SourceId \cup {Unset}]
    /\ boundType \in [BoundProject -> Kinds]
    /\ call \in [Caller -> Calls]

\* A host and port belong to one source, revoked or not, whoever asks for them at
\* the same time.
OneSourcePerHost ==
    \A s, t \in SourceId : (host[s] = host[t] /\ host[s] # Unset) => s = t

\* An authorization row belongs to a source that is there, and only a source with
\* a row stands authorized, though it was deleted between a read and a write.
NoOrphans ==
    /\ \A s \in SourceId : host[s] # Unset => Live(s)
    /\ \A s \in terms : host[s] # Unset

\* A project's source exists and is of the project's type, though neither the
\* check of the type nor that of the source is in the transaction that binds them.
BoundSourceFits ==
    \A p \in BoundProject :
       boundTo[p] # Unset => type[boundTo[p]] = boundType[p]

\* Whoever was told 200 finds the source authorized for the host asked for or not
\* at all, also when two ask for different hosts of a source without one.
AuthorizedAsAsked ==
    \A c \in Caller :
       LET s == call[c].on IN
       (call[c].op = "authorized" /\ host[s] # Unset)
          => host[s] = call[c].asked.host

\* docs/threat-model.md:116-117: while a source stands authorized its host and port
\* do not change, whatever requests that read it before are still to write; they go
\* only with the source. (What becomes of them after a revocation is left open.)
OriginNeverMoves ==
    [][\A s \in terms : host'[s] = host[s] \/ type'[s] = "deleted"]_sourcesVars

\* The tables stay consistent and authorizations true, although every request
\* writes what it decided on rows read in an earlier step.
SourcesSafety ==
    /\ [](SourcesTypeOK /\ OneSourcePerHost /\ NoOrphans /\ BoundSourceFits /\ AuthorizedAsAsked)
    /\ OriginNeverMoves
=============================================================================
