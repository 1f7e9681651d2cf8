----------------------------- MODULE CommandLine -----------------------------
(* The noun-first commands: what the parser asks for, what the client sends,   *)
(* what the routes check, and a person who repeats a command line whose answer *)
(* was lost while the first request may still be on its way.                   *)
EXTENDS Naturals, FiniteSets

CONSTANTS Person,    \* each gives one command, perhaps more than once
          MaxTries,  \* BOUND: times a command line is given
          MaxElsewhere \* BOUND: changes by the browser or an agent

ASSUME CommandAssumption == MaxTries \in Nat \ {0} /\ MaxElsewhere \in Nat

VARIABLES command,  \* what each person wants
          version,  \* of each kind of resource
          session,  \* status of the agent session
          guarded,  \* the server wants the operator token: no, writes, all
          token,    \* the persons whose environment holds it
          read,     \* the version each person read and typed
          tries,    \* times the line was given
          request,  \* what became of each of its requests
          shown,    \* what the last one printed
          applied,  \* how often the command took effect
          elsewhere
commandVars == <<command, version, session, guarded, token, read, tries, request, shown,
                 applied, elsewhere>>

(* ---- the tables ----------------------------------------------------------- *)
\* An update names at least one option; without any it changes nothing.
ProjectCommands == {"projects list", "projects get", "projects create", "projects update", "projects run"}
RunCommands == {"runs list", "runs delta"}
OpportunityCommands == {"opportunities list", "opportunities get", "opportunities search",
                        "opportunities decision", "opportunities detach"}
EvidenceCommands == {"evidence label"}
PacketCommands == {"packets list", "packets get", "packets create", "packets verify", "packets download"}
SessionCommands == {"sessions list", "sessions get", "sessions approve", "sessions revoke", "sessions actions"}
Commands == ProjectCommands \cup RunCommands \cup OpportunityCommands \cup EvidenceCommands
              \cup PacketCommands \cup SessionCommands

\* --expected-version is required.
ParserVersioned == {"projects update", "opportunities decision", "opportunities detach", "evidence label",
                    "packets create", "sessions approve", "sessions revoke"}

MethodTable(post, patch, commands) ==
    [c \in commands |-> IF c \in post THEN "POST" ELSE IF c \in patch THEN "PATCH" ELSE "GET"]
ProjectMethods == MethodTable({"projects create", "projects run"}, {"projects update"}, ProjectCommands)
OpportunityMethods == MethodTable({"opportunities search", "opportunities detach"}, {"opportunities decision"},
                              OpportunityCommands)
PacketMethods == MethodTable({"packets create"}, {}, PacketCommands)
SessionMethods == MethodTable({"sessions approve", "sessions revoke"}, {}, SessionCommands)
MethodOf(c) == IF c \in ProjectCommands THEN ProjectMethods[c]
               ELSE IF c \in OpportunityCommands THEN OpportunityMethods[c]
               ELSE IF c \in PacketCommands THEN PacketMethods[c]
               ELSE IF c \in SessionCommands THEN SessionMethods[c]
               ELSE IF c \in EvidenceCommands THEN "POST" ELSE "GET"

\* A plausible bug: the client drops the version of commands whose schema allows it.
SendsRequiredVersion(c) == c \in ParserVersioned \ {"projects update", "evidence label", "packets create"}

SendsVersion(c) == c \in ParserVersioned

\* The schemas that do not accept a body without the version.
SchemaRequires == {"opportunities decision", "opportunities detach", "sessions approve", "sessions revoke"}

\* Searching is a POST request that changes nothing.
Changes(c) == MethodOf(c) # "GET" /\ c # "opportunities search"

\* What a change takes away from those that read the version before.
Consumes(c) == c \in {"projects update", "opportunities decision", "opportunities detach", "evidence label",
                      "sessions approve", "sessions revoke"}

ResourceOf(c) == CASE c \in ProjectCommands -> "project"
                   [] c \in EvidenceCommands -> "item"
                   [] c \in SessionCommands -> "session"
                   [] OTHER -> "thread"
Resources == {"project", "item", "session", "thread"}

(* ---- the person and the client -------------------------------------------- *)
CommandLineInit ==
    /\ command \in [Person -> Commands]
    /\ version = [r \in Resources |-> 1]
    /\ session = "pending"
    /\ guarded \in {"no", "writes", "all"}
    /\ token \in SUBSET Person
    /\ read = [p \in Person |-> 0]
    /\ tries = [p \in Person |-> 0]
    /\ request = [p \in Person |-> <<>>]
    /\ shown = [p \in Person |-> "nothing"]
    /\ applied = [p \in Person |-> 0]
    /\ elsewhere = 0

\* The person reads the resource first, with another command or in the browser.
ReadVersion(p) ==
    /\ read[p] = 0
    /\ read' = [read EXCEPT ![p] = version[ResourceOf(command[p])]]
    /\ UNCHANGED <<command, version, session, guarded, token, tries, request, shown, applied, elsewhere>>

\* The line is given, and again, unchanged, after an unclear end.
Give(p) ==
    /\ read[p] # 0
    /\ tries[p] < MaxTries
    /\ shown[p] \in {"nothing", "unclear"}
    /\ tries' = [tries EXCEPT ![p] = @ + 1]
    /\ request' = [request EXCEPT ![p] = [n \in 1..tries[p] + 1 |-> IF n <= tries[p] THEN @[n] ELSE "sent"]]
    /\ shown' = [shown EXCEPT ![p] = "waiting"]
    /\ UNCHANGED <<command, version, session, guarded, token, read, applied, elsewhere>>

\* Timeout, lost connection, a 2xx answer that is no JSON, or Ctrl-C.
GiveUp(p) ==
    /\ shown[p] = "waiting"
    /\ shown' = [shown EXCEPT ![p] = "unclear"]
    /\ UNCHANGED <<command, version, session, guarded, token, read, tries, request, applied, elsewhere>>

\* The envelope: ok is exit code 0, an error with a 4xx status or a 500 is not.
ShowAnswer(p) ==
    /\ shown[p] = "waiting"
    /\ LET answer == request[p][tries[p]] IN
       /\ answer # "sent"
       /\ shown' = [shown EXCEPT ![p] = CASE answer = "done" -> "ok"
                                          [] answer = "refused" -> "error"
                                          [] answer = "failed" -> "unclear"]
    /\ UNCHANGED <<command, version, session, guarded, token, read, tries, request, applied, elsewhere>>

(* ---- the server ----------------------------------------------------------- *)
\* What the middleware asks the token for.
HostedApiRefused(p) ==
    /\ p \notin token
    /\ \/ guarded = "all"
       \/ guarded = "writes" /\ MethodOf(command[p]) # "GET"

\* The session routes ask for it on every server; where none is configured
\* nobody holds it.
TokenRefused(p) == command[p] \in SessionCommands /\ p \notin token

Current(p, sends) == sends => read[p] = version[ResourceOf(command[p])]

\* A person's revoke wins over a heartbeat; everything else needs the version.
Accepts(p) ==
    LET c == command[p] sends == SendsVersion(c) IN
    /\ c \in SchemaRequires => sends
    /\ CASE c = "sessions approve" -> session = "pending" /\ Current(p, sends)
         [] c = "sessions revoke" -> session \in {"pending", "approved"}
         [] OTHER -> Current(p, sends)

Answered(p, n, a) == request' = [request EXCEPT ![p][n] = a]

Refuse(p, n) ==
    /\ n \in DOMAIN request[p] /\ request[p][n] = "sent"
    /\ Answered(p, n, "refused")
    /\ UNCHANGED <<command, version, session, guarded, token, read, tries, shown, applied, elsewhere>>

\* The handler's one transaction; an error after it is an HTTP 500 all the same.
Handle(p, n) ==
    /\ n \in DOMAIN request[p] /\ request[p][n] = "sent"
    /\ ~HostedApiRefused(p)
    /\ ~TokenRefused(p)
    /\ Accepts(p)
    /\ \E a \in {"done", "failed"} : Answered(p, n, a)
    /\ IF Changes(command[p])
       THEN /\ applied' = [applied EXCEPT ![p] = @ + 1]
            /\ version' = IF Consumes(command[p]) THEN [version EXCEPT ![ResourceOf(command[p])] = @ + 1]
                                                  ELSE version
            /\ session' = CASE command[p] = "sessions approve" -> "approved"
                            [] command[p] = "sessions revoke" -> "revoked"
                            [] OTHER -> session
       ELSE UNCHANGED <<applied, version, session>>
    /\ UNCHANGED <<command, guarded, token, read, tries, shown, elsewhere>>

\* An exception before the commit.
HandlerFails(p, n) ==
    /\ n \in DOMAIN request[p] /\ request[p][n] = "sent"
    /\ Answered(p, n, "failed")
    /\ UNCHANGED <<command, version, session, guarded, token, read, tries, shown, applied, elsewhere>>

ChangeElsewhere(r) ==
    /\ elsewhere < MaxElsewhere
    /\ version' = [version EXCEPT ![r] = @ + 1]
    /\ elsewhere' = elsewhere + 1
    /\ UNCHANGED <<command, session, guarded, token, read, tries, request, shown, applied>>

CommandLineNext ==
    \/ \E p \in Person :
          \/ ReadVersion(p) \/ Give(p) \/ GiveUp(p) \/ ShowAnswer(p)
          \/ \E n \in 1..MaxTries : Refuse(p, n) \/ Handle(p, n) \/ HandlerFails(p, n)
    \/ \E r \in Resources : ChangeElsewhere(r)

CommandLineSpec == CommandLineInit /\ [][CommandLineNext]_commandVars

(* ---- properties ----------------------------------------------------------- *)
CommandLineTypeOK ==
    /\ command \in [Person -> Commands] /\ version \in [Resources -> Nat]
    /\ session \in {"pending", "approved", "revoked"} /\ guarded \in {"no", "writes", "all"}
    /\ token \subseteq Person /\ read \in [Person -> Nat] /\ tries \in [Person -> 0..MaxTries]
    /\ \A p \in Person : /\ DOMAIN request[p] = 1..tries[p]
                         /\ \A n \in 1..tries[p] : request[p][n] \in {"sent", "refused", "done", "failed"}
    /\ shown \in [Person -> {"nothing", "waiting", "ok", "error", "unclear"}]
    /\ applied \in [Person -> 0..MaxTries] /\ elsewhere \in 0..MaxElsewhere

\* A command line that names the version it is meant for takes effect at most
\* once, however often it is repeated, however late its requests arrive and
\* whoever else changes the resource.
RepeatedOnceApplied ==
    \A p \in Person : Consumes(command[p]) => applied[p] <= 1

\* Exit code 0 of a command that changes something: it was done.
ZeroMeansDone ==
    \A p \in Person : (shown[p] = "ok" /\ Changes(command[p])) => applied[p] > 0

\* A refusal the first time changed nothing, and without the operator token,
\* where the server asks for it, nothing ever does. (Refused after a repeat says
\* nothing: the first request may have been the one that took effect.)
RefusedChangesNothing ==
    \A p \in Person :
        \/ shown[p] = "error" /\ tries[p] = 1
        \/ p \notin token /\ (guarded # "no" \/ command[p] \in SessionCommands)
        => applied[p] = 0

\* Repeating a command line is safe, and its exit code can be relied on.
CommandsAreHonest ==
    CommandLineTypeOK /\ RepeatedOnceApplied /\ ZeroMeansDone /\ RefusedChangesNothing

\* The inductive invariant: every effect was a request of the line that the
\* handler got to, and an effect leaves the version that was read behind.
Reached(p) == {n \in 1..tries[p] : request[p][n] \in {"done", "failed"}}
\* The version that was read is no longer good for another request.
Outdated(p) == IF command[p] = "sessions revoke" THEN session = "revoked"
               ELSE read[p] < version[ResourceOf(command[p])]
WasDone(p) == \E n \in 1..tries[p] : request[p][n] = "done"

LineStands(p) ==
    /\ tries[p] > 0 => read[p] # 0
    /\ shown[p] # "nothing" => tries[p] > 0
    /\ shown[p] = "ok" => WasDone(p)
    /\ shown[p] = "error" => request[p][tries[p]] = "refused"
    /\ applied[p] <= Cardinality(Reached(p))
    /\ (Changes(command[p]) /\ WasDone(p)) => applied[p] > 0
    /\ (Consumes(command[p]) /\ applied[p] > 0) => (applied[p] = 1 /\ Outdated(p))
    /\ (p \notin token /\ (guarded # "no" \/ command[p] \in SessionCommands)) => applied[p] = 0

CommandInv ==
    CommandLineTypeOK /\ DOMAIN request = Person /\ \A p \in Person : LineStands(p)
=============================================================================
