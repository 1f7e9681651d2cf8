------------------------------ MODULE Connectors ------------------------------
(* One fetch of a source connector, request by request: the Discourse connector *)
(* with its own-origin rule, redirects, request budget and retry-after, and the *)
(* Hacker News, Reddit and one-page (GitHub, Stack Exchange, fixture) ones. The *)
(* source and the name service answer as they like.                             *)
EXTENDS Integers, Sequences, FiniteSets

CONSTANTS Topic, Bad,     \* entries a source lists; Bad ones have no usable id
          Own, Other,     \* origins: the configured one, and any other
          Public, Private,\* addresses the name service may give
          MaxResults, MaxTopics, MaxRedirects, \* the connector's limits
          Factor, Cap,    \* stories a filtered feed reads: Factor per item, Cap in all
          MaxAsked, MaxListed, MaxWait \* BOUNDS: limit, listed entries, retry-after

ASSUME ConnectorAssumption ==
    /\ Bad \notin Topic /\ Own # Other /\ Public \cap Private = {}
    /\ {MaxResults, Factor} \subseteq Nat \ {0}
    /\ {MaxTopics, MaxRedirects, Cap, MaxAsked, MaxListed, MaxWait} \subseteq Nat

VARIABLES kind,      \* discourse, feed (Hacker News), reddit, page
          filtered,  \* the feed is searched for a text
          limit,     \* items asked for, cut to what the connector allows
          progress,     \* new, ready, asking, send, answered, done, failed
          purpose,     \* what the request is for: token, list, detail
          target,    \* origin of the request
          pinned,    \* the address the connection is made to
          hops,      \* redirects followed for this request
          listed,    \* entries to read, in order
          items,     \* items made: entry, and whether it was read itself
          seen,      \* stories read
          requests, contacts, \* requests sent, and to which origin and address
          wait,      \* retry_after_seconds of the result or of the failure; 0: none
          heard      \* every retry-after of this fetch: a history variable
connectorVars == <<kind, filtered, limit, progress, purpose, target, pinned, hops, listed, items, seen,
                   requests, contacts, wait, heard>>
asked == <<kind, filtered, limit>>
gathered == <<listed, items, seen>>
sent == <<requests, contacts>>

LesserOf(a, b) == IF a < b THEN a ELSE b
GreaterOf(a, b) == IF a < b THEN b ELSE a
Prefix(s, n) == SubSeq(s, 1, LesserOf(n, Len(s)))

ConnectorInit ==
    /\ kind \in {"discourse", "feed", "reddit", "page"}
    /\ filtered \in BOOLEAN
    /\ limit = 0
    /\ progress = "new" /\ purpose = "list"
    /\ target = Own /\ pinned = {}
    /\ hops = 0
    /\ listed = <<>> /\ items = <<>> /\ seen = 0
    /\ requests = 0 /\ contacts = {}
    /\ wait = 0 /\ heard = {}

Move(p) == progress' = p
FailWith(w) == Move("failed") /\ wait' = w
Idle == UNCHANGED <<purpose, target, pinned, hops>>

\* _validate_request_url: the own origin, resolved anew, to public addresses only.
Approved(origin, answer) == origin = Own /\ answer # {} /\ answer \subseteq Public

(* ---- Discourse ------------------------------------------------------------ *)
Construct(answer) ==
    /\ progress = "new"
    /\ IF kind = "discourse" /\ ~Approved(Own, answer) THEN FailWith(0) ELSE Move("ready") /\ UNCHANGED wait
    /\ Idle /\ UNCHANGED <<asked, gathered, sent, heard>>

EffectiveLimit(n) == LesserOf(GreaterOf(n, 0), MaxResults)

FetchResult(n) ==
    /\ progress = "ready" /\ kind = "discourse"
    /\ limit' = EffectiveLimit(n)
    /\ Move(IF limit' = 0 THEN "done" ELSE "asking")
    /\ purpose' = "list"
    /\ UNCHANGED <<kind, filtered, target, pinned, hops, gathered, sent, wait, heard>>

\* The first of the approved addresses in their order.
Pin(answer) == pinned' = {CHOOSE a \in answer : TRUE}

ValidateRequestUrl(answer) ==
    /\ progress = "asking" /\ kind = "discourse"
    /\ IF Approved(target, answer) THEN Move("send") /\ Pin(answer) /\ UNCHANGED wait
                                   ELSE FailWith(0) /\ UNCHANGED pinned
    /\ UNCHANGED <<asked, purpose, target, hops, gathered, sent, heard>>

\* A plausible bug: the name is resolved once more when the connection is made.
SendResolvingAgain ==
    /\ progress = "send"
    /\ requests' = requests + 1
    /\ \E a \in Public \cup Private : contacts' = contacts \cup {<<target, a>>}
    /\ Move("answered")
    /\ Idle /\ UNCHANGED <<asked, gathered, wait, heard>>

SendRequest ==
    /\ progress = "send"
    /\ requests' = requests + 1
    /\ contacts' = contacts \cup {<<target, a>> : a \in pinned}
    /\ Move("answered")
    /\ Idle /\ UNCHANGED <<asked, gathered, wait, heard>>

\* A timeout, a lost connection, an answer too large or not as expected.
RequestFails ==
    /\ progress \in {"send", "answered"}
    /\ FailWith(0)
    /\ Idle /\ UNCHANGED <<asked, gathered, sent, heard>>

HearRetryAfter(w) == heard' = heard \cup {w} /\ wait' = GreaterOf(wait, w)

Redirected(w, to, answer) ==
    /\ progress = "answered" /\ kind = "discourse"
    /\ IF hops < MaxRedirects /\ Approved(to, answer)
       THEN Move("asking") /\ target' = to /\ hops' = hops + 1 /\ HearRetryAfter(w)
       ELSE FailWith(0) /\ UNCHANGED <<target, hops>> /\ heard' = heard \cup {w}
    /\ UNCHANGED <<asked, purpose, pinned, gathered, sent>>

\* The failure carries the retry-after of the response that failed, no other.
HttpError(w) ==
    /\ progress = "answered"
    /\ FailWith(IF kind = "discourse" THEN w ELSE 0)
    /\ heard' = heard \cup {w}
    /\ Idle /\ UNCHANGED <<asked, gathered, sent>>

DetailBudget(entries) == LesserOf(Len(entries), MaxTopics)

\* After `made`: read the next topic within the budget, or take the rest as listed.
Continue(entries, made) ==
    LET rest == {i \in DOMAIN entries : i > Len(made)} IN
    /\ listed' = entries
    /\ IF Len(made) < DetailBudget(entries)
       THEN /\ purpose' = "detail" /\ target' = Own /\ hops' = 0 /\ items' = made
            /\ Move(IF entries[Len(made) + 1] = Bad THEN "failed" ELSE "asking")
       ELSE /\ UNCHANGED <<purpose, target, hops>>
            /\ Move(IF \E i \in rest : entries[i] = Bad THEN "failed" ELSE "done")
            /\ items' = [i \in DOMAIN entries |-> IF i \in rest THEN <<entries[i], FALSE>> ELSE made[i]]

Settled(w) == IF progress' = "failed" THEN heard' = heard \cup {w} /\ wait' = 0 ELSE HearRetryAfter(w)

TopicsListed(w, entries) ==
    /\ progress = "answered" /\ kind = "discourse" /\ purpose = "list"
    /\ Continue(Prefix(entries, limit), <<>>)
    /\ Settled(w)
    /\ UNCHANGED <<asked, pinned, seen, sent>>

TopicDetail(w) ==
    /\ progress = "answered" /\ kind = "discourse" /\ purpose = "detail"
    /\ Continue(listed, Append(items, <<listed[Len(items) + 1], TRUE>>))
    /\ Settled(w)
    /\ UNCHANGED <<asked, pinned, seen, sent>>

(* ---- the other connectors ------------------------------------------------- *)
Fetch(n) ==
    /\ progress = "ready" /\ kind # "discourse"
    /\ n > 0
    /\ limit' = n
    /\ purpose' = IF kind = "reddit" THEN "token" ELSE "list"
    /\ \/ Move("send")
       \/ kind = "reddit" /\ Move("failed") \* its credentials are missing
    /\ UNCHANGED <<kind, filtered, target, pinned, hops, gathered, sent, wait, heard>>

RedditToken ==
    /\ progress = "answered" /\ purpose = "token"
    /\ purpose' = "list" /\ Move("send")
    /\ UNCHANGED <<asked, target, pinned, hops, gathered, sent, wait, heard>>

Usable(entries) == {i \in DOMAIN entries : entries[i] # Bad}
UsableAt(entries, n) == CHOOSE i \in Usable(entries) : Cardinality({j \in Usable(entries) : j < i}) = n - 1

\* One page, as long as the source makes it; entries without an id are left out
\* by the Reddit connector and fail the others.
PageListed(entries) ==
    /\ progress = "answered" /\ kind \in {"page", "reddit"} /\ purpose = "list"
    /\ IF kind = "page" /\ Usable(entries) # DOMAIN entries
       THEN Move("failed") /\ UNCHANGED <<listed, items>>
       ELSE /\ Move("done") /\ listed' = entries
            /\ items' = [i \in 1..Cardinality(Usable(entries)) |-> <<entries[UsableAt(entries, i)], TRUE>>]
    /\ Idle /\ UNCHANGED <<asked, seen, sent, wait, heard>>

FetchBudget == IF filtered THEN LesserOf(GreaterOf(limit * Factor, limit), Cap) ELSE limit

FeedListed(entries) ==
    /\ progress = "answered" /\ kind = "feed" /\ purpose = "list"
    /\ listed' = Prefix(entries, FetchBudget)
    /\ purpose' = "detail"
    /\ Move(IF listed' = <<>> THEN "done" ELSE "send")
    /\ UNCHANGED <<asked, target, pinned, hops, items, seen, sent, wait, heard>>

\* The story matches, or is gone or does not; it ends with enough items.
FeedStory(matches) ==
    /\ progress = "answered" /\ kind = "feed" /\ purpose = "detail"
    /\ seen' = seen + 1
    /\ items' = IF matches THEN Append(items, <<listed[seen + 1], TRUE>>) ELSE items
    /\ Move(IF seen' = Len(listed) \/ Len(items') >= limit THEN "done" ELSE "send")
    /\ Idle /\ UNCHANGED <<asked, listed, sent, wait, heard>>

Answers == SUBSET (Public \cup Private)
Lists == UNION {[1..n -> Topic \cup {Bad}] : n \in 0..MaxListed}

ConnectorNext ==
    \/ \E a \in Answers : Construct(a) \/ ValidateRequestUrl(a)
    \/ \E n \in -1..MaxAsked : FetchResult(n) \/ Fetch(n)
    \/ SendRequest \/ RequestFails
    \/ \E w \in 0..MaxWait : HttpError(w)
    \/ \E w \in 0..MaxWait, to \in {Own, Other}, a \in Answers : Redirected(w, to, a)
    \/ \E w \in 0..MaxWait, list \in Lists : TopicsListed(w, list)
    \/ \E w \in 0..MaxWait : TopicDetail(w)
    \/ RedditToken
    \/ \E list \in Lists : PageListed(list) \/ FeedListed(list)
    \/ \E matches \in BOOLEAN : FeedStory(matches)

ConnectorSpec == ConnectorInit /\ [][ConnectorNext]_connectorVars

(* ---- properties ----------------------------------------------------------- *)
ConnectorTypeOK ==
    /\ kind \in {"discourse", "feed", "reddit", "page"} /\ filtered \in BOOLEAN
    /\ limit \in 0..GreaterOf(MaxAsked, MaxResults)
    /\ progress \in {"new", "ready", "asking", "send", "answered", "done", "failed"}
    /\ purpose \in {"token", "list", "detail"} /\ target \in {Own, Other}
    /\ pinned \subseteq Public \cup Private /\ hops \in 0..MaxRedirects
    /\ Len(listed) <= MaxListed /\ Len(items) <= MaxListed /\ seen \in 0..MaxListed
    /\ requests \in Nat /\ wait \in 0..MaxWait /\ heard \subseteq 0..MaxWait

\* However a source redirects and whatever it lists, a fetch ends after a fixed
\* number of requests: the list and each topic within the budget, each with its
\* redirects; a feed reads its list and at most Factor stories per item wanted.
RequestsBounded ==
    /\ kind = "discourse" => requests <= (1 + LesserOf(limit, MaxTopics)) * (MaxRedirects + 1)
    /\ kind = "feed" => requests <= 1 + LesserOf(limit * Factor, GreaterOf(Cap, limit))
    /\ kind \in {"page", "reddit"} => requests <= 2

\* docs/threat-model.md, Discourse: whatever the name service says between the
\* check and the connection, and wherever redirects point, the Discourse
\* connector has only ever talked to its own origin at a public address.
OnlyOwnPublicOrigin ==
    kind = "discourse" => contacts \subseteq {Own} \X Public

\* A successful fetch reports the longest Retry-After any of its responses,
\* redirects included, asked for.
LongestWaitKept ==
    (kind = "discourse" /\ progress = "done") =>
        /\ \A w \in heard : w <= wait
        /\ wait \in heard \cup {0}

\* A successful Discourse fetch has one item per listed topic, in the order they
\* were listed, up to the limits, and exactly the first MaxTopics were read
\* themselves; a feed has the matching ones of what it read, never above limit.
ItemsAreTheFirst ==
    progress = "done" =>
        /\ kind = "discourse" =>
              /\ Len(items) = Len(listed) /\ Len(items) <= MaxResults
              /\ \A i \in DOMAIN items : items[i] = <<listed[i], i <= MaxTopics>>
        /\ kind = "feed" =>
              /\ Len(items) <= limit
              /\ Len(items) < limit => seen = Len(listed)

\* One fetch against any answers of the source and of the name service: bounded,
\* inside its origin, and truthful about the wait and the items.
FetchKeepsTerms ==
    /\ ConnectorTypeOK
    /\ RequestsBounded
    /\ OnlyOwnPublicOrigin
    /\ LongestWaitKept
    /\ ItemsAreTheFirst

\* The inductive invariant: what the requests so far were for, and what the
\* entries still to be read leave of the budget.
Entries == Topic \cup {Bad}
Made == Entries \X BOOLEAN
Asking == {"asking", "send", "answered"}
OneMore == IF progress = "answered" THEN 1 ELSE 0
AllowedFor(documents) == documents * (MaxRedirects + 1)
Documents == IF purpose = "list" THEN 0 ELSE 1 + Len(items)

Untouched == /\ purpose = "list" /\ listed = <<>> /\ items = <<>> /\ seen = 0 /\ hops = 0
             /\ limit = 0 /\ requests = 0 /\ wait = 0 /\ heard = {}

DiscourseStands ==
    /\ target = Own /\ pinned \subseteq Public /\ contacts \subseteq {Own} \X Public
    /\ limit <= MaxResults /\ Len(listed) <= limit
    /\ progress # "failed" => (\A w \in heard : w <= wait) /\ wait \in heard \cup {0}
    /\ requests <= AllowedFor(1 + LesserOf(limit, MaxTopics))
    /\ progress \in Asking =>
         /\ purpose # "token"
         /\ requests <= AllowedFor(Documents) + hops + OneMore
         /\ purpose = "detail" => /\ Len(items) < DetailBudget(listed)
                                 /\ \A i \in DOMAIN items : items[i] = <<listed[i], TRUE>>
    /\ progress = "done" =>
         /\ Len(items) = Len(listed)
         /\ \A i \in DOMAIN items : items[i] = <<listed[i], i <= MaxTopics>>

FeedStands ==
    /\ progress # "asking"
    /\ Len(listed) <= FetchBudget
    /\ requests <= 1 + LesserOf(limit * Factor, GreaterOf(Cap, limit))
    /\ progress \in Asking =>
         /\ purpose # "token" /\ Len(items) <= seen /\ Len(items) < limit
         /\ purpose = "list" => requests = OneMore /\ items = <<>> /\ listed = <<>> /\ seen = 0
         /\ purpose = "detail" => seen < Len(listed) /\ requests = 1 + seen + OneMore
    /\ progress = "done" => Len(items) <= limit /\ (Len(items) < limit => seen = Len(listed))

PageStands ==
    /\ progress # "asking"
    /\ requests <= 2
    /\ progress \in Asking =>
         /\ purpose # "detail"
         /\ purpose = "token" => kind = "reddit" /\ requests = OneMore
         /\ purpose = "list" => requests <= 1 + OneMore /\ (kind = "page" => requests = OneMore)

ConnectorTyped == ConnectorTypeOK /\ listed \in Seq(Entries) /\ items \in Seq(Made)

KindStands ==
    /\ kind = "discourse" => DiscourseStands
    /\ kind = "feed" => FeedStands
    /\ kind \in {"page", "reddit"} => PageStands

ConnectorInv == ConnectorTyped /\ (progress \in {"new", "ready"} => Untouched) /\ KindStands
=============================================================================
