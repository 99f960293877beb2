----------------------------- MODULE Correlation -----------------------------
(***************************************************************************)
(* EventCorrelator, the engine behind one session: every ingested event    *)
(* joins the first active group one of the strategies finds, or founds a   *)
(* group of its own; timelines and summaries are computed from what the    *)
(* caps have left.  Events arrive in any order, however late.              *)
(*                                                                         *)
(* An event is a record: id (also the id of the group it founds; a number, *)
(* for ids are only ever the same or put in order by localeCompare), time, *)
(* kind, cid (correlationId), rid (the request id its source carries),     *)
(* url (normalised) and failed (does it report a failure?).                *)
(***************************************************************************)
EXTENDS Integers, FiniteSets, Sequences, SequencesExt

CONSTANTS
    Arrivals,        \* events the session receives
    Strategies,      \* config.strategies
    Window,          \* temporalWindowMs
    GroupTimeout,    \* groupTimeoutMs
    MaxRetained,     \* MAX_EVENTS
    MaxGroups,       \* MAX_GROUPS
    MaxPerGroup,     \* MAX_EVENTS_PER_GROUP
    MaxNow,          \* bound on the clock
    None             \* undefined

ASSUME CorrelationAssumption ==
    /\ IsFiniteSet(Arrivals) /\ Strategies \in Seq({"request-id", "trace-id", "temporal", "url-matching"})
    /\ {MaxRetained, MaxGroups, MaxPerGroup} \subseteq Nat \ {0}
    /\ {Window, GroupTimeout, MaxNow} \subseteq Nat
    /\ \A e \in Arrivals : e.time \in Nat /\ e.id \in Nat /\ e.id # None
    /\ \A d, e \in Arrivals : d.id = e.id => d = e

VARIABLES
    groups,     \* groups, a Map in its insertion order
    allEvents,
    now,        \* the server's clock; nothing ties it to the events' own times
    ingested,   \* history: events ingested
    forgotten   \* history: events that a cap has dropped from their group

vars == <<groups, allEvents, now, ingested, forgotten>>

-----------------------------------------------------------------------------
(* Strategies *)

Kinds == {"click", "navigation", "browser-error", "request", "response", "log", "query", "request-end"}
Source(e) ==
    CASE e.kind \in {"click", "navigation", "browser-error"} -> "browser"
      [] e.kind \in {"request", "response"} -> "network"
      [] e.kind = "log" -> "log"
      [] OTHER -> "sdk"

Latest(g) ==
    LET times == {g.createdAt} \cup {e.time : e \in Range(g.events)}
    IN  CHOOSE t \in times : \A u \in times : u <= t

\* readonlyGroupSnapshot: groups that have timed out take no more events.
Active(g) == now - Latest(g) <= GroupTimeout
Snapshot == {g \in Range(groups) : Active(g)}

\* The id of the first of them that satisfies P.
FirstGroup(P(_)) ==
    LET i == SelectInSeq(groups, LAMBDA g : g \in Snapshot /\ P(g))
    IN  IF i = 0 THEN None ELSE groups[i].id

CorrelationKey(e) ==
    IF e.cid # None THEN e.cid ELSE IF Source(e) = "browser" THEN None ELSE e.rid

HasKey(g, k) == g.cid = k \/ \E e \in Range(g.events) : CorrelationKey(e) = k

\* Mutant: only the group's own correlationId is compared.
BugRequestId(e) ==
    IF CorrelationKey(e) = None THEN None
    ELSE FirstGroup(LAMBDA g : g.cid = CorrelationKey(e))

RequestId(e) ==
    IF CorrelationKey(e) = None THEN None
    ELSE FirstGroup(LAMBDA g : HasKey(g, CorrelationKey(e)))

\* Clicks and navigations trigger groups; anything else joins the group whose
\* latest event it follows most closely.
Temporal(e) ==
    LET near(g) == e.time - Latest(g) \in 0..Window
        best(g) == near(g) /\ \A h \in Snapshot : near(h) => Latest(h) <= Latest(g)
    IN  IF e.kind \in {"click", "navigation"} THEN None ELSE FirstGroup(best)

\* Responses and SDK events carry no URL.
Url(e) == IF e.kind = "response" \/ Source(e) = "sdk" THEN None ELSE e.url

UrlMatching(e) ==
    IF Url(e) = None THEN None
    ELSE FirstGroup(LAMBDA g : \E x \in Range(g.events) : Url(x) = Url(e))

TryCorrelate(strategy, e) ==
    CASE strategy \in {"request-id", "trace-id"} -> RequestId(e)
      [] strategy = "temporal" -> Temporal(e)
      [] strategy = "url-matching" -> UrlMatching(e)

\* The strategies in their order; the first answer counts.
Matched(e) ==
    LET found(s) == TryCorrelate(s, e) # None
        i == SelectInSeq(Strategies, found)
    IN  IF i = 0 THEN None ELSE TryCorrelate(Strategies[i], e)

-----------------------------------------------------------------------------
(* Summaries and timelines *)

\* The first event of one of these kinds.
FirstOf(events, kinds) ==
    LET i == SelectInSeq(events, LAMBDA e : e.kind \in kinds)
    IN  IF i = 0 THEN None ELSE events[i]

\* Page errors, responses of status 400 and more, logs of level error and
\* requests that end with an error set hasError; a failed query does not.
Announces(e) == e.failed /\ (Source(e) = "sdk" => e.kind = "request-end")

\* buildGroupSummary, as far as events tell each other apart.
BuildGroupSummary(events) ==
    [trigger |-> FirstOf(events, {"click", "navigation"}),
     http |-> <<FirstOf(events, {"request"}), FirstOf(events, {"response"})>>,
     hasError |-> \E e \in Range(events) : Announces(e),
     logCount |-> Cardinality({e \in Range(events) : e.kind = "log"}),
     dbQueryCount |-> Cardinality({e \in Range(events) : e.kind = "query"})]

\* computeStats counts failed browser, log and network events.
Errors(events) == {e \in Range(events) : e.failed /\ Source(e) # "sdk"}

Earlier(a, b) == a.time < b.time \/ (a.time = b.time /\ a.id < b.id)

\* Events, of which no two are the same, each at the place that as many earlier
\* events leave it.
Sorted(events) ==
    [i \in DOMAIN events |-> CHOOSE e \in Range(events) :
        Cardinality({d \in Range(events) : Earlier(d, e)}) = i - 1]

BuildTimeline ==
    LET holders(e) == {g \in Range(groups) : e \in Range(g.events)}
        entry(e) == [event |-> e,
                     groupId |-> IF holders(e) = {} THEN None ELSE (CHOOSE g \in holders(e) : TRUE).id]
        sorted == Sorted(allEvents)
    IN  [entries |-> [i \in DOMAIN sorted |-> entry(sorted[i])],
         errors |-> Cardinality(Errors(allEvents))]

-----------------------------------------------------------------------------
(* Ingestion *)

LastOf(s, n) == SubSeq(s, IF Len(s) > n THEN Len(s) - n + 1 ELSE 1, Len(s))

\* createGroup: at the cap the group with the oldest first event goes, which
\* is the new one itself when its event came late.
CreateGroup(e) ==
    LET new == [id |-> e.id, cid |-> IF e.cid # None THEN e.cid ELSE e.id,
                createdAt |-> e.time, events |-> <<e>>, summary |-> BuildGroupSummary(<<e>>)]
        gs == Append(groups, new)
        oldest == SelectInSeq(gs, LAMBDA g : \A h \in Range(gs) : g.createdAt <= h.createdAt)
    IN  IF Len(gs) > MaxGroups
        THEN /\ groups' = RemoveAt(gs, oldest)
             /\ forgotten' = forgotten \cup Range(gs[oldest].events)
        ELSE groups' = gs /\ UNCHANGED forgotten

\* Mutant: the summary is built before the event is pushed.
BugAddEventToGroup(id, e) ==
    \E i \in DOMAIN groups :
        /\ groups[i].id = id
        /\ groups' = [groups EXCEPT ![i].events = Append(@, e),
                                    ![i].summary = BuildGroupSummary(groups[i].events)]
        /\ UNCHANGED forgotten

\* addEventToGroup: a full group loses its first event; a group that goes by
\* its own id adopts the event's correlationId.
AddEventToGroup(id, e) ==
    \E i \in DOMAIN groups :
        LET g == groups[i]
            events == LastOf(Append(g.events, e), MaxPerGroup)
        IN  /\ g.id = id
            /\ groups' = [groups EXCEPT ![i] =
                            [g EXCEPT !.events = events,
                                      !.summary = BuildGroupSummary(events),
                                      !.cid = IF e.cid # None /\ @ = g.id THEN e.cid ELSE @]]
            /\ forgotten' = forgotten \cup (Range(g.events) \ Range(events))

Correlate(e) ==
    IF Matched(e) # None THEN AddEventToGroup(Matched(e), e) ELSE CreateGroup(e)

Ingest(e) ==
    /\ e \in Arrivals \ ingested
    /\ ingested' = ingested \cup {e}
    /\ allEvents' = LastOf(Append(allEvents, e), MaxRetained)
    /\ Correlate(e)
    /\ UNCHANGED now

Tick ==
    /\ now < MaxNow
    /\ now' = now + 1
    /\ UNCHANGED <<groups, allEvents, ingested, forgotten>>

Initialize ==
    /\ groups = <<>> /\ allEvents = <<>>
    /\ now = 0
    /\ ingested = {} /\ forgotten = {}

Init == Initialize
Next == (\E e \in Arrivals : Ingest(e)) \/ Tick
Spec == Init /\ [][Next]_vars

-----------------------------------------------------------------------------
\* An event is in exactly one group until a cap drops it.
OneGroupEach ==
    \A e \in ingested :
        Cardinality({i \in DOMAIN groups : e \in Range(groups[i].events)})
            = IF e \in forgotten THEN 0 ELSE 1

\* While two groups take events no correlation key is found in both.
KeysApart ==
    \A i, j \in DOMAIN groups :
        i # j /\ Active(groups[i]) /\ Active(groups[j]) =>
            ~\E e \in Range(groups[i].events) :
                CorrelationKey(e) # None /\ HasKey(groups[j], CorrelationKey(e))

\* The timeline shows every retained event once, in order, with its group.
TimelineShowsAll ==
    LET entries == BuildTimeline.entries
    IN  /\ Len(entries) = Cardinality(Range(allEvents))
        /\ \A i \in 1..Len(entries) - 1 : Earlier(entries[i].event, entries[i + 1].event)
        /\ \A i \in DOMAIN entries : (entries[i].groupId = None) = (entries[i].event \in forgotten)

\* Whatever order request, response, query and log of one request arrive in,
\* every event is filed under one group, that of its request while it takes
\* events, and the timeline shows it there.
GroupedOnce == OneGroupEach /\ KeysApart /\ TimelineShowsAll

\* An error that the timeline counts, or with which a traced request ends, is
\* announced by the summary of the group it is filed under.  (No summary
\* announces a failed query, and no other SDK event: buildGroupSummary looks at
\* none of them.)
ErrorsAreVisible ==
    \A e \in Range(allEvents) \ forgotten :
        e \in Errors(allEvents) \/ (e.kind = "request-end" /\ e.failed) =>
            \E g \in Range(groups) : e \in Range(g.events) /\ g.summary.hasError
=============================================================================
