--------------------------- MODULE SessionManager ---------------------------
(***************************************************************************)
(* The server's SessionManager: debug sessions kept in a StoragePort, and  *)
(* a bounded in-memory cache of correlators (one per session, fed with     *)
(* every ingested event, evicted least recently used first and rebuilt     *)
(* from storage on demand).                                                *)
(*                                                                         *)
(* The server is one Node.js process, so code between two awaits runs to   *)
(* completion and every await is a point where any other request, rebuild  *)
(* or purge may run.  A request in flight is a record in op, whose pc says *)
(* which await it is suspended at; one action takes it to the next await.  *)
(* A storage call takes effect in the action that leaves the pc naming it, *)
(* and its reply is consumed by a later action, so a storage call and the  *)
(* code that resumes after it can be arbitrarily far apart.                *)
(*                                                                         *)
(* A batch of events is the unit: it is appended, fed and pushed in one    *)
(* synchronous stretch of code, so it is a number in Batch.                *)
(***************************************************************************)
EXTENDS Integers, Sequences, FiniteSets, JsMap

CONSTANTS
    Session,         \* session ids generateSessionId can return
    Client,          \* concurrent HTTP requests, one slot each
    Backend,         \* which StoragePort: "memory" or "postgres"
    Workload,        \* kinds of requests the clients send
    Targets,         \* statuses the clients ask for
    Faults,          \* whose storage calls may reject
    MaxCorrelators,  \* MAX_CORRELATORS (200 in the code)
    EvictTarget,     \* Math.floor(MAX_CORRELATORS * 0.9)
    MaxRebuilds,     \* MAX_CONCURRENT_REBUILDS (3 in the code)
    MaxSessions,     \* MemoryStorageAdapter.MAX_SESSIONS (10 000)
    StoreCap,        \* MemoryStorageAdapter.MAX_EVENTS_PER_SESSION (100 000)
    RebuildLimit,    \* events read back by a rebuild (50 000)
    CorrelatorCap,   \* EventCorrelator.MAX_EVENTS (50 000)
    SessionTtl,      \* SESSION_TTL_MS
    MaxBatches,      \* bound: batches the clients ever send
    MaxTime,         \* bound: last value of the clock
    MaxRestarts,     \* bound: process restarts
    MaxGauge         \* bound: status requests stop at this gauge value

Kinds == {"create", "ingest", "timeline", "delete", "update"}
Status == {"idle", "capturing", "paused", "completed", "error"}
Active == {"capturing", "paused"}
Terminal == {"completed", "error"}
Hooks == {"session.created", "session.deleted", "session.completed", "session.error"}
Batch == 1..MaxBatches
Time == 0..MaxTime
Never == -1      \* endedAt is undefined

ASSUME SessionManagerAssumption ==
    /\ IsFiniteSet(Session)
    /\ Backend \in {"memory", "postgres"}
    /\ Workload \subseteq Kinds
    /\ Targets \subseteq Status
    /\ Faults \subseteq {"request", "rebuild", "purge"}
    /\ {MaxCorrelators, EvictTarget, MaxSessions, StoreCap,
        RebuildLimit, CorrelatorCap} \subseteq Nat \ {0}
    /\ EvictTarget <= MaxCorrelators
    /\ {MaxRebuilds, SessionTtl, MaxBatches, MaxTime, MaxRestarts,
        MaxGauge} \subseteq Nat

VARIABLES
    store,        \* storage: session id -> status, startedAt, endedAt, events
    catalog,      \* storage: session ids in insertion order
    used,         \* ids handed out by generateSessionId
    correlators,  \* SessionManager.correlators: id -> events fed, lastAccessed
    rebuilds,     \* SessionManager.rebuildInProgress: id -> progress
    op,           \* requests in flight: client -> suspended handler
    answer,       \* how each client's last request was answered
    purge,        \* the purgeStale run, if one is in progress
    gauge,        \* sessionsActive
    now,          \* nowMs() and Date.now()
    restarts,     \* restarts so far
    hooks,        \* webhooks handed to the notification port, per session
    owner,        \* history: the session each batch was sent to
    persisted,    \* history: batches an append has stored
    acked         \* history: batches answered 201

vars == <<store, catalog, used, correlators, rebuilds, op, answer, purge,
          gauge, now, restarts, hooks, owner, persisted, acked>>
storage == <<store, catalog, persisted>>
clock == <<now, restarts>>
history == <<owner, acked>>

-----------------------------------------------------------------------------
(* Sequences of batches *)

\* Mutant: the cap is compared with >= and one element too many is dropped.
BugNewest(n, q) == IF Len(q) < n THEN q ELSE SubSeq(q, Len(q) - n + 2, Len(q))

\* splice(0, excess): the newest n elements are kept.
Newest(n, q) == IF Len(q) <= n THEN q ELSE SubSeq(q, Len(q) - n + 1, Len(q))

\* Mutant: the limit is exclusive.
BugOldest(n, q) == IF Len(q) < n THEN q ELSE SubSeq(q, 1, n - 1)

\* slice(0, limit): the oldest n elements are read.
Oldest(n, q) == IF Len(q) <= n THEN q ELSE SubSeq(q, 1, n)

InSeq(q) == {q[i] : i \in 1..Len(q)}

\* A Map's keys after delete(x): x occurs at most once.
Omit(q, x) ==
    IF x \in InSeq(q)
    THEN LET i == CHOOSE i \in 1..Len(q) : q[i] = x
         IN  SubSeq(q, 1, i - 1) \o SubSeq(q, i + 1, Len(q))
    ELSE q

-----------------------------------------------------------------------------
(* StoragePort *)

\* saveSession.  The memory adapter drops its oldest session at the cap.
Overflow == IF Backend = "memory" /\ Len(catalog) >= MaxSessions
            THEN {Head(catalog)} ELSE {}

Save(s) ==
    /\ store' = Put(Without(store, Overflow), s,
                    [status |-> "idle", started |-> now, ended |-> Never,
                     events |-> <<>>])
    /\ catalog' = Append(IF Overflow = {} THEN catalog ELSE Tail(catalog), s)
    /\ UNCHANGED persisted

\* deleteSession removes the session and its events; absent is not an error.
Remove(s) ==
    /\ store' = Without(store, {s})
    /\ catalog' = Omit(catalog, s)
    /\ UNCHANGED persisted

\* getEvents of a session that is gone is empty.
StoredEvents(s) == IF s \in DOMAIN store THEN store[s].events ELSE <<>>

\* appendEvents.  Postgres ignores an event id it already has, memory drops
\* the oldest events over its cap.
Stored(q, b) ==
    IF Backend = "postgres"
    THEN IF b \in InSeq(q) THEN q ELSE Append(q, b)
    ELSE Newest(StoreCap, Append(q, b))

AppendEvents(s, b) ==
    /\ store' = [store EXCEPT ![s].events = Stored(@, b)]
    /\ persisted' = persisted \cup {b}
    /\ UNCHANGED catalog

\* updateSessionStatus, for a session that exists.
SetStatus(s, to) ==
    /\ store' = [store EXCEPT ![s].status = to,
                              ![s].ended = IF to \in Terminal THEN now ELSE @]
    /\ UNCHANGED <<catalog, persisted>>

-----------------------------------------------------------------------------
(* The correlator cache *)

\* A correlator that has ingested the events of q, oldest first.
Correlator(q) == [events |-> Newest(CorrelatorCap, q), at |-> now]

\* Mutant: eviction starts one entry too late.
BugVictims(m, inserted) ==
    IF Cardinality(DOMAIN m) <= MaxCorrelators + 1 THEN {{}}
    ELSE {E \in SUBSET (DOMAIN m \ {inserted}) :
            /\ Cardinality(E) = Cardinality(DOMAIN m) - EvictTarget
            /\ \A x \in E, y \in DOMAIN m \ E : m[x].at <= m[y].at}

\* evictStaleCorrelators: over the cap, the least recently accessed entries
\* go until EvictTarget are left.  The sort is stable and the clock coarse, so
\* any choice among equal lastAccessed is possible, except that the entry
\* inserted last is also last in its tie.
Victims(m, inserted) ==
    IF Cardinality(DOMAIN m) <= MaxCorrelators THEN {{}}
    ELSE {E \in SUBSET (DOMAIN m \ {inserted}) :
            /\ Cardinality(E) = Cardinality(DOMAIN m) - EvictTarget
            /\ \A x \in E, y \in DOMAIN m \ E : m[x].at <= m[y].at}

\* correlators.set(s, entry); evictStaleCorrelators()
Insert(s, entry) ==
    LET m == Put(correlators, s, entry)
    IN  \E E \in Victims(m, s) : correlators' = Without(m, E)

-----------------------------------------------------------------------------
(* Requests *)

Request(kind, pc, s) ==
    [kind |-> kind, pc |-> pc, sid |-> s, batch |-> 0, due |-> {},
     from |-> "idle", to |-> "idle"]

Begin(c, r) ==
    /\ r.kind \in Workload
    /\ c \notin DOMAIN op
    /\ op' = Put(op, c, r)
    /\ answer' = [answer EXCEPT ![c] = "none"]

At(c, kind, pc) == c \in DOMAIN op /\ op[c].kind = kind /\ op[c].pc = pc

Goto(c, pc) == op' = [op EXCEPT ![c].pc = pc] /\ UNCHANGED answer

Reply(c, a) ==
    /\ op' = Without(op, {c})
    /\ answer' = [answer EXCEPT ![c] = a]

Emit(s, hook) == hooks' = [hooks EXCEPT ![s] = @ \cup {hook}]

\* The manager's state no step of this request touches.
Aside == <<rebuilds, purge, clock, used>>

\* --- createSession
CreateStart(c) ==
    \E s \in Session \ used :
        /\ Begin(c, Request("create", "save", s))
        /\ used' = used \cup {s}
        /\ Insert(s, Correlator(<<>>))
        /\ UNCHANGED <<storage, rebuilds, purge, gauge, clock, hooks, history>>

CreateSave(c) ==
    /\ At(c, "create", "save")
    /\ Save(op[c].sid)
    /\ Goto(c, "saved")
    /\ UNCHANGED <<correlators, gauge, hooks, history, Aside>>

CreateDone(c) ==
    /\ At(c, "create", "saved")
    /\ Emit(op[c].sid, "session.created")
    /\ Reply(c, "ok")
    /\ UNCHANGED <<storage, correlators, gauge, history, Aside>>

\* --- deleteSession
DeleteStart(c) ==
    /\ \E s \in used : Begin(c, Request("delete", "load", s))
    /\ UNCHANGED <<storage, correlators, gauge, hooks, history, Aside>>

DeleteLoad(c) ==
    /\ At(c, "delete", "load")
    /\ IF op[c].sid \in DOMAIN store THEN Goto(c, "remove") ELSE Reply(c, "missing")
    /\ UNCHANGED <<storage, correlators, gauge, hooks, history, Aside>>

DeleteRemove(c) ==
    /\ At(c, "delete", "remove")
    /\ Remove(op[c].sid)
    /\ Goto(c, "removed")
    /\ UNCHANGED <<correlators, gauge, hooks, history, Aside>>

DeleteDone(c) ==
    /\ At(c, "delete", "removed")
    /\ correlators' = Without(correlators, {op[c].sid})
    /\ Emit(op[c].sid, "session.deleted")
    /\ Reply(c, "ok")
    /\ UNCHANGED <<storage, gauge, history, Aside>>

\* --- updateSessionStatus
UpdateStart(c) ==
    /\ gauge \in (-MaxGauge + 1)..(MaxGauge - 1)
    /\ \E s \in used, to \in Targets :
         Begin(c, [Request("update", "load", s) EXCEPT !.to = to])
    /\ UNCHANGED <<storage, correlators, gauge, hooks, history, Aside>>

UpdateLoad(c) ==
    /\ At(c, "update", "load")
    /\ IF op[c].sid \in DOMAIN store
       THEN /\ op' = [op EXCEPT ![c].pc = "found",
                                ![c].from = store[op[c].sid].status]
            /\ UNCHANGED answer
       ELSE Reply(c, "missing")
    /\ UNCHANGED <<storage, correlators, gauge, hooks, history, Aside>>

GaugeAfter(from, to) ==
    gauge + (IF to \in Active THEN 1 ELSE 0)
          - (IF from \in Active /\ to \notin Active THEN 1 ELSE 0)

\* Mutant: the webhook is emitted before the awaited storage call.
BugUpdateGauge(c) ==
    /\ At(c, "update", "found")
    /\ gauge' = GaugeAfter(op[c].from, op[c].to)
    /\ IF op[c].to \in Terminal
       THEN Emit(op[c].sid, IF op[c].to = "error" THEN "session.error"
                            ELSE "session.completed")
       ELSE UNCHANGED hooks
    /\ Goto(c, "set")
    /\ UNCHANGED <<storage, correlators, history, Aside>>

UpdateGauge(c) ==
    /\ At(c, "update", "found")
    /\ gauge' = GaugeAfter(op[c].from, op[c].to)
    /\ Goto(c, "set")
    /\ UNCHANGED <<storage, correlators, hooks, history, Aside>>

\* Mutant: the status is written by an upsert of the whole session.
BugUpdateSet(c) ==
    /\ At(c, "update", "set")
    /\ LET s == op[c].sid
       IN  /\ store' = Put(store, s,
                 [status |-> op[c].to, started |-> now, events |-> StoredEvents(s),
                  ended |-> IF op[c].to \in Terminal THEN now ELSE Never])
           /\ UNCHANGED <<catalog, persisted>>
    /\ Goto(c, "reload")
    /\ UNCHANGED <<correlators, gauge, hooks, history, Aside>>

\* The memory adapter throws when the session is gone, Postgres updates no row.
UpdateSet(c) ==
    /\ At(c, "update", "set")
    /\ LET s == op[c].sid
       IN  IF s \in DOMAIN store
           THEN SetStatus(s, op[c].to) /\ Goto(c, "reload")
           ELSE /\ IF Backend = "memory" THEN Reply(c, "failed") ELSE Goto(c, "reload")
                /\ UNCHANGED storage
    /\ UNCHANGED <<correlators, gauge, hooks, history, Aside>>

UpdateDone(c) ==
    /\ At(c, "update", "reload")
    /\ LET s == op[c].sid
           hook == IF op[c].to = "error" THEN "session.error" ELSE "session.completed"
       IN  /\ IF op[c].to \in Terminal THEN Emit(s, hook) ELSE UNCHANGED hooks
           /\ Reply(c, IF s \in DOMAIN store THEN "ok" ELSE "missing")
    /\ UNCHANGED <<storage, correlators, gauge, history, Aside>>

\* --- ingestEvents
\* A batch is new, or one that was not acknowledged and is sent again.
IngestStart(c) ==
    \E s \in used, b \in Batch :
        /\ \/ b \notin DOMAIN owner /\ 1..(b - 1) \subseteq DOMAIN owner
           \/ /\ b \in DOMAIN owner \ acked
              /\ owner[b] = s
              /\ \A d \in DOMAIN op : op[d].batch # b
        /\ Begin(c, [Request("ingest", "check", s) EXCEPT !.batch = b])
        /\ owner' = Put(owner, b, s)
        /\ UNCHANGED <<storage, correlators, gauge, hooks, acked, Aside>>

\* The route looks the session up first: 404 when it is absent.
IngestCheck(c) ==
    /\ At(c, "ingest", "check")
    /\ IF op[c].sid \in DOMAIN store THEN Goto(c, "load") ELSE Reply(c, "missing")
    /\ UNCHANGED <<storage, correlators, gauge, hooks, history, Aside>>

\* ingestEvents looks it up again: 201 with ingested = 0 when it is gone by now.
IngestLoad(c) ==
    /\ At(c, "ingest", "load")
    /\ IF op[c].sid \in DOMAIN store THEN Goto(c, "append") ELSE Reply(c, "empty")
    /\ UNCHANGED <<storage, correlators, gauge, hooks, history, Aside>>

\* Mutant: the append is not awaited and its rejection is swallowed.
BugIngestAppend(c) ==
    /\ At(c, "ingest", "append")
    /\ \/ op[c].sid \in DOMAIN store /\ AppendEvents(op[c].sid, op[c].batch)
       \/ UNCHANGED storage
    /\ Goto(c, "feed")
    /\ UNCHANGED <<correlators, gauge, hooks, history, Aside>>

IngestAppend(c) ==
    /\ At(c, "ingest", "append")
    /\ IF op[c].sid \in DOMAIN store
       THEN AppendEvents(op[c].sid, op[c].batch) /\ Goto(c, "feed")
       ELSE Reply(c, "failed") /\ UNCHANGED storage
    /\ UNCHANGED <<correlators, gauge, hooks, history, Aside>>

\* Mutant: the cached correlator is never consulted.
BugFeed(s, b) == Insert(s, Correlator(<<b>>))

\* A correlator that is not cached is created empty: only this batch is in it.
Feed(s, b) ==
    IF s \in DOMAIN correlators
    THEN correlators' = [correlators EXCEPT
                           ![s] = Correlator(Append(@.events, b))]
    ELSE Insert(s, Correlator(<<b>>))

IngestFeed(c) ==
    /\ At(c, "ingest", "feed")
    /\ Feed(op[c].sid, op[c].batch)
    /\ acked' = acked \cup {op[c].batch}
    /\ Reply(c, "ok")
    /\ UNCHANGED <<storage, gauge, hooks, owner, Aside>>

\* --- getTimeline and getCorrelationGroups
AckedFor(s) == {b \in acked : owner[b] = s}

TimelineStart(c) ==
    /\ \E s \in used :
         Begin(c, [Request("timeline", "lookup", s) EXCEPT !.due = AckedFor(s)])
    /\ UNCHANGED <<storage, correlators, gauge, hooks, history, Aside>>

TimelineHit(c) ==
    /\ At(c, "timeline", "lookup")
    /\ op[c].sid \in DOMAIN correlators
    /\ correlators' = [correlators EXCEPT ![op[c].sid].at = now]
    /\ Reply(c, "ok")
    /\ UNCHANGED <<storage, gauge, hooks, history, Aside>>

\* Mutant: a rebuild in progress for the same session is not joined.
BugTimelineMiss(c) ==
    /\ At(c, "timeline", "lookup")
    /\ op[c].sid \notin DOMAIN correlators
    /\ \/ /\ Cardinality(DOMAIN rebuilds) >= MaxRebuilds
          /\ Reply(c, "missing")
          /\ UNCHANGED rebuilds
       \/ /\ Cardinality(DOMAIN rebuilds) < MaxRebuilds
          /\ Goto(c, "owner")
          /\ rebuilds' = Put(rebuilds, op[c].sid, [pc |-> "load", events |-> <<>>])
    /\ UNCHANGED <<storage, correlators, gauge, hooks, history, purge, clock, used>>

\* getOrRebuildCorrelator on a miss: join the rebuild in progress, give up at
\* the cap, or start a rebuild and await it.
TimelineMiss(c) ==
    /\ At(c, "timeline", "lookup")
    /\ LET s == op[c].sid
       IN  /\ s \notin DOMAIN correlators
           /\ \/ /\ s \in DOMAIN rebuilds
                 /\ Goto(c, "join")
                 /\ UNCHANGED rebuilds
              \/ /\ s \notin DOMAIN rebuilds
                 /\ Cardinality(DOMAIN rebuilds) >= MaxRebuilds
                 /\ Reply(c, "missing")
                 /\ UNCHANGED rebuilds
              \/ /\ s \notin DOMAIN rebuilds
                 /\ Cardinality(DOMAIN rebuilds) < MaxRebuilds
                 /\ Goto(c, "owner")
                 /\ rebuilds' = Put(rebuilds, s, [pc |-> "load", events |-> <<>>])
    /\ UNCHANGED <<storage, correlators, gauge, hooks, history, purge, clock, used>>

\* --- doRebuildCorrelator, run on behalf of everyone waiting for s
Waiting(s) == {c \in DOMAIN op : op[c].pc \in {"owner", "join"} /\ op[c].sid = s}

\* Mutant: only the request that started the rebuild is answered.
BugSettle(s, a) ==
    LET owners == {c \in Waiting(s) : op[c].pc = "owner"}
    IN  /\ rebuilds' = Without(rebuilds, {s})
        /\ op' = Without(op, owners)
        /\ answer' = [c \in Client |-> IF c \in owners THEN a ELSE answer[c]]

Settle(s, a) ==
    /\ rebuilds' = Without(rebuilds, {s})
    /\ op' = Without(op, Waiting(s))
    /\ answer' = [c \in Client |-> IF c \in Waiting(s) THEN a ELSE answer[c]]

RebuildLoad(s) ==
    /\ s \in DOMAIN rebuilds
    /\ rebuilds[s].pc = "load"
    /\ IF s \in DOMAIN store
       THEN /\ rebuilds' = [rebuilds EXCEPT ![s].pc = "read"]
            /\ UNCHANGED <<op, answer>>
       ELSE Settle(s, "missing")
    /\ UNCHANGED <<storage, correlators, gauge, hooks, history, purge, clock, used>>

RebuildRead(s) ==
    /\ s \in DOMAIN rebuilds
    /\ rebuilds[s].pc = "read"
    /\ rebuilds' = [rebuilds EXCEPT ![s] =
                      [pc |-> "set", events |-> Oldest(RebuildLimit, StoredEvents(s))]]
    /\ UNCHANGED <<storage, correlators, op, answer, gauge, hooks, history,
                   purge, clock, used>>

\* correlators.set replaces whatever correlator the session has by now.
RebuildSet(s) ==
    /\ s \in DOMAIN rebuilds
    /\ rebuilds[s].pc = "set"
    /\ Insert(s, Correlator(rebuilds[s].events))
    /\ Settle(s, "ok")
    /\ UNCHANGED <<storage, gauge, hooks, history, purge, clock, used>>

-----------------------------------------------------------------------------
(* purgeStale *)

NoPurge == [pc |-> "off", todo |-> {}, sid |-> {}]

\* Mutant: the status is not tested, so a session in use expires too.
BugExpired ==
    {s \in DOMAIN store :
        (IF store[s].ended = Never THEN store[s].started ELSE store[s].ended) < now - SessionTtl}

\* The loop's test reads only the listed snapshot, so it is applied here.
Expired ==
    {s \in DOMAIN store :
        /\ store[s].status \in Terminal
        /\ (IF store[s].ended = Never THEN store[s].started ELSE store[s].ended)
             < now - SessionTtl}

PurgeList ==
    /\ purge.pc = "off"
    /\ Expired # {}
    /\ purge' = [pc |-> "next", todo |-> Expired, sid |-> {}]
    /\ UNCHANGED <<storage, correlators, rebuilds, op, answer, gauge, hooks,
                   history, clock, used>>

PurgeRemove ==
    /\ purge.pc = "next"
    /\ \E s \in purge.todo :
         /\ Remove(s)
         /\ purge' = [pc |-> "removed", todo |-> purge.todo \ {s}, sid |-> {s}]
    /\ UNCHANGED <<correlators, rebuilds, op, answer, gauge, hooks, history,
                   clock, used>>

PurgeForget ==
    /\ purge.pc = "removed"
    /\ correlators' = Without(correlators, purge.sid)
    /\ purge' = IF purge.todo = {} THEN NoPurge
                ELSE [pc |-> "next", todo |-> purge.todo, sid |-> {}]
    /\ UNCHANGED <<storage, rebuilds, op, answer, gauge, hooks, history,
                   clock, used>>

-----------------------------------------------------------------------------
(* The environment: a storage call rejects, time passes, the process dies *)

\* The reply of the storage call a request is suspended at is an error; the
\* call itself may or may not have taken effect.
RequestThrows(c) ==
    /\ "request" \in Faults
    /\ c \in DOMAIN op
    /\ op[c].pc \notin {"lookup", "owner", "join"}
    /\ Reply(c, "failed")
    /\ UNCHANGED <<storage, correlators, gauge, hooks, history, Aside>>

RebuildThrows(s) ==
    /\ "rebuild" \in Faults
    /\ s \in DOMAIN rebuilds
    /\ Settle(s, "failed")
    /\ UNCHANGED <<storage, correlators, gauge, hooks, history, purge, clock, used>>

\* One failure aborts the whole purge run.
PurgeThrows ==
    /\ "purge" \in Faults
    /\ purge.pc # "off"
    /\ purge' = NoPurge
    /\ UNCHANGED <<storage, correlators, rebuilds, op, answer, gauge, hooks,
                   history, clock, used>>

Tick ==
    /\ now < MaxTime
    /\ now' = now + 1
    /\ UNCHANGED <<storage, used, correlators, rebuilds, op, answer, purge,
                   gauge, restarts, hooks, history>>

\* Only what Postgres holds survives; connected clients see their request fail.
Restart ==
    /\ Backend = "postgres"
    /\ restarts < MaxRestarts
    /\ restarts' = restarts + 1
    /\ correlators' = NoKeys
    /\ rebuilds' = NoKeys
    /\ op' = NoKeys
    /\ answer' = [c \in Client |-> IF c \in DOMAIN op THEN "failed" ELSE answer[c]]
    /\ purge' = NoPurge
    /\ gauge' = 0
    /\ UNCHANGED <<storage, used, now, hooks, history>>

-----------------------------------------------------------------------------
Init ==
    /\ store = NoKeys
    /\ catalog = <<>>
    /\ used = {}
    /\ correlators = NoKeys
    /\ rebuilds = NoKeys
    /\ op = NoKeys
    /\ answer = [c \in Client |-> "none"]
    /\ purge = NoPurge
    /\ gauge = 0
    /\ now = 0
    /\ restarts = 0
    /\ hooks = [s \in Session |-> {}]
    /\ owner = NoKeys
    /\ persisted = {}
    /\ acked = {}

Arrive(c) ==
    \/ CreateStart(c) \/ DeleteStart(c) \/ UpdateStart(c)
    \/ IngestStart(c) \/ TimelineStart(c)

Handle(c) ==
    \/ CreateSave(c) \/ CreateDone(c)
    \/ DeleteLoad(c) \/ DeleteRemove(c) \/ DeleteDone(c)
    \/ UpdateLoad(c) \/ UpdateGauge(c) \/ UpdateSet(c) \/ UpdateDone(c)
    \/ IngestCheck(c) \/ IngestLoad(c) \/ IngestAppend(c) \/ IngestFeed(c)
    \/ TimelineHit(c) \/ TimelineMiss(c)

Rebuild(s) == RebuildLoad(s) \/ RebuildRead(s) \/ RebuildSet(s)

Purge == PurgeList \/ PurgeRemove \/ PurgeForget

Next ==
    \/ \E c \in Client : Arrive(c) \/ Handle(c) \/ RequestThrows(c)
    \/ \E s \in Session : Rebuild(s) \/ RebuildThrows(s)
    \/ Purge \/ PurgeThrows
    \/ Tick
    \/ Restart

Spec == Init /\ [][Next]_vars

\* Node's event loop resumes every continuation whose storage call has been
\* answered, and storage answers or rejects every call: WF of each handler.
FairSpec ==
    /\ Spec
    /\ \A c \in Client : WF_vars(Handle(c))
    /\ \A s \in Session : WF_vars(Rebuild(s))
-----------------------------------------------------------------------------
(* What the module promises *)

Answers == {"none", "ok", "empty", "missing", "failed"}

Pcs == {"save", "saved", "check", "load", "append", "feed", "found", "set", "reload",
        "remove", "removed", "lookup", "owner", "join"}

SessionRecord ==
    [status : Status, started : Time, ended : Time \cup {Never}, events : Seq(Batch)]

Suspended ==
    [kind : Kinds, pc : Pcs, sid : Session, batch : Batch \cup {0},
     due : SUBSET Batch, from : Status, to : Status]

MapInto(m, K, V) == DOMAIN m \subseteq K /\ \A k \in DOMAIN m : m[k] \in V

\* Every variable of the manager and its storage has the type the code gives it.
TypeOK ==
    /\ MapInto(store, Session, SessionRecord)
    /\ catalog \in Seq(Session)
    /\ used \subseteq Session
    /\ MapInto(correlators, Session, [events : Seq(Batch), at : Time])
    /\ MapInto(rebuilds, Session, [pc : {"load", "read", "set"}, events : Seq(Batch)])
    /\ MapInto(op, Client, Suspended)
    /\ answer \in [Client -> Answers]
    /\ purge \in [pc : {"off", "next", "removed"}, todo : SUBSET Session,
                  sid : SUBSET Session]
    /\ gauge \in Int
    /\ now \in Time
    /\ restarts \in 0..MaxRestarts
    /\ hooks \in [Session -> SUBSET Hooks]
    /\ MapInto(owner, Batch, Session)
    /\ persisted \subseteq Batch
    /\ acked \subseteq Batch

\* However requests, rebuilds and evictions interleave, the process never
\* holds more than MAX_CORRELATORS correlators nor runs more than
\* MAX_CONCURRENT_REBUILDS rebuilds (evictStaleCorrelators, getOrRebuildCorrelator).
MemoryBounded ==
    /\ Cardinality(DOMAIN correlators) <= MaxCorrelators
    /\ Cardinality(DOMAIN rebuilds) <= MaxRebuilds

\* A rebuild in progress always has exactly one request that started it and
\* will clear its slot, and no request waits for a rebuild that is not there
\* (coalescing and the finally of getOrRebuildCorrelator).
RebuildHasOneOwner ==
    /\ \A s \in DOMAIN rebuilds :
         \E c \in Waiting(s) :
            /\ op[c].pc = "owner"
            /\ \A d \in Waiting(s) : op[d].pc = "owner" => d = c
    /\ \A c \in DOMAIN op : op[c].pc \in {"owner", "join"} => op[c].sid \in DOMAIN rebuilds

\* The batches an append has stored for session s.
Mine(s) == {b \in persisted : b \in DOMAIN owner /\ owner[b] = s}

\* A correlator, a rebuild and the storage of a session hold only batches that
\* were sent to that session and that an append has stored: nothing is shown
\* on a timeline that was never persisted, and nothing leaks across sessions.
OnlyStoredEvents ==
    /\ \A s \in DOMAIN correlators : InSeq(correlators[s].events) \subseteq Mine(s)
    /\ \A s \in DOMAIN rebuilds : InSeq(rebuilds[s].events) \subseteq Mine(s)
    /\ \A s \in DOMAIN store : InSeq(store[s].events) \subseteq Mine(s)

\* A batch answered 201 stays in storage for as long as its session exists,
\* whatever other requests, rejected calls, rebuilds, purges and restarts do
\* (appendEvents is awaited before the answer; checked below the event cap).
AckedIsStored ==
    \A b \in acked :
        owner[b] \in DOMAIN store => b \in InSeq(store[owner[b]].events)

Occurrences(b, q) == Cardinality({i \in 1..Len(q) : q[i] = b})

\* While nothing is evicted and the process does not restart, a session in
\* storage has a correlator, and every batch answered 201 is on it exactly
\* once (ingestEvents feeds the cached correlator before it answers).
AckedIsOnTimeline ==
    \A b \in acked :
        LET s == owner[b]
        IN  s \in DOMAIN store =>
              /\ s \in DOMAIN correlators
              /\ Occurrences(b, correlators[s].events) = 1

Quiet == DOMAIN op = {} /\ DOMAIN rebuilds = {} /\ purge.pc = "off"

\* With no request, rebuild or purge in flight, the timeline of a stored
\* session shows exactly the batches storage holds for it
\* (concurrent-ops.test.ts: timeline event count equals stored event count).
TimelineMatchesStorage ==
    Quiet => \A s \in DOMAIN store \cap DOMAIN correlators :
        /\ Len(correlators[s].events) = Len(store[s].events)
        /\ InSeq(correlators[s].events) = InSeq(store[s].events)

\* Once deleted or purged, a session never reappears in storage: a late append
\* or status update finds no session instead of creating one.
DeletedStaysDeleted ==
    [][\A s \in used :
         s \notin DOMAIN store /\ (\A c \in DOMAIN op : ~(op[c].kind = "create" /\ op[c].sid = s))
            => s \notin DOMAIN store']_vars

\* The webhooks a receiver has seen agree with storage: session.deleted means
\* the session is gone for good, session.completed or session.error that it has an
\* end time or is gone (emission comes after the awaited storage call).
HooksTellTheTruth ==
    \A s \in Session :
        /\ "session.deleted" \in hooks[s] => s \notin DOMAIN store
        /\ s \in DOMAIN store /\ {"session.completed", "session.error"} \cap hooks[s] # {}
             => store[s].ended # Never

\* A timeline request that started a rebuild is served every batch that was
\* acknowledged before the request arrived and is still stored: the rebuild reads
\* storage after the request, never before it.
RebuildOwnerReadsAcked ==
    [][\A c \in DOMAIN op :
         op[c].pc = "owner" /\ c \notin DOMAIN op' /\ answer'[c] = "ok"
            => \A b \in op[c].due :
                  op[c].sid \in DOMAIN store
                     => b \in InSeq(rebuilds[op[c].sid].events)]_vars

\* Every request is answered, whoever else waits for the same rebuild.
EveryRequestAnswered == \A c \in Client : c \in DOMAIN op ~> c \notin DOMAIN op

-----------------------------------------------------------------------------
(* The promise to the clients *)

\* The sessions as a client sees them, and whether the storage call that is
\* the effect of a request has been made.
Shown ==
    [s \in DOMAIN store |->
        [status |-> store[s].status, ended |-> store[s].ended # Never,
         events |-> InSeq(store[s].events)]]

Asked ==
    [c \in DOMAIN op |->
        [kind |-> op[c].kind, sid |-> op[c].sid, batch |-> op[c].batch, to |-> op[c].to,
         done |-> op[c].pc \in {"saved", "removed", "reload", "feed"}]]

Service == INSTANCE SessionService WITH
    sessions <- Shown, calls <- Asked, Lossy <- Backend = "memory"

\* Every request takes effect at most once, at one instant between its arrival
\* and its answer: success is answered only after the effect, 404 only while
\* the session is not there, and sessions and their events go away only as
\* SessionService says, whatever requests, rebuilds, purges and restarts do.
ImplementsService == Service!Spec

=============================================================================
