# A TLA+ model of Sentinel Probe (nup-debug)

Sentinel Probe records what happens in a web application while somebody
reproduces a bug. Instrumentation (browser, Node, a network proxy, log tails)
emits events; an SDK batches them to a server; the server stores them by session,
correlates them into a timeline, streams them to dashboards over WebSockets and
tells other systems about sessions through webhooks.

This directory holds TLA+ models of the parts where order and failure matter,
the TLC configurations that check them on small instances, and theorems about
them that TLAPS checks for every value of the constants.

    tlc -workers 2 -config sm_sessions.cfg MCSessionManager   # one run
    tlapm SessionManagerProofs.tla                            # the proofs of a module

Paths below are relative to the repository's root; `sm.ts` is short for
`server/src/services/session-manager.ts`.

## 1. Inventory of the system

### 1.1 Parts, state, operations

Parts with a model:

| Part | State | Operations | What makes it correct |
|---|---|---|---|
| **Session manager** `sm.ts` | correlators per session (capped, evicted by last access), rebuilds in progress (capped, coalesced), purge timer, active-session gauge | create, delete, update status, ingest, timeline/groups, purge | memory stays bounded; an acknowledged batch stays stored and is shown; what is deleted stays deleted; rebuild slots are given back; every request is answered |
| **Storage port** `packages/core/src/storage/` | sessions, their events | save, delete, set status, append (with caps), read back | append and status update never create a session; caps evict the oldest |
| **Webhook delivery** `packages/core/src/notification/` | one row per delivery (status, attempts), retry timers in memory | notify, attempt, schedule, resume at boot, manual retry | no delivery forgotten; success only when the receiver accepted; attempt budget |
| **SDK batch sender** `packages/sdk/src/shared/`, `packages/core/src/utils/ring-buffer.ts` | ring buffer, flush flag, interval timer, statistics, circuit breaker | enqueue, start, stop, flush, retry with backoff | order kept, each event counted once, breaker never wedged, nothing stuck in the queue |
| **Realtime edge** `server/src/ws/realtime.ts` | five maps keyed by socket or address | connect, subscribe, unsubscribe, broadcast, keepalive, rate limit, cleanup | exact slots per address, gap-free streams, no leak, dead clients found out |
| **Server bootstrap** `server/src/index.ts` | the process | boot, webhook recovery, graceful shutdown, exit on an unhandled rejection | pending webhooks resume |
| **Postgres adapter** `packages/core/src/storage/postgres-storage.adapter.ts` | two tables, a circuit breaker all calls share, retries, migrations under an advisory lock | every operation of the storage port; `initialize` on several replicas | the event count agrees with the rows, but for failures and overlapping recounts; no version is migrated twice; the breaker closes again; every replica boots |
| **File adapter** `file-storage.adapter.ts` | a directory per session, a chain of promises per session that is its write lock | save, update, append, delete, read | no update is lost; a crash costs at most the line after it |
| **Correlation engine** `packages/correlation-engine/src/` | groups, retained events | ingest, strategies, summary, timeline | an event is in one group, one request in one group; errors of pages, answers, logs and requests are visible |
| **SDK Node** `packages/sdk/src/node/` | collector buffer, active requests, what each wrapper saved | emit, subscribe, start and end of requests, Express middleware, wrapping of pg, mysql2, Redis, MongoDB, console | no event lost outside the cap; every request ends; a call is reported once, with its outcome; wrappers come off |
| **SDK browser** `packages/sdk/src/browser/` | request per XHR, listeners, recent errors | fetch, XHR, console, error boundary | one end for each start reported; a repeated error is told once per window |
| **Log collector** `packages/log-collector/src/` | tail position, partial line, kept-back line, follower process | connect, disconnect, change, read, rotate, stream data | every line once, in order, no gap |
| **Network interceptor** `packages/network-interceptor/src/` | pending requests, active connections, the server | start, stop, request, body, resolve, forward, answer, timeout, tunnel, sweep; middleware | an answer begins once; a captured request is told once, and its answer once per end of it; exact caps |
| **Browser agent** `packages/browser-agent/src/adapters/playwright.adapter.ts` | browser, context, page, listeners, interval | launch, close, actions, snapshots, page events | nothing is told or left running once it is closed |
| **CLI** `packages/cli/src/commands/capture.ts`, `watch.ts` | open sources, what was collected | open, capture, timeout, SIGINT, cleanup, watch | exit code 0 means stopped, complete and saved |

Parts without a model:

| Part | Why |
|---|---|
| Rate limiter | one counter per address and window, in one synchronous function; the one of the WebSocket edge is modelled |
| Event bus | nothing in the repository uses it |
| Auth and other middleware, signing, SSRF guard, field extractor, route aggregator, core utilities | pure functions of one input; best tested |
| Reporters, `report` and `replay` commands, metrics, dashboard | display, or a pipeline without state of its own |

`PROJECT.json` lists all of them ("components") with the files each covers.

### 1.2 How they interact

    interceptors -> collector -> batch sender --HTTP--> routes -> session manager
                                                           |        |  |     |
                                      storage adapter <----+--------+  |     +--> webhook adapter --HTTP--> receivers
                                                                       |              |
       dashboards <--WebSocket-- realtime edge <--onEventsIngested-----+        webhook event store

The server is one Node process: a handler runs without interruption to its next
`await`, and anything may run while it is suspended. That is the grain of every
model here: **one action per stretch of code between two awaits.** Processes and
networks add crashes, lost answers, and vanished clients.

Calls: routes call the session manager, which calls the storage port and, without
awaiting it, the webhook adapter. Callbacks: ingestion calls `onEventsIngested`,
which the realtime edge registers. Shared state: the storage (sessions) and the
webhook store (rows) survive the process when they are in Postgres; correlators,
retry timers and sockets do not.

### 1.3 Hazards

`PROJECT.json` ("hazards") lists what is hard to test, at its line, with the
properties that would catch it. The groups are:

* **Awaits in the session manager**: a session deleted, evicted or purged between
  the lookup, the append and the correlator feed; rebuilds coalescing with
  requests that arrive, or fail, as the rebuild settles; eviction from three call
  sites.
* **Chains of a webhook**: notify, boot recovery and an operator's retry may each
  drive one row, and nothing serialises them.
* **Caps**: correlators, rebuild slots, stored sessions and events, the ring, slots
  per address, subscriptions per client.
* **Lost and late answers**: an accepted POST that looks failed, a restart between
  a write and its answer, a stale listing.
* **Teardown that runs twice**: a socket is cleaned up by a failed send, the
  keepalive or an error and again by its close.
* **End of the process**: a rejected store call with no caller, a shutdown that
  waits for clients that stay.
* **Persistence**: a lost connection before or after a statement was applied, retried
  inserts, recounts that overtake one another, late answers to a breaker that has moved on, replicas
  migrating at once, crashes in the middle of a file write, deletes beside queued updates.
* **Patching of what others own**: wrappers put on and taken off in any order while
  calls are under way, callback styles, XMLHttpRequests that are opened or sent again.
* **Life cycles of the tools**: disconnect, stop and close while a read, an answer or a
  launch is awaited; rotation; upstreams that die; a second SIGINT.
* **Order of events**: request, response, query and log reach the correlator in any order
  and however late.

## 2. The modules

| Module | Role |
|---|---|
| `JsMap` | a JavaScript `Map` as a function with a growing domain: `NoKeys`, `Put`, `Without` |
| `SessionManager` | session manager composed with its storage and the process restart |
| `SessionService` | abstract specification: what the manager promises the clients of its HTTP API |
| `MCSessionManager` | model values and symmetry for TLC |
| `SessionManagerProofs` | theorems about the manager, and that it implements the service |
| `WebhookDelivery`, `MCWebhookDelivery`, `WebhookDeliveryProofs` | webhooks, their store, the boot recovery |
| `RingBuffer`, `CircuitBreaker` | the two data structures of the sender as operators on records of their fields |
| `BatchSender` | the sender, composed of the two |
| `EventPipe` | abstract specification: a bounded pipe in order |
| `BatchSenderProofs` | invariants, and that the sender implements the pipe |
| `Realtime`, `RealtimeProofs` | the WebSocket edge and the graceful shutdown, and theorems about the edge |
| `PostgresStorage` | the Postgres adapter in service, over `CircuitBreaker` |
| `Migrations` | its `initialize` on several replicas |
| `FileStorage` | the file adapter and crashes of its process |
| `Storage`, `MCStorage` | `createStorage`: one of the adapters; on Postgres, migrations first |
| `StorageProofs` | theorems about the migrations and the two durable adapters |
| `RequestTracing` | collector, request tracer, Express middleware |
| `Instrumentation` | wrappers of drivers and consoles |
| `BrowserSdk` | fetch, XMLHttpRequest, error boundary |
| `Sdk` | one side of the SDK per behaviour |
| `SdkProofs` | theorems about each of its sides |
| `LogSource` | the three log adapters and the parser |
| `NetworkCapture` | proxy and middleware adapters |
| `BrowserAgent` | the Playwright adapter |
| `CaptureSession` | the commands `capture` and `watch` |
| `Correlation` | the correlator, its strategies, summaries and timeline |
| `Capture`, `MCCapture` | the tool chain, one part per behaviour |
| `LogSourceProofs` | that the lines of a log source are exact |
| `CaptureProofs` | theorems about the network capture, the browser agent, the commands and the correlator |

`Storage`, `Sdk` and `Capture` put parts side by side that share no state in one process: a
variable (`backend`, `side`, `part`) chosen in `Init` says which one moves. One run then checks them
all, and the state space is the sum of theirs, not the product. Postgres and its migrations are the
exception: they follow each other.

`PROJECT.json` ("map") gives the lines every definition translates. Operators
named `Bug...` are plausible errors in the definition that follows each of them;
they are in no specification. Each shows that some property would notice the error.

### 2.1 SessionManager

*State.* `store` and `catalog` are the storage (sessions with status, end time and
batches; insertion order), `used` the ids ever generated, `correlators` and
`rebuilds` the two maps of the class, `op` the handlers that are suspended, each
with the `await` it waits for (`pc`) and what it has read so far, `answer` the last
reply each client got, `purge` the run of `purgeStale`, `gauge` the metric. The
history variables `hooks`, `owner`, `persisted`, `acked` record what the outside
has seen; no action reads them to decide anything.

*Actions.* `CreateStart/Save/Done`, `DeleteStart/Load/Remove/Done`,
`UpdateStart/Load/Gauge/Set/Done`, `IngestStart/Check/Load/Append/Feed`,
`TimelineStart/Hit/Miss`, `RebuildLoad/Read/Set`, `PurgeList/Remove/Forget`: the
pieces of each method between awaits. `RequestThrows`, `RebuildThrows`,
`PurgeThrows` are the rejections of the storage call a handler awaits; the error
path of the code (release the rebuild slot, answer 500, end the purge) is part of
the action. `Restart` loses everything but a Postgres store.

*Storage.* `Backend` selects the memory adapter (session and event caps, evicting
the oldest) or Postgres (durable, idempotent append, an update of a missing row
changes nothing). The same actions run over both.

*Abstractions.* A batch of events is one unit, since the code appends and feeds a batch
whole. The settle of a rebuild and the `finally` that frees its slot are one step:
no code of the manager can run between them that sees the difference. One run of the
purge at a time: its period is five minutes. Timestamps order events as they were
appended. Which of several correlators with the same `lastAccessed` is evicted is left
open, as the millisecond clock leaves it. Session fields other than status and end
time, and the content of groups and timelines, are left out.

*Refinement.* `SessionService` knows neither correlators nor rebuilds, suspended handlers, the purge or
restarts. It has sessions, requests that are not answered yet, and answers. A request takes effect at one instant between
its arrival and its answer (`Create`, `Delete`, `Update`, `Ingest`) or never; it is answered `ok` only after the effect
and "missing" only while the session is not there; a failure leaves open which it was. Sessions go away when a client deletes
them or, once they have ended, by themselves (`Expire`); only a store with caps (`Lossy`) gives one up for a
new one, and never below its cap. `Service == INSTANCE SessionService WITH sessions <- Shown, calls <- Asked, ...`: `Shown`
is the storage without the order of events, end times and timestamps; `Asked` is `op`, where a request is `done`
at the `pc`s that follow the storage call which is its effect. An update reads the session twice and
answers 404 when it is gone by the second time: so `NotFound` may follow an update that has taken effect. Timelines are served from
a cache, so the service says of them only that they are answered; their content is the subject of
`AckedIsOnTimeline`, `TimelineMatchesStorage` and `OnlyStoredEvents`.

### 2.2 WebhookDelivery

*State.* `rows` is the store and `order` its `created_at` order; `chains` the
deliveries being driven, named by event and by the call that started the chain;
`recovery` the boot recovery of this process; `elapsed` whether the delay after the
last failure has passed. History: `posts`, `accepted`, `orphaned`, `killed`.

*Actions.* `Notify` and `NotifyLost` (the create is rejected), then per chain `Get`,
`Post`, `Record`, `Schedule`, `Fire`; `RecoverList`/`Resume`/`ResumeGet` at boot;
`Retry`/`RetryGet`/`RetryReset` by an operator; `Reject` for a rejected store call,
which ends the process when nothing guards it; `Crash`. A POST may be accepted and
still look failed.

*Abstractions.* Payload, signature, SSRF guard and the length of delays. The path
without a store is left out: the server always has one.

### 2.3 RingBuffer, CircuitBreaker, BatchSender, EventPipe

*State.* `ring` is the record of the class's fields (`head`, `tail`, `size` and the slots,
not a sequence: wrapping at the capacity is what can go wrong), `batch`, `pc` and
`attempt` the flush in progress, `ok` the result of the batch just finished, `timer`
whether the interval is set, `breaker` the breaker's fields, `cooled` whether its
reset time has passed, `sent` and `dropped` the statistics. History: `offered`,
`arrived`, `confirmed`, `late`.

*Actions.* `Enqueue` (which evicts the oldest event when the ring is full), `Start`, `Stop`, `Tick`, `Flush`; the POST ends `Accepted`,
`Rejected` (an error status) or with `Failure` (no answer, though the server may have the
events); `Retry` after the sleep, `Refused` by the open breaker, `NextBatch` of the
loop; `Cool`.

*Abstraction.* The breaker's failure counter saturates at its threshold, where
the code only compares. Events are numbered in the order they are offered.

*Refinement.* `EventPipe` says what an application may expect: events leave in order, some
at a time, and are lost only from the old end of a full pipe or with the batch
they are in. `Pipe == INSTANCE EventPipe WITH waiting <- Contents(ring), ...`.

### 2.4 Realtime

*State.* `ready` is the `readyState` of each socket; `wsToIp`, `perIp`,
`subscriptions`, `alive`, `messageCounts` are the maps of the module; `lookups`
counts the subscribe handlers that await `getSession`; `exit` and `stopping` are the
process. History: `vanished` clients, `log` of events ingested, `view` of the last
event each client got.

*Actions.* `Connect`/`Refuse`, `Pong`, `Error`, `Close`, `PingRound`, the messages
(`Subscribe` up to its await and `Found` after it, `Unsubscribe`, `Malformed`,
`Excess`, `WindowEnds`), `Broadcast` (where any subset of the sends may throw),
`LookupRejects`, `Shutdown`, `Drained`, `ForceExit`, `Vanish`.

*Abstractions.* The `ws` library is external: it calls `message` and `pong` while a
socket is open or closing, `error` at most before `close`, `close` last. Authentication and origin
checks are one refusal. A rate window may end at any time. Every session a client names
exists; a name that does not is `Malformed`. The Prometheus gauges are left out.

### 2.5 PostgresStorage, Migrations

*State.* The two tables, the breaker with `cooled`, the calls in flight (waiting for the database, an
answer or a backoff), and `recounts`, what a recount has read and not written yet. History: `given`; `stale`, the
sessions a cut-off append or save may have left with an old count; `overtaken`, those in which an older recount
was written over a newer one.

*Actions.* One per operation of the port, `Apply` (the database), then `Answered`, `Rejected`,
`Lost` (before or after it was applied; transient or not) and `Retry`; `Cool`. The second statement of an append is two
steps: `UPDATE ... SET event_count = (SELECT COUNT(*) ...)` reads at its snapshot (`SnapshotCount`) and writes when it has the row
lock (`Recount`). Under READ COMMITTED a wait for that lock renews the row but not the snapshot of the
sub-select, so inserts that have come meanwhile are not counted. In `Migrations`:
`Connect`, `Lock`, `ReadVersion`, `Migrate` (one transaction), `Finish`, `BootFails`.

*Abstractions.* Every other statement is atomic; what a read returns is not modelled. The pool has at least two connections (with one, `initialize` waits for
itself until its timeout). An event is appended once, as the session manager does.

### 2.6 FileStorage

*State.* Per session `session.json` as the set of patches it shows, its `.tmp`, the lines of
`events.jsonl`, whether the last one is torn; the lock chains; the calls in flight, each between two file
operations. `Crash` drops calls and chains and may cut an append anywhere. The memory of the process is
nothing else. History: `issued`, `crashes`, and per session `durable`, which of its calls have resolved: what a
call has promised is promised of one session, so a session that is deleted takes its promises with it.

*Reading.* `Events(lines, filter)` is the loop that parses line after line: a fold, where a line with something glued to it
is skipped whole, as `JSON.parse` throws on it. A torn line ends in `Garbage`, which `FileAssumption` says is no batch.

*Abstractions.* `rm -r` is atomic. Nobody updates or deletes a session whose save has not resolved, since the
id is not known before. A delete drops the lock entry of calls that are queued; the model does that too.

### 2.7 RequestTracing, Instrumentation, BrowserSdk

*State.* The collector's handlers and buffer, the tracer's `Map` of active requests; per wrapped method
the `layers` on it, what each owner `saved`, and per call the wrappers it began with; per XMLHttpRequest
its request and the listeners on it; the request-start events in order (`starts`), by whose place there listeners, fetches
and request-end events (`finals`) name them, since the page may start one request twice; the recent errors with a clock in ticks.
History: `refused`, the requests whose `send` the browser refused.

*Actions.* One per public function, plus what the world does: a request grows old, a client closes its
connection, a call settles or throws, an object is opened again in the page's own handler. `Open` and `Send` have the guards of the code,
which are fewer than the browser's: the browser may refuse either, after the interceptor has numbered the request or reported
its start. `MaxRequests` and `MaxStarts` are the bounds.

*Abstractions.* Query texts, arguments, redaction and durations. Handlers that throw. Synchronous XMLHttpRequests. The request an event
is put down to is the caller's for a promise and anybody's in a driver's callback, which runs in
the context of the driver.

### 2.8 LogSource

*State.* What the program has written and lost to a rotation, the position of the tail, where
`readNewContent` waits, the followers of a stream, the partial line and the line the parser keeps back.
Log content is a sequence of numbered halves of lines, so a chunk can end inside a line. `LogAssumption`: the cap on the
partial line is positive, the bound on connections a natural number.

*Abstractions.* Level and pattern filters, one of docker's two streams, `connect` atomic, one rotation
per connection.

### 2.9 NetworkCapture

*State.* Per request one record: how far it is, whether it is captured, its connection, heads written, body
read and forwarded; `pending` in insertion order, `active`, the server. A CONNECT is a request that becomes
a tunnel. The cap on `pending` drops the oldest entry, as the code does. An exchange that is over is `done`, `failed` when the answer
is the proxy's own error, or `closed`. `ends` counts how often the application behind the middleware has called `end` on the
response: Node ignores the second call, the middleware's wrapper does not. `MaxEnds` bounds it.

*Abstractions.* Headers, body sizes, the filter (a choice), addresses. Each client uses one connection.
`start` during the wait of `stop` is left out.

### 2.10 BrowserAgent, CaptureSession

*State.* What launch and close await, the fields of the adapter, the processes that really run, calls
under way with the page they hold. Of the command: what it awaits, what runs, how many events were
collected, what session, report and file contain, the exit code.

*Abstractions.* Evaluations and waits without events, two launches at once, the kind of an event.

### 2.11 Correlation

*State.* `groups` in insertion order with their events and summaries, `allEvents`, the clock that snapshot
uses. `Arrivals` are ingested in every order. Strategies, summary and timeline are operators. `Snapshot` is the
set of the groups that take events; their order, which decides between two matches, is that of `groups`.
`Announces` is what sets a summary's `hasError`: a page error, a response of status 400 or more, a log of level
error, a `request-end` with an error. A failed query and an exception the SDK caught do not. `Sorted` puts each event at the place that as many earlier ones leave it, which is what sorting distinct events
by a total order comes to; ids stand for numbers because the code only compares them.
`GroupedOnce` is the conjunction of `OneGroupEach`, `KeysApart` and `TimelineShowsAll`, because each
of them has an argument of its own (4.7).

*Assumptions.* `Strategies` is a sequence of the strategies there are, events have ids nobody else has, and times
and ids are natural numbers: millisecond stamps and generated ids in the code.

*Abstractions.* An event is a record of what strategies and summaries look at. The handlers of `onGroupCreated` and
`onGroupUpdated` are left out.

## 3. The runs

Twelve configurations. Sizes are distinct states.

| Run | Module | Question | Instance | Size |
|---|---|---|---|---|
| `sm_sessions` | MCSessionManager | Does the manager implement the service? With room for every correlator, does every acknowledged batch reach the timeline, do webhooks tell the truth, does anything deleted come back? | memory adapter at its session cap of 1, 2 sessions, 2 clients, correlators keep 2 batches, rejected calls in the purge | 2.0 M |
| `sm_evict` | MCSessionManager | With one correlator slot, so that every request evicts, do caches, rebuilds and storage stay consistent? | Postgres, 2 sessions, 2 clients, 2 rebuild slots, 2 batches, a restart, rejected calls in requests and rebuilds | 1.4 M |
| `sm_progress` | MCSessionManager | Is every request answered? | one rebuild slot, creates, timelines, deletes, rejected calls; fair | 20 k |
| `sm_evicted_timeline` | MCSessionManager | Does the timeline agree with storage after an eviction? **No.** | one client, one correlator slot | - |
| `wh_memory` | MCWebhookDelivery | One chain per event: is the attempt budget exact? | 2 events, 2 retries, no crash | 1.6 k |
| `wh_durable` | MCWebhookDelivery | Through crashes, recoveries, a manual retry and rejected store calls, is any delivery forgotten, or settled without an outcome? Is it settled in the end? | 1 event, 1 retry, 2 crashes, 1 manual; fair | 79 k |
| `sender` | BatchSender | Is the sender a bounded pipe in order that gets everything out, with statistics that add up? | ring of 3, batches of 2, 1 retry, threshold 2, 5 events; fair | 542 k |
| `edge` | Realtime | Are slots exact, streams gap-free, closed sockets in no map and dead clients found? | 2 sockets, 2 addresses with 1 slot each, 1 session, 2 events, 2 messages per window, 1 lookup pending; fair | 506 k |
| `storage` | MCStorage | Do replicas that boot together migrate once, does the event count agree with the events, does the breaker recover, do updates and appends survive a crash? | 2 replicas, 2 versions, 1 failed boot; 2 calls, 1 session, 2 events, 2 faults; or 3 file calls, 2 patches, 2 batches, a crash; fair | 1.0 M |
| `sdk` | Sdk | Is every event delivered, every request ended, every call reported once, every wrapper taken off, every echo suppressed? | 3 requests, 2 handlers, buffer and table of 2; 2 owners, 2 calls, 3 layers; 2 XHRs, 4 requests, 4 starts; 3 messages, 2 remembered; fair | 1.7 M |
| `capture` | MCCapture | Are lines exact, clients answered once, connections counted, a closed browser quiet, a capture that exits 0 complete, and events grouped once? | 8 halves of lines, 2 connections; 3 requests, caps of 1, 2 starts, 2 ends of an answer; 3 calls, 2 launches; 2 logs, 4 events; 7 arrivals | 2.4 M |
| `proxy_body` | MCCapture | Does upstream get the request the client made? **No.** | one request | - |

### 3.1 Why the bounds are enough

* *Sessions and clients.* Every conflict in the session manager is between one
  session and another competing for a cap, or between two requests for one session:
  two of each produce both, and with a cap of one every second session evicts.
  Three roles on one session (two requests and the purge, or a rebuild) still occur
  with two clients.
* *Batches.* Two batches tell "lost", "twice" and "in the wrong session" apart. In
  `sm_evict` a rebuild reads at most 2 batches and in `sm_sessions` a correlator
  holds at most 2, so both limits are reached and not passed; below them no
  property speaks of the events dropped.
* *Webhooks.* Two chains of one event are all a conflict needs and three are possible
  (notify, resume, retry); events share nothing but the recovery listing, whose limit
  the theorem `NothingIsForgotten` treats for every value. Two crashes allow a crash
  during the recovery from a crash.
* *Sender.* Five events wrap a ring of three, overflow it, and still leave a second
  batch; a threshold of two is reached both within one batch and across two.
* *Edge.* An address with one slot and two sockets makes the counter matter in both
  directions. Two events show a gap. Sockets are not reused, as in the code.
* *Storage.* Two calls of every kind give each pair of interleaved statements; two faults reach the
  breaker's threshold and fail its probe. Three file calls put two into a chain behind a third. One failed
  boot lets either replica die holding the lock, and the other take over. Two appends are all it takes for one recount to overtake another.
* *SDK.* A cap of two with three requests forgets one while another runs; two owners and three layers let wraps
  cross and repeat; four requests on two objects re-use each of them, and four starts
  leave two for objects that are sent twice.
* *Tool chain.* Eight halves are four lines, one of which continues a trace: enough for a partial line, a line kept
  back and a rotation in one connection, a second connection after it, and a buffer overrun at three. Caps
  of one put every second request at its limit; two ends of an answer are the first and a repeated one. Seven arrivals are one click with a request seen by network, SDK
  and log, and a second request to the same URL; two more than the cap on retained events, so every cap evicts.
* `CHECK_DEADLOCK FALSE` stands in the webhook, sender, edge, storage, sdk and capture runs: there the
  system may rest with nothing to do once the bounded inputs are used up, or the
  process has exited. In the session manager's runs there is always something to
  do, and deadlock is checked.

### 3.2 Fairness

* `SessionManager!FairSpec`: weak fairness of each client's handler and each
  rebuild. Node's event loop resumes every continuation whose promise has settled, and the
  adapters answer or reject every call. No fairness of arrivals, of faults or of the purge.
* `WebhookDelivery!FairSpec`: store calls are answered, a POST ends because an
  `AbortController` bounds it, timers fire, the boot recovery runs. No fairness of
  notification, manual retry, or crashes (which are bounded).
* `BatchSender!FairSpec`: `Tick` while the timer is set and `Resume`. The code's `fetch` has
  no timeout: that every POST is answered or fails is an **assumption about the network**
  (TCP and the runtime give up in the end), not something the code ensures.
  `Start` is not fair: what is enqueued after `stop()` with no flush running stays, and the
  property excludes it (`late`).
* `Realtime!FairSpec`: the keepalive interval fires, and a socket the server ended
  emits `close` (the `ws` library destroys it after its own timeout). Nothing is assumed of clients.

* `Storage!FairSpec`: a replica that is down is restarted and granted the lock when it is free, the
  database answers and backoffs end, the reset time of the breaker passes, and **the dashboard keeps
  asking**: `Recovers` needs a call to probe with, and the server's own traffic is the only one there is.
* `Sdk!FairSpec`: a request grows old, and the cleanup interval fires until it is destroyed. Nothing is
  assumed of the application.

### 3.3 What the properties say

Session manager: `ImplementsService` (every request takes effect at most once and is answered as its effect deserves,
section 2.1), `MemoryBounded`, `RebuildHasOneOwner` (a rebuild is owned by exactly one
request, and no one waits for a rebuild that is gone), `AckedIsStored` (Postgres), `AckedIsOnTimeline`
(exactly once, without eviction), `TimelineMatchesStorage` (at rest), `DeletedStaysDeleted`,
`HooksTellTheTruth`, `RebuildOwnerReadsAcked` (a rebuild is never older than the request that started it),
`EveryRequestAnswered`.

Webhooks: `SettledIsEarned` (success only of an accepted POST, dead_letter only after the whole budget, whatever chains overtake one
another), `UnfinishedIsDriven`, `BudgetIsExact` (while an event has one chain), `EventuallySettled`.

Sender: `ImplementsPipe`, `StatsAddUp` (an event is queued, on its way, sent or dropped, and counted once), `NothingIsStuck`.

Edge: `SlotsAreExact`, `StreamHasNoGaps`, `NothingLeaks` (what lands late re-enters no map), `VanishedIsForgotten`.

Storage: `CountAgrees` (with no append under way, the stored count is the number of stored events, except after
an append or save that a failure cut off, or a recount that overtook another), `MigrationsRunOnce`, `UpdatesSurvive`, `TornLineEatsOne` (a crash
costs at most one acknowledged event), `Recovers`, `EveryoneBoots`.

SDK: `EventsAccountedFor` (each event reaches who listens, in order, or the buffer, and only the cap drops),
`TracedRequestsEnd` (every traced request ends, and once), `CallsReportedOnce`, `OriginalsComeBack`,
`XhrEndsOnce` (each start that is reported is ended once, and a request has two starts only if the browser refused to send it
again), `NoEchoes`.

Tool chain: `LinesAreExact`, `AnsweredOnce` (an answer begins once; a captured request is told once; its answer only when it is
complete and not the proxy's own error, once by the proxy, by the middleware once per `end`), `ConnectionsCounted`, `ClosedIsQuiet`,
`SavedIsComplete`, `GroupedOnce`, `ErrorsAreVisible` (of the errors that the timeline counts, and of requests that end with one).

More are invariants that theorems prove and no run states: `OnlyStoredEvents`, `SuccessMeansAccepted`,
`SentMeansArrived`, `NeverWedged`, `ProbeOnItsWay`, `OneChain`, `FewMissing`, and the type invariants, which every `...TypeCorrect` of section 4
states for all values of the constants (`TypeOK`, `PgTypeOK`, `FileTypeOK`);
`EndsOnce` is the half of `TracedRequestsEnd` that can be proved, and `OneGroupEach`, `KeysApart` and
`TimelineShowsAll` are the parts of `GroupedOnce` (section 4).

Several are weaker than one would like, because the code is: the conditions `~raced`, `~met`, `~hasty`, `~crossed`,
`stale`, `overtaken` and `refused` name the situations in which the code does not keep the promise, and section 3.4 tells of each.

### 3.4 Where the code and its documents disagree

Two runs are expected to end in a counterexample; `PROJECT.json` ("findings") quotes what each contradicts.

1. `sm_evicted_timeline`: `ingestEvents` starts an *empty* correlator for a session that has
   none in memory (`sm.ts:237`), and the next timeline request finds it and does not rebuild.
   The stored history is missing until that correlator is evicted in turn.
2. `proxy_body`: the proxy's `data` listener (`proxy.adapter.ts:265`) starts the body of a captured request
   flowing before the host is resolved and the pipe to upstream exists. A body that arrives in between is
   captured and never forwarded.

The others were met while modelling and have no run. Most are in the models, as states the conditions of section
3.3 leave out.

*Server.* The boot recovery runs after `server.listen` and lists every unfinished row, also one notified a moment
ago; two chains then count two POSTs as one (`index.ts:252`). A store call that rejects inside a retry timer is an
unhandled rejection, on which `index.ts` exits (`webhook.adapter.ts:170`, against `sm.ts:79`:
"Failures are logged and counted but do not propagate into the domain flow"). The sockets are closed in the callback of `server.close()`, which waits for them; with a client
connected, shutdown ends in the forced exit (`index.ts:265`, against `ARCHITECTURE.md:136`). The subscription
cap is tested before an `await` and the subscription added after it (`realtime.ts:213`). The purge deletes a
session that was reopened after its listing. A correlator of a session deleted during an ingest stays until it is
evicted. The active-session gauge counts a session paused from capturing a second time. A timeline request at the
rebuild cap is answered 404, though the comment at the cap speaks of 503 or an empty result. `resume` ignores the
retry delay; rows beyond the 500 of `listUnfinished` wait for the next boot; a second chain can overwrite a
success. `realtime.ts:51` speaks of five *consecutive* windows where the code counts excess messages cumulatively.
The connections gauge is decremented by every cleanup, even the second one of a socket. A rejected lookup in the
message handler ends the process (`LookupRejects`).

*Storage.* Two appends to one session whose recounts overlap may leave its `event_count` behind with no failure at all, until the
next append to it: one has read the count before the other's insert and is written last
(`postgres-storage.adapter.ts:444`; section 2.5, `overtaken`). With `max = 1`, `initialize` waits for a connection it holds. A save that is repeated resets the event
count. `deleteSession` of the file adapter drops the lock chain of calls that are queued in it; they fail, since
the directory is gone.

*SDK.* With the circuit open the sender drains and drops its whole queue. Two MongoDB clients wrapped A, B and
unwrapped A, B leave A's wrapper on the shared prototype for good, against the comment at
`mongo-interceptor.ts:249`. An XMLHttpRequest opened again in the page's own load handler is sent untracked. A second
`send` of one XMLHttpRequest reports a second start of the same request and adds a second set of listeners before the browser
throws, so the request starts twice and ends twice (`xhr-interceptor.ts:63`); an `open` the browser refuses has numbered the
object's request anew. A pg call in callback style is reported at once: as a success, or if it throws, as a failure. A mysql2 call that throws and a Redis call in callback
style that throws are not reported. In callback style the request is whatever is current in the driver. The
middleware reports no end when the client goes before `finish`. What is started on a destroyed tracer is
never cleaned up.

*Log collector.* A disconnect while a read is awaited clears the parser the read then uses: an unhandled rejection
(`raced`). A change during a read is not looked at until the next write. A chunk beyond `MAX_LINE_BUFFER` is fed as
one line. The `close` of an old follower marks a newer connection as closed.

*Network.* An upstream that dies in the middle of an answer leaves the client waiting, and `stop` with it, when the
request was not captured. A failed `start` leaves its timer running. An error of upstream writes a 502 into an open
tunnel. The middleware's `end` has no guard: an application that ends a response twice, which Node lets pass, has two responses
reported for one request (`middleware.adapter.ts:186`).

*Browser and CLI.* A failure after the browser process runs leaves it set, and the next `launch` throws. `close`
during `launch` may leave an interval (`met`). `const { navigate } = browserAgent` (`capture.ts:226`) loses `this`,
so that every capture with a browser exits with 1 and saves nothing. A SIGINT during the cleanup exits with 0 before
the report is saved (`hasty`). The command does not hand its session id to the sources. The correlator is fed
at the end with the wall clock, so events of a capture longer than the group timeout get groups of their own
(`correlator.ts:237`). The summary of a group looks for errors in
request ends but in no other SDK event, so a failed database query or a caught exception sets no `hasError`
(`summary-builder.ts:86`).

## 4. The proofs

TLAPS checks these for all values of the constants that satisfy the named assumptions of the modules
(`SessionManagerAssumption`, `WebhookAssumption`, `RingAssumption`, `BreakerAssumption`,
`SenderAssumption`, `RealtimeAssumption`, `MigrationAssumption`, `PostgresAssumption`, `FileAssumption`,
`TracingAssumption`, `PatchAssumption`, `PageAssumption`, `NetworkAssumption`, `BrowserAssumption`,
`CliAssumption`, `CorrelationAssumption`, `LogAssumption`); TLC evaluates the same assumptions on the instances. A theorem with a
hypothesis of its own says so, and why, below. The larger
strengthenings were invariants of TLC runs before they were proved.

### 4.1 SessionManagerProofs

| Theorem | Says | Rests on |
|---|---|---|
| `TypeCorrect` | `Spec => []TypeOK` | `TypeOK` with `IngestSends` (the batch of a suspended ingest was sent to its session) is inductive; one lemma per group of actions |
| `MemoryIsBounded` | `[]MemoryBounded` | `InsertBounded`: an insertion after `Victims` were evicted leaves at most `MaxCorrelators`; inductive on its own given the types |
| `NothingUnstoredIsShown` | `[]OnlyStoredEvents` | `FedIsPersisted`: what an ingest is about to feed has been persisted for its session, so a late feed shows nothing new |
| `DeletedNeverReappears` | `DeletedStaysDeleted` | `IdsAreFresh`: a suspended create is the only one of its id, and its id is in no other place yet; so no other action inserts into storage |
| `AckedSurvives` | `Backend = "postgres" => []AckedIsStored` | `AckedInv`: between append and answer the batch is already in the store of its session, if that still exists |
| `RebuildsAreOwned` | `[]RebuildHasOneOwner` | inductive on its own: `StillOwned` does every step that lets who waits wait, the others start, join, settle or drop a rebuild |
| `HooksAreTrue` | `[]HooksTellTheTruth` | `HooksInv`: a handler past its lookup, its write or its hook knows a session that was created (`Born`), so a later create is of another id |
| `RebuildsReadAcked` | `[]RebuildOwnerReadsAcked`, on Postgres and while batches fit the rebuild limit | `DueInv` and `StoredOnce`, with `AckedInv` |
| `AckedIsShown` | `[]AckedIsOnTimeline`, with the hypotheses below | `TimelineInv` |
| `TimelineIsStorage` | `[]TimelineMatchesStorage`, with the hypotheses below | `TimelineInv`, `HeldInv` |
| `ServesItsClients` | `Spec => ImplementsService`, without hypotheses | `TypeOK`, `IdsAreFresh`, `TimelinesWait`, `EndIsKept`, `Fits`, `TodoShape`; one lemma per action of the service |

`OnlyStoredEvents` is not inductive alone: an ingest that is suspended after its append feeds
a correlator with a batch the invariant says nothing of. `FedIsPersisted` closes that
gap, and the same reasoning with "in the store" in place of "persisted" gives `AckedInv`.
`AckedSurvives` needs Postgres: the memory adapter drops sessions and events at its caps.

`RebuildsReadAcked`: a rebuild reads the newest `RebuildLimit` batches, so the theorem needs that all of a
session's batches fit. That they do is not obvious: storage holds a *sequence*, and only since Postgres stores
an id once (`StoredOnce`) is it no longer than the number of batches (`DistinctIsShort`, the pigeonhole
principle). `DueInv` then carries from the arrival of the request (`due`), through its lookup, to the
rebuild that what it was owed has been read.

`AckedIsShown` and `TimelineIsStorage` are about a process that evicts nothing, does not restart and fills no
correlator:

    NothingEvicted == Cardinality(Session) <= MaxCorrelators
    NeverRestarts  == Backend = "memory" \/ MaxRestarts = 0
    MaxBatches <= CorrelatorCap

With an eviction both are false, as `sm_evicted_timeline` shows; a restart empties the correlators of a
durable store, and a full correlator drops its oldest. (The memory adapter may restart: what is gone from
the correlators is gone from storage.) `TimelineIsStorage` needs two more: no storage call of a request rejects
(an append that is applied and answered with an error leaves a batch that is stored and never fed) and
`MaxBatches <= StoreCap`. The inductive invariant is

    TimelineInv == IngestSends /\ FedIsPersisted /\ IdsAreFresh /\ HooksInv
                   /\ InFlight /\ PurgeInv /\ CacheInv

`CacheInv`: a session in storage has a correlator which holds each acknowledged batch once and nothing else, and
only sessions that are gone are ever rebuilt. The second half is what makes the first survive: a rebuild
that settled late would replace a correlator that has been fed meanwhile. `InFlight` says that a batch is in
one request and not acknowledged yet, without which a feed might show it twice; `PurgeInv` that the purge forgets
only correlators of sessions it has removed. `HeldInv` adds that storage holds what is acknowledged and
what has been appended and waits for its feed (`Unfed`): with no request in flight the two are the same.

`ServesItsClients` is the refinement of section 2.1, for either store, with evictions, rebuilds, restarts and rejected calls. Every
action of the manager is shown to be one action of the service or a stutter:

* the first part of a handler is `Ask` (`ArriveAsks`); what follows its effect and precedes its answer moves nothing
  a client sees (`AskedStays`);
* the storage calls are the effects: `SaveCreates`, `RemoveDeletes`, `SetUpdates` and `AppendIngests`. An append that is applied and whose
  answer is lost is an effect without an answer, then a failure;
* `PurgeExpires`: the purge removes a session it listed some awaits ago. That this is an `Expire` and not the loss of a live
  session needs `EndIsKept`: a session the purge has listed has an end time or is gone, because an end time
  is never taken back, even if the status is;
* answers: `DoneSucceeds` and `ReplyAnswers` for one request, `SettleShows` for a rebuild, which answers all the requests that
  wait for it at once. `TimelinesWait` says that these are timeline requests of one session;
* `SaveCreates` needs `IdsAreFresh`, or a late save could overwrite a session, and, for the memory adapter, `StorageShape`: what
  `Save` gives up is one session, and only of a store that is full. `Fits` says that the catalog lists each stored
  session once, so that its length, which the code compares with the cap, is their number, and that no session holds more batches than
  its cap, so that an append drops one batch at most.

### 4.2 WebhookDeliveryProofs

`TypeCorrect`; `SuccessIsHonest` (`[]SuccessMeansAccepted`), strengthened by `OkWasAccepted`: a chain
that is about to record a success belongs to an event the receiver has accepted, and acceptance is
never undone; `SettledWasEarned` (`[]SettledIsEarned`), for every store, crash and number of chains, from `AttemptsWereMade`: no
counter is ahead of the POSTs that were made, neither the row's nor the one a chain has read before its POST and is
about to write, so chains that overtake one another may count too little and never too much;
`NothingIsForgotten` (`[]UnfinishedIsDriven`), for recovery limits that cover the
backlog. Its strengthening, `OrderListsRows`, says that the index a recovery
reads lists every row, without which a crash could leave an unfinished row that no listing finds. With
more unfinished rows than the limit the property is false; that is the theorem's hypothesis.

`BudgetIsKept` is `Undisturbed => (Spec => []BudgetIsExact)`, where

    Undisturbed == ~Durable /\ ~Faults /\ MaxCrashes = 0 /\ MaxManual = 0

says that every event has the one chain its notification started. Boot recovery, an operator's retry and a
rejected store call start a second chain or end the first, and then the budget is not exact (a crash between
POST and record alone costs one uncounted POST). These are the conditions of the run `wh_memory`; the theorem is for every number of events
and retries. `Budgeted` is per event what is known before its row exists, while its chain runs (the row
is one POST behind between POST and record, and nowhere else) and after it has ended; a step of another
event's chain leaves it alone (`StillBudgeted`).

### 4.3 BatchSenderProofs

The ring first: `PushIsAppend` and `ShiftedIsSuffix` say that pushing appends to `Contents` (after
dropping the head when full) and shifting takes a prefix off, for every capacity, from the arithmetic of
positions modulo the capacity (`Wrap`, `PlaceSum`, `PlaceApart`, `PlaceEnds`). Then the
inductive invariant

    IInv == TypeOK /\ WellFormed(ring, 1..offered) /\ BatchInv /\ StatsAddUp
                   /\ SentMeansArrived /\ NeverWedged

where `WellFormed` ties `size` to `head` and `tail` and `BatchInv` bounds the batch and makes it non-empty
while a flush is on its way. `StatsAddUp` needs both: a push that evicts changes two counters, and a
batch in flight must be counted once. From `IInv`: `TypeCorrect`, `StatsNeverLie`, `SentIsHonest`,
`BreakerNeverWedges`. `Implementation` is the refinement: `PipeStarts`, and per action that
it is `Offer`, `Take`, `Deliver`, `Lose` or a stutter of the pipe.

### 4.4 RealtimeProofs

`TypeCorrect`, `SlotsStayExact`, `StreamsHaveNoGaps`, `NothingEverLeaks`, from one inductive invariant

    Safe == TypeOK /\ CountersExact /\ StreamHasNoGaps /\ Mapped

`CountersExact` is `SlotsAreExact` without the limit, which is in the types. `Mapped` says that a socket that has not connected, or whose close was handled, is in no map, and that one that
has not connected has no stream. It is needed because the maps are filled again *between* two cleanups of one
socket, by its pongs and messages: only the `close` event, after which the library calls no handler, ends that.
`CleanupSlots` is the heart of the first property: a cleanup takes exactly the sockets still registered
off the counter of their address, which is why the second one takes nothing. `EndIsSafe` does the steps
that end sockets; one lemma per action does the others. The shutdown is part of the steps.

### 4.5 StorageProofs

*Migrations.* `MigrationsOnce` (`[]MigrationsRunOnce`), from `MigInv`: who reads or applies holds the lock, one
replica at most does, and what it has read of `probe_migrations` stays true until it applies a version itself.
Without the last the next version it computed could be one another replica has applied since.

*Postgres.* `PgTypeCorrect` and `CountsAgree` (`[]CountAgrees`), from `PgInv == PgTypeOK /\ CountInv`. The count is
wrong between the two statements of every append, and two overlapping appends do not repair each other: a recount that waits for
the row writes what it has read before. `CountInv` says of every session that is neither `stale` nor `overtaken` that its count
is right, or an append that is yet to take its snapshot is under way (`Uncounted`), or one that has read the right number is yet
to write it. A recount is never ahead of the rows (`RecountsInv`: events are only added while it waits, and a delete takes the
recounts of its session with it), so the only write that can spoil a right count is of a smaller number, which is what
`overtaken` records. Without that exception the property is false (section 3.4).
The types of the breaker (`BreakerType`) are part of it, because each answer moves the breaker. `ProbesAreAnswered`
(`[]ProbeOnItsWay`) is the safety half of `Recovers`: a circuit that is half-open has a call on its way, whose result ends that
(`BreakerMoves`), however late the results of older calls come; so it is never stuck with its probes used up.

*Files.* `FileTypeCorrect`, `UpdatesKept` (`[]UpdatesSurvive`), `LocksChain` (`[]OneChain`), `LinesKept`
(`[]FewMissing`), from

    FileInv == FileTypeOK /\ KnownOnceSaved /\ GoneForGood /\ OneChain /\ NothingDropped

`OneChain` is the heart: the calls of a session that still hold or wait for its lock form one queue, each
waiting for the one before, whose end the `Map` of locks names (`Queue`). So one call at a time is past
the lock; what it read of `session.json` is what is there when it renames (`NothingDropped`), and a crash, which
empties the queue, loses only what was never acknowledged. `KnownOnceSaved` and `GoneForGood` say that no call
knows a session before its save resolved, and that a directory that was removed is not made again: the
two ways in which a call could write to a file it was not made for.

`FewMissing` counts the acknowledged events that are on no line of `events.jsonl`: one per crash at most. A line
that is torn now counts already, since the next append will be glued to it.

`EventsReadBack` is `[]TornLineEatsOne`: the same of what `getEvents` returns, which is the fold over the lines. `EventsAre`
says what the fold yields, for every list of lines: exactly the events that a line holds alone. Both directions go by the
least prefix on which the fold would be wrong (`EventSteps` is one turn of the loop); `ReadBack` then turns the
bound on lines into the bound on events.

### 4.6 SdkProofs

The sides of the SDK share no state (nor do collector and tracer on one side), so each has its own inductive
invariant, and a step of another side leaves it alone.

* `OriginalsRestored` (`[]OriginalsComeBack`), from `PatchesInv`: until an owner unwraps in the wrong order
  (`crossed`), what the owners have saved and the layers on the method are a stack.
* `ReportedOnce` (`[]CallsReportedOnce`), from `CallsInv`: nothing is reported of a call that is under way, and a
  call keeps the wrappers it began with. A callback on a `pg` pool is the exception (it is reported before it ends, as a failure
  only if the call throws).
* `EventsAccounted` (`[]EventsAccountedFor`), from `CollectorInv`: the buffer holds the events numbered last, without
  a gap, so a cap that drops its head drops exactly the oldest; with a subscriber it is empty.
* `RequestsEndOnce` (`[]EndsOnce`), from `TracerInv`: what the tracer remembers has not ended. The other half of
  `TracedRequestsEnd` is liveness.
* `EachRequestEndsOnce` (`[]XhrEndsOnce`), from `NetworkInv`: the listeners of a start are on one object, and a start waits for
  its end or has had it. An object that the browser will send carries a number no other object carries and no request has
  started with, so a number that starts again is one whose second `send` is refused.
* `EchoesAreDropped` (`[]NoEchoes`), from `EchoInv`: what was told within the window is in `recent`, or the cap
  has pushed it out (`pushed`).

### 4.7 CaptureProofs

* `ExitZeroIsComplete` (`[]SavedIsComplete`), from `CommandInv`: where the command is in its shutdown bounds what may
  still run, and once the sources have stopped nothing adds to `collected`, so report and session keep up.
* `CloseIsQuiet` (`[]ClosedIsQuiet`), from `BrowserInv`: while launch and close do not overlap (`~met`), `Alone` says
  that the one browser that runs is the adapter's and that each suspended call holds its page or an older one.
* `EachAnsweredOnce` (`[]AnsweredOnce`), from `AnswerInv`: per stage of an exchange, which heads are written and
  what the handlers have been told. An answer that is told of is complete (`done`), no `failed` one; by the middleware it is told as
  often as the application ended it.
* `ConnectionsAreCounted` (`[]ConnectionsCounted`), from `CountInv`: `active` is `Live`, the captured requests whose
  connection is open, and `pending` lists without repetition captured requests that are under way.
* `ErrorsVisible` (`[]ErrorsAreVisible`: of the events that set `hasError`, not of every failed one) and `EventsHaveOneGroup` (`[]OneGroupEach`), from `GroupsInv`: `Filed` says that
  the events which have come and not been dropped are divided among the groups and that each
  group's summary is that of its events. It is stated of sets of groups, so that the cap, the new group and
  the event that is filed are each a step from one set to another.
* `RequestsStayTogether` (`[]KeysApart`), the second part of `GroupedOnce`, from `KeysInv`, under two hypotheses.
  `RequestIdFirst`: the first strategy is the one that compares correlation keys, as in the default
  `['request-id', 'temporal', 'url-matching']` (`packages/core/src/types/session.ts:119`). With `temporal` first an
  event is filed with its neighbour in time, whatever its key, and the property is false. `IdsAreNoKeys`:
  an id of an event is no correlation key of another. A group whose first event has no correlation id takes that
  event's id in its place, and the code generates both kinds of id at random.
* `TimelineIsComplete` (`[]TimelineShowsAll`), the third part. `EarlierIsAnOrder` needs unique ids, with which no two
  events compare equal. `Ranks`: the numbers of events before each of n events are 0 to n - 1, each once, by the
  pigeonhole principle; so `Sorted` has an event for each place. `GroupsInv` says that no event is retained
  twice, and which of them have a group.
* `FiledOnce` (`[]GroupedOnce`) puts the three together, under the two hypotheses of the second.

### 4.8 LogSourceProofs

`LinesExact` (`[]LinesAreExact`): what is logged after `connect` reaches the handlers once, in order and, but for a rotation, without
a gap, while no source is disconnected or rotated under a read (`~raced`); and only such a read ends the process. The inductive invariant is

    TailInv == TailType /\ SourcesInv /\ (crashed => raced) /\ (~raced => ... FilePlace, StreamPlace)

`Seen` is what the handlers have got, the line the parser keeps back and the partial line, in this order. `FilePlace` and
`StreamPlace` tie it to where the source is: with `Seen` ending at the offset of the tail, or at the position of the follower, the next
chunk continues it. After a rotation nothing is claimed of gaps, and `FilePlace` says instead that all of `Seen` is older than what
the tail will read. A chunk is cut into lines and fed line by line, two folds: `FeedsExist`,
`FeedSteps` and `FoldKeeps` say that feeding a chunk of any length appends it to `Seen` (`ChunkSeen`).

### 4.9 Folds

What a fold or a recursive function yields for every sequence would be an induction, and the library's induction theorems
take an operator as a parameter, which the provers cannot instantiate. The proofs use the least counterexample in its place: the set of
prefixes on which the claim fails is a set of natural numbers, and if it is not empty it has a least element
(`NatLessThanWellFounded`, `WFMin`); one turn of the loop contradicts it (`NatLeast`, `LeastOf`).

### 4.10 Only model-checked

* Liveness: `EveryRequestAnswered`, `EventuallySettled`, `NothingIsStuck`, `VanishedIsForgotten`, `Recovers`,
  `EveryoneBoots`, and the second half of `TracedRequestsEnd`. Fairness and `ENABLED` are beyond the prover.
* `ForwardsTheRequest` and `TimelineMatchesStorage` after an eviction, which the code does not keep (section 3.4).

Every invariant and every action property that a passing run checks is a theorem, for all values of the constants that satisfy
the named assumptions and, where section 4 says so, a hypothesis.

## 5. Plan

Done, in this order: the session manager over its storage; webhook delivery; the sender; the realtime edge;
the Postgres adapter and its migrations; the file adapter; the correlator; the SDK; the tool chain; then the
proofs. Every safety property of every part is a theorem, and so are the two refinements (`ServesItsClients`, `Implementation`);
4.10 lists what is not.

Left:

1. **Refinement between the layers**: PostgresStorage and FileStorage implement the storage that `SessionManager` uses as `Stored`,
   `AppendEvents`, `Save`, `Remove`, `SetStatus`; Correlation the bounded list that stands for a correlator there.
2. **Limits**: the rate limiter's windows.

## 6. Not modelled, and why

* Pure functions of one input: redaction, trace contexts, signatures, the SSRF guard, field extraction,
  route aggregation, report rendering. Tests reach them.
* Observability: metrics, request logging, instrumented storage.
* The dashboard, the reporters, and the commands that read a saved session and print it.
* The libraries: the drivers, the browser, Playwright, `ws`, Postgres and the file system are external; the models
  say what the code relies on of them, at the actions marked external in `PROJECT.json`.
* The event bus, which nothing in the repository uses, and the rate limiter (section 5).
* Wall-clock time: delays are "has passed"; the only clock is `now` in the session manager, which orders
  accesses and ages sessions.
* HTTP parsing, authentication and validation: a refused request changes no state.
