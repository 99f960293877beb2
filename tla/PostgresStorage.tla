-------------------------- MODULE PostgresStorage --------------------------
(***************************************************************************)
(* PostgresStorageAdapter once it is initialised: every operation of the   *)
(* storage port is one or two SQL statements, each run by withRetry behind *)
(* a circuit breaker that all calls share.                                 *)
(*                                                                         *)
(* The database, which is external, applies a statement at once or rejects *)
(* it (an event of a session that does not exist breaks a foreign key),    *)
(* but for the one that reads before it writes: under READ COMMITTED it    *)
(* counts the events in its snapshot and updates the row when it has the   *)
(* row's lock.  A connection may be lost at any point: the adapter cannot  *)
(* tell what was applied, and retries when the error is one                *)
(* isTransientError knows.  What a read returns is left out, its           *)
(* statements are not: they move the breaker.                              *)
(***************************************************************************)
EXTENDS CircuitBreaker, FiniteSets, JsMap

CONSTANTS
    Call,        \* calls of the adapter that may be in flight at once
    Session,     \* session ids
    Event,       \* events, each appended at most once
    MaxAttempts, \* maxAttempts of withRetry
    MaxFaults    \* bound: statements that fail for want of a database

ASSUME PostgresAssumption ==
    /\ IsFiniteSet(Call) /\ IsFiniteSet(Event)
    /\ MaxAttempts \in Nat \ {0}
    /\ MaxFaults \in Nat

VARIABLES
    rows,     \* table probe_sessions: session -> event_count
    events,   \* table probe_events: event -> session
    breaker,  \* circuitBreaker
    cooled,   \* has resetTimeoutMs passed since the breaker's last failure?
    calls,    \* calls in flight
    recounts, \* call -> the events its recount has read and not written yet
    faults,   \* statements that have failed for want of a database
    given,    \* history: sessions saved and events appended so far
    stale,    \* history: sessions whose event_count a failure left behind
    overtaken \* history: sessions where an older recount was written last

tables == <<rows, events>>
circuit == <<breaker, cooled>>
history == <<given, stale, overtaken>>
pgVars == <<tables, circuit, calls, recounts, faults, history>>

\* A call waits for a statement to reach the database ("query"), for the
\* database to write what the statement has read ("write"), for its result
\* ("answer"), or for the end of a backoff ("sleep").
Waits(c, pc) == c \in DOMAIN calls /\ calls[c].pc = pc
InFlight == {c \in DOMAIN calls : calls[c].pc # "sleep"}
Statements(kind) == IF kind \in {"append", "page"} THEN 2 ELSE 1

\* How a call that ends leaves the event count of its session: an append that
\* fails after its first statement may have stored the events uncounted.
Stale(call) == IF call.kind = "append" THEN stale \cup {call.sid} ELSE stale

-----------------------------------------------------------------------------
(* withRetry and the circuit breaker *)

\* circuitBreaker.execute(operation) up to its await; the error of a circuit
\* that is open or out of probes is not transient and ends the call.
Execute(c, call, b) ==
    IF Admits(b, cooled)
    THEN /\ calls' = Put(calls, c, [call EXCEPT !.pc = "query"])
         /\ breaker' = Entered(b, cooled)
         /\ UNCHANGED stale
    ELSE /\ calls' = Without(calls, {c})
         /\ breaker' = b
         /\ stale' = Stale(call)

Begin(c, kind, s, e) ==
    /\ c \notin DOMAIN calls
    /\ Execute(c, [kind |-> kind, sid |-> s, event |-> e, pc |-> "query",
                   statement |-> 1, attempt |-> 1, valid |-> TRUE], breaker)
    /\ UNCHANGED <<tables, cooled, recounts, faults, overtaken>>

\* A statement succeeded: onSuccess, and the operation's next statement.
Answered(c) ==
    /\ Waits(c, "answer")
    /\ calls[c].valid
    /\ IF calls[c].statement < Statements(calls[c].kind)
       THEN Execute(c, [calls[c] EXCEPT !.statement = @ + 1, !.attempt = 1], Succeeded(breaker))
       ELSE /\ calls' = Without(calls, {c})
            /\ breaker' = Succeeded(breaker)
            /\ UNCHANGED stale
    /\ UNCHANGED <<tables, cooled, recounts, faults, given, overtaken>>

\* onFailure of an error that is not worth a retry: it ends the call.
Fails(c) ==
    /\ breaker' = Failed(breaker)
    /\ cooled' = FALSE
    /\ calls' = Without(calls, {c})
    /\ stale' = Stale(calls[c])

\* The database rejected the statement.
Rejected(c) ==
    /\ Waits(c, "answer")
    /\ ~calls[c].valid
    /\ Fails(c)
    /\ UNCHANGED <<tables, recounts, faults, given, overtaken>>

\* The connection is lost, or a timeout ends the query, before its result is
\* here; isTransientError knows the first and not the second.  A recount that
\* has begun may be given up by the database, or be written at any later time.
Lost(c) ==
    /\ c \in InFlight
    /\ faults < MaxFaults
    /\ faults' = faults + 1
    /\ recounts' = Without(recounts, {c})
    /\ \/ Fails(c)
       \/ /\ calls[c].attempt < MaxAttempts
          /\ breaker' = Failed(breaker)
          /\ cooled' = FALSE
          /\ calls' = [calls EXCEPT ![c].pc = "sleep", ![c].attempt = @ + 1]
          /\ stale' = IF calls[c].pc = "write" THEN Stale(calls[c]) ELSE stale
    /\ UNCHANGED <<tables, given, overtaken>>

\* The backoff has passed.
Retry(c) ==
    /\ Waits(c, "sleep")
    /\ Execute(c, calls[c], breaker)
    /\ UNCHANGED <<tables, cooled, recounts, faults, given, overtaken>>

\* resetTimeoutMs have passed since the last failure.
Cool ==
    /\ ~cooled
    /\ cooled' = TRUE
    /\ UNCHANGED <<tables, breaker, calls, recounts, faults, history>>

-----------------------------------------------------------------------------
(* The operations of the port *)

\* SessionManager saves a session once, when it creates it.
SaveSession(c, s) ==
    /\ s \notin given
    /\ given' = given \cup {s}
    /\ Begin(c, "save", s, s)

DeleteSession(c, s) == Begin(c, "delete", s, s) /\ UNCHANGED given

UpdateSessionStatus(c, s) == Begin(c, "update", s, s) /\ UNCHANGED given

AppendEvents(c, s, e) ==
    /\ e \notin given
    /\ given' = given \cup {e}
    /\ Begin(c, "append", s, e)

Read(c, s) == Begin(c, "read", s, s) /\ UNCHANGED given
LoadSession(c, s) == Read(c, s)
ListSessions(c, s) == Read(c, s)
GetEvents(c, s) == Read(c, s)
GetEventCount(c, s) == Read(c, s)

\* A count and a page, in two statements.
ListSessionsPaginated(c, s) == Begin(c, "page", s, s) /\ UNCHANGED given
GetEventsWithTotal(c, s) == Begin(c, "page", s, s) /\ UNCHANGED given

-----------------------------------------------------------------------------
(* The database *)

EventsOf(s) == {e \in DOMAIN events : events[e] = s}

\* INSERT ... ON CONFLICT (id) DO UPDATE, with the values of a new session.
Upsert(s) ==
    /\ rows' = Put(rows, s, 0)
    /\ stale' = IF EventsOf(s) # {} THEN stale \cup {s} ELSE stale

\* INSERT INTO probe_events ... ON CONFLICT (id) DO NOTHING.
InsertEvent(s, e) == events' = IF e \in DOMAIN events THEN events ELSE Put(events, e, s)

\* A statement reaches the database and is applied or rejected.  Deleting a
\* session deletes its events (ON DELETE CASCADE), and a recount that waits to
\* write finds the row gone.
Apply(c) ==
    LET call == calls[c]
        s == call.sid
        insert == call.kind = "append" /\ call.statement = 1
    IN  /\ Waits(c, "query") /\ (call.kind = "append" => insert)
        /\ calls' = [calls EXCEPT ![c].pc = "answer", ![c].valid = ~insert \/ s \in DOMAIN rows]
        /\ UNCHANGED <<circuit, faults, given, overtaken>>
        /\ CASE call.kind = "save" -> Upsert(s) /\ UNCHANGED <<events, recounts>>
             [] call.kind = "delete" ->
                  /\ rows' = Without(rows, {s})
                  /\ events' = Without(events, EventsOf(s))
                  /\ recounts' = Without(recounts, {d \in DOMAIN recounts : calls[d].sid = s})
                  /\ UNCHANGED stale
             [] insert /\ s \in DOMAIN rows ->
                  InsertEvent(s, call.event) /\ UNCHANGED <<rows, recounts, stale>>
             [] OTHER -> UNCHANGED <<tables, recounts, stale>>

\* UPDATE probe_sessions SET event_count = (SELECT COUNT(*) ...): the statement
\* takes its snapshot, in which it counts the events and looks for the row,
SnapshotCount(c) ==
    LET s == calls[c].sid
    IN  /\ Waits(c, "query") /\ calls[c].kind = "append" /\ calls[c].statement = 2
        /\ calls' = [calls EXCEPT ![c].pc = "write"]
        /\ recounts' = IF s \in DOMAIN rows THEN Put(recounts, c, Cardinality(EventsOf(s)))
                       ELSE recounts
        /\ UNCHANGED <<tables, circuit, faults, history>>

\* Mutant: the count is raised by the length of the batch instead.
BugRecount(c) ==
    LET s == calls[c].sid
    IN  /\ Waits(c, "write")
        /\ calls' = [calls EXCEPT ![c].pc = "answer", ![c].valid = TRUE]
        /\ recounts' = Without(recounts, {c})
        /\ IF c \in DOMAIN recounts THEN rows' = [rows EXCEPT ![s] = @ + 1] ELSE UNCHANGED rows
        /\ UNCHANGED <<events, circuit, faults, history>>

\* and it writes when no other update of the row is under way, whatever has been
\* counted and written since.
Recount(c) ==
    LET s == calls[c].sid
    IN  /\ Waits(c, "write")
        /\ calls' = [calls EXCEPT ![c].pc = "answer", ![c].valid = TRUE]
        /\ recounts' = Without(recounts, {c})
        /\ IF c \in DOMAIN recounts
           THEN /\ rows' = [rows EXCEPT ![s] = recounts[c]]
                /\ overtaken' = IF recounts[c] < rows[s] THEN overtaken \cup {s} ELSE overtaken
           ELSE UNCHANGED <<rows, overtaken>>
        /\ UNCHANGED <<events, circuit, faults, given, stale>>

-----------------------------------------------------------------------------
PgInit ==
    /\ rows = NoKeys /\ events = NoKeys
    /\ breaker = NewBreaker
    /\ cooled = FALSE
    /\ calls = NoKeys /\ recounts = NoKeys
    /\ faults = 0
    /\ given = {} /\ stale = {} /\ overtaken = {}

Start(c, s) ==
    \/ SaveSession(c, s)
    \/ DeleteSession(c, s)
    \/ UpdateSessionStatus(c, s)
    \/ \E e \in Event : AppendEvents(c, s, e)
    \/ LoadSession(c, s) \/ ListSessions(c, s) \/ GetEvents(c, s) \/ GetEventCount(c, s)
    \/ ListSessionsPaginated(c, s) \/ GetEventsWithTotal(c, s)

\* The database answers and backoffs end.
Advance(c) ==
    Apply(c) \/ SnapshotCount(c) \/ Recount(c) \/ Answered(c) \/ Rejected(c) \/ Retry(c)

PgNext ==
    \/ \E c \in Call, s \in Session : Start(c, s)
    \/ \E c \in Call : Advance(c) \/ Lost(c)
    \/ Cool

-----------------------------------------------------------------------------

\* The event_count of a session, while no append of it is under way.
Counted(s) ==
    (\A c \in DOMAIN calls : calls[c].kind = "append" => calls[c].sid # s)
        => rows[s] = Cardinality(EventsOf(s))

\* When no append of a session is under way, its event_count is the number of
\* its stored events, in whatever order the appends, retries and deletes ran.
\* Two things may leave it behind: a failure that cut an append or a save off,
\* and recounts that overlapped in the database, the older written last.
CountAgrees == \A s \in DOMAIN rows \ (stale \cup overtaken) : Counted(s)

\* A circuit that is half-open has a call on its way whose result will close or
\* reopen it: late results of older calls, or an operation that goes on with its
\* second statement, never leave it with its probes used up and nobody to answer.
ProbeOnItsWay == breaker.state = "half-open" => InFlight # {}

\* Once the database answers again, a circuit that is not closed closes.
Recovers == breaker.state # "closed" ~> breaker.state = "closed"
=============================================================================
