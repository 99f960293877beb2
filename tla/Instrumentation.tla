--------------------------- MODULE Instrumentation ----------------------------
(***************************************************************************)
(* How the SDK patches what it watches: the query method of a pg pool, a   *)
(* mysql2 pool, the commands of a Redis client, Collection.prototype of    *)
(* the MongoDB driver, which all its clients share, and the console.       *)
(*                                                                         *)
(* A patched method is the sequence of wrappers around the original,       *)
(* innermost first; a wrapper is named by its owner, the client or the     *)
(* caller it was installed for.  A call goes through the wrappers there    *)
(* were when it was made, and each of them reports it.  Each call is made  *)
(* by a request of its own, whose name is the call's.                      *)
(***************************************************************************)
EXTENDS Naturals, Sequences, SequencesExt, JsMap

CONSTANTS
    Owner,      \* clients of the driver, or callers of wrapConsole
    Call,       \* calls of the patched method
    MaxLayers,  \* bound: wrappers around a method
    None        \* an undefined

ASSUME PatchAssumption == MaxLayers \in Nat /\ None \notin {"ok", "error", "throws"}

VARIABLES
    target,     \* what is patched; it never changes
    layers,     \* wrappers around the original
    saved,      \* owner -> wrappers it found and will put back
    crossed,    \* history: was something put back under a newer wrapper?
    calls,      \* call that was made -> its style, the wrappers it goes through, its outcome
    reports     \* call -> events emitted for it, in order

insVars == <<target, layers, saved, crossed, calls, reports>>

Target == {"pg", "mysql", "redis", "mongo", "console", "browserConsole"}
Style == {"promise", "callback", "sync", "cursor"}
Outcome == {"ok", "error", "throws"}

Styles(t) == CASE t = "pg" -> {"promise", "callback"}
               [] t = "mysql" -> {"promise", "callback", "sync"}
               [] t = "redis" -> {"promise", "callback", "sync"}
               [] t = "mongo" -> {"promise", "cursor", "sync"}
               [] OTHER -> {"sync"}

\* One wrapper more, which remembers what it found.
Wrap(o) ==
    /\ Len(layers) < MaxLayers
    /\ layers' = Append(layers, o)
    /\ saved' = Put(saved, o, layers)
    /\ UNCHANGED <<target, crossed, calls, reports>>

\* What the owner found is put back.
PutBack(o) ==
    /\ o \in DOMAIN saved
    /\ layers' = saved[o]
    /\ saved' = Without(saved, {o})
    /\ crossed' = (crossed \/ layers # Append(saved[o], o))
    /\ UNCHANGED <<target, calls, reports>>

\* wrapPgPool looks at nothing, and nothing undoes it.
WrapPgPool(o) ==
    /\ target = "pg" /\ o \notin DOMAIN saved
    /\ Wrap(o)

\* Mutant: the pool is wrapped again.
BugWrapMysqlPool(o) == target = "mysql" /\ o \notin DOMAIN saved /\ Wrap(o)

\* A pool or a client is wrapped once, whoever asks.
WrapMysqlPool(o) ==
    /\ target = "mysql"
    /\ saved = NoKeys
    /\ Wrap(o)

WrapRedisClient(o) ==
    /\ target = "redis"
    /\ saved = NoKeys
    /\ Wrap(o)

\* A MongoDB client is wrapped once, and the prototype once for every client.
WrapMongoClient(o) ==
    /\ target = "mongo" /\ o \notin DOMAIN saved
    /\ Wrap(o)

\* Mutant: the client is forgotten and its methods stay wrapped.
BugUnwrapRedisClient(o) ==
    /\ target = "redis" /\ o \in DOMAIN saved
    /\ saved' = Without(saved, {o})
    /\ UNCHANGED <<target, layers, crossed, calls, reports>>

UnwrapMysqlPool(o) == target = "mysql" /\ PutBack(o)
UnwrapRedisClient(o) == target = "redis" /\ PutBack(o)
UnwrapMongoClient(o) == target = "mongo" /\ PutBack(o)

\* wrapConsole and the browser's installConsoleInterceptor return a function
\* that restores; the caller installs anew only after it.
WrapConsole(o) == target = "console" /\ o \notin DOMAIN saved /\ Wrap(o)
InstallConsole(o) == target = "browserConsole" /\ o \notin DOMAIN saved /\ Wrap(o)
Restore(o) == target \in {"console", "browserConsole"} /\ PutBack(o)

-----------------------------------------------------------------------------
\* The request an event is put down to is the one current when it is emitted:
\* the caller's for a promise, anybody's in a callback of the driver.
CurrentRequestIds(c, style) == IF style = "callback" THEN Call \cup {None} ELSE {c}

\* What a wrapper emits for a call of that style that ended like that, whether
\* it emits anything; "throws" is an exception of the call itself.
PgEvent(outcome, r) == [type |-> "db-query", failed |-> outcome # "ok", request |-> r]
MysqlEvent(outcome, r) == [type |-> "db-query", failed |-> outcome # "ok", request |-> r]
MongoEvent(outcome, r) == [type |-> "db-query", failed |-> outcome # "ok", request |-> r]
RedisEvent(outcome, r) == [type |-> "cache-op", failed |-> outcome # "ok", request |-> r]
LogEvent(r) == [type |-> "custom", failed |-> FALSE, request |-> r]

MysqlReports(style, outcome) == outcome # "throws" /\ style # "sync"

RedisReports(style, outcome) == ~(style = "callback" /\ outcome = "throws")

\* The cursor methods of find() have no try.
MongoReports(style, outcome) ==
    /\ ~(style = "cursor" /\ outcome = "throws")
    /\ style = "sync" => outcome = "throws"

ConsoleReports(outcome) == outcome # "throws"

\* pool.query with a callback has been reported when it returned.
Reports(style, outcome) ==
    CASE target = "pg" -> style # "callback"
      [] target = "mysql" -> MysqlReports(style, outcome)
      [] target = "redis" -> RedisReports(style, outcome)
      [] target = "mongo" -> MongoReports(style, outcome)
      [] OTHER -> ConsoleReports(outcome)

Event(outcome, r) ==
    CASE target = "pg" -> PgEvent(outcome, r)
      [] target = "mysql" -> MysqlEvent(outcome, r)
      [] target = "redis" -> RedisEvent(outcome, r)
      [] target = "mongo" -> MongoEvent(outcome, r)
      [] OTHER -> LogEvent(r)

\* Every wrapper emits the event.
EachEmits(c, wrappers, event) ==
    reports' = [reports EXCEPT ![c] = @ \o [i \in 1..Len(wrappers) |-> event]]

\* The call begins.  With a callback, pg's pool.query returns undefined, which
\* the wrapper awaits and reports as a success, or throws at once.
Invoke(c, style) ==
    LET early == target = "pg" /\ style = "callback"
    IN  /\ c \notin DOMAIN calls /\ style \in Styles(target)
        /\ \E outcome \in (IF early THEN {None, "throws"} ELSE {None}) :
            /\ calls' = Put(calls, c, [style |-> style, via |-> layers, outcome |-> outcome])
            /\ IF early
               THEN EachEmits(c, layers, PgEvent(IF outcome = None THEN "ok" ELSE outcome, c))
               ELSE UNCHANGED reports
        /\ UNCHANGED <<target, layers, saved, crossed>>

\* The call ends, through the wrappers it began with.
Settle(c, outcome) ==
    /\ c \in DOMAIN calls /\ calls[c].outcome = None
    /\ outcome = "error" => calls[c].style # "sync"
    /\ outcome = "throws" => ~(target = "pg" /\ calls[c].style = "callback")
    /\ calls' = [calls EXCEPT ![c].outcome = outcome]
    /\ IF Reports(calls[c].style, outcome)
       THEN \E r \in CurrentRequestIds(c, calls[c].style) :
                EachEmits(c, calls[c].via, Event(outcome, r))
       ELSE UNCHANGED reports
    /\ UNCHANGED <<target, layers, saved, crossed>>

InsInit ==
    /\ target \in Target
    /\ layers = <<>>
    /\ saved = NoKeys
    /\ crossed = FALSE
    /\ calls = NoKeys
    /\ reports = [c \in Call |-> <<>>]

InsNext ==
    \/ \E o \in Owner :
        \/ WrapPgPool(o)
        \/ WrapMysqlPool(o) \/ UnwrapMysqlPool(o)
        \/ WrapRedisClient(o) \/ UnwrapRedisClient(o)
        \/ WrapMongoClient(o) \/ UnwrapMongoClient(o)
        \/ WrapConsole(o) \/ InstallConsole(o) \/ Restore(o)
    \/ \E c \in Call : \/ \E style \in Style : Invoke(c, style)
                       \/ \E outcome \in Outcome : Settle(c, outcome)

\* A call its caller awaits is reported when it has ended, with its outcome and
\* for the caller's request: once on a mysql2 pool or a Redis client, however
\* often that was wrapped and unwrapped while the call was under way, and by
\* every wrapper elsewhere.
CallsReportedOnce ==
    \A c \in DOMAIN calls :
        /\ target \in {"mysql", "redis"} => Len(reports[c]) <= 1
        /\ calls[c].style = "promise" =>
            /\ calls[c].outcome = None => reports[c] = <<>>
            /\ calls[c].outcome \in {"ok", "error"} => Len(reports[c]) = Len(calls[c].via)
            /\ \A e \in Range(reports[c]) :
                e.request = c /\ e.failed = (calls[c].outcome # "ok")

\* Once everything that can be undone is undone, nothing of the SDK is left on
\* the method, provided each wrapper was taken off before an older one.
OriginalsComeBack ==
    target # "pg" /\ saved = NoKeys /\ ~crossed => layers = <<>>
=============================================================================
