--------------------------- MODULE SessionService ---------------------------
(***************************************************************************)
(* What the session manager promises the clients of its HTTP API: debug    *)
(* sessions behind a request queue.  A request takes effect at one instant *)
(* between its arrival and its answer, or never.  An answer of success is  *)
(* given only after the effect, "missing" only while the session is not    *)
(* there, and a failure leaves open which of the two it was.  A session    *)
(* goes away when a client deletes it or, once it has ended, by itself; a  *)
(* batch of events goes away with its session.  A lossy store also gives   *)
(* up a session for a new one when it is full, and a batch for a newer one.*)
(***************************************************************************)
EXTENDS Integers, FiniteSets, JsMap

CONSTANTS
    Session,    \* session ids
    Client,     \* clients, with one request each
    Batch,      \* batches of events
    Status,     \* what a session's status can be
    Terminal,   \* the statuses that end a session
    Lossy,      \* whether the store has caps
    MaxSessions \* how many sessions a lossy store keeps

VARIABLES
    sessions,   \* the sessions there are: id -> status, whether it ever ended, events
    used,       \* ids that were given to a session
    calls,      \* requests not answered yet, and whether they have taken effect
    answer      \* how each client's last request was answered

vars == <<sessions, used, calls, answer>>

Request ==
    [kind : {"create", "delete", "update", "ingest", "timeline"}, sid : Session,
     batch : Batch \cup {0}, to : Status, done : {FALSE}]

Init ==
    /\ sessions = NoKeys
    /\ used = {}
    /\ calls = NoKeys
    /\ answer = [c \in Client |-> "none"]

\* A session is asked for by its id, which a request to create it makes up.
Ask(c) ==
    /\ c \notin DOMAIN calls
    /\ \E r \in Request :
         /\ r.kind = "create" <=> r.sid \notin used
         /\ used' = used \cup {r.sid}
         /\ calls' = Put(calls, c, r)
    /\ answer' = [answer EXCEPT ![c] = "none"]
    /\ UNCHANGED sessions

-----------------------------------------------------------------------------
(* Effects *)

Pending(c, kind) == c \in DOMAIN calls /\ calls[c].kind = kind /\ ~calls[c].done

Done(c) ==
    /\ calls' = [calls EXCEPT ![c].done = TRUE]
    /\ UNCHANGED <<used, answer>>

\* A new session is empty, and never takes the place of one with the same id.
Create(c) ==
    /\ Pending(c, "create")
    /\ calls[c].sid \notin DOMAIN sessions
    /\ \E lost \in {{}} \cup {{s} : s \in DOMAIN sessions} :
         /\ lost # {} => Lossy /\ Cardinality(DOMAIN sessions) >= MaxSessions
         /\ sessions' = Put(Without(sessions, lost), calls[c].sid,
                            [status |-> "idle", ended |-> FALSE, events |-> {}])
    /\ Done(c)

Delete(c) ==
    /\ Pending(c, "delete")
    /\ sessions' = Without(sessions, {calls[c].sid})
    /\ Done(c)

\* To update a session that is gone is to do nothing.
Update(c) ==
    /\ Pending(c, "update")
    /\ LET s == calls[c].sid
       IN  sessions' = IF s \in DOMAIN sessions
                       THEN [sessions EXCEPT ![s].status = calls[c].to,
                                             ![s].ended = @ \/ calls[c].to \in Terminal]
                       ELSE sessions
    /\ Done(c)

Ingest(c) ==
    /\ Pending(c, "ingest")
    /\ calls[c].sid \in DOMAIN sessions
    /\ LET s == calls[c].sid
       IN  \E lost \in {{}} \cup {{b} : b \in sessions[s].events} :
             /\ lost # {} => Lossy
             /\ sessions' = [sessions EXCEPT ![s].events = (@ \ lost) \cup {calls[c].batch}]
    /\ Done(c)

Expire(s) ==
    /\ s \in DOMAIN sessions
    /\ sessions[s].ended
    /\ sessions' = Without(sessions, {s})
    /\ UNCHANGED <<used, calls, answer>>

-----------------------------------------------------------------------------
(* Answers *)

Answer(W, a) ==
    /\ calls' = Without(calls, W)
    /\ answer' = [c \in Client |-> IF c \in W THEN a ELSE answer[c]]
    /\ UNCHANGED <<sessions, used>>

\* An update is answered with the session it has changed.
Succeed(c) ==
    /\ c \in DOMAIN calls
    /\ calls[c].kind # "timeline"
    /\ calls[c].done
    /\ calls[c].kind = "update" => calls[c].sid \in DOMAIN sessions
    /\ Answer({c}, "ok")

\* Only an update may have taken effect, on a session that is gone by now.
NotFound(c) ==
    /\ c \in DOMAIN calls
    /\ calls[c].kind \in {"delete", "update", "ingest"}
    /\ calls[c].done => calls[c].kind = "update"
    /\ calls[c].sid \notin DOMAIN sessions
    /\ \/ Answer({c}, "missing")
       \/ calls[c].kind = "ingest" /\ Answer({c}, "empty")

\* Timelines come from a cache of few sessions, so any of them may be refused;
\* those of one session may be answered together.
Show(s) ==
    \E W \in SUBSET {c \in DOMAIN calls : calls[c].kind = "timeline" /\ calls[c].sid = s},
       a \in {"ok", "missing"} : Answer(W, a)

Fail == \E W \in SUBSET DOMAIN calls : Answer(W, "failed")

-----------------------------------------------------------------------------
Next ==
    \/ \E c \in Client : Create(c) \/ Delete(c) \/ Update(c) \/ Ingest(c)
    \/ \E c \in Client : Succeed(c) \/ NotFound(c)
    \/ \E s \in Session : Expire(s) \/ Show(s)
    \/ Fail
    \/ \E c \in Client : Ask(c)

Spec == Init /\ [][Next]_vars
=============================================================================
