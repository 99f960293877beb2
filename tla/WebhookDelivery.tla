-------------------------- MODULE WebhookDelivery ---------------------------
(***************************************************************************)
(* Outbound webhooks: WebhookNotificationAdapter, the store its deliveries *)
(* are kept in, and the recovery that the server runs at boot.             *)
(*                                                                         *)
(* Every notified event is a row with a status and an attempt counter.  It *)
(* is driven by chains: notify, resume and retryDelivery each start one,   *)
(* and a chain alternates between an attempt (read the row, POST, write    *)
(* the row) and a timer that starts the next attempt.  Nothing serialises  *)
(* two chains of one event.  A chain is named by its event and by the call *)
(* that started it; a pc names the store call, POST or timer it waits for. *)
(*                                                                         *)
(* The receiver accepts or refuses a POST; an accepted POST may still look *)
(* failed to the adapter (timeout, connection lost).  Signatures, the SSRF *)
(* guard, payloads and the store-less legacy path are left out.            *)
(***************************************************************************)
EXTENDS Integers, Sequences, FiniteSets, JsMap

CONSTANTS
    Event,          \* deliveries that notify may create
    Durable,        \* TRUE: PostgresWebhookEventStore; FALSE: in memory
    Faults,         \* may a store call reject?
    MaxRetries,     \* WEBHOOK_MAX_RETRIES (5 in the code)
    RecoverLimit,   \* limit of listUnfinished (500 in the code)
    MaxCrashes,     \* bound: times the process dies
    MaxManual       \* bound: calls of retryDelivery

ASSUME WebhookAssumption ==
    /\ IsFiniteSet(Event)
    /\ Durable \in BOOLEAN
    /\ Faults \in BOOLEAN
    /\ {MaxRetries, RecoverLimit, MaxCrashes, MaxManual} \subseteq Nat

Settled == {"success", "dead_letter"}
Unsettled == {"pending", "failed"}
Origin == {"notify", "resume", "retry"}
Chain == Event \X Origin

VARIABLES
    rows,       \* the store: event -> status, attempts
    order,      \* the store's created_at order
    chains,     \* chains in flight
    recovery,   \* recoverPendingWebhooks of this process
    elapsed,    \* has the delay after the event's last failure passed?
    posts,      \* history: POSTs made for the event
    accepted,   \* history: events the receiver accepted a POST of
    orphaned,   \* history: events whose chain a rejected store call ended
    crashes,    \* process deaths so far
    killed,     \* history: deaths caused by an unhandled rejection
    manual      \* retryDelivery calls so far

vars == <<rows, order, chains, recovery, elapsed, posts, accepted, orphaned,
          crashes, killed, manual>>
receiver == <<posts, accepted>>
process == <<recovery, orphaned, crashes, killed, manual>>

At(k, pc) == k \in DOMAIN chains /\ chains[k].pc = pc
Goto(k, pc) == chains' = [chains EXCEPT ![k].pc = pc]
End(k) == chains' = Without(chains, {k})

\* A chain starts inside a call whose caller handles a rejection.
Start(k, pc) == chains' = Put(chains, k, [pc |-> pc, n |-> 0, ok |-> FALSE, guarded |-> TRUE])

Unfinished == {e \in DOMAIN rows : rows[e].status \in Unsettled}

-----------------------------------------------------------------------------
(* notify *)

Fresh == [status |-> "pending", attempts |-> 0]

Notify(e) ==
    /\ e \notin DOMAIN rows
    /\ rows' = Put(rows, e, Fresh)
    /\ order' = Append(order, e)
    /\ Start(<<e, "notify">>, "get")
    /\ UNCHANGED <<elapsed, receiver, process>>

\* The row is created but the reply is lost: notify rejects, no attempt is made.
NotifyLost(e) ==
    /\ Faults
    /\ e \notin DOMAIN rows
    /\ rows' = Put(rows, e, Fresh)
    /\ order' = Append(order, e)
    /\ orphaned' = orphaned \cup {e}
    /\ UNCHANGED <<chains, recovery, elapsed, receiver, crashes, killed, manual>>

-----------------------------------------------------------------------------
(* _attemptDelivery *)

\* Mutant: the attempt is written to the row before its POST is made.
BugGet(k) ==
    /\ At(k, "get")
    /\ IF k[1] \in DOMAIN rows /\ rows[k[1]].status \notin Settled
       THEN /\ rows' = [rows EXCEPT ![k[1]].attempts = @ + 1]
            /\ chains' = [chains EXCEPT ![k].pc = "post", ![k].n = rows[k[1]].attempts + 1]
       ELSE End(k) /\ UNCHANGED rows
    /\ UNCHANGED <<order, elapsed, receiver, process>>

\* The row is read before the POST; its attempts + 1 is written after it.
Get(k) ==
    /\ At(k, "get")
    /\ IF k[1] \in DOMAIN rows /\ rows[k[1]].status \notin Settled
       THEN chains' = [chains EXCEPT ![k].pc = "post",
                                     ![k].n = rows[k[1]].attempts + 1]
       ELSE End(k)
    /\ UNCHANGED <<rows, order, elapsed, receiver, process>>

\* _post never throws: a timeout or a network error is a failed attempt.
Post(k) ==
    /\ At(k, "post")
    /\ \E arrives, ok \in BOOLEAN :
         /\ ok => arrives
         /\ posts' = [posts EXCEPT ![k[1]] = @ + 1]
         /\ accepted' = IF arrives THEN accepted \cup {k[1]} ELSE accepted
         /\ chains' = [chains EXCEPT ![k].pc = "record", ![k].ok = ok]
    /\ UNCHANGED <<rows, order, elapsed, process>>

\* Mutant: one attempt too many before the dead letter.
BugExhausted(n) == n > MaxRetries + 1

Exhausted(n) == n >= MaxRetries + 1

Outcome(k) == IF chains[k].ok THEN "success"
              ELSE IF Exhausted(chains[k].n) THEN "dead_letter" ELSE "failed"

Record(k) ==
    /\ At(k, "record")
    /\ rows' = [rows EXCEPT ![k[1]] = [status |-> Outcome(k), attempts |-> chains[k].n]]
    /\ IF Outcome(k) = "failed"
       THEN /\ Goto(k, "schedule")
            /\ elapsed' = [elapsed EXCEPT ![k[1]] = FALSE]
       ELSE End(k) /\ UNCHANGED elapsed
    /\ UNCHANGED <<order, receiver, process>>

\* Mutant: the retry timer is never set.
BugSchedule(k) ==
    /\ At(k, "schedule")
    /\ End(k)
    /\ UNCHANGED <<rows, order, elapsed, receiver, process>>

\* scheduleRetry: the rest of the chain runs from a timer, with no caller.
Schedule(k) ==
    /\ At(k, "schedule")
    /\ chains' = [chains EXCEPT ![k].pc = "timer", ![k].guarded = FALSE]
    /\ UNCHANGED <<rows, order, elapsed, receiver, process>>

Fire(k) ==
    /\ At(k, "timer")
    /\ elapsed[k[1]]
    /\ Goto(k, "get")
    /\ UNCHANGED <<rows, order, elapsed, receiver, process>>

\* Time passes: the retry delay of e is over.
Elapse(e) ==
    /\ ~elapsed[e]
    /\ elapsed' = [elapsed EXCEPT ![e] = TRUE]
    /\ UNCHANGED <<rows, order, chains, receiver, process>>

-----------------------------------------------------------------------------
(* resume, called for every unfinished row by recoverPendingWebhooks at boot *)

\* Mutant: rows that were never attempted are not listed.
BugRecoverList ==
    /\ recovery.pc = "list"
    /\ recovery' = [pc |-> "resume",
                    todo |-> {e \in Unfinished : rows[e].status = "failed"}]
    /\ UNCHANGED <<rows, order, chains, elapsed, receiver, orphaned, crashes, killed,
                   manual>>

\* listUnfinished: the oldest unfinished rows, at most RecoverLimit of them.
Listed(j) ==
    /\ order[j] \in Unfinished
    /\ Cardinality({h \in 1..(j - 1) : order[h] \in Unfinished}) < RecoverLimit

RecoverList ==
    /\ recovery.pc = "list"
    /\ recovery' = [pc |-> "resume",
                    todo |-> {order[i] : i \in {j \in 1..Len(order) : Listed(j)}}]
    /\ UNCHANGED <<rows, order, chains, elapsed, receiver, orphaned, crashes, killed,
                   manual>>

\* The query fails: it is logged, and nothing is resumed by this process.
RecoverFails ==
    /\ Faults
    /\ recovery.pc = "list"
    /\ recovery' = [pc |-> "resume", todo |-> {}]
    /\ orphaned' = orphaned \cup Unfinished
    /\ UNCHANGED <<rows, order, chains, elapsed, receiver, crashes, killed, manual>>

Resume(e) ==
    /\ e \in recovery.todo
    /\ recovery' = [recovery EXCEPT !.todo = @ \ {e}]
    /\ Start(<<e, "resume">>, "resume")
    /\ UNCHANGED <<rows, order, elapsed, receiver, orphaned, crashes, killed, manual>>

ResumeGet(k) ==
    /\ At(k, "resume")
    /\ IF rows[k[1]].status \in Settled THEN End(k) ELSE Goto(k, "get")
    /\ UNCHANGED <<rows, order, elapsed, receiver, process>>

-----------------------------------------------------------------------------
(* retryDelivery, called by an operator *)

Retry(e) ==
    /\ manual < MaxManual
    /\ e \in DOMAIN rows
    /\ <<e, "retry">> \notin DOMAIN chains
    /\ manual' = manual + 1
    /\ Start(<<e, "retry">>, "retry")
    /\ UNCHANGED <<rows, order, recovery, elapsed, receiver, orphaned, crashes, killed>>

RetryGet(k) ==
    /\ At(k, "retry")
    /\ IF rows[k[1]].status = "success" THEN End(k) ELSE Goto(k, "reset")
    /\ UNCHANGED <<rows, order, elapsed, receiver, process>>

\* The attempt counter is kept.
RetryReset(k) ==
    /\ At(k, "reset")
    /\ rows' = [rows EXCEPT ![k[1]].status = "pending"]
    /\ Goto(k, "get")
    /\ UNCHANGED <<order, elapsed, receiver, process>>

-----------------------------------------------------------------------------
(* A store call rejects; the process dies and is started again *)

Boot == [pc |-> IF Durable THEN "list" ELSE "resume", todo |-> {}]

\* Timers and suspended calls are lost, and so is the in-memory store.
Die ==
    /\ crashes < MaxCrashes
    /\ crashes' = crashes + 1
    /\ chains' = NoKeys
    /\ recovery' = Boot
    /\ orphaned' = {}
    /\ IF Durable THEN UNCHANGED <<rows, order>> ELSE rows' = NoKeys /\ order' = <<>>
    /\ UNCHANGED <<elapsed, receiver, manual>>

Crash == Die /\ UNCHANGED killed

\* The caller of notify, resume or retryDelivery logs the rejection; a timer
\* has no caller, and index.ts exits on an unhandled rejection.
Reject(k) ==
    /\ Faults
    /\ k \in DOMAIN chains
    /\ chains[k].pc \notin {"post", "timer"}
    /\ IF chains[k].guarded
       THEN /\ End(k)
            /\ orphaned' = orphaned \cup {k[1]}
            /\ UNCHANGED <<rows, order, recovery, elapsed, receiver, crashes, killed, manual>>
       ELSE Die /\ killed' = killed + 1

-----------------------------------------------------------------------------
Init ==
    /\ rows = NoKeys
    /\ order = <<>>
    /\ chains = NoKeys
    /\ recovery = Boot
    /\ elapsed = [e \in Event |-> TRUE]
    /\ posts = [e \in Event |-> 0]
    /\ accepted = {}
    /\ orphaned = {}
    /\ crashes = 0
    /\ killed = 0
    /\ manual = 0

Advance(k) ==
    \/ Get(k) \/ Post(k) \/ Record(k) \/ Schedule(k) \/ Fire(k)
    \/ ResumeGet(k) \/ RetryGet(k) \/ RetryReset(k)

Next ==
    \/ \E e \in Event : Notify(e) \/ NotifyLost(e) \/ Resume(e) \/ Retry(e) \/ Elapse(e)
    \/ \E k \in Chain : Advance(k) \/ Reject(k)
    \/ RecoverList \/ RecoverFails
    \/ Crash

Spec == Init /\ [][Next]_vars

\* Store calls are answered, POSTs end (AbortController), delays pass, and the
\* boot recovery runs to its end.
FairSpec ==
    /\ Spec
    /\ \A k \in Chain : WF_vars(Advance(k))
    /\ \A e \in Event : WF_vars(Elapse(e)) /\ WF_vars(Resume(e))
    /\ WF_vars(RecoverList)

-----------------------------------------------------------------------------
(* What the module promises *)

MapInto(m, K, V) == DOMAIN m \subseteq K /\ \A k \in DOMAIN m : m[k] \in V

\* The store and the adapter's calls in flight have the types the code gives them.
TypeOK ==
    /\ MapInto(rows, Event, [status : Settled \cup Unsettled, attempts : Nat])
    /\ order \in Seq(Event)
    /\ MapInto(chains, Chain,
               [pc : {"get", "post", "record", "schedule", "timer", "resume", "retry", "reset"},
                n : Nat, ok : BOOLEAN, guarded : BOOLEAN])
    /\ recovery \in [pc : {"list", "resume"}, todo : SUBSET Event]
    /\ elapsed \in [Event -> BOOLEAN]
    /\ posts \in [Event -> Nat]
    /\ accepted \subseteq Event
    /\ orphaned \subseteq Event
    /\ crashes \in Nat /\ killed \in Nat /\ manual \in Nat

\* A row says success only when the receiver accepted at least one POST of
\* it, however chains overtake one another (only an ok response is success).
SuccessMeansAccepted ==
    \A e \in DOMAIN rows : rows[e].status = "success" => e \in accepted

\* A row says dead_letter only after 1 + WEBHOOK_MAX_RETRIES POSTs, whatever
\* crashes, recoveries and other chains came between them (the counter in the row
\* is read before a POST and written after it, so it is never ahead of them).
GivenUpAfterBudget ==
    \A e \in DOMAIN rows : rows[e].status = "dead_letter" => posts[e] >= MaxRetries + 1

\* A delivery is settled only when its outcome is one: accepted by the receiver,
\* or tried as often as the configuration says.
SettledIsEarned == SuccessMeansAccepted /\ GivenUpAfterBudget

\* No delivery is forgotten: a pending or failed row always has a chain that
\* will settle it, or a boot recovery that will resume it, unless a store call
\* of its own rejected in this process.
UnfinishedIsDriven ==
    \A e \in Unfinished :
        \/ \E o \in Origin : <<e, o>> \in DOMAIN chains
        \/ recovery.pc = "list"
        \/ e \in recovery.todo
        \/ e \in orphaned

\* While no boot recovery or operator interferes, an event has one chain.  It
\* is given up after exactly 1 + WEBHOOK_MAX_RETRIES POSTs, and the counter in
\* the row is the number of POSTs it recorded.
BudgetIsExact ==
    \A e \in DOMAIN rows :
        /\ posts[e] <= MaxRetries + 1
        /\ rows[e].status = "dead_letter" => posts[e] = MaxRetries + 1
        /\ posts[e] = rows[e].attempts +
             (IF \E o \in Origin : At(<<e, o>>, "record") THEN 1 ELSE 0)

\* Every delivery that was stored is settled in the end, accepted by the
\* receiver or dead-lettered, across crashes of the process, unless a store
\* call of its own rejected and it waits for the next boot.
EventuallySettled == \A e \in Event : e \in Unfinished ~> e \notin Unfinished \/ e \in orphaned
=============================================================================
