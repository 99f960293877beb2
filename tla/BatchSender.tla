---------------------------- MODULE BatchSender -----------------------------
(***************************************************************************)
(* BatchSender of the SDK: events are put in a ring buffer and flushed in  *)
(* batches to the server's ingest route, behind a circuit breaker and with *)
(* retries.  JavaScript runs one flush at a time (the flushing flag); its  *)
(* pc says what it awaits: the answer to a POST, the backoff sleep, the    *)
(* rejection of an open circuit, or the next turn of the flush loop.       *)
(* Events may be enqueued at each of these points.                         *)
(*                                                                         *)
(* The server accepts a POST or not; an accepted one may still look failed *)
(* to the sender, which then sends it again.  fetch has no timeout, so a   *)
(* flush waits for as long as the server does.                             *)
(***************************************************************************)
EXTENDS RingBuffer, CircuitBreaker

CONSTANTS
    MaxBatchSize,  \* config.maxBatchSize
    MaxRetries,    \* config.maxRetries
    MaxEvents      \* bound: events the application enqueues

ASSUME SenderAssumption ==
    /\ MaxBatchSize \in Nat \ {0}
    /\ {MaxRetries, MaxEvents} \subseteq Nat

VARIABLES
    ring,      \* queue
    batch,     \* the batch of the flush in progress
    pc,        \* "idle": not flushing
    attempt,   \* retries made of the batch
    ok,        \* what sendBatchWithRetry returned
    timer,     \* is flushTimer set?
    breaker,   \* circuitBreaker
    cooled,    \* has the breaker's timeout passed since its last failure?
    sent,      \* stats.sent
    dropped,   \* stats.dropped
    offered,   \* history: events enqueued, numbered 1, 2, ...
    arrived,   \* history: events the server accepted
    confirmed, \* history: events counted in stats.sent
    late       \* history: events enqueued while no timer was set

vars == <<ring, batch, pc, attempt, ok, timer, breaker, cooled, sent, dropped,
          offered, arrived, confirmed, late>>
flush == <<batch, pc, attempt, ok>>
circuit == <<breaker, cooled>>
stats == <<sent, dropped>>
history == <<offered, arrived, confirmed, late>>

InBatch == {batch[i] : i \in 1..Len(batch)}

-----------------------------------------------------------------------------
(* The application *)

\* enqueue(event)
Enqueue ==
    /\ offered < MaxEvents
    /\ offered' = offered + 1
    /\ ring' = Push(ring, offered + 1)
    /\ dropped' = IF IsFull(ring) THEN dropped + 1 ELSE dropped
    /\ late' = IF timer THEN late ELSE late \cup {offered + 1}
    /\ UNCHANGED <<flush, timer, circuit, sent, arrived, confirmed>>

\* start()
Start ==
    /\ ~timer
    /\ timer' = TRUE
    /\ UNCHANGED <<ring, flush, circuit, stats, history>>

-----------------------------------------------------------------------------
(* flush *)

\* circuitBreaker.execute(() => this.sendBatch(batch)), up to its first await.
Execute ==
    /\ breaker' = Entered(breaker, cooled)
    /\ pc' = IF Admits(breaker, cooled) THEN "post" ELSE "refused"
    /\ UNCHANGED cooled

\* One turn of the loop: drainBatch, then the first attempt to send it.
TakeBatch ==
    LET n == IF ring.size < MaxBatchSize THEN ring.size ELSE MaxBatchSize
    IN  /\ batch' = SubSeq(Contents(ring), 1, n)
        /\ ring' = Shifted(ring, n)
        /\ attempt' = 0
        /\ Execute

\* flush() while one is in progress, or with nothing queued, does nothing.
Flush ==
    /\ pc = "idle"
    /\ ~IsEmpty(ring)
    /\ TakeBatch
    /\ UNCHANGED <<ok, timer, stats, history>>

\* The interval timer calls flush().
Tick == timer /\ Flush

\* Mutant: stop() only clears the timer.
BugStop ==
    /\ timer
    /\ timer' = FALSE
    /\ UNCHANGED <<ring, flush, circuit, ok, stats, history>>

\* stop() clears the timer and calls flush() a last time.
Stop ==
    /\ timer
    /\ timer' = FALSE
    /\ IF pc = "idle" /\ ~IsEmpty(ring)
       THEN TakeBatch
       ELSE UNCHANGED <<ring, batch, pc, attempt, circuit>>
    /\ UNCHANGED <<ok, stats, history>>

\* sendBatchWithRetry returns.
Return(result) ==
    /\ pc' = "next"
    /\ ok' = result
    /\ UNCHANGED <<batch, attempt>>

\* 2xx
Accepted ==
    /\ pc = "post"
    /\ breaker' = Succeeded(breaker)
    /\ sent' = sent + Len(batch)
    /\ arrived' = arrived \cup InBatch
    /\ confirmed' = confirmed \cup InBatch
    /\ Return(TRUE)
    /\ UNCHANGED <<ring, timer, cooled, dropped, offered, late>>

\* 4xx: not retried, and for the breaker the server is well.
Rejected ==
    /\ pc = "post"
    /\ breaker' = Succeeded(breaker)
    /\ Return(FALSE)
    /\ UNCHANGED <<ring, timer, cooled, stats, history>>

\* 5xx or no answer: the server may have accepted the batch all the same.
Failure ==
    /\ pc = "post"
    /\ breaker' = Failed(breaker)
    /\ cooled' = FALSE
    /\ arrived' \in {arrived, arrived \cup InBatch}
    /\ IF attempt < MaxRetries
       THEN pc' = "sleep" /\ UNCHANGED <<batch, attempt, ok>>
       ELSE Return(FALSE)
    /\ UNCHANGED <<ring, timer, stats, offered, confirmed, late>>

\* The backoff is over.
Retry ==
    /\ pc = "sleep"
    /\ attempt' = attempt + 1
    /\ Execute
    /\ UNCHANGED <<ring, batch, ok, timer, stats, history>>

\* CircuitOpenError: no retry.
Refused ==
    /\ pc = "refused"
    /\ Return(FALSE)
    /\ UNCHANGED <<ring, timer, circuit, stats, history>>

\* Mutant: a batch that failed is not counted when the loop goes on.
BugNextBatch ==
    /\ pc = "next"
    /\ IF IsEmpty(ring)
       THEN /\ dropped' = IF ok THEN dropped ELSE dropped + Len(batch)
            /\ pc' = "idle" /\ batch' = <<>> /\ UNCHANGED <<ring, attempt, circuit>>
       ELSE TakeBatch /\ UNCHANGED dropped
    /\ UNCHANGED <<ok, sent, timer, history>>

\* flush resumes: a failed batch is dropped, then the loop goes on or ends.
NextBatch ==
    /\ pc = "next"
    /\ dropped' = IF ok THEN dropped ELSE dropped + Len(batch)
    /\ IF IsEmpty(ring)
       THEN pc' = "idle" /\ batch' = <<>> /\ UNCHANGED <<ring, attempt, circuit>>
       ELSE TakeBatch
    /\ UNCHANGED <<ok, sent, timer, history>>

\* resetTimeoutMs have passed since the breaker's last failure.
Cool ==
    /\ ~cooled
    /\ cooled' = TRUE
    /\ UNCHANGED <<ring, flush, timer, breaker, stats, history>>

-----------------------------------------------------------------------------
Init ==
    /\ ring = EmptyRing
    /\ batch = <<>>
    /\ pc = "idle"
    /\ attempt = 0
    /\ ok = FALSE
    /\ timer = FALSE
    /\ breaker = NewBreaker
    /\ cooled = FALSE
    /\ sent = 0
    /\ dropped = 0
    /\ offered = 0
    /\ arrived = {}
    /\ confirmed = {}
    /\ late = {}

Answer == Accepted \/ Rejected \/ Failure

Resume == Answer \/ Retry \/ Refused \/ NextBatch

Next == Enqueue \/ Start \/ Stop \/ Tick \/ Flush \/ Resume \/ Cool

Spec == Init /\ [][Next]_vars

\* The timer fires while it is set, sleeps end, and every POST is answered.
FairSpec == Spec /\ WF_vars(Tick) /\ WF_vars(Resume)

-----------------------------------------------------------------------------
(* What the sender promises *)

\* The fields of the sender and of its ring have the types the code gives them.
TypeOK ==
    /\ offered \in 0..MaxEvents
    /\ ring \in Ring(1..offered)
    /\ batch \in Seq(1..offered)
    /\ pc \in {"idle", "post", "refused", "sleep", "next"}
    /\ attempt \in 0..MaxRetries
    /\ {ok, timer, cooled} \subseteq BOOLEAN
    /\ breaker \in Breaker
    /\ {sent, dropped} \subseteq Nat
    /\ arrived \subseteq 1..offered
    /\ confirmed \subseteq 1..offered
    /\ late \subseteq 1..offered

OnTheWay == IF pc \in {"post", "refused", "sleep"} THEN batch ELSE <<>>
Unaccounted == IF pc = "next" /\ ~ok THEN Len(batch) ELSE 0

\* getStats never loses track of an event: whatever was enqueued is queued, on
\* its way, sent or dropped, across retries, evictions and an open circuit.
StatsAddUp == offered = ring.size + Len(OnTheWay) + Unaccounted + sent + dropped

\* An event is counted as sent only when the server accepted it.
SentMeansArrived == confirmed \subseteq arrived

\* The circuit is half-open only while its probe is on its way: it cannot stay
\* half-open with its probes used up and refuse every later batch.
NeverWedged == breaker.state = "half-open" => pc = "post"

\* The ring, the flush loop, the retries and the breaker implement a bounded
\* pipe that delivers in order (RingBuffer, drainBatch, sendBatchWithRetry).
Pipe == INSTANCE EventPipe WITH
    MaxTaken <- MaxBatchSize,
    waiting <- Contents(ring),
    taken <- OnTheWay,
    delivered <- confirmed,
    lost <- dropped + Unaccounted

ImplementsPipe == Pipe!Spec

\* An event enqueued while the sender is started leaves the queue in the end,
\* even when stop() comes in the middle of a flush or just after one.
NothingIsStuck ==
    \A e \in 1..MaxEvents :
        (e <= offered /\ e \notin late)
            ~> ~(\E i \in 1..ring.size : Contents(ring)[i] = e)
=============================================================================
