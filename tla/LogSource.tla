------------------------------- MODULE LogSource -------------------------------
(***************************************************************************)
(* The sources of the log collector: a file that is tailed, the output of  *)
(* `docker logs --follow`, or a stream of the process; and the parser they *)
(* feed, which keeps a line back until it knows that no stack trace        *)
(* follows.                                                                *)
(*                                                                         *)
(* What is logged comes in halves of lines, numbered: the even ones end a  *)
(* line.  A log event is the sequence of the halves in it.  In the file,   *)
(* positions count from the last rotation.                                 *)
(***************************************************************************)
EXTENDS Integers, Sequences, SequencesExt

CONSTANTS
    MaxHalves,     \* bound: halves of lines ever logged
    MaxConnects,   \* bound: calls of connect
    MaxBuffer,     \* MAX_LINE_BUFFER, in halves
    Traces         \* lines that continue a stack trace

ASSUME LogAssumption == MaxBuffer \in Nat \ {0} /\ MaxConnects \in Nat

VARIABLES
    kind,        \* "file", "docker" or "stdout"; it never changes
    written,     \* halves logged so far
    base,        \* halves the file lost to its last rotation
    connected,   \* connected
    parser,      \* is there a parser?
    rest,        \* lineBuffer
    held,        \* the parser's pendingEvent
    logged,      \* events handed to the handlers of this connection
    offset,      \* position of the tail
    changed,     \* has the file changed since the watcher called back?
    reading,     \* "no", or where readNewContent waits: "stat", "data"
    size,        \* its currentSize
    tails,       \* follower of a stream -> [state, at, until], one per connect
    connects,    \* calls of connect so far
    since,       \* history: halves logged before this connection
    rotated,     \* history: has the file rotated in this connection?
    raced,       \* history: was something under way at a disconnect or rotation?
    crashed      \* history: has the parser been missed?

file == <<offset, changed, reading, size>>
history == <<connects, since, rotated, raced>>
lsVars == <<kind, written, base, connected, parser, rest, held, logged, file, tails,
            history, crashed>>

Run(a, b) == [i \in 1..b - a |-> a + i]
Length == written - base

\* emitLogEvent, for what the parser has kept back, if anything.
Emitted(events, event) == IF event = <<>> THEN events ELSE Append(events, event)

\* The parser, given what it has and what is left of a line.
LogParser(line) == [pending |-> held, events |-> logged, rest |-> line]

\* feedLine: a line of a stack trace joins the event before it.
IsTrace(line) == Head(line) % 2 = 1 /\ (Head(line) + 1) \div 2 \in Traces

FeedLine(p, line) ==
    IF IsTrace(line) /\ p.pending # <<>>
    THEN [p EXCEPT !.pending = @ \o line]
    ELSE [p EXCEPT !.pending = line, !.events = Emitted(@, p.pending)]

\* processData: whole lines go to the parser; too long a buffer does as it is.
Feed(p, half) ==
    LET line == Append(p.rest, half)
    IN  IF half % 2 = 0 THEN [FeedLine(p, line) EXCEPT !.rest = <<>>]
                        ELSE [p EXCEPT !.rest = line]

\* Mutant: the partial line is not put in front of the next chunk.
BugProcess(data) ==
    FoldLeft(Feed, LogParser(<<>>), data)

Process(data) ==
    IF Len(rest) + Len(data) > MaxBuffer
    THEN FeedLine(LogParser(<<>>), rest \o data)
    ELSE FoldLeft(Feed, LogParser(rest), data)

\* A chunk arrives; without a parser, a line in it is a TypeError nobody handles.
ProcessData(data) ==
    LET combined == rest \o data
        next == Process(data)
        lines == Len(combined) > MaxBuffer \/ \E i \in 1..Len(combined) : combined[i] % 2 = 0
    IN  IF parser
        THEN /\ rest' = next.rest /\ held' = next.pending /\ logged' = next.events
             /\ UNCHANGED crashed
        ELSE /\ crashed' = lines
             /\ rest' = IF lines THEN rest ELSE combined
             /\ UNCHANGED <<held, logged>>

Flushed == IF parser THEN Emitted(logged, held) ELSE logged

-----------------------------------------------------------------------------
\* The program logs.  The watcher of a file notices.
Log ==
    /\ written < MaxHalves
    /\ written' = written + 1
    /\ changed' = (changed \/ (kind = "file" /\ connected))
    /\ UNCHANGED <<kind, base, connected, parser, rest, held, logged, offset, reading,
                   size, tails, history, crashed>>

\* The file is truncated for a new one.
Rotate ==
    /\ kind = "file" /\ ~rotated /\ Length > 0
    /\ base' = written
    /\ changed' = (changed \/ connected)
    /\ rotated' = TRUE
    /\ raced' = (raced \/ reading = "data")
    /\ UNCHANGED <<kind, written, connected, parser, rest, held, logged, offset, reading,
                   size, tails, connects, since, crashed>>

\* A follower hears what is logged from now on; killed, it has still written what
\* it has; a stream without listeners is not heard any more.
Heard(t) == [t EXCEPT !.state = "running", !.at = written]
Killed(t) == IF t.state = "running" THEN [t EXCEPT !.state = "killed", !.until = written] ELSE t
Unheard(t) == [t EXCEPT !.state = "none"]

\* connect of the three adapters, after what they share.
TailFile == kind = "file" /\ offset' = Length /\ UNCHANGED tails
FollowContainer == kind = "docker" /\ tails' = [tails EXCEPT ![connects'] = Heard(@)]
ListenToStream == kind = "stdout" /\ tails' = [tails EXCEPT ![connects'] = Heard(@)]

\* connect, when it is not connected: from the end of what there is.
Connect ==
    /\ ~connected /\ connects < MaxConnects
    /\ connects' = connects + 1
    /\ connected' = TRUE /\ parser' = TRUE
    /\ held' = <<>> /\ logged' = <<>>
    /\ \/ TailFile
       \/ (FollowContainer \/ ListenToStream) /\ UNCHANGED offset
    /\ since' = written /\ rotated' = FALSE
    /\ raced' = (raced \/ reading # "no" \/ rest # <<>>
                       \/ \E i \in DOMAIN tails : tails[i].state # "none")
    /\ UNCHANGED <<kind, written, base, rest, changed, reading, size, crashed>>

\* disconnect: the last event is handed over; a partial line is lost.  The
\* listeners of a stream are removed, the follower of a container is killed and
\* what it had written may still arrive.
Disconnect ==
    /\ connects > 0 /\ parser
    /\ logged' = Flushed
    /\ held' = <<>> /\ rest' = <<>>
    /\ parser' = FALSE /\ connected' = FALSE
    /\ offset' = 0 /\ changed' = FALSE
    /\ tails' = [tails EXCEPT ![connects] = CASE kind = "docker" -> Killed(@)
                                             [] kind = "stdout" -> Unheard(@)
                                             [] OTHER -> @]
    /\ raced' = (raced \/ reading # "no"
                       \/ (kind = "docker" /\ tails[connects].state # "none"
                                           /\ tails[connects].at < written))
    /\ UNCHANGED <<kind, written, base, reading, size, connects, since, rotated, crashed>>

-----------------------------------------------------------------------------
\* The watcher calls back: a change during a read is not looked at.
OnChange ==
    /\ changed
    /\ changed' = FALSE
    /\ reading' = IF reading = "no" THEN "stat" ELSE reading
    /\ UNCHANGED <<kind, written, base, connected, parser, rest, held, logged, offset,
                   size, tails, history, crashed>>

\* readNewContent learns the size of the file.
Stat ==
    LET from == IF Length < offset THEN 0 ELSE offset
    IN  /\ reading = "stat"
        /\ size' = Length
        /\ offset' = from
        /\ reading' = IF Length <= from THEN "no" ELSE "data"
        /\ UNCHANGED <<kind, written, base, connected, parser, rest, held, logged, changed,
                       tails, history, crashed>>

\* The rest of readNewContent, whatever happened to the file or the connection
\* meanwhile.
Read ==
    /\ reading = "data"
    /\ reading' = "no"
    /\ offset' = size
    /\ ProcessData(IF offset >= size \/ offset >= Length THEN <<>>
                   ELSE Run(base + offset, base + (IF size < Length THEN size ELSE Length)))
    /\ UNCHANGED <<kind, written, base, connected, parser, changed, size, tails, history>>

\* A chunk of a stream arrives.
Limit(i) == IF tails[i].state = "running" THEN written ELSE tails[i].until

Data(i) ==
    /\ tails[i].state # "none" /\ tails[i].at < Limit(i)
    /\ tails' = [tails EXCEPT ![i].at = Limit(i)]
    /\ ProcessData(Run(tails[i].at, Limit(i)))
    /\ UNCHANGED <<kind, written, base, connected, parser, file, history>>

\* The stream ends, or `docker logs` exits.
FollowerExits(i) ==
    /\ tails[i].state = "running"
    /\ tails' = [tails EXCEPT ![i] = Killed(@)]
    /\ UNCHANGED <<kind, written, base, connected, parser, rest, held, logged, file,
                   history, crashed>>

\* "close" or "end": whatever the source does by now, it is not connected.
SourceCloses(i) ==
    /\ tails[i].state = "killed" /\ tails[i].at = tails[i].until
    /\ tails' = [tails EXCEPT ![i].state = "none"]
    /\ logged' = Flushed
    /\ held' = IF parser THEN <<>> ELSE held
    /\ connected' = FALSE
    /\ UNCHANGED <<kind, written, base, parser, rest, file, history, crashed>>

CreateLogSource == kind \in {"file", "docker", "stdout"}

LsInit ==
    /\ CreateLogSource
    /\ written \in 0..1 /\ base = 0
    /\ connected = FALSE /\ parser = FALSE
    /\ rest = <<>> /\ held = <<>> /\ logged = <<>>
    /\ offset = 0 /\ changed = FALSE /\ reading = "no" /\ size = 0
    /\ tails = [i \in 1..MaxConnects |-> [state |-> "none", at |-> 0, until |-> 0]]
    /\ connects = 0 /\ since = 0 /\ rotated = FALSE /\ raced = FALSE /\ crashed = FALSE

LsNext ==
    /\ ~crashed
    /\ \/ Log \/ Rotate \/ Connect \/ Disconnect
       \/ OnChange \/ Stat \/ Read
       \/ \E i \in 1..MaxConnects : Data(i) \/ FollowerExits(i) \/ SourceCloses(i)

\* What was logged since connect reaches the handlers once, in order and, but
\* for a rotation, without a gap; the process only dies of a chunk that was
\* under way when the source was disconnected.
LinesAreExact ==
    LET seen == FlattenSeq(logged) \o (IF parser THEN held \o rest ELSE <<>>)
    IN  /\ crashed => raced
        /\ ~raced => \A i \in 1..Len(seen) - 1 : seen[i] < seen[i + 1]
        /\ ~raced /\ ~rotated => seen = Run(since, since + Len(seen))
=============================================================================
