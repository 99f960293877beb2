---------------------------- MODULE CaptureSession ----------------------------
(***************************************************************************)
(* The commands of the CLI that run until they are stopped.  "capture"     *)
(* opens its sources one after the other, collects what they tell, and at  *)
(* a timeout or a SIGINT stops them, correlates, and writes a report and   *)
(* the session.  "watch" prints what its log sources tell.                 *)
(*                                                                         *)
(* Of an event only its existence matters here.                            *)
(***************************************************************************)
EXTENDS Integers

CONSTANTS
    Logs,         \* number of log sources
    MaxEvents     \* bound: events collected

ASSUME CliAssumption == Logs \in Nat /\ MaxEvents \in Nat

VARIABLES
    command,     \* "capture" or "watch"; it never changes
    opts,        \* opts.browser
    pc,          \* what the command awaits
    cleaning,    \* what cleanup awaits, "no" before it and "done" after it
    on,          \* the sources that run: "browser", "log", "network"
    linked,      \* log sources connected, the first ones
    collected,   \* collectedEvents
    session,     \* eventCount of the session; -1 before it is set
    timeline,    \* events in the report; -1 before it is generated
    saved,       \* events in the session file; -1 before it is written
    code,        \* "none", "killed", or the exit code
    hasty        \* history: a SIGINT while cleanup was under way

csVars == <<command, opts, pc, cleaning, on, linked, collected, session, timeline, saved,
            code, hasty>>
results == <<session, timeline, saved>>
given == <<command, opts>>

Running == code = "none"
ExitWith(c) == code' = c

\* An await of the command rejects: capture fails.
CaptureFails ==
    /\ Running /\ command = "capture" /\ pc \in {"browser", "logs", "network", "correlator"}
    /\ ExitWith("1")
    /\ UNCHANGED <<given, pc, cleaning, on, linked, collected, results, hasty>>

OpenBrowser ==
    /\ Running /\ pc = "browser"
    /\ pc' = "logs"
    /\ on' = IF opts THEN on \cup {"browser"} ELSE on
    /\ UNCHANGED <<given, cleaning, linked, collected, results, code, hasty>>

\* One more log source is connected, or all of them are.
ConnectLogThen(next) ==
    /\ Running /\ pc = "logs"
    /\ IF linked < Logs
       THEN linked' = linked + 1 /\ on' = on \cup {"log"} /\ UNCHANGED pc
       ELSE pc' = next /\ UNCHANGED <<linked, on>>
    /\ UNCHANGED <<given, cleaning, collected, results, code, hasty>>

ConnectLog == command = "capture" /\ ConnectLogThen("network")
WatchLog == command = "watch" /\ ConnectLogThen("waiting")

StartNetwork ==
    /\ Running /\ pc = "network"
    /\ pc' = "correlator"
    /\ on' = on \cup {"network"}
    /\ UNCHANGED <<given, cleaning, linked, collected, results, code, hasty>>

\* The correlator has been loaded: SIGINT is handled from now on.  navigate is
\* taken from its object before it is called, so with a browser it throws.
Capture ==
    /\ Running /\ pc = "correlator"
    /\ IF opts THEN ExitWith("1") /\ UNCHANGED pc ELSE pc' = "waiting" /\ UNCHANGED code
    /\ UNCHANGED <<given, cleaning, on, linked, collected, results, hasty>>

\* A source tells of an event.
EventTold ==
    /\ Running /\ on # {} /\ collected < MaxEvents
    /\ collected' = collected + 1
    /\ UNCHANGED <<given, pc, cleaning, on, linked, results, code, hasty>>

-----------------------------------------------------------------------------
(* The end *)

StartCleanup == cleaning' = "logs"

\* The timer of capture.
Deadline ==
    /\ Running /\ command = "capture" /\ pc = "waiting" /\ cleaning = "no"
    /\ StartCleanup
    /\ UNCHANGED <<given, pc, on, linked, collected, results, code, hasty>>

\* SIGINT without a handler.
KilledBySigint ==
    /\ Running /\ pc # "waiting"
    /\ ExitWith("killed")
    /\ UNCHANGED <<given, pc, cleaning, on, linked, collected, results, hasty>>

\* sigintHandler: cleanup called a second time returns at once.
Interrupt ==
    /\ Running /\ command = "capture" /\ pc = "waiting"
    /\ IF cleaning = "no" THEN StartCleanup /\ UNCHANGED <<code, hasty>>
                          ELSE ExitWith("0") /\ hasty' = TRUE /\ UNCHANGED cleaning
    /\ UNCHANGED <<given, pc, on, linked, collected, results>>

\* The handler of watch removes itself, so a second SIGINT kills.
InterruptWatch ==
    /\ Running /\ command = "watch" /\ pc = "waiting"
    /\ IF cleaning = "no" THEN StartCleanup /\ UNCHANGED code
                          ELSE ExitWith("killed") /\ UNCHANGED cleaning
    /\ UNCHANGED <<given, pc, on, linked, collected, results, hasty>>

\* A log source of watch cannot be connected: the others are disconnected.
WatchFails ==
    /\ Running /\ command = "watch" /\ pc = "logs" /\ cleaning = "no"
    /\ pc' = "failed" /\ StartCleanup
    /\ UNCHANGED <<given, on, linked, collected, results, code, hasty>>

\* The next log source is disconnected and hands over the line it held back.
DisconnectLog ==
    /\ Running /\ cleaning = "logs"
    /\ IF linked > 0
       THEN /\ linked' = linked - 1
            /\ on' = IF linked = 1 THEN on \ {"log"} ELSE on
            /\ collected' \in {n \in {collected, collected + 1} : n <= MaxEvents}
            /\ UNCHANGED <<cleaning, code>>
       ELSE /\ cleaning' = IF command = "watch" THEN "done" ELSE "network"
            /\ IF command = "watch" THEN ExitWith(IF pc = "failed" THEN "1" ELSE "0") ELSE UNCHANGED code
            /\ UNCHANGED <<linked, on, collected>>
    /\ UNCHANGED <<given, pc, results, hasty>>

\* Mutant: the report is made while the network is being stopped.
BugStopNetwork ==
    /\ Running /\ cleaning = "network"
    /\ cleaning' = "report"
    /\ session' = collected /\ timeline' = collected
    /\ UNCHANGED <<given, pc, on, linked, collected, saved, code, hasty>>

\* The network has stopped; what has been collected is correlated and counted,
\* and the report is generated from it.
StopNetwork ==
    /\ Running /\ cleaning = "network"
    /\ cleaning' = "report"
    /\ on' = on \ {"network"}
    /\ session' = collected /\ timeline' = collected
    /\ UNCHANGED <<given, pc, linked, collected, saved, code, hasty>>

\* The report is written, then the session file.
WriteReport ==
    /\ Running /\ cleaning = "report"
    /\ cleaning' = "session"
    /\ UNCHANGED <<given, pc, on, linked, collected, results, code, hasty>>

WriteSession ==
    /\ Running /\ cleaning = "session"
    /\ cleaning' = "done"
    /\ saved' = collected
    /\ ExitWith("0")
    /\ UNCHANGED <<given, pc, on, linked, collected, session, timeline, hasty>>

\* cleanup rejects; whoever called it, the process exits.
CleanupFails ==
    /\ Running /\ cleaning \in {"report", "session"}
    /\ ExitWith("1")
    /\ UNCHANGED <<given, pc, cleaning, on, linked, collected, results, hasty>>

\* The command, its options read and its sources counted.
RunCapture == command = "capture" /\ opts \in BOOLEAN /\ pc = "browser"
RunWatch == command = "watch" /\ opts = FALSE /\ pc = "logs"

CsInit ==
    /\ RunCapture \/ RunWatch
    /\ cleaning = "no" /\ on = {} /\ linked = 0 /\ collected = 0
    /\ session = -1 /\ timeline = -1 /\ saved = -1
    /\ code = "none" /\ hasty = FALSE

CsNext ==
    \/ CaptureFails \/ OpenBrowser \/ ConnectLog \/ WatchLog \/ StartNetwork \/ Capture \/ EventTold
    \/ Deadline \/ KilledBySigint \/ Interrupt \/ InterruptWatch \/ WatchFails
    \/ DisconnectLog \/ StopNetwork \/ WriteReport \/ WriteSession \/ CleanupFails

\* Exit code 0 means that every source has been stopped and, of a capture, that
\* report, session and its counter agree on all that was collected - unless
\* SIGINT came again, or came during the cleanup that the timeout began.
SavedIsComplete ==
    code = "0" /\ ~hasty =>
        /\ on = {}
        /\ command = "capture" => {session, timeline, saved} = {collected}
=============================================================================
