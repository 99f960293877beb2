---------------------------- MODULE CaptureProofs ----------------------------
(***************************************************************************)
(* Proofs about Capture, for every number of log sources, set of requests, *)
(* of calls and of events, every cap, window and bound.                    *)
(***************************************************************************)
EXTENDS Capture, FiniteSetTheorems, SequenceTheorems, WellFoundedInduction, TLAPS

-----------------------------------------------------------------------------
(* The commands *)

\* Where the command is, what may run and how much has been collected fit.
CommandInv ==
    /\ command \in {"capture", "watch"} /\ linked \in Nat
    /\ on \subseteq {"browser", "log", "network"}
    /\ command = "watch" => ~opts /\ pc \in {"logs", "waiting", "failed"}
    /\ "browser" \in on => opts
    /\ "network" \in on => command = "capture"
    /\ "log" \in on => linked > 0
    /\ pc = "waiting" => ~opts
    /\ pc = "failed" => command = "watch"
    /\ cleaning # "no" => pc \in {"waiting", "failed"}
    /\ cleaning \in {"network", "report", "session"} => command = "capture"
    /\ cleaning \in {"network", "report", "session", "done"} => "log" \notin on
    /\ command = "capture" /\ cleaning \in {"report", "session", "done"} =>
         on = {} /\ session = collected /\ timeline = collected
    /\ command = "capture" /\ cleaning = "done" => saved = collected
    /\ cleaning = "done" => code # "none"
    /\ code = "0" => hasty \/ cleaning = "done"

LEMMA CommandKept == ASSUME CommandInv, UNCHANGED csVars PROVE CommandInv'
BY DEF CommandInv, csVars

LEMMA CommandStarts == ASSUME CsInit PROVE CommandInv
BY DEF CommandInv, CsInit, RunCapture, RunWatch

LEMMA LogLinks ==
    ASSUME CommandInv, NEW next, ConnectLogThen(next), next = IF command = "watch" THEN "waiting" ELSE "network"
    PROVE  CommandInv'
<1> USE DEF Running, given, results
<1>1. CASE linked < Logs
  <2>1. linked' = linked + 1 /\ linked' \in Nat /\ linked' > 0 /\ on' = on \cup {"log"} /\ pc' = pc
    BY <1>1 DEF ConnectLogThen, CommandInv
  <2> QED BY <1>1, <2>1 DEF ConnectLogThen, CommandInv
<1>2. CASE ~(linked < Logs)
  BY <1>2 DEF ConnectLogThen, CommandInv
<1> QED BY <1>1, <1>2

LEMMA LogUnlinks == ASSUME CommandInv, DisconnectLog PROVE CommandInv'
<1> USE DEF Running, ExitWith, given, results
<1>1. CASE linked > 0
  <2>1. linked' = linked - 1 /\ linked' \in Nat /\ (linked # 1 => linked' > 0)
    BY <1>1 DEF DisconnectLog, CommandInv
  <2>2. /\ on' \subseteq on /\ ("log" \in on' => linked' > 0)
        /\ cleaning = "logs" /\ cleaning' = cleaning /\ code' = code
    BY <1>1, <2>1 DEF DisconnectLog
  <2> QED BY <2>1, <2>2 DEF DisconnectLog, CommandInv
<1>2. CASE ~(linked > 0)
  BY <1>2 DEF DisconnectLog, CommandInv
<1> QED BY <1>1, <1>2

LEMMA CommandNext == ASSUME CommandInv, CsNext PROVE CommandInv'
<1> USE DEF Running, ExitWith, StartCleanup, given, results
<1>1. CASE CaptureFails
  BY <1>1 DEF CaptureFails, CommandInv
<1>2. CASE OpenBrowser
  BY <1>2 DEF OpenBrowser, CommandInv
<1>3. CASE ConnectLog
  BY <1>3, LogLinks DEF ConnectLog
<1>4. CASE WatchLog
  BY <1>4, LogLinks DEF WatchLog
<1>5. CASE StartNetwork
  BY <1>5 DEF StartNetwork, CommandInv
<1>6. CASE Capture
  BY <1>6 DEF Capture, CommandInv
<1>7. CASE EventTold
  BY <1>7 DEF EventTold, CommandInv
<1>8. CASE Deadline
  BY <1>8 DEF Deadline, CommandInv
<1>9. CASE KilledBySigint
  BY <1>9 DEF KilledBySigint, CommandInv
<1>10. CASE Interrupt
  BY <1>10 DEF Interrupt, CommandInv
<1>11. CASE InterruptWatch
  BY <1>11 DEF InterruptWatch, CommandInv
<1>12. CASE WatchFails
  BY <1>12 DEF WatchFails, CommandInv
<1>13. CASE DisconnectLog
  BY <1>13, LogUnlinks
<1>14. CASE StopNetwork
  BY <1>14 DEF StopNetwork, CommandInv
<1>15. CASE WriteReport
  BY <1>15 DEF WriteReport, CommandInv
<1>16. CASE WriteSession
  BY <1>16 DEF WriteSession, CommandInv
<1>17. CASE CleanupFails
  BY <1>17 DEF CleanupFails, CommandInv
<1> QED BY <1>1, <1>2, <1>3, <1>4, <1>5, <1>6, <1>7, <1>8, <1>9, <1>10, <1>11, <1>12, <1>13,
           <1>14, <1>15, <1>16, <1>17 DEF CsNext

LEMMA CommandSaves == ASSUME CommandInv PROVE SavedIsComplete
<1>1. ASSUME code = "0", ~hasty PROVE on = {} /\ (command = "capture" => {session, timeline, saved} = {collected})
  BY <1>1 DEF CommandInv
<1> QED BY <1>1 DEF SavedIsComplete

\* Exit code 0 of capture or watch, without a second SIGINT, means that every
\* source has stopped and that report and session hold all that was collected.
THEOREM ExitZeroIsComplete == CaptureSpec => []SavedIsComplete
<1>1. CaptureInit => CommandInv
  BY CommandStarts DEF CaptureInit
<1>2. CommandInv /\ [CaptureNext]_captureVars => CommandInv'
  BY CommandKept, CommandNext
     DEF CaptureNext, captureVars, TailStep, NetworkStep, BrowserStep, CommandStep, CorrelatorStep
<1>3. CommandInv => SavedIsComplete
  BY CommandSaves
<1> QED BY <1>1, <1>2, <1>3, PTL DEF CaptureSpec

-----------------------------------------------------------------------------
(* The browser *)

\* What launch and close have done when they wait.
LaunchAt ==
    /\ launching = "browser" => browser = 0 /\ context = 0 /\ page = 0
    /\ launching = "context" => browser = launches /\ context = 0 /\ page = 0
    /\ launching = "page" => browser = launches /\ context = launches /\ page = 0
    /\ launching = "goto" => browser = launches /\ context = launches /\ page = launches
    /\ launching # "no" => launches > 0 /\ closing = "no"

CloseAt ==
    /\ closing = "browser" => browser # 0 /\ context = 0
    /\ closing = "no" \/ ~(interval \/ listening)

\* A call awaits a page of a launch before the one that waits for its browser,
\* or the page that the adapter has.
CallsAt(o) ==
    ops[o].stage # "none" =>
        /\ ops[o].page \in 1..launches
        /\ launching = "browser" => ops[o].page < launches
        /\ ops[o].page = browser => page = browser

Alone ==
    /\ ~late
    /\ browser \in 0..launches /\ alive = {browser} \ {0}
    /\ context \in {0, browser} /\ page \in {0, browser}
    /\ interval \/ listening => page # 0
    /\ LaunchAt /\ CloseAt
    /\ \A o \in Op : CallsAt(o)

BrowserInv ==
    /\ launches \in Nat
    /\ launching \in {"no", "browser", "context", "page", "goto"}
    /\ closing \in {"no", "context", "browser"}
    /\ met \in BOOLEAN /\ late \in BOOLEAN
    /\ ops \in [Op -> [stage : {"none", "capture", "navigation", "input", "wait",
                                "pre-action", "click", "post-action"},
                       page : Nat]]
    /\ page \in Nat
    /\ ~met => Alone

LEMMA BrowserKept == ASSUME BrowserInv, UNCHANGED baVars PROVE BrowserInv'
BY DEF BrowserInv, Alone, LaunchAt, CloseAt, CallsAt, baVars, fields

LEMMA BrowserStarts == ASSUME BaInit PROVE BrowserInv
<1>1. /\ launches = 0 /\ launching = "no" /\ closing = "no" /\ browser = 0 /\ context = 0 /\ page = 0
      /\ interval = FALSE /\ listening = FALSE /\ alive = {} /\ late = FALSE /\ met = FALSE
      /\ ops = [o \in Op |-> Idle]
  BY DEF BaInit
<1>2. \A o \in Op : ops[o].stage = "none"
  BY <1>1 DEF Idle
<1>3. ops \in [Op -> [stage : {"none", "capture", "navigation", "input", "wait",
                              "pre-action", "click", "post-action"},
                     page : Nat]]
  BY <1>1 DEF Idle
<1>4. Alone
  BY <1>1, <1>2 DEF Alone, LaunchAt, CloseAt, CallsAt
<1> QED BY <1>1, <1>3, <1>4 DEF BrowserInv

\* A step of launch alone, from what it leaves and what it sets.
LEMMA LaunchMoves ==
    ASSUME BrowserInv,
           Launch \/ LaunchFails \/ LaunchBrowser \/ LaunchContext \/ LaunchPage \/ LaunchGoto
    PROVE  BrowserInv'
<1>1. ops' = ops /\ closing' = closing /\ late' = late
  BY DEF Launch, LaunchFails, LaunchBrowser, LaunchContext, LaunchPage, LaunchGoto
<1>2. launching' \in {"no", "browser", "context", "page", "goto"}
  BY DEF Launch, LaunchFails, LaunchBrowser, LaunchContext, LaunchPage, LaunchGoto
<1>3. met' \in BOOLEAN /\ (~met' => ~met)
  <2>1. CASE Launch
    BY <2>1, Zenon DEF Launch, BrowserInv
  <2>2. CASE ~Launch
    <3>1. met' = met
      BY <2>2 DEF LaunchFails, LaunchBrowser, LaunchContext, LaunchPage, LaunchGoto
    <3> QED BY <3>1 DEF BrowserInv
  <2> QED BY <2>1, <2>2
<1>4. launches' \in Nat /\ page' \in Nat
  <2>1. CASE Launch
    BY <2>1 DEF Launch, fields, BrowserInv
  <2>2. CASE ~Launch
    <3>1. launches' = launches /\ page' \in {page, launches}
      BY <2>2 DEF LaunchFails, LaunchBrowser, LaunchContext, LaunchPage, LaunchGoto, fields
    <3> QED BY <3>1 DEF BrowserInv
  <2> QED BY <2>1, <2>2
<1>5. ASSUME ~met' PROVE Alone'
  <2>1. Alone /\ launches \in Nat
    BY <1>3, <1>5 DEF BrowserInv
  <2>2. CASE Launch
    <3>1. /\ browser = 0 /\ context = 0 /\ page = 0 /\ launching' = "browser" /\ launches' = launches + 1
          /\ browser' = 0 /\ context' = 0 /\ page' = 0 /\ alive' = alive
          /\ interval' = interval /\ listening' = listening
      BY <2>1, <2>2 DEF Launch, fields, Alone
    <3>2. closing = "no"
      BY <2>2, <1>5, Zenon DEF Launch
    <3>3. \A o \in Op : CallsAt(o)'
      BY <2>1, <3>1, <1>1 DEF Alone, CallsAt, BrowserInv
    <3> QED BY <2>1, <3>1, <3>2, <3>3, <1>1 DEF Alone, LaunchAt, CloseAt
  <2>3. CASE LaunchFails
    BY <2>1, <2>3, <1>1 DEF LaunchFails, fields, Alone, LaunchAt, CloseAt, CallsAt
  <2>4. CASE LaunchBrowser
    <3>1. /\ launching = "browser" /\ launching' = "context" /\ launches' = launches /\ launches > 0
          /\ browser = 0 /\ context' = 0 /\ page' = 0 /\ browser' = launches /\ alive' = alive \cup {launches}
          /\ interval' = interval /\ listening' = listening /\ closing = "no" /\ context = 0 /\ page = 0
      BY <2>1, <2>4 DEF LaunchBrowser, Alone, LaunchAt
    <3>2. alive' = {browser'} \ {0}
      BY <2>1, <3>1 DEF Alone
    <3>3. \A o \in Op : CallsAt(o)'
      BY <2>1, <3>1, <1>1 DEF Alone, CallsAt, BrowserInv
    <3> QED BY <2>1, <3>1, <3>2, <3>3, <1>1 DEF Alone, LaunchAt, CloseAt
  <2>5. CASE LaunchContext
    <3>1. /\ launching = "context" /\ launching' = "page" /\ launches' = launches /\ launches > 0
          /\ browser = launches /\ context' = launches /\ page' = page /\ page = 0 /\ browser' = browser
          /\ alive' = alive /\ interval' = interval /\ listening' = listening /\ closing = "no"
      BY <2>1, <2>5 DEF LaunchContext, Alone, LaunchAt
    <3>2. \A o \in Op : CallsAt(o)'
      BY <2>1, <3>1, <1>1 DEF Alone, CallsAt
    <3> QED BY <2>1, <3>1, <3>2, <1>1 DEF Alone, LaunchAt, CloseAt
  <2>6. CASE LaunchPage
    <3>1. /\ launching = "page" /\ launching' = "goto" /\ launches' = launches /\ launches > 0
          /\ browser = launches /\ context = launches /\ context' = context /\ page' = launches
          /\ browser' = browser /\ alive' = alive /\ interval' = interval /\ closing = "no"
      BY <2>1, <2>6 DEF LaunchPage, Alone, LaunchAt
    <3>2. \A o \in Op : CallsAt(o)'
      BY <2>1, <3>1, <1>1 DEF Alone, CallsAt
    <3> QED BY <2>1, <3>1, <3>2, <1>1 DEF Alone, LaunchAt, CloseAt
  <2>7. CASE LaunchGoto
    <3>1. /\ launching = "goto" /\ launching' = "no" /\ launches' = launches /\ launches > 0
          /\ browser = launches /\ page = launches /\ page' = page /\ context' = context
          /\ browser' = browser /\ alive' = alive /\ listening' = listening /\ closing = "no"
      BY <2>1, <2>7 DEF LaunchGoto, Alone, LaunchAt
    <3>2. \A o \in Op : CallsAt(o)'
      BY <2>1, <3>1, <1>1 DEF Alone, CallsAt
    <3> QED BY <2>1, <3>1, <3>2, <1>1 DEF Alone, LaunchAt, CloseAt
  <2> QED BY <2>2, <2>3, <2>4, <2>5, <2>6, <2>7
<1> QED BY <1>1, <1>2, <1>3, <1>4, <1>5 DEF BrowserInv

LEMMA CloseMoves ==
    ASSUME BrowserInv,
           (Close /\ UNCHANGED launching) \/ LaunchGotoFails \/ CloseContext \/ CloseBrowser
    PROVE  BrowserInv'
<1>1. ops' = ops /\ launches' = launches /\ late' = late
  BY DEF Close, LaunchGotoFails, CloseContext, CloseBrowser, CloseStart
<1>2. closing' \in {"no", "context", "browser"} /\ page' \in {0, page} /\ launching' \in {"no", launching}
  BY DEF Close, LaunchGotoFails, CloseContext, CloseBrowser, CloseStart, CloseRest
<1>3. met' \in BOOLEAN /\ (~met' => ~met)
  <2>1. CASE Close
    BY <2>1, Zenon DEF Close, BrowserInv
  <2>2. CASE ~Close
    <3>1. met' = met
      BY <2>2 DEF LaunchGotoFails, CloseContext, CloseBrowser
    <3> QED BY <3>1 DEF BrowserInv
  <2> QED BY <2>1, <2>2
<1>4. page' \in Nat /\ launching' \in {"no", "browser", "context", "page", "goto"}
  BY <1>2 DEF BrowserInv
<1>5. ASSUME ~met' PROVE Alone'
  <2>1. Alone /\ launches \in Nat
    BY <1>3, <1>5 DEF BrowserInv
  <2>2. CASE CloseStart /\ closing = "no" /\ launching \in {"no", "goto"} /\ launching' = "no"
    <3>1. /\ browser' = browser /\ context' = context /\ alive' = alive /\ interval' = FALSE
          /\ listening' = IF page # 0 THEN FALSE ELSE listening
      BY <2>2 DEF CloseStart, DetachPageListeners
    <3>2. ~listening'
      <4>1. page # 0 => listening' = FALSE
        BY <3>1
      <4>2. page = 0 => ~listening
        BY <2>1 DEF Alone
      <4>3. page = 0 => listening' = listening
        BY <3>1
      <4> QED BY <4>1, <4>2, <4>3, Zenon
    <3>3. CASE context # 0
      <4>1. closing' = "context" /\ page' = page
        BY <2>2, <3>3 DEF CloseStart
      <4>2. \A o \in Op : CallsAt(o)'
        BY <2>1, <2>2, <3>1, <4>1, <1>1 DEF Alone, CallsAt
      <4> QED BY <2>1, <2>2, <3>1, <3>2, <4>1, <4>2, <1>1 DEF Alone, LaunchAt, CloseAt
    <3>4. CASE context = 0 /\ browser # 0
      <4>1. closing' = "browser" /\ page' = page
        BY <2>2, <3>4 DEF CloseStart, CloseRest
      <4>2. \A o \in Op : CallsAt(o)'
        BY <2>1, <2>2, <3>1, <4>1, <1>1 DEF Alone, CallsAt
      <4> QED BY <2>1, <2>2, <3>1, <3>2, <3>4, <4>1, <4>2, <1>1 DEF Alone, LaunchAt, CloseAt
    <3>5. CASE context = 0 /\ browser = 0
      <4>1. closing' = "no" /\ page' = 0 /\ page = 0
        BY <2>1, <2>2, <3>5 DEF CloseStart, CloseRest, Alone
      <4>2. \A o \in Op : CallsAt(o)'
        BY <2>1, <2>2, <3>1, <4>1, <1>1 DEF Alone, CallsAt
      <4> QED BY <2>1, <2>2, <3>1, <3>2, <3>5, <4>1, <4>2, <1>1 DEF Alone, LaunchAt, CloseAt
    <3> QED BY <3>3, <3>4, <3>5
  <2>3. CASE Close
    <3>1. launching = "no"
      BY <2>3, <1>5, Zenon DEF Close
    <3> QED BY <2>2, <2>3, <3>1, <1>2 DEF Close
  <2>4. CASE LaunchGotoFails
    BY <2>2, <2>4 DEF LaunchGotoFails
  <2>5. CASE CloseContext
    <3>1. /\ closing = "context" /\ context' = 0 /\ browser' = browser /\ launching' = launching
          /\ interval' = interval /\ listening' = listening /\ alive' = alive
          /\ launching = "no" /\ ~interval /\ ~listening
      BY <2>1, <2>5 DEF CloseContext, Alone, LaunchAt, CloseAt
    <3>2. /\ browser # 0 => closing' = "browser" /\ page' = page
          /\ browser = 0 => closing' = "no" /\ page' = 0 /\ page = 0
      BY <2>1, <2>5 DEF CloseContext, CloseRest, Alone
    <3>3. \A o \in Op : CallsAt(o)'
      BY <2>1, <3>1, <3>2, <1>1 DEF Alone, CallsAt
    <3> QED BY <2>1, <3>1, <3>2, <3>3, <1>1 DEF Alone, LaunchAt, CloseAt
  <2>6. CASE CloseBrowser
    <3>1. /\ closing = "browser" /\ closing' = "no" /\ context' = context /\ context = 0 /\ browser' = 0
          /\ page' = 0 /\ interval' = interval /\ listening' = listening /\ alive' = alive \ {browser}
          /\ launching' = launching /\ launching = "no" /\ ~interval /\ ~listening
      BY <2>1, <2>6 DEF CloseBrowser, Alone, LaunchAt, CloseAt
    <3>2. \A o \in Op : CallsAt(o)'
      BY <2>1, <3>1, <1>1 DEF Alone, CallsAt
    <3> QED BY <2>1, <3>1, <3>2, <1>1 DEF Alone, LaunchAt, CloseAt
  <2> QED BY <2>3, <2>4, <2>5, <2>6
<1> QED BY <1>1, <1>2, <1>3, <1>4, <1>5 DEF BrowserInv

\* Calls of the adapter begin, are answered and fail; launch and close wait.
LEMMA CallsMove ==
    ASSUME BrowserInv, UNCHANGED <<launching, closing, browser, context, page, interval, listening,
                                   alive, launches, met>>,
           late' \in BOOLEAN, Alone => ~late',
           ops' \in [Op -> [stage : {"none", "capture", "navigation", "input", "wait",
                                     "pre-action", "click", "post-action"},
                            page : Nat]],
           Alone => \A o \in Op : \/ ops'[o] = ops[o]
                                  \/ ops'[o].stage = "none"
                                  \/ ops[o].stage # "none" /\ ops'[o].page = ops[o].page
                                  \/ page # 0 /\ ops'[o].page = page
    PROVE  BrowserInv'
<1>1. ASSUME ~met' PROVE Alone'
  <2>1. Alone /\ launches \in Nat
    BY <1>1 DEF BrowserInv
  <2>2. ASSUME NEW o \in Op PROVE CallsAt(o)'
    BY <2>1 DEF Alone, CallsAt, LaunchAt
  <2>3. LaunchAt' /\ CloseAt'
    BY <2>1 DEF Alone, LaunchAt, CloseAt
  <2> QED BY <2>1, <2>2, <2>3 DEF Alone
<1> QED BY <1>1 DEF BrowserInv

LEMMA AwaitMoves ==
    ASSUME BrowserInv, NEW o \in Op, NEW stage \in {"capture", "navigation", "input", "wait", "pre-action"},
           Await(o, stage)
    PROVE  BrowserInv'
<1>1. /\ ops' = [ops EXCEPT ![o] = [stage |-> stage, page |-> page]] /\ page # 0
      /\ UNCHANGED <<launching, closing, browser, context, page, interval, listening, alive, late, launches, met>>
  BY DEF Await, fields
<1>2. ops' \in [Op -> [stage : {"none", "capture", "navigation", "input", "wait",
                                "pre-action", "click", "post-action"},
                       page : Nat]]
  BY <1>1 DEF BrowserInv
<1>3. \A q \in Op : ops'[q] = ops[q] \/ ops'[q].page = page
  BY <1>1 DEF BrowserInv
<1>4. late' \in BOOLEAN /\ (Alone => ~late')
  BY <1>1 DEF Alone, BrowserInv
<1> QED BY <1>1, <1>2, <1>3, <1>4, CallsMove

LEMMA FailMoves == ASSUME BrowserInv, NEW o \in Op, Fail(o) PROVE BrowserInv'
<1>1. /\ ops' = [ops EXCEPT ![o] = Idle]
      /\ UNCHANGED <<launching, closing, browser, context, page, interval, listening, alive, late, launches, met>>
  BY DEF Fail, fields
<1>2. ops' \in [Op -> [stage : {"none", "capture", "navigation", "input", "wait",
                                "pre-action", "click", "post-action"},
                       page : Nat]]
  BY <1>1 DEF BrowserInv, Idle
<1>3. \A q \in Op : ops'[q] = ops[q] \/ ops'[q].stage = "none"
  BY <1>1 DEF BrowserInv, Idle
<1>4. late' \in BOOLEAN /\ (Alone => ~late')
  BY <1>1 DEF Alone, BrowserInv
<1> QED BY <1>1, <1>2, <1>3, <1>4, CallsMove

\* What a page tells is told of the page that the adapter has.
LEMMA NotLate ==
    ASSUME BrowserInv, NEW l, Emit(l), Alone => l = page
    PROVE  late' \in BOOLEAN /\ (Alone => ~late')
<1>1. late' \in BOOLEAN
  BY Zenon DEF Emit
<1>2. ASSUME Alone PROVE ~late'
  <2>1. ~late /\ l = page
    BY <1>2 DEF Alone
  <2> QED BY <2>1, Zenon DEF Emit
<1> QED BY <1>1, <1>2

LEMMA AnswerMoves == ASSUME BrowserInv, NEW o \in Op, Answer(o) PROVE BrowserInv'
<1>1. PICK next \in {"click", "post-action", "none"} :
        /\ next = "post-action" => page # 0
        /\ ops' = [ops EXCEPT ![o] = IF next = "none" THEN Idle
                                     ELSE [stage |-> next,
                                           page |-> IF next = "post-action" THEN page ELSE @.page]]
  BY DEF Answer
<1>2. /\ UNCHANGED <<launching, closing, browser, context, page, interval, listening, alive, launches, met>>
      /\ ops[o].stage # "none" /\ ops[o].page \in alive
  BY DEF Answer, fields
<1>3. ops' \in [Op -> [stage : {"none", "capture", "navigation", "input", "wait",
                                "pre-action", "click", "post-action"},
                       page : Nat]]
  BY <1>1 DEF BrowserInv, Idle
<1>4. \A q \in Op : \/ ops'[q] = ops[q]
                    \/ ops'[q].stage = "none"
                    \/ ops[q].stage # "none" /\ ops'[q].page = ops[q].page
                    \/ page # 0 /\ ops'[q].page = page
  BY <1>1, <1>2 DEF BrowserInv, Idle
<1>5. Alone => ops[o].page = page
  BY <1>2 DEF Alone, CallsAt
<1>6. late' \in BOOLEAN /\ (Alone => ~late')
  BY <1>5, NotLate DEF Answer
<1> QED BY <1>2, <1>3, <1>4, <1>6, CallsMove

LEMMA EventMoves == ASSUME BrowserInv, OnEvent \/ PageEvent PROVE BrowserInv'
<1>1. UNCHANGED <<launching, closing, browser, context, page, interval, listening, alive, ops, launches, met>>
  BY DEF OnEvent, PageEvent, fields
<1>2. late' \in BOOLEAN /\ (Alone => ~late')
  <2>1. CASE OnEvent
    BY <2>1 DEF OnEvent, Alone, BrowserInv
  <2>2. CASE PageEvent
    BY <2>2, NotLate DEF PageEvent
  <2> QED BY <2>1, <2>2
<1>3. ops' \in [Op -> [stage : {"none", "capture", "navigation", "input", "wait",
                                "pre-action", "click", "post-action"},
                       page : Nat]]
  BY <1>1 DEF BrowserInv
<1> QED BY <1>1, <1>2, <1>3, CallsMove

LEMMA BrowserNext == ASSUME BrowserInv, BaNext PROVE BrowserInv'
<1>1. CASE Launch \/ LaunchFails \/ LaunchBrowser \/ LaunchContext \/ LaunchPage \/ LaunchGoto
  BY <1>1, LaunchMoves
<1>2. CASE (Close /\ UNCHANGED launching) \/ LaunchGotoFails \/ CloseContext \/ CloseBrowser
  BY <1>2, CloseMoves
<1>3. CASE OnEvent \/ PageEvent
  BY <1>3, EventMoves
<1>4. ASSUME NEW o \in Op,
             \/ Periodic(o) \/ TakeSnapshot(o) \/ Navigate(o) \/ Type(o) \/ WaitForNavigation(o)
             \/ Click(o)
      PROVE  BrowserInv'
  BY <1>4, AwaitMoves DEF Periodic, TakeSnapshot, Navigate, Type, WaitForNavigation, Click
<1>5. ASSUME NEW o \in Op, Answer(o) \/ Fail(o) PROVE BrowserInv'
  BY <1>5, AnswerMoves, FailMoves
<1> QED BY <1>1, <1>2, <1>3, <1>4, <1>5 DEF BaNext

LEMMA BrowserQuiet == ASSUME BrowserInv PROVE ClosedIsQuiet
<1>1. ASSUME ~met PROVE Alone
  BY <1>1 DEF BrowserInv
<1>2. ASSUME Alone
      PROVE  /\ ~late /\ alive = {browser} \ {0}
             /\ (interval \/ listening => page # 0)
             /\ {context, page} \subseteq {0, browser}
  BY <1>2 DEF Alone
<1> QED BY <1>1, <1>2 DEF ClosedIsQuiet

\* As long as launch and close do not overlap, the browser that runs is the
\* one the adapter has, no event comes from another page, and what is closed
\* has neither interval nor listener - however calls, answers and failures mix.
THEOREM CloseIsQuiet == CaptureSpec => []ClosedIsQuiet
<1>1. CaptureInit => BrowserInv
  BY BrowserStarts DEF CaptureInit
<1>2. BrowserInv /\ [CaptureNext]_captureVars => BrowserInv'
  BY BrowserKept, BrowserNext
     DEF CaptureNext, captureVars, TailStep, NetworkStep, BrowserStep, CommandStep, CorrelatorStep
<1>3. BrowserInv => ClosedIsQuiet
  BY BrowserQuiet
<1> QED BY <1>1, <1>2, <1>3, PTL DEF CaptureSpec

-----------------------------------------------------------------------------
(* Sequences that hold an element once *)

\* A set of numbers that is not empty has a least one.
LEMMA NatMin ==
    ASSUME NEW S, S \subseteq Nat, S # {}
    PROVE  /\ Min(S) \in S
           /\ \A x \in S : Min(S) <= x
<1>1. PICK x \in S : \A y \in S : ~(<<y, x>> \in OpToRel(<, Nat))
  BY NatLessThanWellFounded, WFMin
<1>2. \A y \in S : ~(y < x)
  BY <1>1 DEF OpToRel
<1>3. \A y \in S : x <= y
  BY <1>2
<1> QED BY <1>3 DEF Min

\* RemoveAt takes one element out.
LEMMA RemoveOne ==
    ASSUME NEW S, NEW p \in Seq(S), IsInjective(p), NEW i \in 1..Len(p)
    PROVE  /\ RemoveAt(p, i) \in Seq(S) /\ IsInjective(RemoveAt(p, i))
           /\ Len(RemoveAt(p, i)) = Len(p) - 1
           /\ Range(RemoveAt(p, i)) = Range(p) \ {p[i]}
<1> DEFINE n == Len(p)
           q == RemoveAt(p, i)
           at(j) == IF j < i THEN j ELSE j + 1
<1>1. n \in Nat /\ DOMAIN p = 1..n /\ i \in 1..n
  BY LenProperties
<1>2. \A j \in 1..n : p[j] \in S
  BY <1>1
<1> DEFINE u == SubSeq(p, 1, i - 1)
           v == SubSeq(p, i + 1, n)
<1>3. /\ u \in Seq(S) /\ Len(u) = i - 1
      /\ \A j \in 1..(i - 1) : u[j] = p[j]
  <2>1. \A j \in 1..(i - 1) : p[j] \in S
    BY <1>1, <1>2
  <2>2. /\ u \in Seq(S) /\ Len(u) = IF 1 <= i - 1 THEN i - 1 - 1 + 1 ELSE 0
        /\ \A j \in 1..(i - 1 - 1 + 1) : u[j] = p[1 + j - 1]
    BY <2>1, <1>1, SubSeqProperties
  <2> HIDE DEF u
  <2>3. Len(u) = i - 1
    BY <2>2, <1>1
  <2>4. ASSUME NEW j \in 1..(i - 1) PROVE u[j] = p[j]
    <3>1. j \in 1..(i - 1 - 1 + 1) /\ 1 + j - 1 = j
      BY <1>1
    <3> QED BY <3>1, <2>2
  <2> QED BY <2>2, <2>3, <2>4
<1>4. /\ v \in Seq(S) /\ Len(v) = n - i
      /\ \A j \in 1..(n - i) : v[j] = p[i + j]
  <2>1. \A j \in (i + 1)..n : p[j] \in S
    BY <1>1, <1>2
  <2>2. /\ v \in Seq(S) /\ Len(v) = IF i + 1 <= n THEN n - (i + 1) + 1 ELSE 0
        /\ \A j \in 1..(n - (i + 1) + 1) : v[j] = p[i + 1 + j - 1]
    BY <2>1, <1>1, SubSeqProperties
  <2> HIDE DEF v
  <2>3. Len(v) = n - i
    <3>1. CASE i + 1 <= n
      BY <2>2, <3>1, <1>1
    <3>2. CASE i = n
      <4>1. ~(i + 1 <= n) /\ n - i = 0
        BY <3>2, <1>1
      <4> QED BY <4>1, <2>2
    <3> HIDE DEF n
    <3>3. i + 1 <= n \/ i = n
      BY <1>1
    <3> QED BY <3>1, <3>2, <3>3
  <2>4. ASSUME NEW j \in 1..(n - i) PROVE v[j] = p[i + j]
    <3>1. j \in 1..(n - (i + 1) + 1) /\ i + 1 + j - 1 = i + j
      BY <1>1
    <3> QED BY <3>1, <2>2
  <2> QED BY <2>2, <2>3, <2>4
<1> HIDE DEF u, v
<1>5. /\ q \in Seq(S) /\ Len(q) = n - 1
      /\ \A j \in 1..(n - 1) : q[j] = IF j <= i - 1 THEN u[j] ELSE v[j - (i - 1)]
  <2>1. q = u \o v
    BY DEF RemoveAt, u, v
  <2>2. Len(u) + Len(v) = n - 1
    BY <1>1, <1>3, <1>4
  <2>3. /\ u \o v \in Seq(S) /\ Len(u \o v) = Len(u) + Len(v)
        /\ \A j \in 1..(Len(u) + Len(v)) : (u \o v)[j] = IF j <= Len(u) THEN u[j] ELSE v[j - Len(u)]
    BY <1>3, <1>4, ConcatProperties
  <2> QED BY <2>1, <2>2, <2>3, <1>3
<1>6. ASSUME NEW j \in 1..(n - 1) PROVE q[j] = p[at(j)] /\ at(j) \in 1..n /\ at(j) # i
  <2>1. CASE j < i
    BY <2>1, <1>1, <1>3, <1>5
  <2>2. CASE ~(j < i)
    <3>1. j - (i - 1) \in 1..(n - i) /\ i + (j - (i - 1)) = j + 1 /\ ~(j <= i - 1)
      BY <2>2, <1>1
    <3>2. q[j] = v[j - (i - 1)]
      BY <3>1, <1>5
    <3>3. v[j - (i - 1)] = p[j + 1]
      BY <3>1, <1>4
    <3> QED BY <2>2, <3>2, <3>3, <1>1
  <2> QED BY <2>1, <2>2
<1>7. DOMAIN q = 1..(n - 1)
  BY <1>5, <1>1
<1> HIDE DEF q
<1>8. IsInjective(q)
  <2> SUFFICES ASSUME NEW a \in 1..(n - 1), NEW b \in 1..(n - 1), q[a] = q[b] PROVE a = b
    BY <1>7 DEF IsInjective
  <2>1. p[at(a)] = p[at(b)] /\ at(a) \in 1..n /\ at(b) \in 1..n
    BY <1>6
  <2>2. at(a) = at(b)
    BY <2>1, <1>1 DEF IsInjective
  <2> QED BY <2>2, <1>1
<1>9. Range(q) \subseteq Range(p) \ {p[i]}
  <2> SUFFICES ASSUME NEW a \in 1..(n - 1) PROVE q[a] \in Range(p) \ {p[i]}
    BY <1>7 DEF Range
  <2>1. q[a] = p[at(a)] /\ at(a) \in 1..n /\ at(a) # i
    BY <1>6
  <2> HIDE DEF at
  <2>2. p[at(a)] \in Range(p) /\ p[at(a)] # p[i]
    BY <2>1, <1>1 DEF Range, IsInjective
  <2> QED BY <2>1, <2>2
<1>10. Range(p) \ {p[i]} \subseteq Range(q)
  <2> SUFFICES ASSUME NEW k \in 1..n, p[k] # p[i] PROVE p[k] \in Range(q)
    BY <1>1 DEF Range
  <2>1. PICK j \in 1..(n - 1) : at(j) = k
    <3>1. CASE k < i
      BY <3>1, <1>1
    <3>2. CASE k > i
      <4>1. k - 1 \in 1..(n - 1) /\ at(k - 1) = k
        BY <3>2, <1>1
      <4> QED BY <4>1
    <3> QED BY <3>1, <3>2, <1>1
  <2>2. q[j] = p[k]
    BY <2>1, <1>6
  <2> QED BY <2>1, <2>2, <1>7 DEF Range
<1> QED BY <1>5, <1>8, <1>9, <1>10 DEF q

\* RemoveFirst takes an element out, if it is there.
LEMMA RemoveElement ==
    ASSUME NEW S, NEW p \in Seq(S), IsInjective(p), NEW e
    PROVE  /\ RemoveFirst(p, e) \in Seq(S) /\ IsInjective(RemoveFirst(p, e))
           /\ Len(RemoveFirst(p, e)) <= Len(p)
           /\ Range(RemoveFirst(p, e)) = Range(p) \ {e}
<1>1. Len(p) \in Nat /\ DOMAIN p = 1..Len(p)
  BY LenProperties
<1>2. CASE \E i \in 1..Len(p) : p[i] = e
  <2> DEFINE I == {i \in 1..Len(p) : p[i] = e}
  <2>1. I # {} /\ I \subseteq Nat
    BY <1>1, <1>2
  <2>2. Min(I) \in I
    BY <2>1, NatMin
  <2>3. RemoveFirst(p, e) = RemoveAt(p, Min(I))
    BY <1>2, <2>1 DEF RemoveFirst, SelectInSeq
  <2> HIDE DEF I
  <2>4. Min(I) \in 1..Len(p) /\ p[Min(I)] = e
    BY <2>2 DEF I
  <2> QED BY <2>3, <2>4, <1>1, RemoveOne
<1>3. CASE ~\E i \in 1..Len(p) : p[i] = e
  <2>1. RemoveFirst(p, e) = p /\ e \notin Range(p)
    BY <1>3, <1>1 DEF RemoveFirst, Range
  <2> QED BY <2>1, <1>1
<1> QED BY <1>2, <1>3

\* A new element at the end.
LEMMA AppendElement ==
    ASSUME NEW S, NEW p \in Seq(S), IsInjective(p), NEW e \in S, e \notin Range(p)
    PROVE  /\ Append(p, e) \in Seq(S) /\ IsInjective(Append(p, e))
           /\ Len(Append(p, e)) = Len(p) + 1
           /\ Range(Append(p, e)) = Range(p) \cup {e}
<1> DEFINE n == Len(p)
           q == Append(p, e)
<1>1. n \in Nat /\ DOMAIN p = 1..n
  BY LenProperties
<1>2. /\ q \in Seq(S) /\ Len(q) = n + 1 /\ DOMAIN q = 1..(n + 1) /\ q[n + 1] = e
      /\ \A j \in 1..n : q[j] = p[j]
  BY <1>1, AppendProperties
<1> HIDE DEF q
<1>3. \A j \in 1..n : p[j] \in Range(p) /\ p[j] # e
  BY <1>1 DEF Range
<1>4. IsInjective(q)
  <2> SUFFICES ASSUME NEW a \in 1..(n + 1), NEW b \in 1..(n + 1), q[a] = q[b] PROVE a = b
    BY <1>2 DEF IsInjective
  <2>1. CASE a \in 1..n /\ b \in 1..n
    BY <2>1, <1>1, <1>2 DEF IsInjective
  <2>2. CASE a = n + 1 \/ b = n + 1
    BY <2>2, <1>1, <1>2, <1>3
  <2> QED BY <2>1, <2>2, <1>1
<1>5. Range(q) = Range(p) \cup {e}
  <2>1. \A a \in 1..(n + 1) : a \in 1..n \/ a = n + 1
    BY <1>1
  <2>2. Range(q) \subseteq Range(p) \cup {e}
    BY <2>1, <1>2, <1>3 DEF Range
  <2>3. Range(p) \subseteq Range(q)
    <3>1. \A j \in 1..n : j \in 1..(n + 1)
      BY <1>1
    <3> QED BY <3>1, <1>1, <1>2 DEF Range
  <2>4. e \in Range(q)
    <3>1. n + 1 \in 1..(n + 1)
      BY <1>1
    <3> QED BY <3>1, <1>2 DEF Range
  <2> QED BY <2>2, <2>3, <2>4
<1> QED BY <1>2, <1>4, <1>5 DEF q

-----------------------------------------------------------------------------
(* The requests *)

Stages == {"new", "resolving", "upstream", "streaming", "hung", "done", "failed",
           "connecting", "tunnel", "closed"}

Exchange == [stage : Stages, captured : BOOLEAN, client : {"none", "open", "closed"}, heads : Nat,
             read : BOOLEAN, forwarded : BOOLEAN, ends : Nat, failing : BOOLEAN]

\* How far a request is, how often its answer has begun and what was told of
\* it fit.
Answered(s, t) ==
    /\ s.stage = "new" => ~s.captured /\ s.client = "none" /\ ~s.read
    /\ s.client = "none" => s.stage = "new"
    /\ s.stage \in {"new", "resolving", "upstream", "connecting"} => s.heads = 0
    /\ s.stage \in {"streaming", "hung", "done", "failed", "tunnel"} => s.heads = 1
    /\ s.stage \in {"connecting", "tunnel", "closed"} => ~s.captured
    /\ s.failing => s.stage = "failed"
    /\ t.request \in 0..1 /\ (t.request = 1 => s.captured /\ s.read)
    /\ t.response > 0 => s.captured /\ s.stage = "done"
    /\ t.response <= IF mode = "proxy" THEN 1 ELSE s.ends

AnswerInv ==
    /\ req \in [Request -> Exchange]
    /\ told \in [Request -> [request : Nat, response : Nat]]
    /\ \A r \in Request : Answered(req[r], told[r])

LEMMA AnswerKept == ASSUME AnswerInv, UNCHANGED <<mode, req, told>> PROVE AnswerInv'
BY DEF AnswerInv, Answered

LEMMA AnswerStarts == ASSUME NcInit PROVE AnswerInv
<1>1. req = [r \in Request |-> Fresh] /\ told = [r \in Request |-> [request |-> 0, response |-> 0]]
  BY DEF NcInit
<1>2. Fresh \in Exchange
  BY DEF Fresh, Exchange, Stages
<1>3. ASSUME NEW r \in Request PROVE Answered(req[r], told[r])
  BY <1>1 DEF Answered, Fresh
<1> QED BY <1>1, <1>2, <1>3 DEF AnswerInv

\* One request goes on and nothing is told, or one event of it is.
LEMMA OneAnswers ==
    ASSUME AnswerInv, NEW r \in Request, NEW s \in Exchange, Set(r, s), mode' = mode,
           NEW t \in [request : Nat, response : Nat],
           told' = [told EXCEPT ![r] = t], Answered(s, t)
    PROVE  AnswerInv'
<1>1. /\ req' = [req EXCEPT ![r] = s] /\ req' \in [Request -> Exchange] /\ req'[r] = s
      /\ \A q \in Request \ {r} : req'[q] = req[q]
  BY DEF Set, AnswerInv
<1>2. /\ told' \in [Request -> [request : Nat, response : Nat]] /\ told'[r] = t
      /\ \A q \in Request \ {r} : told'[q] = told[q]
  BY DEF AnswerInv
<1>3. \A q \in Request : Answered(req'[q], told'[q])
  BY <1>1, <1>2 DEF AnswerInv
<1>4. \A q \in Request : Answered(req[q], told[q])'
  BY <1>3 DEF Answered
<1> QED BY <1>1, <1>2, <1>4 DEF AnswerInv

LEMMA SilentAnswers ==
    ASSUME AnswerInv, NEW r \in Request, NEW s \in Exchange, Set(r, s), mode' = mode, Silent,
           Answered(s, told[r])
    PROVE  AnswerInv'
<1>1. told' = told /\ told[r] \in [request : Nat, response : Nat] /\ told' = [told EXCEPT ![r] = told[r]]
  BY DEF Silent, AnswerInv
<1> QED BY <1>1, OneAnswers

LEMMA ToldAnswers ==
    ASSUME AnswerInv, NEW r \in Request, NEW s \in Exchange, Set(r, s),
           NEW what \in {"request", "response"}, mode' = mode, Tell(r, what),
           Answered(s, told[r]), s.captured,
           what = "request" => s.read /\ told[r].request = 0,
           what = "response" => /\ s.stage = "done"
                                /\ told[r].response + 1 <= IF mode = "proxy" THEN 1 ELSE s.ends
    PROVE  AnswerInv'
<1>1. CASE server = "off"
  BY <1>1, SilentAnswers DEF Tell, Silent
<1>2. CASE server # "off"
  <2> DEFINE t == [told[r] EXCEPT ![what] = @ + 1]
  <2>1. told \in [Request -> [request : Nat, response : Nat]]
    BY DEF AnswerInv
  <2>2. told' = [told EXCEPT ![r] = t]
    BY <1>2, <2>1 DEF Tell
  <2>3. /\ told[r].request \in Nat /\ told[r].response \in Nat /\ told[r][what] + 1 \in Nat
        /\ t \in [request : Nat, response : Nat]
    BY <2>1
  <2>4. /\ t.request = IF what = "request" THEN told[r].request + 1 ELSE told[r].request
        /\ t.response = IF what = "response" THEN told[r].response + 1 ELSE told[r].response
    BY <2>1
  <2> HIDE DEF t
  <2>5. Answered(s, t)
    BY <2>3, <2>4 DEF Answered
  <2> QED BY <2>2, <2>3, <2>5, OneAnswers
<1> QED BY <1>1, <1>2

LEMMA RequestAnswers ==
    ASSUME AnswerInv, NEW r \in Request,
           \/ ForwardRequest(r) \/ Refuse(r) \/ HandleRequest(r) \/ Body(r)
           \/ mode = "proxy" /\ (\/ Resolve(r) \/ Respond(r) \/ ResponseEnds(r) \/ UpstreamTimeout(r)
                                 \/ UpstreamError(r) \/ UpstreamDies(r))
           \/ ConnectionCloses(r) \/ Tunnel(r) \/ TunnelOpens(r) \/ TunnelEnds(r)
           \/ Middleware(r) \/ MiddlewareBody(r) \/ MiddlewareEnd(r)
    PROVE  AnswerInv'
<1>1. /\ req[r] \in Exchange /\ told[r] \in [request : Nat, response : Nat]
      /\ Answered(req[r], told[r])
  BY DEF AnswerInv
<1>0. mode' = mode
  BY DEF ForwardRequest, Refuse, HandleRequest, Body, Resolve, Respond, ResponseEnds, UpstreamTimeout,
         UpstreamError, UpstreamDies, ConnectionCloses, Tunnel, TunnelOpens, TunnelEnds, Middleware,
         MiddlewareBody, MiddlewareEnd, Lifecycle
<1>2. CASE ForwardRequest(r)
  <2> DEFINE s == [req[r] EXCEPT !.stage = "resolving", !.client = "open"]
             u == [req[r] EXCEPT !.stage = "failed", !.client = "open", !.heads = 1]
  <2>1. (Set(r, s) \/ Set(r, u)) /\ Silent
    BY <1>2 DEF ForwardRequest
  <2>2. s \in Exchange /\ u \in Exchange
    BY <1>1 DEF Exchange, Stages
  <2>3. Answered(s, told[r]) /\ Answered(u, told[r])
    BY <1>1, <1>2 DEF ForwardRequest, Answered, Exchange
  <2> QED BY <1>0, <2>1, <2>2, <2>3, SilentAnswers
<1>3. CASE Refuse(r)
  <2> DEFINE s == [req[r] EXCEPT !.stage = "failed", !.client = "open", !.heads = 1]
  <2>1. Set(r, s) /\ Silent
    BY <1>3 DEF Refuse
  <2>2. s \in Exchange
    BY <1>1 DEF Exchange, Stages
  <2>3. Answered(s, told[r])
    BY <1>1, <1>3 DEF Refuse, Answered, Exchange
  <2> QED BY <1>0, <2>1, <2>2, <2>3, SilentAnswers
<1>4. CASE HandleRequest(r)
  <2> DEFINE s == [req[r] EXCEPT !.stage = "resolving", !.client = "open", !.captured = TRUE]
             u == [req[r] EXCEPT !.stage = "failed", !.client = "open", !.captured = TRUE, !.heads = 1]
  <2>1. (Set(r, s) \/ Set(r, u)) /\ Silent
    BY <1>4 DEF HandleRequest
  <2>2. s \in Exchange /\ u \in Exchange
    BY <1>1 DEF Exchange, Stages
  <2>3. Answered(s, told[r]) /\ Answered(u, told[r])
    BY <1>1, <1>4 DEF HandleRequest, Answered, Exchange
  <2> QED BY <1>0, <2>1, <2>2, <2>3, SilentAnswers
<1>5. CASE mode = "proxy" /\ Resolve(r)
  <2> DEFINE s == [req[r] EXCEPT !.stage = "upstream"]
             u == [req[r] EXCEPT !.stage = "failed", !.heads = @ + 1]
  <2>1. (Set(r, s) \/ Set(r, u)) /\ Silent
    BY <1>5 DEF Resolve
  <2>2. s \in Exchange /\ u \in Exchange
    <3>1. req[r].heads + 1 \in Nat
      BY <1>1 DEF Exchange
    <3> QED BY <1>1, <3>1 DEF Exchange, Stages
  <2>3. Answered(s, told[r]) /\ Answered(u, told[r])
    BY <1>1, <1>5 DEF Resolve, Answered, Exchange
  <2> QED BY <1>0, <2>1, <2>2, <2>3, SilentAnswers
<1>6. CASE mode = "proxy" /\ Respond(r)
  <2> DEFINE s == [req[r] EXCEPT !.stage = "streaming", !.heads = @ + 1]
  <2>1. Set(r, s) /\ Silent
    BY <1>6 DEF Respond
  <2>2. s \in Exchange
    <3>1. req[r].heads + 1 \in Nat
      BY <1>1 DEF Exchange
    <3> QED BY <1>1, <3>1 DEF Exchange, Stages
  <2>3. Answered(s, told[r])
    BY <1>1, <1>6 DEF Respond, Answered, Exchange
  <2> QED BY <1>0, <2>1, <2>2, <2>3, SilentAnswers
<1>7. CASE mode = "proxy" /\ UpstreamTimeout(r)
  <2> DEFINE s == [req[r] EXCEPT !.stage = "failed", !.heads = 1, !.failing = TRUE]
             u == [req[r] EXCEPT !.stage = "hung"]
  <2>1. (IF req[r].heads = 0 THEN Set(r, s) ELSE Set(r, u)) /\ Silent
    BY <1>7 DEF UpstreamTimeout
  <2>2. s \in Exchange /\ u \in Exchange
    BY <1>1 DEF Exchange, Stages
  <2>3. /\ req[r].heads = 0 => Answered(s, told[r])
        /\ req[r].heads # 0 => Answered(u, told[r])
    BY <1>1, <1>7 DEF UpstreamTimeout, Answered, Exchange
  <2> QED BY <1>0, <2>1, <2>2, <2>3, SilentAnswers
<1>8. CASE mode = "proxy" /\ UpstreamError(r)
  <2> DEFINE s == [req[r] EXCEPT !.stage = "failed", !.failing = FALSE, !.heads = IF @ = 0 THEN 1 ELSE @]
  <2>1. Set(r, s) /\ Silent
    BY <1>8 DEF UpstreamError
  <2>2. s \in Exchange
    BY <1>1 DEF Exchange, Stages
  <2>3. Answered(s, told[r])
    BY <1>1, <1>8 DEF UpstreamError, Answered, Exchange
  <2> QED BY <1>0, <2>1, <2>2, <2>3, SilentAnswers
<1>9. CASE mode = "proxy" /\ UpstreamDies(r)
  <2> DEFINE s == [req[r] EXCEPT !.stage = "hung"]
  <2>1. Set(r, s) /\ Silent
    BY <1>9 DEF UpstreamDies
  <2>2. s \in Exchange
    BY <1>1 DEF Exchange, Stages
  <2>3. Answered(s, told[r])
    BY <1>1, <1>9 DEF UpstreamDies, Answered, Exchange
  <2> QED BY <1>0, <2>1, <2>2, <2>3, SilentAnswers
<1>10. CASE ConnectionCloses(r)
  <2> DEFINE s == [req[r] EXCEPT !.client = "closed"]
  <2>1. Set(r, s) /\ Silent
    BY <1>10 DEF ConnectionCloses
  <2>2. s \in Exchange
    BY <1>1 DEF Exchange, Stages
  <2>3. Answered(s, told[r])
    BY <1>1, <1>10 DEF ConnectionCloses, Answered, Exchange
  <2> QED BY <1>0, <2>1, <2>2, <2>3, SilentAnswers
<1>11. CASE Tunnel(r)
  <2> DEFINE s == [req[r] EXCEPT !.stage = "connecting", !.client = "open"]
  <2>1. Set(r, s) /\ Silent
    BY <1>11 DEF Tunnel
  <2>2. s \in Exchange
    BY <1>1 DEF Exchange, Stages
  <2>3. Answered(s, told[r])
    BY <1>1, <1>11 DEF Tunnel, Answered, Exchange
  <2> QED BY <1>0, <2>1, <2>2, <2>3, SilentAnswers
<1>12. CASE TunnelOpens(r)
  <2> DEFINE s == [req[r] EXCEPT !.stage = "tunnel", !.heads = 1]
  <2>1. Set(r, s) /\ Silent
    BY <1>12 DEF TunnelOpens
  <2>2. s \in Exchange
    BY <1>1 DEF Exchange, Stages
  <2>3. Answered(s, told[r])
    BY <1>1, <1>12 DEF TunnelOpens, Answered, Exchange
  <2> QED BY <1>0, <2>1, <2>2, <2>3, SilentAnswers
<1>13. CASE Middleware(r)
  <2> DEFINE s == [req[r] EXCEPT !.stage = "upstream", !.client = "open"]
             u == [req[r] EXCEPT !.stage = "upstream", !.client = "open", !.captured = TRUE]
  <2>1. (Set(r, s) \/ Set(r, u)) /\ Silent
    BY <1>13 DEF Middleware
  <2>2. s \in Exchange /\ u \in Exchange
    BY <1>1 DEF Exchange, Stages
  <2>3. Answered(s, told[r]) /\ Answered(u, told[r])
    BY <1>1, <1>13 DEF Middleware, Answered, Exchange
  <2> QED BY <1>0, <2>1, <2>2, <2>3, SilentAnswers
<1>14. CASE TunnelEnds(r)
  <2>1. PICK heads \in req[r].heads..req[r].heads + 1 :
          Set(r, [req[r] EXCEPT !.stage = "closed", !.client = "closed", !.heads = heads])
    BY <1>14 DEF TunnelEnds
  <2> DEFINE s == [req[r] EXCEPT !.stage = "closed", !.client = "closed", !.heads = heads]
  <2>2. s \in Exchange
    <3>1. heads \in Nat
      BY <1>1 DEF Exchange
    <3> QED BY <1>1, <3>1 DEF Exchange, Stages
  <2>3. Answered(s, told[r]) /\ Silent
    BY <1>1, <1>14 DEF TunnelEnds, Answered, Exchange
  <2> QED BY <1>0, <2>1, <2>2, <2>3, SilentAnswers
<1>15. CASE Body(r)
  <2> DEFINE s == [req[r] EXCEPT !.read = TRUE, !.forwarded = req[r].stage \in {"upstream", "streaming"}]
  <2>1. /\ Set(r, s)
        /\ \/ req[r].captured /\ Tell(r, "request")
           \/ ~req[r].captured /\ Silent
    BY <1>15 DEF Body
  <2>2. s \in Exchange
    <3>1. CASE req[r].stage \in {"upstream", "streaming"}
      <4>1. s = [req[r] EXCEPT !.read = TRUE, !.forwarded = TRUE]
        BY <3>1
      <4> QED BY <1>1, <4>1 DEF Exchange, Stages
    <3>2. CASE req[r].stage \notin {"upstream", "streaming"}
      <4>1. s = [req[r] EXCEPT !.read = TRUE, !.forwarded = FALSE]
        <5>1. (req[r].stage \in {"upstream", "streaming"}) = FALSE
          BY <3>2
        <5> QED BY <5>1, Zenon
      <4> QED BY <1>1, <4>1 DEF Exchange, Stages
    <3> QED BY <3>1, <3>2
  <2>3. Answered(s, told[r]) /\ told[r].request = 0
    BY <1>1, <1>15 DEF Body, Answered, Exchange
  <2>4. req[r].captured => s.captured
    BY <1>1 DEF Exchange
  <2>5. s.read
    BY <1>1 DEF Exchange
  <2> HIDE DEF s
  <2> QED BY <1>0, <2>1, <2>2, <2>3, <2>4, <2>5, ToldAnswers, SilentAnswers
<1>16. CASE MiddlewareBody(r)
  <2> DEFINE s == [req[r] EXCEPT !.read = TRUE]
  <2>1. /\ Set(r, s)
        /\ \/ req[r].captured /\ Tell(r, "request")
           \/ ~req[r].captured /\ Silent
    BY <1>16 DEF MiddlewareBody
  <2>2. s \in Exchange
    BY <1>1 DEF Exchange, Stages
  <2>3. Answered(s, told[r]) /\ told[r].request = 0
    BY <1>1, <1>16 DEF MiddlewareBody, Answered, Exchange
  <2>4. req[r].captured => s.captured
    BY <1>1 DEF Exchange
  <2>5. s.read
    BY <1>1 DEF Exchange
  <2> HIDE DEF s
  <2> QED BY <1>0, <2>1, <2>2, <2>3, <2>4, <2>5, ToldAnswers, SilentAnswers
<1>17. CASE mode = "proxy" /\ ResponseEnds(r)
  <2> DEFINE s == [req[r] EXCEPT !.stage = "done"]
  <2>1. /\ Set(r, s)
        /\ \/ req[r].captured /\ Tell(r, "response")
           \/ ~req[r].captured /\ Silent
    BY <1>17 DEF ResponseEnds
  <2>2. s \in Exchange
    BY <1>1 DEF Exchange, Stages
  <2>3. Answered(s, told[r]) /\ told[r].response = 0
    BY <1>1, <1>17 DEF ResponseEnds, Answered, Exchange
  <2>4. req[r].captured => s.captured
    BY <1>1 DEF Exchange
  <2>5. s.stage = "done"
    BY <1>1 DEF Exchange
  <2> HIDE DEF s
  <2> QED BY <1>0, <1>17, <2>1, <2>2, <2>3, <2>4, <2>5, ToldAnswers, SilentAnswers
<1>18. CASE MiddlewareEnd(r)
  <2> DEFINE s == [req[r] EXCEPT !.stage = "done", !.client = "closed", !.heads = 1, !.ends = @ + 1]
  <2>1. /\ Set(r, s)
        /\ \/ req[r].captured /\ Tell(r, "response")
           \/ ~req[r].captured /\ Silent
    BY <1>18 DEF MiddlewareEnd
  <2>2. s \in Exchange
    <3>1. req[r].ends + 1 \in Nat
      BY <1>1 DEF Exchange
    <3> QED BY <1>1, <3>1 DEF Exchange, Stages
  <2>3. Answered(s, told[r]) /\ told[r].response + 1 <= IF mode = "proxy" THEN 1 ELSE s.ends
    BY <1>1, <1>18 DEF MiddlewareEnd, Answered, Exchange
  <2>4. req[r].captured => s.captured
    BY <1>1 DEF Exchange
  <2>5. s.stage = "done"
    BY <1>1 DEF Exchange
  <2> HIDE DEF s
  <2> QED BY <1>0, <2>1, <2>2, <2>3, <2>4, <2>5, ToldAnswers, SilentAnswers
<1> QED BY <1>2, <1>3, <1>4, <1>5, <1>6, <1>7, <1>8, <1>9, <1>10, <1>11, <1>12, <1>13, <1>14, <1>15, <1>16, <1>17, <1>18

\* The captured requests whose connection is open.
Live == {r \in Request : req[r].captured /\ req[r].client = "open"}

CountInv ==
    /\ mode \in {"proxy", "middleware"}
    /\ mode = "proxy" => active = Live
    /\ mode = "middleware" => active = {} /\ pending = <<>>
    /\ Cardinality(active) <= MaxActive
    /\ pending \in Seq(Request) /\ IsInjective(pending) /\ Len(pending) <= MaxPending
    /\ \A r \in Range(pending) : req[r].captured /\ req[r].stage \notin {"new", "done", "failed"}

LEMMA CountKept == ASSUME CountInv, UNCHANGED <<mode, active, pending, req>> PROVE CountInv'
BY DEF CountInv, Live

LEMMA CountStarts == ASSUME NcInit PROVE CountInv
<1>1. /\ mode \in {"proxy", "middleware"} /\ active = {} /\ pending = <<>>
      /\ req = [r \in Request |-> Fresh]
  BY DEF NcInit, CreateNetworkCapture
<1>2. Live = {}
  BY <1>1 DEF Live, Fresh
<1>3. Cardinality(active) = 0 /\ 0 <= MaxActive /\ 0 <= MaxPending
  BY <1>1, FS_EmptySet, NetworkAssumption
<1>4. pending \in Seq(Request) /\ IsInjective(pending) /\ Len(pending) = 0 /\ Range(pending) = {}
  BY <1>1 DEF IsInjective, Range
<1> QED BY <1>1, <1>2, <1>3, <1>4 DEF CountInv

LEMMA FewActive == ASSUME CountInv PROVE IsFiniteSet(active) /\ Cardinality(active) \in Nat
<1>1. active \subseteq Request
  BY DEF CountInv, Live
<1>2. IsFiniteSet(active)
  BY <1>1, NetworkAssumption, FS_Subset
<1> QED BY <1>2, FS_CardinalityType

LEMMA PendingRequests == ASSUME CountInv PROVE Range(pending) \subseteq Request
<1>1. pending \in Seq(Request)
  BY DEF CountInv
<1>2. DOMAIN pending = 1..Len(pending) /\ \A i \in 1..Len(pending) : pending[i] \in Request
  BY <1>1
<1> QED BY <1>2 DEF Range

\* One request goes on.
LEMMA OneCounts ==
    ASSUME AnswerInv, CountInv, NEW r \in Request, NEW s \in Exchange, Set(r, s), mode' = mode,
           mode = "proxy" => active' = IF s.captured /\ s.client = "open" THEN active \cup {r} ELSE active \ {r},
           mode = "middleware" => active' = active /\ pending' = pending,
           Cardinality(active') <= MaxActive,
           pending' \in Seq(Request), IsInjective(pending'), Len(pending') <= MaxPending,
           Range(pending') \subseteq Range(pending) \cup {r},
           r \in Range(pending') => s.captured /\ s.stage \notin {"new", "done", "failed"}
    PROVE  CountInv'
<1>1. /\ req' = [req EXCEPT ![r] = s] /\ req'[r] = s
      /\ \A q \in Request \ {r} : req'[q] = req[q]
  BY DEF Set, AnswerInv
<1>2. mode = "proxy" => active' = Live'
  BY <1>1 DEF CountInv, Live
<1>3. ASSUME NEW q \in Range(pending') PROVE req'[q].captured /\ req'[q].stage \notin {"new", "done", "failed"}
  <2>1. CASE q = r
    BY <2>1, <1>1, <1>3
  <2>2. CASE q # r
    <3>1. q \in Range(pending) /\ q \in Request
      BY <2>2, <1>3, PendingRequests
    <3> QED BY <3>1, <2>2, <1>1 DEF CountInv
  <2> QED BY <2>1, <2>2
<1> QED BY <1>2, <1>3 DEF CountInv

\* Its connection is counted as before.
LEMMA StaysCounted ==
    ASSUME AnswerInv, CountInv, NEW r \in Request, NEW s \in Exchange, Set(r, s), mode' = mode,
           active' = active, s.captured = req[r].captured, s.client = req[r].client,
           pending' = pending, r \in Range(pending) => s.stage \notin {"new", "done", "failed"}
    PROVE  CountInv'
<1>1. mode = "proxy" => active' = IF s.captured /\ s.client = "open" THEN active \cup {r} ELSE active \ {r}
  BY DEF CountInv, Live
<1>2. Cardinality(active') <= MaxActive
  BY DEF CountInv
<1>3. pending \in Seq(Request) /\ IsInjective(pending) /\ Len(pending) <= MaxPending
  BY DEF CountInv
<1>4. r \in Range(pending') => s.captured
  BY DEF CountInv
<1> QED BY <1>1, <1>2, <1>3, <1>4, OneCounts

\* It is counted as before and not waited for any more.
LEMMA ForgottenCounts ==
    ASSUME AnswerInv, CountInv, NEW r \in Request, NEW s \in Exchange, Set(r, s), mode' = mode,
           active' = active, s.captured = req[r].captured, s.client = req[r].client,
           mode = "proxy", Forget(r)
    PROVE  CountInv'
<1>1. active' = IF s.captured /\ s.client = "open" THEN active \cup {r} ELSE active \ {r}
  BY DEF CountInv, Live
<1>2. Cardinality(active') <= MaxActive
  BY DEF CountInv
<1>3. pending \in Seq(Request) /\ IsInjective(pending) /\ Len(pending) <= MaxPending /\ Len(pending) \in Nat
  BY LenProperties DEF CountInv
<1>4. /\ pending' \in Seq(Request) /\ IsInjective(pending') /\ Len(pending') <= Len(pending)
      /\ Range(pending') = Range(pending) \ {r}
  BY <1>3, RemoveElement DEF Forget
<1>5. Len(pending') <= MaxPending
  BY <1>3, <1>4, LenProperties, NetworkAssumption
<1> QED BY <1>1, <1>2, <1>4, <1>5, OneCounts

\* A request that is not captured is not counted.
LEMMA Uncounted ==
    ASSUME AnswerInv, CountInv, NEW r \in Request, NEW s \in Exchange, Set(r, s), mode' = mode,
           ~s.captured, ~req[r].captured, UNCHANGED <<active, pending>>
    PROVE  CountInv'
<1>1. r \notin Range(pending) /\ (mode = "proxy" => r \notin active)
  BY DEF CountInv, Live
<1>2. mode = "proxy" => active' = IF s.captured /\ s.client = "open" THEN active \cup {r} ELSE active \ {r}
  BY <1>1
<1> QED BY <1>1, <1>2, OneCounts DEF CountInv

LEMMA HandleCounts == ASSUME AnswerInv, CountInv, NEW r \in Request, HandleRequest(r) PROVE CountInv'
<1>1. /\ req[r] \in Exchange /\ Answered(req[r], told[r]) /\ req[r].stage = "new" /\ mode = "proxy"
      /\ active' = active \cup {r} /\ Cardinality(active) < MaxActive /\ mode' = mode
  BY DEF AnswerInv, HandleRequest, Lifecycle
<1>2. r \notin Range(pending) /\ r \notin active
  BY <1>1 DEF CountInv, Live, Answered
<1>3. Cardinality(active') <= MaxActive
  <2>1. IsFiniteSet(active) /\ Cardinality(active) \in Nat
    BY FewActive
  <2>2. Cardinality(active') = Cardinality(active) + 1
    BY <2>1, <1>1, <1>2, FS_AddElement
  <2> QED BY <1>1, <2>1, <2>2, NetworkAssumption
<1> DEFINE kept == IF Len(pending) >= MaxPending THEN Tail(pending) ELSE pending
<1>4. pending \in Seq(Request) /\ IsInjective(pending) /\ Len(pending) <= MaxPending /\ Len(pending) \in Nat
  BY LenProperties DEF CountInv
<1>5. MaxPending \in Nat /\ MaxPending > 0
  BY NetworkAssumption
<1>6. /\ kept \in Seq(Request) /\ IsInjective(kept) /\ Len(kept) < MaxPending
      /\ Range(kept) \subseteq Range(pending)
  <2>1. CASE Len(pending) >= MaxPending
    <3>1. pending # <<>> /\ kept = Tail(pending)
      BY <2>1, <1>4, <1>5
    <3>2. /\ kept \in Seq(Request) /\ Len(kept) = Len(pending) - 1
          /\ \A i \in 1..Len(kept) : kept[i] = pending[i + 1]
      BY <3>1, <1>4, HeadTailProperties
    <3> HIDE DEF kept
    <3>3. DOMAIN kept = 1..Len(kept) /\ DOMAIN pending = 1..Len(pending)
      BY <3>2, <1>4
    <3>4. \A i \in 1..Len(kept) : i + 1 \in 1..Len(pending)
      BY <3>2, <1>4
    <3>5. IsInjective(kept)
      BY <3>2, <3>3, <3>4, <1>4 DEF IsInjective
    <3>6. Range(kept) \subseteq Range(pending)
      BY <3>2, <3>3, <3>4 DEF Range
    <3> QED BY <3>2, <3>5, <3>6, <1>4, <1>5
  <2>2. CASE ~(Len(pending) >= MaxPending)
    BY <2>2, <1>4, <1>5
  <2> QED BY <2>1, <2>2
<1>7. Len(kept) \in Nat
  BY <1>6, LenProperties
<1> DEFINE s == [req[r] EXCEPT !.stage = "resolving", !.client = "open", !.captured = TRUE]
           u == [req[r] EXCEPT !.stage = "failed", !.client = "open", !.captured = TRUE, !.heads = 1]
<1>8. /\ s \in Exchange /\ s.captured /\ s.client = "open" /\ s.stage = "resolving"
      /\ u \in Exchange /\ u.captured /\ u.client = "open"
  BY <1>1 DEF Exchange, Stages
<1>9. (Set(r, s) /\ pending' = Append(kept, r)) \/ (Set(r, u) /\ pending' = kept)
  BY DEF HandleRequest
<1> HIDE DEF kept, s, u
<1>10. CASE Set(r, s) /\ pending' = Append(kept, r)
  <2>1. /\ pending' \in Seq(Request) /\ IsInjective(pending') /\ Len(pending') = Len(kept) + 1
        /\ Range(pending') = Range(kept) \cup {r}
    BY <1>10, <1>6, <1>2, AppendElement
  <2>2. Len(pending') <= MaxPending /\ Range(pending') \subseteq Range(pending) \cup {r}
    BY <2>1, <1>5, <1>6, <1>7
  <2> QED BY <1>1, <1>3, <1>8, <1>10, <2>1, <2>2, OneCounts
<1>11. CASE Set(r, u) /\ pending' = kept
  <2>1. /\ pending' \in Seq(Request) /\ IsInjective(pending') /\ Len(pending') <= MaxPending
        /\ Range(pending') \subseteq Range(pending) \cup {r} /\ r \notin Range(pending')
    BY <1>2, <1>5, <1>6, <1>7, <1>11
  <2> QED BY <1>1, <1>3, <1>8, <1>11, <2>1, OneCounts
<1> QED BY <1>9, <1>10, <1>11

LEMMA CloseCounts == ASSUME AnswerInv, CountInv, NEW r \in Request, ConnectionCloses(r) PROVE CountInv'
<1> DEFINE s == [req[r] EXCEPT !.client = "closed"]
<1>1. /\ req[r] \in Exchange /\ mode = "proxy" /\ mode' = mode /\ Set(r, s)
      /\ active' = active \ {r} /\ pending' = pending
  BY DEF AnswerInv, ConnectionCloses, Lifecycle
<1>2. s \in Exchange /\ s.client = "closed" /\ s.captured = req[r].captured /\ s.stage = req[r].stage
  BY <1>1 DEF Exchange, Stages
<1> HIDE DEF s
<1>3. Cardinality(active') <= MaxActive
  <2>1. IsFiniteSet(active) /\ Cardinality(active) \in Nat
    BY FewActive
  <2>2. IsFiniteSet(active') /\ Cardinality(active') <= Cardinality(active)
    BY <2>1, <1>1, FS_Subset
  <2>3. Cardinality(active') \in Nat /\ Cardinality(active) <= MaxActive
    BY <2>2, FS_CardinalityType DEF CountInv
  <2> QED BY <2>1, <2>2, <2>3, NetworkAssumption
<1>4. r \in Range(pending') => s.captured /\ s.stage \notin {"new", "done", "failed"}
  BY <1>1, <1>2 DEF CountInv
<1>5. pending \in Seq(Request) /\ IsInjective(pending) /\ Len(pending) <= MaxPending
  BY DEF CountInv
<1> QED BY <1>1, <1>2, <1>3, <1>4, <1>5, OneCounts

LEMMA RequestCounts ==
    ASSUME AnswerInv, CountInv, NEW r \in Request,
           \/ ForwardRequest(r) \/ Refuse(r) \/ Body(r)
           \/ mode = "proxy" /\ (\/ Resolve(r) \/ Respond(r) \/ ResponseEnds(r) \/ UpstreamTimeout(r)
                                 \/ UpstreamError(r) \/ UpstreamDies(r))
           \/ Tunnel(r) \/ TunnelOpens(r) \/ TunnelEnds(r)
           \/ Middleware(r) \/ MiddlewareBody(r) \/ MiddlewareEnd(r)
    PROVE  CountInv'
<1>1. req[r] \in Exchange /\ Answered(req[r], told[r])
  BY DEF AnswerInv
<1>2. CASE ForwardRequest(r)
  <2> DEFINE s == [req[r] EXCEPT !.stage = "resolving", !.client = "open"]
             u == [req[r] EXCEPT !.stage = "failed", !.client = "open", !.heads = 1]
  <2>1. (Set(r, s) \/ Set(r, u)) /\ mode' = mode /\ UNCHANGED <<active, pending>>
    BY <1>2 DEF ForwardRequest, Lifecycle
  <2>2. s \in Exchange /\ u \in Exchange
    BY <1>1 DEF Exchange, Stages
  <2>3. ~req[r].captured /\ ~s.captured /\ ~u.captured
    BY <1>1, <1>2 DEF ForwardRequest, Answered, Exchange
  <2> HIDE DEF s, u
  <2> QED BY <2>1, <2>2, <2>3, Uncounted
<1>3. CASE Refuse(r)
  <2> DEFINE s == [req[r] EXCEPT !.stage = "failed", !.client = "open", !.heads = 1]
  <2>1. Set(r, s) /\ mode' = mode /\ UNCHANGED <<active, pending>>
    BY <1>3 DEF Refuse, Lifecycle
  <2>2. s \in Exchange
    BY <1>1 DEF Exchange, Stages
  <2>3. ~req[r].captured /\ ~s.captured
    BY <1>1, <1>3 DEF Refuse, Answered, Exchange
  <2> HIDE DEF s
  <2> QED BY <2>1, <2>2, <2>3, Uncounted
<1>4. CASE Tunnel(r)
  <2> DEFINE s == [req[r] EXCEPT !.stage = "connecting", !.client = "open"]
  <2>1. Set(r, s) /\ mode' = mode /\ UNCHANGED <<active, pending>>
    BY <1>4 DEF Tunnel, Lifecycle
  <2>2. s \in Exchange
    BY <1>1 DEF Exchange, Stages
  <2>3. ~req[r].captured /\ ~s.captured
    BY <1>1, <1>4 DEF Tunnel, Answered, Exchange
  <2> HIDE DEF s
  <2> QED BY <2>1, <2>2, <2>3, Uncounted
<1>5. CASE TunnelOpens(r)
  <2> DEFINE s == [req[r] EXCEPT !.stage = "tunnel", !.heads = 1]
  <2>1. Set(r, s) /\ mode' = mode /\ UNCHANGED <<active, pending>>
    BY <1>5 DEF TunnelOpens, Lifecycle
  <2>2. s \in Exchange
    BY <1>1 DEF Exchange, Stages
  <2>3. ~req[r].captured /\ ~s.captured
    BY <1>1, <1>5 DEF TunnelOpens, Answered, Exchange
  <2> HIDE DEF s
  <2> QED BY <2>1, <2>2, <2>3, Uncounted
<1>6. CASE TunnelEnds(r)
  <2>1. PICK heads \in req[r].heads..req[r].heads + 1 :
          Set(r, [req[r] EXCEPT !.stage = "closed", !.client = "closed", !.heads = heads])
    BY <1>6 DEF TunnelEnds
  <2> DEFINE s == [req[r] EXCEPT !.stage = "closed", !.client = "closed", !.heads = heads]
  <2>2. s \in Exchange
    <3>1. heads \in Nat
      BY <1>1 DEF Exchange
    <3> QED BY <1>1, <3>1 DEF Exchange, Stages
  <2>3. ~req[r].captured /\ ~s.captured
    BY <1>1, <1>6 DEF TunnelEnds, Answered, Exchange
  <2>4. Set(r, s) /\ mode' = mode /\ UNCHANGED <<active, pending>>
    BY <1>6, <2>1 DEF TunnelEnds, Lifecycle
  <2> HIDE DEF s
  <2> QED BY <2>1, <2>2, <2>3, <2>4, Uncounted
<1>7. CASE Body(r)
  <2> DEFINE s == [req[r] EXCEPT !.read = TRUE, !.forwarded = req[r].stage \in {"upstream", "streaming"}]
  <2>1. mode' = mode /\ active' = active
    BY <1>7 DEF Body, Lifecycle
  <2>2. s \in Exchange
    <3>1. CASE req[r].stage \in {"upstream", "streaming"}
      <4>1. s = [req[r] EXCEPT !.read = TRUE, !.forwarded = TRUE]
        BY <3>1
      <4> QED BY <1>1, <4>1 DEF Exchange, Stages
    <3>2. CASE req[r].stage \notin {"upstream", "streaming"}
      <4>1. (req[r].stage \in {"upstream", "streaming"}) = FALSE
        BY <3>2
      <4>2. s = [req[r] EXCEPT !.read = TRUE, !.forwarded = FALSE]
        BY <4>1, Zenon
      <4> QED BY <1>1, <4>2 DEF Exchange, Stages
    <3> QED BY <3>1, <3>2
  <2>3. /\ s.captured = req[r].captured /\ s.client = req[r].client
    BY <1>1 DEF Exchange
  <2>4. Set(r, s) /\ pending' = pending
    BY <1>7 DEF Body
  <2>5. r \in Range(pending) => s.stage \notin {"new", "done", "failed"}
    BY <1>1 DEF CountInv, Exchange
  <2> HIDE DEF s
  <2> QED BY <1>7, <2>1, <2>2, <2>3, <2>4, <2>5, StaysCounted, ForgottenCounts
<1>8. CASE mode = "proxy" /\ Resolve(r)
  <2> DEFINE s == [req[r] EXCEPT !.stage = "upstream"]
             u == [req[r] EXCEPT !.stage = "failed", !.heads = @ + 1]
  <2>1. mode' = mode /\ active' = active
    BY <1>8 DEF Resolve, Lifecycle
  <2>2. s \in Exchange /\ u \in Exchange
    <3>1. req[r].heads + 1 \in Nat
      BY <1>1 DEF Exchange
    <3> QED BY <1>1, <3>1 DEF Exchange, Stages
  <2>3. /\ s.captured = req[r].captured /\ s.client = req[r].client
        /\ u.captured = req[r].captured /\ u.client = req[r].client
    BY <1>1 DEF Exchange
  <2>4. (Set(r, s) /\ pending' = pending) \/ (Set(r, u) /\ Forget(r))
    BY <1>8 DEF Resolve
  <2>5. r \in Range(pending) => s.stage \notin {"new", "done", "failed"}
    BY <1>1, <1>8 DEF Resolve, Answered, Exchange
  <2> HIDE DEF s, u
  <2> QED BY <1>8, <2>1, <2>2, <2>3, <2>4, <2>5, StaysCounted, ForgottenCounts
<1>9. CASE mode = "proxy" /\ Respond(r)
  <2> DEFINE s == [req[r] EXCEPT !.stage = "streaming", !.heads = @ + 1]
  <2>1. mode' = mode /\ active' = active
    BY <1>9 DEF Respond, Lifecycle
  <2>2. s \in Exchange
    <3>1. req[r].heads + 1 \in Nat
      BY <1>1 DEF Exchange
    <3> QED BY <1>1, <3>1 DEF Exchange, Stages
  <2>3. /\ s.captured = req[r].captured /\ s.client = req[r].client
    BY <1>1 DEF Exchange
  <2>4. Set(r, s) /\ pending' = pending
    BY <1>9 DEF Respond
  <2>5. r \in Range(pending) => s.stage \notin {"new", "done", "failed"}
    BY <1>1, <1>9 DEF Respond, Answered, Exchange
  <2> HIDE DEF s
  <2> QED BY <1>9, <2>1, <2>2, <2>3, <2>4, <2>5, StaysCounted, ForgottenCounts
<1>10. CASE mode = "proxy" /\ ResponseEnds(r)
  <2> DEFINE s == [req[r] EXCEPT !.stage = "done"]
  <2>1. mode' = mode /\ active' = active
    BY <1>10 DEF ResponseEnds, Lifecycle
  <2>2. s \in Exchange
    BY <1>1 DEF Exchange, Stages
  <2>3. /\ s.captured = req[r].captured /\ s.client = req[r].client
    BY <1>1 DEF Exchange
  <2>4. Set(r, s) /\ Forget(r)
    BY <1>10 DEF ResponseEnds
  <2> HIDE DEF s
  <2> QED BY <1>10, <2>1, <2>2, <2>3, <2>4, ForgottenCounts
<1>11. CASE mode = "proxy" /\ UpstreamTimeout(r)
  <2> DEFINE s == [req[r] EXCEPT !.stage = "failed", !.heads = 1, !.failing = TRUE]
             u == [req[r] EXCEPT !.stage = "hung"]
  <2>1. mode' = mode /\ active' = active
    BY <1>11 DEF UpstreamTimeout, Lifecycle
  <2>2. s \in Exchange /\ u \in Exchange
    BY <1>1 DEF Exchange, Stages
  <2>3. /\ s.captured = req[r].captured /\ s.client = req[r].client
        /\ u.captured = req[r].captured /\ u.client = req[r].client
    BY <1>1 DEF Exchange
  <2>4. (Set(r, s) /\ Forget(r)) \/ (Set(r, u) /\ Forget(r))
    BY <1>11 DEF UpstreamTimeout
  <2> HIDE DEF s, u
  <2> QED BY <1>11, <2>1, <2>2, <2>3, <2>4, ForgottenCounts
<1>12. CASE mode = "proxy" /\ UpstreamError(r)
  <2> DEFINE s == [req[r] EXCEPT !.stage = "failed", !.failing = FALSE, !.heads = IF @ = 0 THEN 1 ELSE @]
  <2>1. mode' = mode /\ active' = active
    BY <1>12 DEF UpstreamError, Lifecycle
  <2>2. s \in Exchange
    BY <1>1 DEF Exchange, Stages
  <2>3. /\ s.captured = req[r].captured /\ s.client = req[r].client
    BY <1>1 DEF Exchange
  <2>4. Set(r, s) /\ Forget(r)
    BY <1>12 DEF UpstreamError
  <2> HIDE DEF s
  <2> QED BY <1>12, <2>1, <2>2, <2>3, <2>4, ForgottenCounts
<1>13. CASE mode = "proxy" /\ UpstreamDies(r)
  <2> DEFINE s == [req[r] EXCEPT !.stage = "hung"]
  <2>1. mode' = mode /\ active' = active
    BY <1>13 DEF UpstreamDies, Lifecycle
  <2>2. s \in Exchange
    BY <1>1 DEF Exchange, Stages
  <2>3. /\ s.captured = req[r].captured /\ s.client = req[r].client
    BY <1>1 DEF Exchange
  <2>4. Set(r, s) /\ pending' = pending
    BY <1>13 DEF UpstreamDies
  <2>5. r \in Range(pending) => s.stage \notin {"new", "done", "failed"}
    BY <1>1, <1>13 DEF UpstreamDies, Answered, Exchange
  <2> HIDE DEF s
  <2> QED BY <1>13, <2>1, <2>2, <2>3, <2>4, <2>5, StaysCounted, ForgottenCounts
<1>14. CASE Middleware(r) \/ MiddlewareBody(r) \/ MiddlewareEnd(r)
  <2>1. mode = "middleware" /\ UNCHANGED <<mode, active, pending>>
    BY <1>14 DEF Middleware, MiddlewareBody, MiddlewareEnd, Lifecycle
  <2>2. pending = <<>> /\ Range(pending) = {}
    BY <2>1 DEF CountInv, Range
  <2> QED BY <2>1, <2>2 DEF CountInv
<1> QED BY <1>2, <1>3, <1>4, <1>5, <1>6, <1>7, <1>8, <1>9, <1>10, <1>11, <1>12, <1>13, <1>14

LEMMA StopKeeps == ASSUME AnswerInv, CountInv, Stop PROVE AnswerInv' /\ CountInv'
<1>1. /\ mode = "proxy" /\ mode' = mode /\ told' = told /\ active' = {} /\ pending' = <<>>
      /\ req' = [r \in Request |-> IF r \in active THEN [req[r] EXCEPT !.client = "closed"] ELSE req[r]]
  BY DEF Stop
<1>2. active = Live
  BY <1>1 DEF CountInv
<1>3. ASSUME NEW r \in Request
      PROVE  /\ req'[r] \in Exchange /\ Answered(req'[r], told'[r])
             /\ ~(req'[r].captured /\ req'[r].client = "open")
  <2>1. req[r] \in Exchange /\ Answered(req[r], told[r]) /\ told'[r] = told[r]
    BY <1>1 DEF AnswerInv
  <2>2. CASE r \in active
    <3> DEFINE s == [req[r] EXCEPT !.client = "closed"]
    <3>1. req'[r] = s /\ req[r].client = "open" /\ req[r].captured
      BY <2>2, <1>1, <1>2 DEF Live
    <3>2. s \in Exchange /\ s.client = "closed" /\ Answered(s, told[r])
      BY <2>1, <3>1 DEF Exchange, Answered
    <3> QED BY <2>1, <3>1, <3>2
  <2>3. CASE r \notin active
    BY <2>1, <2>3, <1>1, <1>2 DEF Live
  <2> QED BY <2>2, <2>3
<1>4. AnswerInv'
  <2>1. req' \in [Request -> Exchange]
    BY <1>1, <1>3
  <2>2. \A r \in Request : Answered(req[r], told[r])'
    BY <1>1, <1>3 DEF Answered
  <2> QED BY <2>1, <2>2, <1>1 DEF AnswerInv
<1>5. Live' = {}
  BY <1>3 DEF Live
<1>6. Cardinality(active') = 0 /\ 0 <= MaxActive /\ 0 <= MaxPending
  BY <1>1, FS_EmptySet, NetworkAssumption
<1>7. pending' \in Seq(Request) /\ IsInjective(pending') /\ Len(pending') = 0 /\ Range(pending') = {}
  BY <1>1 DEF IsInjective, Range
<1> QED BY <1>1, <1>4, <1>5, <1>6, <1>7 DEF CountInv

LEMMA SweepKeeps == ASSUME AnswerInv, CountInv, NEW r \in Request, Sweep(r) PROVE AnswerInv' /\ CountInv'
<1>1. /\ Forget(r) /\ r \in Range(pending) /\ UNCHANGED <<mode, active, req, told>>
  BY DEF Sweep, Lifecycle
<1>2. mode = "proxy"
  BY <1>1 DEF CountInv, Range
<1>3. req[r] \in Exchange /\ Set(r, req[r])
  BY <1>1 DEF AnswerInv, Set
<1> QED BY <1>1, <1>2, <1>3, AnswerKept, ForgottenCounts

LEMMA NetworkNext == ASSUME AnswerInv, CountInv, NcNext PROVE AnswerInv' /\ CountInv'
<1>1. CASE Start \/ StartFails \/ Stopped \/ StartMiddleware \/ StopMiddleware
  BY <1>1, AnswerKept, CountKept DEF Start, StartFails, Stopped, StartMiddleware, StopMiddleware
<1>2. CASE Stop
  BY <1>2, StopKeeps
<1>3. ASSUME NEW r \in Request, Sweep(r) PROVE AnswerInv' /\ CountInv'
  BY <1>3, SweepKeeps
<1>4. ASSUME NEW r \in Request,
             \/ ForwardRequest(r) \/ Refuse(r) \/ HandleRequest(r) \/ Body(r)
             \/ mode = "proxy" /\ (\/ Resolve(r) \/ Respond(r) \/ ResponseEnds(r) \/ UpstreamTimeout(r)
                                   \/ UpstreamError(r) \/ UpstreamDies(r))
             \/ ConnectionCloses(r) \/ Tunnel(r) \/ TunnelOpens(r) \/ TunnelEnds(r)
             \/ Middleware(r) \/ MiddlewareBody(r) \/ MiddlewareEnd(r)
      PROVE  AnswerInv' /\ CountInv'
  BY <1>4, RequestAnswers, RequestCounts, HandleCounts, CloseCounts
<1> QED BY <1>1, <1>2, <1>3, <1>4 DEF NcNext

LEMMA NetworkStarts == ASSUME CaptureInit PROVE AnswerInv /\ CountInv
BY AnswerStarts, CountStarts DEF CaptureInit

LEMMA NetworkKept == ASSUME AnswerInv, CountInv, [CaptureNext]_captureVars PROVE AnswerInv' /\ CountInv'
<1>1. CASE NetworkStep
  BY <1>1, NetworkNext DEF NetworkStep
<1>2. CASE ~NetworkStep
  <2>1. UNCHANGED ncVars
    BY <1>2 DEF CaptureNext, captureVars, TailStep, BrowserStep, CommandStep, CorrelatorStep
  <2> QED BY <2>1, AnswerKept, CountKept DEF ncVars
<1> QED BY <1>1, <1>2

LEMMA AnswersOnce == ASSUME AnswerInv PROVE AnsweredOnce
<1> SUFFICES ASSUME NEW r \in Request
             PROVE  /\ (req[r].heads <= 1 \/ req[r].stage = "closed")
                    /\ (req[r].stage \in {"streaming", "hung", "done", "failed"} => req[r].heads = 1)
                    /\ told[r].request <= IF req[r].captured /\ req[r].read THEN 1 ELSE 0
                    /\ (told[r].response > 0 => req[r].captured /\ req[r].stage = "done")
                    /\ told[r].response <= IF mode = "proxy" THEN 1 ELSE req[r].ends
  BY DEF AnsweredOnce
<1>1. Answered(req[r], told[r]) /\ req[r].stage \in Stages
  BY DEF AnswerInv, Exchange
<1>2. req[r].heads <= 1 \/ req[r].stage = "closed"
  BY <1>1 DEF Answered, Stages
<1>3. told[r].request <= IF req[r].captured /\ req[r].read THEN 1 ELSE 0
  BY <1>1 DEF Answered
<1> QED BY <1>1, <1>2, <1>3 DEF Answered

\* However answers, errors, timeouts, disconnections and stop interleave, for
\* any number of requests: a client's answer begins once, the handlers are told
\* at most once of a captured request, and of its answer only when it is
\* complete and not the proxy's own error: by the proxy once, by the middleware
\* at most as often as the application called end.
THEOREM EachAnsweredOnce == CaptureSpec => []AnsweredOnce
<1>1. AnswerInv /\ CountInv => AnsweredOnce
  BY AnswersOnce
<1> QED BY <1>1, NetworkStarts, NetworkKept, PTL DEF CaptureSpec

\* Whatever is refused, cut, swept or stopped, the proxy counts the captured
\* connections that are open, keeps to both caps, and waits only for captured
\* requests that are under way.
THEOREM ConnectionsAreCounted == CaptureSpec => []ConnectionsCounted
<1>1. AnswerInv /\ CountInv => ConnectionsCounted
  <2> SUFFICES ASSUME CountInv PROVE ConnectionsCounted
    OBVIOUS
  <2> QED BY DEF ConnectionsCounted, CountInv, Live
<1> QED BY <1>1, NetworkStarts, NetworkKept, PTL DEF CaptureSpec

-----------------------------------------------------------------------------
(* The groups *)

Ids == {e.id : e \in Arrivals}

Group == [id : Ids, cid : Ids \cup {e.cid : e \in Arrivals}, createdAt : Nat, events : Seq(Arrivals),
          summary : {BuildGroupSummary(s) : s \in Seq(Arrivals)}]

\* Of a set G of groups, once the events In have come and Out have been
\* dropped: each group goes by an event that has come and its summary fits, and
\* the events that are left are divided among them.
Filed(G, In, Out) ==
    /\ G \subseteq Group
    /\ \A g, h \in G : g.id = h.id => g = h
    /\ \A g \in G :
         /\ \E x \in In : g.id = x.id
         /\ g.summary = BuildGroupSummary(g.events)
         /\ Range(g.events) \subseteq In \ Out
         /\ g.cid = g.id \/ \E x \in Arrivals : x.cid # None /\ g.cid = x.cid
    /\ \A g, h \in G : g # h => Range(g.events) \cap Range(h.events) = {}
    /\ \A e \in In \ Out : \E g \in G : e \in Range(g.events)

GroupsInv ==
    /\ groups \in Seq(Group) /\ IsInjective(groups)
    /\ allEvents \in Seq(Arrivals) /\ IsInjective(allEvents) /\ Range(allEvents) \subseteq ingested
    /\ ingested \subseteq Arrivals /\ forgotten \subseteq ingested
    /\ Filed(Range(groups), ingested, forgotten)

LEMMA GroupsKept == ASSUME GroupsInv, UNCHANGED <<groups, allEvents, ingested, forgotten>> PROVE GroupsInv'
BY DEF GroupsInv, Filed

LEMMA GroupsStart == ASSUME Init PROVE GroupsInv
<1>1. groups = <<>> /\ allEvents = <<>> /\ ingested = {} /\ forgotten = {}
  BY DEF Init, Initialize
<1>2. /\ groups \in Seq(Group) /\ IsInjective(groups) /\ Range(groups) = {}
      /\ allEvents \in Seq(Arrivals) /\ IsInjective(allEvents) /\ Range(allEvents) = {}
  BY <1>1 DEF IsInjective, Range
<1> QED BY <1>1, <1>2 DEF GroupsInv, Filed

\* The last events of a list with a new one.
LEMMA LastOfNew ==
    ASSUME NEW S, NEW p \in Seq(S), NEW e \in S, NEW n \in Nat \ {0}
    PROVE  /\ LastOf(Append(p, e), n) \in Seq(S)
           /\ Range(LastOf(Append(p, e), n)) \subseteq Range(p) \cup {e}
           /\ e \in Range(LastOf(Append(p, e), n))
           /\ IsInjective(p) /\ e \notin Range(p) => IsInjective(LastOf(Append(p, e), n))
<1> DEFINE q == Append(p, e)
           k == Len(p) + 1
           from == IF k > n THEN k - n + 1 ELSE 1
           t == SubSeq(q, from, k)
<1>1. Len(p) \in Nat /\ DOMAIN p = 1..Len(p) /\ k \in Nat /\ \A j \in 1..Len(p) : p[j] \in S
  BY LenProperties
<1>2. /\ q \in Seq(S) /\ Len(q) = k /\ q[k] = e
      /\ \A j \in 1..Len(p) : q[j] = p[j]
  BY <1>1, AppendProperties
<1>3. from \in 1..k
  BY <1>1
<1>4. LastOf(q, n) = t
  BY <1>2 DEF LastOf
<1> HIDE DEF q, k, from, t
<1>5. \A j \in 1..k : q[j] \in Range(p) \cup {e}
  <2> SUFFICES ASSUME NEW j \in 1..k PROVE q[j] \in Range(p) \cup {e}
    OBVIOUS
  <2>1. j = k \/ j \in 1..Len(p)
    BY <1>1 DEF k
  <2>2. ASSUME j \in 1..Len(p) PROVE q[j] \in Range(p)
    BY <1>1, <1>2, <2>2 DEF Range
  <2> QED BY <2>1, <2>2, <1>2
<1>6. /\ t \in Seq(S) /\ Len(t) = k - from + 1
      /\ \A j \in 1..(k - from + 1) : t[j] = q[from + j - 1]
  <2>1. \A j \in from..k : q[j] \in S
    <3> SUFFICES ASSUME NEW j \in from..k PROVE q[j] \in S
      OBVIOUS
    <3>1. j = k \/ j \in 1..Len(p)
      BY <1>1, <1>3 DEF k
    <3> QED BY <3>1, <1>1, <1>2
  <2>2. from \in Int /\ k \in Int /\ from <= k
    BY <1>1, <1>3
  <2> QED BY <2>1, <2>2, SubSeqProperties DEF t
<1>7. DOMAIN t = 1..(k - from + 1)
  BY <1>6
<1>8. Range(t) \subseteq Range(p) \cup {e}
  <2> SUFFICES ASSUME NEW j \in 1..(k - from + 1) PROVE t[j] \in Range(p) \cup {e}
    BY <1>7 DEF Range
  <2>1. from + j - 1 \in 1..k
    BY <1>1, <1>3
  <2> QED BY <2>1, <1>5, <1>6
<1>9. e \in Range(t)
  <2>1. k - from + 1 \in 1..(k - from + 1) /\ from + (k - from + 1) - 1 = k
    BY <1>1, <1>3
  <2>2. t[k - from + 1] = e
    BY <2>1, <1>2, <1>6
  <2> QED BY <2>1, <2>2, <1>7 DEF Range
<1>10. ASSUME IsInjective(p), e \notin Range(p) PROVE IsInjective(t)
  <2> SUFFICES ASSUME NEW i \in 1..(k - from + 1), NEW j \in 1..(k - from + 1), t[i] = t[j] PROVE i = j
    BY <1>7 DEF IsInjective
  <2> DEFINE x == from + i - 1
             y == from + j - 1
  <2>1. x \in 1..k /\ y \in 1..k /\ q[x] = q[y]
    BY <1>1, <1>3, <1>6
  <2>2. (x = k \/ x \in 1..Len(p)) /\ (y = k \/ y \in 1..Len(p))
    BY <2>1, <1>1 DEF k
  <2>3. \A z \in 1..Len(p) : q[z] = p[z] /\ p[z] \in Range(p) /\ q[z] # e
    BY <1>1, <1>2, <1>10 DEF Range
  <2>4. x = y
    <3> HIDE DEF x, y
    <3>1. ASSUME x \in 1..Len(p), y \in 1..Len(p) PROVE x = y
      <4>1. p[x] = p[y]
        BY <2>1, <2>3, <3>1
      <4> QED BY <4>1, <3>1, <1>1, <1>10 DEF IsInjective
    <3> QED BY <3>1, <2>1, <2>2, <2>3, <1>2
  <2> QED BY <2>4, <1>1, <1>3 DEF x, y
<1> QED BY <1>4, <1>6, <1>8, <1>9, <1>10 DEF q

\* An event joins a group, which may drop others for it.
LEMMA JoinFiles ==
    ASSUME NEW G, NEW In, NEW Out, Filed(G, In, Out), In \subseteq Arrivals, Out \subseteq In,
           NEW e \in Arrivals, e \notin In, NEW g \in G, NEW x \in Group,
           x.id = g.id, x.summary = BuildGroupSummary(x.events),
           Range(x.events) \subseteq Range(g.events) \cup {e}, e \in Range(x.events),
           x.cid = g.cid \/ (e.cid # None /\ x.cid = e.cid)
    PROVE  Filed((G \ {g}) \cup {x}, In \cup {e}, Out \cup (Range(g.events) \ Range(x.events)))
<1> DEFINE H == (G \ {g}) \cup {x}
           JIn == In \cup {e}
           JOut == Out \cup (Range(g.events) \ Range(x.events))
<1>1. /\ G \subseteq Group /\ \A a, b \in G : a.id = b.id => a = b
      /\ \A a \in G : /\ \E y \in In : a.id = y.id
                      /\ a.summary = BuildGroupSummary(a.events)
                      /\ Range(a.events) \subseteq In \ Out
                      /\ a.cid = a.id \/ \E y \in Arrivals : y.cid # None /\ a.cid = y.cid
      /\ \A a, b \in G : a # b => Range(a.events) \cap Range(b.events) = {}
      /\ \A y \in In \ Out : \E a \in G : y \in Range(a.events)
  BY DEF Filed
<1>2. H \subseteq Group
  BY <1>1
<1>3. ASSUME NEW a \in H, NEW b \in H, a.id = b.id PROVE a = b
  BY <1>1, <1>3
<1>4. ASSUME NEW a \in H
      PROVE  /\ \E y \in JIn : a.id = y.id
             /\ a.summary = BuildGroupSummary(a.events)
             /\ Range(a.events) \subseteq JIn \ JOut
             /\ a.cid = a.id \/ \E y \in Arrivals : y.cid # None /\ a.cid = y.cid
  <2>1. CASE a = x
    <3>1. (\E y \in JIn : a.id = y.id) /\ a.summary = BuildGroupSummary(a.events)
      BY <2>1, <1>1
    <3>2. Range(a.events) \subseteq JIn \ JOut
      BY <2>1, <1>1
    <3>3. a.cid = a.id \/ \E y \in Arrivals : y.cid # None /\ a.cid = y.cid
      BY <2>1, <1>1
    <3> QED BY <3>1, <3>2, <3>3
  <2>2. CASE a \in G \ {g}
    <3>1. Range(a.events) \subseteq JIn \ JOut
      <4>1. Range(a.events) \subseteq In \ Out /\ Range(a.events) \cap Range(g.events) = {}
        BY <2>2, <1>1
      <4> QED BY <4>1
    <3> QED BY <2>2, <3>1, <1>1
  <2> QED BY <2>1, <2>2
<1>5. ASSUME NEW a \in H, NEW b \in H, a # b PROVE Range(a.events) \cap Range(b.events) = {}
  <2>1. \A c \in G \ {g} : Range(c.events) \cap Range(x.events) = {}
    <3> SUFFICES ASSUME NEW c \in G \ {g} PROVE Range(c.events) \cap Range(x.events) = {}
      OBVIOUS
    <3>1. Range(c.events) \cap Range(g.events) = {} /\ e \notin Range(c.events)
      BY <1>1
    <3> QED BY <3>1
  <2> QED BY <2>1, <1>1, <1>5
<1>6. ASSUME NEW y \in JIn \ JOut PROVE \E a \in H : y \in Range(a.events)
  <2>1. CASE y = e
    BY <2>1
  <2>2. CASE y # e
    <3>1. y \in In \ Out
      BY <2>2, <1>6
    <3>2. PICK a \in G : y \in Range(a.events)
      BY <3>1, <1>1
    <3>3. CASE a = g
      BY <3>2, <3>3, <1>6
    <3>4. CASE a # g
      BY <3>2, <3>4
    <3> QED BY <3>3, <3>4
  <2> QED BY <2>1, <2>2
<1> HIDE DEF H, JIn, JOut
<1>7. Filed(H, JIn, JOut)
  BY <1>2, <1>3, <1>4, <1>5, <1>6 DEF Filed
<1> QED BY <1>7 DEF H, JIn, JOut

\* An event founds a group.
LEMMA FoundFiles ==
    ASSUME NEW G, NEW In, NEW Out, Filed(G, In, Out), In \subseteq Arrivals, Out \subseteq In,
           NEW e \in Arrivals, e \notin In, NEW x \in Group,
           x.id = e.id, x.summary = BuildGroupSummary(x.events), Range(x.events) = {e},
           x.cid = x.id \/ (e.cid # None /\ x.cid = e.cid)
    PROVE  Filed(G \cup {x}, In \cup {e}, Out) /\ x \notin G
<1> DEFINE H == G \cup {x}
           JIn == In \cup {e}
<1>1. /\ G \subseteq Group /\ \A a, b \in G : a.id = b.id => a = b
      /\ \A a \in G : /\ \E y \in In : a.id = y.id
                      /\ a.summary = BuildGroupSummary(a.events)
                      /\ Range(a.events) \subseteq In \ Out
                      /\ a.cid = a.id \/ \E y \in Arrivals : y.cid # None /\ a.cid = y.cid
      /\ \A a, b \in G : a # b => Range(a.events) \cap Range(b.events) = {}
      /\ \A y \in In \ Out : \E a \in G : y \in Range(a.events)
  BY DEF Filed
<1>2. \A a \in G : a.id # x.id
  BY <1>1, CorrelationAssumption
<1>3. ASSUME NEW a \in H, NEW b \in H, a.id = b.id PROVE a = b
  BY <1>1, <1>2, <1>3
<1>4. ASSUME NEW a \in H
      PROVE  /\ \E y \in JIn : a.id = y.id
             /\ a.summary = BuildGroupSummary(a.events)
             /\ Range(a.events) \subseteq JIn \ Out
             /\ a.cid = a.id \/ \E y \in Arrivals : y.cid # None /\ a.cid = y.cid
  <2>1. CASE a = x
    BY <2>1
  <2>2. CASE a \in G
    BY <2>2, <1>1
  <2> QED BY <2>1, <2>2
<1>5. ASSUME NEW a \in H, NEW b \in H, a # b PROVE Range(a.events) \cap Range(b.events) = {}
  <2>1. \A c \in G : e \notin Range(c.events)
    BY <1>1
  <2> QED BY <2>1, <1>1, <1>5
<1>6. ASSUME NEW y \in JIn \ Out PROVE \E a \in H : y \in Range(a.events)
  <2>1. CASE y = e
    BY <2>1
  <2>2. CASE y # e
    BY <2>2, <1>1, <1>6
  <2> QED BY <2>1, <2>2
<1>7. H \subseteq Group
  BY <1>1
<1> HIDE DEF H, JIn
<1>8. Filed(H, JIn, Out)
  BY <1>3, <1>4, <1>5, <1>6, <1>7 DEF Filed
<1> QED BY <1>2, <1>8 DEF H, JIn

\* A group goes, and its events with it.
LEMMA DropFiles ==
    ASSUME NEW G, NEW In, NEW Out, Filed(G, In, Out), NEW g \in G
    PROVE  Filed(G \ {g}, In, Out \cup Range(g.events))
<1>1. /\ \A a \in G : Range(a.events) \subseteq In \ Out
      /\ \A a, b \in G : a # b => Range(a.events) \cap Range(b.events) = {}
      /\ \A y \in In \ Out : \E a \in G : y \in Range(a.events)
  BY DEF Filed
<1>2. \A a \in G \ {g} : Range(a.events) \subseteq In \ (Out \cup Range(g.events))
  BY <1>1
<1>3. \A y \in In \ (Out \cup Range(g.events)) : \E a \in G \ {g} : y \in Range(a.events)
  BY <1>1
<1> QED BY <1>1, <1>2, <1>3 DEF Filed

\* A strategy names a group that takes events, if it names one.
Named(id) == \E g \in Snapshot : g.id = id

LEMMA FirstIsNamed ==
    ASSUME GroupsInv, NEW e \in Arrivals, NEW strategy \in {"request-id", "trace-id", "temporal", "url-matching"},
           TryCorrelate(strategy, e) # None
    PROVE  Named(TryCorrelate(strategy, e))
<1>1. groups \in Seq(Group) /\ Len(groups) \in Nat
  BY LenProperties DEF GroupsInv
<1>2. CASE strategy \in {"request-id", "trace-id"}
  <2> DEFINE I == {i \in 1..Len(groups) : groups[i] \in Snapshot /\ HasKey(groups[i], CorrelationKey(e))}
  <2>1. TryCorrelate(strategy, e) = RequestId(e) /\ CorrelationKey(e) # None
    BY <1>2 DEF TryCorrelate, RequestId
  <2>2. I # {} /\ RequestId(e) = groups[Min(I)].id
    BY <2>1 DEF RequestId, FirstGroup, SelectInSeq
  <2>3. I \subseteq Nat
    BY <1>1
  <2>4. Min(I) \in I
    BY <2>2, <2>3, NatMin
  <2> HIDE DEF I
  <2>5. groups[Min(I)] \in Snapshot
    BY <2>4 DEF I
  <2> QED BY <2>1, <2>2, <2>5 DEF Named
<1>3. CASE strategy = "temporal"
  <2> DEFINE near(g) == e.time - Latest(g) \in 0..Window
             I == {i \in 1..Len(groups) :
                     /\ groups[i] \in Snapshot
                     /\ near(groups[i]) /\ \A h \in Snapshot : near(h) => Latest(h) <= Latest(groups[i])}
  <2>1. TryCorrelate(strategy, e) = Temporal(e) /\ e.kind \notin {"click", "navigation"}
    BY <1>3 DEF TryCorrelate, Temporal
  <2>2. I # {} /\ Temporal(e) = groups[Min(I)].id
    BY <2>1 DEF Temporal, FirstGroup, SelectInSeq
  <2>3. I \subseteq Nat
    BY <1>1
  <2>4. Min(I) \in I
    BY <2>2, <2>3, NatMin
  <2> HIDE DEF I
  <2>5. groups[Min(I)] \in Snapshot
    BY <2>4 DEF I
  <2> QED BY <2>1, <2>2, <2>5 DEF Named
<1>4. CASE strategy = "url-matching"
  <2> DEFINE I == {i \in 1..Len(groups) :
                     groups[i] \in Snapshot /\ \E x \in Range(groups[i].events) : Url(x) = Url(e)}
  <2>1. TryCorrelate(strategy, e) = UrlMatching(e) /\ Url(e) # None
    BY <1>4 DEF TryCorrelate, UrlMatching
  <2>2. I # {} /\ UrlMatching(e) = groups[Min(I)].id
    BY <2>1 DEF UrlMatching, FirstGroup, SelectInSeq
  <2>3. I \subseteq Nat
    BY <1>1
  <2>4. Min(I) \in I
    BY <2>2, <2>3, NatMin
  <2> HIDE DEF I
  <2>5. groups[Min(I)] \in Snapshot
    BY <2>4 DEF I
  <2> QED BY <2>1, <2>2, <2>5 DEF Named
<1> QED BY <1>2, <1>3, <1>4

LEMMA MatchIsNamed ==
    ASSUME GroupsInv, NEW e \in Arrivals, Matched(e) # None
    PROVE  Named(Matched(e))
<1> DEFINE I == {i \in 1..Len(Strategies) : TryCorrelate(Strategies[i], e) # None}
<1>1. /\ Len(Strategies) \in Nat
      /\ \A i \in 1..Len(Strategies) : Strategies[i] \in {"request-id", "trace-id", "temporal", "url-matching"}
  BY CorrelationAssumption, LenProperties
<1>2. I # {} /\ Matched(e) = TryCorrelate(Strategies[Min(I)], e)
  BY DEF Matched, SelectInSeq
<1>3. I \subseteq Nat
  BY <1>1
<1>4. Min(I) \in I
  BY <1>2, <1>3, NatMin
<1> HIDE DEF I
<1>5. Min(I) \in 1..Len(Strategies) /\ TryCorrelate(Strategies[Min(I)], e) # None
  BY <1>4 DEF I
<1> QED BY <1>1, <1>2, <1>5, FirstIsNamed

\* One group takes the place of another.
LEMMA ReplaceGroup ==
    ASSUME GroupsInv, NEW i \in DOMAIN groups, NEW x \in Group, x.id = groups[i].id,
           groups' = [groups EXCEPT ![i] = x]
    PROVE  /\ groups' \in Seq(Group) /\ IsInjective(groups')
           /\ Range(groups') = (Range(groups) \ {groups[i]}) \cup {x}
<1>1. groups \in Seq(Group) /\ \A j \in DOMAIN groups : groups[j] \in Range(groups)
  BY DEF GroupsInv, Range
<1>2. /\ DOMAIN groups' = DOMAIN groups /\ groups'[i] = x
      /\ \A j \in DOMAIN groups \ {i} : groups'[j] = groups[j]
  BY <1>1
<1>3. groups' \in Seq(Group)
  BY <1>1
<1>4. \A j \in DOMAIN groups \ {i} : groups[j] # groups[i] /\ groups[j] # x
  BY <1>1 DEF GroupsInv, IsInjective, Filed
<1>5. IsInjective(groups')
  BY <1>2, <1>4 DEF IsInjective, GroupsInv
<1>6. Range(groups') \subseteq (Range(groups) \ {groups[i]}) \cup {x}
  BY <1>1, <1>2, <1>4 DEF Range
<1>7. (Range(groups) \ {groups[i]}) \cup {x} \subseteq Range(groups')
  BY <1>1, <1>2, <1>4 DEF Range
<1> QED BY <1>3, <1>5, <1>6, <1>7

LEMMA AddKeeps ==
    ASSUME GroupsInv, NEW e \in Arrivals \ ingested, NEW id, AddEventToGroup(id, e),
           ingested' = ingested \cup {e}
    PROVE  /\ groups' \in Seq(Group) /\ IsInjective(groups') /\ forgotten' \subseteq ingested'
           /\ Filed(Range(groups'), ingested', forgotten')
           /\ \E g \in Range(groups), x \in Group :
                /\ g.id = id /\ Range(groups') = (Range(groups) \ {g}) \cup {x}
                /\ x.id = g.id /\ Range(x.events) \subseteq Range(g.events) \cup {e}
                /\ x.cid = g.cid \/ (e.cid # None /\ x.cid = e.cid)
<1>1. PICK i \in DOMAIN groups :
        LET g == groups[i]
            events == LastOf(Append(g.events, e), MaxPerGroup)
        IN  /\ g.id = id
            /\ groups' = [groups EXCEPT ![i] =
                            [g EXCEPT !.events = events,
                                      !.summary = BuildGroupSummary(events),
                                      !.cid = IF e.cid # None /\ @ = g.id THEN e.cid ELSE @]]
            /\ forgotten' = forgotten \cup (Range(g.events) \ Range(events))
  BY DEF AddEventToGroup
<1> DEFINE g == groups[i]
           events == LastOf(Append(g.events, e), MaxPerGroup)
           x == [g EXCEPT !.events = events,
                          !.summary = BuildGroupSummary(events),
                          !.cid = IF e.cid # None /\ @ = g.id THEN e.cid ELSE @]
<1>2. /\ g.id = id /\ groups' = [groups EXCEPT ![i] = x]
      /\ forgotten' = forgotten \cup (Range(g.events) \ Range(events))
  BY <1>1
<1>3. groups \in Seq(Group) /\ IsInjective(groups) /\ g \in Group /\ g \in Range(groups)
  BY DEF GroupsInv, Range
<1>4. g.events \in Seq(Arrivals) /\ MaxPerGroup \in Nat \ {0}
  BY <1>3, CorrelationAssumption DEF Group
<1>5. events \in Seq(Arrivals) /\ Range(events) \subseteq Range(g.events) \cup {e} /\ e \in Range(events)
  BY <1>4, LastOfNew
<1> HIDE DEF events
<1>6. /\ x.id = g.id /\ x.events = events /\ x.summary = BuildGroupSummary(events)
      /\ x.cid = IF e.cid # None /\ g.cid = g.id THEN e.cid ELSE g.cid
  BY <1>3 DEF Group
<1>7. x \in Group
  <2> DEFINE sum == BuildGroupSummary(events)
             cid == IF e.cid # None /\ g.cid = g.id THEN e.cid ELSE g.cid
  <2>1. sum \in {BuildGroupSummary(s) : s \in Seq(Arrivals)}
    BY <1>5
  <2>2. cid \in Ids \cup {d.cid : d \in Arrivals}
    BY <1>3 DEF Group
  <2>3. x = [g EXCEPT !.events = events, !.summary = sum, !.cid = cid]
    BY <1>3 DEF Group
  <2> HIDE DEF sum, cid, x
  <2> QED BY <2>1, <2>2, <2>3, <1>3, <1>5 DEF Group
<1> HIDE DEF x
<1>8. Filed(Range(groups), ingested, forgotten) /\ ingested \subseteq Arrivals /\ forgotten \subseteq ingested
  BY DEF GroupsInv
<1>9. groups' \in Seq(Group) /\ IsInjective(groups') /\ Range(groups') = (Range(groups) \ {g}) \cup {x}
  BY <1>2, <1>6, <1>7, ReplaceGroup
<1>10. Filed(Range(groups'), ingested', forgotten')
  <2>1. x.cid = g.cid \/ (e.cid # None /\ x.cid = e.cid)
    BY <1>6
  <2>2. Filed((Range(groups) \ {g}) \cup {x}, ingested \cup {e}, forgotten \cup (Range(g.events) \ Range(x.events)))
    BY <2>1, <1>3, <1>5, <1>6, <1>7, <1>8, JoinFiles
  <2> QED BY <2>2, <1>2, <1>6, <1>9
<1>11. Range(g.events) \subseteq ingested
  BY <1>3, <1>8 DEF Filed
<1>12. forgotten' \subseteq ingested'
  BY <1>2, <1>8, <1>11
<1> QED BY <1>2, <1>3, <1>5, <1>6, <1>7, <1>9, <1>10, <1>12

LEMMA CreateKeeps ==
    ASSUME GroupsInv, NEW e \in Arrivals \ ingested, CreateGroup(e),
           ingested' = ingested \cup {e}
    PROVE  /\ groups' \in Seq(Group) /\ IsInjective(groups') /\ forgotten' \subseteq ingested'
           /\ Filed(Range(groups'), ingested', forgotten')
           /\ \E x \in Group :
                /\ Range(groups') \subseteq Range(groups) \cup {x}
                /\ x.id = e.id /\ Range(x.events) = {e}
                /\ x.cid = IF e.cid # None THEN e.cid ELSE e.id
<1> DEFINE x == [id |-> e.id, cid |-> IF e.cid # None THEN e.cid ELSE e.id,
                 createdAt |-> e.time, events |-> <<e>>, summary |-> BuildGroupSummary(<<e>>)]
           gs == Append(groups, x)
           I == {i \in 1..Len(gs) : \A h \in Range(gs) : gs[i].createdAt <= h.createdAt}
           oldest == IF I # {} THEN Min(I) ELSE 0
<1>1. IF Len(gs) > MaxGroups
      THEN groups' = RemoveAt(gs, oldest) /\ forgotten' = forgotten \cup Range(gs[oldest].events)
      ELSE groups' = gs /\ forgotten' = forgotten
  BY DEF CreateGroup, SelectInSeq
<1>2. /\ x.id = e.id /\ x.events = <<e>> /\ x.summary = BuildGroupSummary(x.events) /\ Range(x.events) = {e}
      /\ x.cid = IF e.cid # None THEN e.cid ELSE e.id
  BY DEF Range
<1>3. x \in Group
  <2>1. <<e>> \in Seq(Arrivals) /\ e.time \in Nat /\ e.id \in Ids
    BY CorrelationAssumption DEF Ids
  <2>2. BuildGroupSummary(<<e>>) \in {BuildGroupSummary(s) : s \in Seq(Arrivals)}
    BY <2>1
  <2>3. (IF e.cid # None THEN e.cid ELSE e.id) \in Ids \cup {d.cid : d \in Arrivals}
    BY <2>1
  <2> QED BY <2>1, <2>2, <2>3 DEF Group
<1> HIDE DEF x
<1>4. /\ groups \in Seq(Group) /\ IsInjective(groups)
      /\ Filed(Range(groups), ingested, forgotten) /\ ingested \subseteq Arrivals /\ forgotten \subseteq ingested
  BY DEF GroupsInv
<1>5. Filed(Range(groups) \cup {x}, ingested', forgotten) /\ x \notin Range(groups)
  BY <1>2, <1>3, <1>4, FoundFiles
<1>6. /\ gs \in Seq(Group) /\ IsInjective(gs) /\ Len(gs) = Len(groups) + 1
      /\ Range(gs) = Range(groups) \cup {x}
  BY <1>3, <1>4, <1>5, AppendElement
<1> HIDE DEF gs
<1>7. Len(gs) \in Nat /\ DOMAIN gs = 1..Len(gs) /\ Len(gs) > 0
  BY <1>4, <1>6, LenProperties
<1>8. oldest \in 1..Len(gs)
  <2> DEFINE times == {gs[i].createdAt : i \in 1..Len(gs)}
  <2>1. \A i \in 1..Len(gs) : gs[i] \in Group /\ gs[i].createdAt \in Nat
    <3>1. \A i \in 1..Len(gs) : gs[i] \in Group
      BY <1>6, <1>7
    <3>2. \A h \in Group : h.createdAt \in Nat
      BY DEF Group
    <3> QED BY <3>1, <3>2
  <2>2. times \subseteq Nat
    BY <2>1
  <2>3. gs[1].createdAt \in times
    BY <1>7
  <2>4. Min(times) \in times /\ \A t \in times : Min(times) <= t
    BY <2>2, <2>3, NatMin
  <2>5. PICK i \in 1..Len(gs) : gs[i].createdAt = Min(times)
    BY <2>4
  <2>6. \A h \in Range(gs) : h.createdAt \in times
    BY <1>7 DEF Range
  <2>7. i \in I
    <3> HIDE DEF times
    <3> QED BY <2>4, <2>5, <2>6
  <2>8. I \subseteq Nat
    BY <1>7
  <2>9. Min(I) \in I
    BY <2>7, <2>8, NatMin
  <2> QED BY <2>7, <2>9
<1> HIDE DEF oldest
<1>9. CASE Len(gs) > MaxGroups
  <2>1. groups' = RemoveAt(gs, oldest) /\ forgotten' = forgotten \cup Range(gs[oldest].events)
    BY <1>1, <1>9
  <2>2. groups' \in Seq(Group) /\ IsInjective(groups') /\ Range(groups') = Range(gs) \ {gs[oldest]}
    BY <2>1, <1>6, <1>8, RemoveOne
  <2>3. gs[oldest] \in Range(gs)
    BY <1>7, <1>8 DEF Range
  <2>4. Filed(Range(gs), ingested', forgotten)
    BY <1>5, <1>6
  <2>5. Filed(Range(groups'), ingested', forgotten')
    BY <2>1, <2>2, <2>3, <2>4, DropFiles
  <2>6. Range(gs[oldest].events) \subseteq ingested'
    BY <2>3, <2>4 DEF Filed
  <2> QED BY <2>1, <2>2, <2>5, <2>6, <1>2, <1>3, <1>4, <1>6
<1>10. CASE ~(Len(gs) > MaxGroups)
  BY <1>1, <1>10, <1>2, <1>3, <1>4, <1>5, <1>6
<1> QED BY <1>9, <1>10

LEMMA IngestKeeps == ASSUME GroupsInv, NEW e \in Arrivals, Ingest(e) PROVE GroupsInv'
<1>1. /\ e \in Arrivals \ ingested /\ ingested' = ingested \cup {e}
      /\ allEvents' = LastOf(Append(allEvents, e), MaxRetained) /\ Correlate(e)
  BY DEF Ingest
<1>2. /\ groups' \in Seq(Group) /\ IsInjective(groups') /\ forgotten' \subseteq ingested'
      /\ Filed(Range(groups'), ingested', forgotten')
  <2>1. CASE Matched(e) # None
    BY <2>1, <1>1, AddKeeps DEF Correlate
  <2>2. CASE Matched(e) = None
    BY <2>2, <1>1, CreateKeeps DEF Correlate
  <2> QED BY <2>1, <2>2
<1>3. allEvents \in Seq(Arrivals) /\ Range(allEvents) \subseteq ingested /\ MaxRetained \in Nat \ {0}
  BY CorrelationAssumption DEF GroupsInv
<1>4. /\ allEvents' \in Seq(Arrivals) /\ IsInjective(allEvents')
      /\ Range(allEvents') \subseteq Range(allEvents) \cup {e}
  <2>1. IsInjective(allEvents) /\ e \notin Range(allEvents)
    BY <1>1, <1>3 DEF GroupsInv
  <2> QED BY <2>1, <1>1, <1>3, LastOfNew
<1>5. ingested' \subseteq Arrivals /\ Range(allEvents') \subseteq ingested'
  BY <1>1, <1>3, <1>4 DEF GroupsInv
<1> QED BY <1>2, <1>4, <1>5 DEF GroupsInv

LEMMA GroupsNext == ASSUME GroupsInv, [CaptureNext]_captureVars PROVE GroupsInv'
<1>1. CASE CorrelatorStep
  BY <1>1, IngestKeeps, GroupsKept DEF CorrelatorStep, Next, Tick
<1>2. CASE ~CorrelatorStep
  <2>1. UNCHANGED vars
    BY <1>2 DEF CaptureNext, captureVars, TailStep, NetworkStep, BrowserStep, CommandStep
  <2> QED BY <2>1, GroupsKept DEF vars
<1> QED BY <1>1, <1>2

LEMMA GroupsShowErrors == ASSUME GroupsInv PROVE ErrorsAreVisible
<1> SUFFICES ASSUME NEW e \in Range(allEvents) \ forgotten,
                    e \in Errors(allEvents) \/ (e.kind = "request-end" /\ e.failed)
             PROVE  \E g \in Range(groups) : e \in Range(g.events) /\ g.summary.hasError
  BY DEF ErrorsAreVisible
<1>1. e \in ingested \ forgotten /\ Announces(e)
  BY DEF Errors, Announces, GroupsInv
<1>2. PICK g \in Range(groups) : e \in Range(g.events)
  BY <1>1 DEF GroupsInv, Filed
<1>3. g.summary = BuildGroupSummary(g.events)
  BY <1>2 DEF GroupsInv, Filed
<1>4. BuildGroupSummary(g.events).hasError = \E x \in Range(g.events) : Announces(x)
  BY Zenon DEF BuildGroupSummary
<1> QED BY <1>1, <1>2, <1>3, <1>4, Zenon

LEMMA GroupsAreOne == ASSUME GroupsInv PROVE OneGroupEach
<1> SUFFICES ASSUME NEW e \in ingested
             PROVE  Cardinality({i \in DOMAIN groups : e \in Range(groups[i].events)})
                      = IF e \in forgotten THEN 0 ELSE 1
  BY DEF OneGroupEach
<1> DEFINE at == {i \in DOMAIN groups : e \in Range(groups[i].events)}
<1>1. \A i \in DOMAIN groups : groups[i] \in Range(groups)
  BY DEF Range
<1>2. CASE e \in forgotten
  <2>1. at = {}
    BY <1>1, <1>2 DEF GroupsInv, Filed
  <2> QED BY <2>1, <1>2, FS_EmptySet
<1>3. CASE e \notin forgotten
  <2>1. PICK g \in Range(groups) : e \in Range(g.events)
    BY <1>3 DEF GroupsInv, Filed
  <2>2. PICK i \in DOMAIN groups : groups[i] = g
    BY DEF Range
  <2>3. ASSUME NEW j \in at PROVE j = i
    <3>1. groups[j] = groups[i]
      BY <1>1, <2>1, <2>2, <2>3 DEF GroupsInv, Filed
    <3> QED BY <3>1, <2>2 DEF GroupsInv, IsInjective
  <2>4. at = {i}
    BY <2>1, <2>2, <2>3
  <2> QED BY <2>4, <1>3, FS_Singleton
<1> QED BY <1>2, <1>3

\* Of every page error, failed response and error log, and of every request
\* that ends with an error, the group it is filed under announces one - in
\* whatever order events come, for all strategies, windows and caps.
THEOREM ErrorsVisible == CaptureSpec => []ErrorsAreVisible
<1>1. CaptureInit => GroupsInv
  BY GroupsStart DEF CaptureInit
<1>2. GroupsInv => ErrorsAreVisible
  BY GroupsShowErrors
<1> QED BY <1>1, <1>2, GroupsNext, PTL DEF CaptureSpec

\* An event that has come is in exactly one group until a cap drops it, and
\* then in none: the first part of GroupedOnce.
THEOREM EventsHaveOneGroup == CaptureSpec => []OneGroupEach
<1>1. CaptureInit => GroupsInv
  BY GroupsStart DEF CaptureInit
<1>2. GroupsInv => OneGroupEach
  BY GroupsAreOne
<1> QED BY <1>1, <1>2, GroupsNext, PTL DEF CaptureSpec

-----------------------------------------------------------------------------
(* The timeline *)

LEMMA EarlierIsAnOrder ==
    /\ \A a \in Arrivals : ~Earlier(a, a)
    /\ \A a, b \in Arrivals : a = b \/ Earlier(a, b) \/ Earlier(b, a)
    /\ \A a, b, c \in Arrivals : Earlier(a, b) /\ Earlier(b, c) => Earlier(a, c)
<1>1. \A a \in Arrivals : a.time \in Nat /\ a.id \in Nat
  BY CorrelationAssumption
<1>2. \A a, b \in Arrivals : a.id = b.id => a = b
  BY CorrelationAssumption
<1>3. ASSUME NEW a \in Arrivals PROVE ~Earlier(a, a)
  BY <1>1 DEF Earlier
<1>4. ASSUME NEW a \in Arrivals, NEW b \in Arrivals PROVE a = b \/ Earlier(a, b) \/ Earlier(b, a)
  BY <1>1, <1>2 DEF Earlier
<1>5. ASSUME NEW a \in Arrivals, NEW b \in Arrivals, NEW c \in Arrivals, Earlier(a, b), Earlier(b, c)
      PROVE  Earlier(a, c)
  BY <1>1, <1>5 DEF Earlier
<1> QED BY <1>3, <1>4, <1>5

Before(S, e) == {d \in S : Earlier(d, e)}

\* Of n events the numbers of those before each are 0 to n - 1, in their order.
LEMMA Ranks ==
    ASSUME NEW S \in SUBSET Arrivals, IsFiniteSet(S)
    PROVE  /\ Cardinality(S) \in Nat
           /\ \A e \in S : Cardinality(Before(S, e)) \in 0..(Cardinality(S) - 1)
           /\ \A d, e \in S : Earlier(d, e) => Cardinality(Before(S, d)) < Cardinality(Before(S, e))
           /\ \A k \in 1..Cardinality(S) : \E e \in S : Cardinality(Before(S, e)) = k - 1
<1> DEFINE n == Cardinality(S)
           rank(e) == Cardinality(Before(S, e))
<1>1. n \in Nat
  BY FS_CardinalityType
<1>2. \A e \in S : Before(S, e) \in SUBSET S /\ e \notin Before(S, e)
  BY EarlierIsAnOrder DEF Before
<1>3. \A e \in S : IsFiniteSet(Before(S, e)) /\ rank(e) \in Nat
  <2>1. ASSUME NEW e \in S PROVE IsFiniteSet(Before(S, e))
    BY <1>2, FS_Subset
  <2> QED BY <2>1, FS_CardinalityType
<1>4. ASSUME NEW e \in S PROVE rank(e) \in 0..(n - 1)
  <2>1. IsFiniteSet(S \ {e}) /\ Cardinality(S \ {e}) = n - 1
    BY FS_RemoveElement
  <2>2. Before(S, e) \in SUBSET (S \ {e})
    BY <1>2
  <2>3. rank(e) <= Cardinality(S \ {e})
    BY <2>1, <2>2, FS_Subset
  <2> QED BY <2>1, <2>3, <1>1, <1>3
<1>5. ASSUME NEW d \in S, NEW e \in S, Earlier(d, e) PROVE rank(d) < rank(e)
  <2>1. Before(S, d) \in SUBSET Before(S, e)
    BY <1>5, EarlierIsAnOrder DEF Before
  <2>2. d \in Before(S, e) /\ d \notin Before(S, d)
    BY <1>2, <1>5 DEF Before
  <2>3. rank(d) <= rank(e) /\ rank(e) # rank(d)
    BY <2>1, <2>2, <1>3, FS_Subset
  <2> QED BY <2>3, <1>3
<1>6. ASSUME NEW d \in S, NEW e \in S, rank(d) = rank(e) PROVE d = e
  <2> HIDE DEF rank
  <2>1. ~Earlier(d, e) /\ ~Earlier(e, d)
    BY <1>3, <1>5, <1>6
  <2> QED BY <2>1, EarlierIsAnOrder
<1>7. ASSUME NEW k \in 1..n, \A e \in S : rank(e) # k - 1 PROVE FALSE
  <2> DEFINE T == (0..(n - 1)) \ {k - 1}
             f == [e \in S |-> rank(e)]
  <2> HIDE DEF n, rank
  <2>1. 0 \in Int /\ n - 1 \in Int /\ k - 1 \in 0..(n - 1)
    BY <1>1
  <2>2. IsFiniteSet(0..(n - 1)) /\ Cardinality(0..(n - 1)) = IF 0 > n - 1 THEN 0 ELSE (n - 1) - 0 + 1
    BY <2>1, FS_Interval, Zenon
  <2>3. Cardinality(0..(n - 1)) = n
    BY <2>1, <2>2, <1>1
  <2>4. IsFiniteSet(T) /\ Cardinality(T) = n - 1
    <3>1. IsFiniteSet(T) /\ Cardinality(T) = IF k - 1 \in 0..(n - 1) THEN Cardinality(0..(n - 1)) - 1
                                             ELSE Cardinality(0..(n - 1))
      BY <2>2, FS_RemoveElement, Zenon DEF T
    <3> QED BY <3>1, <2>1, <2>3
  <2>5. Cardinality(T) < Cardinality(S)
    BY <2>4, <1>1 DEF n
  <2>6. f \in [S -> T]
    BY <1>4, <1>7
  <2>7. \E x, y \in S : x # y /\ f[x] = f[y]
    <3> HIDE DEF T, f
    <3> QED BY <2>4, <2>5, <2>6, FS_PigeonHole
  <2> QED BY <2>7, <1>6
<1> QED BY <1>1, <1>4, <1>5, <1>7

\* The timeline puts the retained events in order and leaves none out.
LEMMA SortedIsInOrder ==
    ASSUME NEW s \in Seq(Arrivals), IsInjective(s)
    PROVE  /\ Sorted(s) \in Seq(Range(s)) /\ Len(Sorted(s)) = Cardinality(Range(s))
           /\ \A i \in 1..(Len(Sorted(s)) - 1) : Earlier(Sorted(s)[i], Sorted(s)[i + 1])
<1> DEFINE S == Range(s)
           n == Len(s)
           t == Sorted(s)
           rank(e) == Cardinality(Before(S, e))
<1>1. n \in Nat /\ DOMAIN s = 1..n /\ \A i \in 1..n : s[i] \in Arrivals
  BY LenProperties
<1>2. S \in SUBSET Arrivals
  BY <1>1 DEF Range
<1>3. IsFiniteSet(1..n) /\ Cardinality(1..n) = n
  <2>1. 1 \in Int /\ n \in Int
    BY <1>1
  <2>2. IsFiniteSet(1..n) /\ Cardinality(1..n) = IF 1 > n THEN 0 ELSE n - 1 + 1
    BY <2>1, FS_Interval, Zenon
  <2> QED BY <2>2, <1>1
<1>4. IsFiniteSet(S) /\ Cardinality(S) = n
  <2>1. s \in Bijection(1..n, S)
    BY <1>1 DEF Range, IsInjective, Bijection, Injection, Surjection
  <2>2. ExistsBijection(1..n, S)
    BY <2>1 DEF ExistsBijection
  <2> HIDE DEF S, n
  <2> QED BY <2>2, <1>3, FS_Bijection
<1>5. /\ \A d, e \in S : Earlier(d, e) => rank(d) < rank(e)
      /\ \A k \in 1..n : \E e \in S : rank(e) = k - 1
      /\ \A e \in S : rank(e) \in 0..(n - 1)
  BY <1>2, <1>4, Ranks
<1>6. t = [i \in 1..n |-> CHOOSE e \in S : rank(e) = i - 1]
  BY <1>1 DEF Sorted, Before
<1>7. ASSUME NEW i \in 1..n PROVE t[i] \in S /\ rank(t[i]) = i - 1
  <2> HIDE DEF rank, S, n, t
  <2>1. t[i] = CHOOSE e \in S : rank(e) = i - 1
    BY <1>6
  <2> QED BY <2>1, <1>5
<1> HIDE DEF rank, S, n, t
<1>8. t \in Seq(S) /\ Len(t) = n
  <2>1. t \in [1..n -> S]
    BY <1>6, <1>7
  <2> QED BY <2>1, <1>1
<1>9. ASSUME NEW i \in 1..(n - 1) PROVE Earlier(t[i], t[i + 1])
  <2>1. i \in 1..n /\ i + 1 \in 1..n
    BY <1>1
  <2>2. t[i] \in S /\ t[i + 1] \in S /\ rank(t[i]) = i - 1 /\ rank(t[i + 1]) = i
    BY <2>1, <1>7
  <2>3. t[i] # t[i + 1] /\ ~(rank(t[i + 1]) < rank(t[i]))
    BY <2>1, <2>2
  <2>4. ~Earlier(t[i + 1], t[i])
    BY <2>2, <2>3, <1>5
  <2> QED BY <2>2, <2>3, <2>4, <1>2, EarlierIsAnOrder
<1> QED BY <1>4, <1>8, <1>9 DEF S, n, t

LEMMA TimelineIsWhole == ASSUME GroupsInv PROVE TimelineShowsAll
<1> DEFINE sorted == Sorted(allEvents)
           entries == BuildTimeline.entries
           holders(e) == {g \in Range(groups) : e \in Range(g.events)}
           group(e) == IF holders(e) = {} THEN None ELSE (CHOOSE g \in holders(e) : TRUE).id
<1>1. /\ sorted \in Seq(Range(allEvents)) /\ Len(sorted) = Cardinality(Range(allEvents))
      /\ \A i \in 1..(Len(sorted) - 1) : Earlier(sorted[i], sorted[i + 1])
  BY SortedIsInOrder DEF GroupsInv
<1>2. /\ DOMAIN sorted = 1..Len(sorted) /\ Len(sorted) \in Nat
      /\ \A i \in 1..Len(sorted) : sorted[i] \in Range(allEvents)
  BY <1>1, LenProperties
<1>3. entries = [i \in DOMAIN sorted |-> [event |-> sorted[i], groupId |-> group(sorted[i])]]
  BY DEF BuildTimeline
<1>4. ASSUME NEW e \in Range(allEvents) PROVE (group(e) = None) = (e \in forgotten)
  <2>1. e \in ingested
    BY <1>4 DEF GroupsInv
  <2>2. CASE e \in forgotten
    <3>1. holders(e) = {}
      BY <2>2 DEF GroupsInv, Filed
    <3> QED BY <3>1, <2>2
  <2>3. CASE e \notin forgotten
    <3>1. holders(e) # {}
      BY <2>1, <2>3 DEF GroupsInv, Filed
    <3>2. PICK g \in holders(e) : group(e) = g.id
      BY <3>1
    <3>3. g.id \in Ids
      BY <3>2 DEF GroupsInv, Filed, Group
    <3>4. g.id # None
      BY <3>3, CorrelationAssumption DEF Ids
    <3> QED BY <3>2, <3>4, <2>3
  <2> QED BY <2>2, <2>3
<1> HIDE DEF sorted, entries, group
<1>5. /\ DOMAIN entries = 1..Len(sorted) /\ Len(entries) = Len(sorted)
      /\ \A i \in 1..Len(sorted) : entries[i].event = sorted[i] /\ entries[i].groupId = group(sorted[i])
  BY <1>2, <1>3
<1>6. \A i \in 1..Len(entries) - 1 : Earlier(entries[i].event, entries[i + 1].event)
  <2> SUFFICES ASSUME NEW i \in 1..(Len(sorted) - 1) PROVE Earlier(entries[i].event, entries[i + 1].event)
    BY <1>5
  <2>1. i \in 1..Len(sorted) /\ i + 1 \in 1..Len(sorted)
    BY <1>2
  <2> QED BY <2>1, <1>1, <1>5
<1>7. \A i \in DOMAIN entries : (entries[i].groupId = None) = (entries[i].event \in forgotten)
  BY <1>2, <1>4, <1>5
<1> QED BY <1>1, <1>5, <1>6, <1>7 DEF TimelineShowsAll, entries

\* Whatever the order events come in, the timeline shows each that is retained
\* once, in the order of time, with a group as long as no cap has dropped it
\* there: the third part of GroupedOnce.
THEOREM TimelineIsComplete == CaptureSpec => []TimelineShowsAll
<1>1. CaptureInit => GroupsInv
  BY GroupsStart DEF CaptureInit
<1>2. GroupsInv => TimelineShowsAll
  BY TimelineIsWhole
<1> QED BY <1>1, <1>2, GroupsNext, PTL DEF CaptureSpec

-----------------------------------------------------------------------------
(* The keys of the groups *)

\* The default order of the strategies; an id of an event or a group, which is
\* generated, is nobody's correlation key.
RequestIdFirst == Len(Strategies) > 0 /\ Strategies[1] \in {"request-id", "trace-id"}
IdsAreNoKeys == \A d, e \in Arrivals : CorrelationKey(e) # d.id

\* Two groups that take events have no key in common.
Apart(G) ==
    \A g, h \in G : g # h /\ Active(g) /\ Active(h) =>
        \A k : k # None => ~(HasKey(g, k) /\ HasKey(h, k))

KeysInv == Apart(Range(groups)) /\ now \in Nat

\* The group of an event whose key some group has that takes events has it.
LEMMA MatchHasKey ==
    ASSUME GroupsInv, RequestIdFirst, NEW e \in Arrivals, CorrelationKey(e) # None,
           NEW h \in Snapshot, HasKey(h, CorrelationKey(e))
    PROVE  /\ Matched(e) # None
           /\ \E g \in Snapshot : g.id = Matched(e) /\ HasKey(g, CorrelationKey(e))
<1> DEFINE I == {i \in 1..Len(groups) : groups[i] \in Snapshot /\ HasKey(groups[i], CorrelationKey(e))}
<1>1. groups \in Seq(Group) /\ Len(groups) \in Nat /\ DOMAIN groups = 1..Len(groups)
  BY LenProperties DEF GroupsInv
<1>2. I # {} /\ I \subseteq Nat
  BY <1>1 DEF Snapshot, Range
<1>3. RequestId(e) = groups[Min(I)].id
  <2>1. Min(I) # 0
    <3>1. Min(I) \in I
      BY <1>2, NatMin
    <3> QED BY <3>1, <1>1
  <2>2. SelectInSeq(groups, LAMBDA g : g \in Snapshot /\ HasKey(g, CorrelationKey(e))) = Min(I)
    BY <1>2 DEF SelectInSeq
  <2> QED BY <2>1, <2>2 DEF RequestId, FirstGroup
<1>4. Min(I) \in I
  BY <1>2, NatMin
<1> HIDE DEF I
<1>5. groups[Min(I)] \in Snapshot /\ HasKey(groups[Min(I)], CorrelationKey(e)) /\ groups[Min(I)] \in Group
  BY <1>1, <1>4 DEF I
<1>6. RequestId(e) # None
  BY <1>3, <1>5, CorrelationAssumption DEF Group, Ids
<1> DEFINE J == {j \in 1..Len(Strategies) : TryCorrelate(Strategies[j], e) # None}
<1>7. TryCorrelate(Strategies[1], e) = RequestId(e)
  BY DEF RequestIdFirst, TryCorrelate
<1>8. 1 \in J /\ J \subseteq Nat /\ \A j \in J : 1 <= j
  BY <1>6, <1>7, CorrelationAssumption, LenProperties DEF RequestIdFirst
<1>9. Min(J) \in J /\ Min(J) <= 1
  BY <1>8, NatMin
<1>10. Min(J) = 1
  BY <1>8, <1>9
<1>11. Matched(e) = TryCorrelate(Strategies[1], e)
  BY <1>8, <1>10 DEF Matched, SelectInSeq
<1> QED BY <1>3, <1>5, <1>6, <1>7, <1>11

\* A list of numbers has an upper bound.
LEMMA Bounded ==
    ASSUME NEW n \in Nat, NEW f, \A j \in 1..n : f[j] \in Nat
    PROVE  \E b \in Nat : \A j \in 1..n : f[j] <= b
<1> DEFINE Bound(k, b) == \A j \in 1..k : f[j] <= b
           Bad == {k \in 0..n : ~\E b \in Nat : Bound(k, b)}
<1>1. SUFFICES ASSUME Bad # {} PROVE FALSE
  <2>1. n \in 0..n
    OBVIOUS
  <2> QED BY <2>1
<1>2. Bad \subseteq Nat
  OBVIOUS
<1>3. PICK m \in Bad : \A k \in Bad : m <= k
  BY <1>1, <1>2, NatMin
<1>4. m \in 0..n /\ ~\E b \in Nat : Bound(m, b)
  OBVIOUS
<1>5. m # 0
  <2>1. Bound(0, 0)
    OBVIOUS
  <2> HIDE DEF Bound
  <2> QED BY <1>4, <2>1
<1>6. m - 1 \in 0..n /\ m - 1 \notin Bad
  <2>1. m - 1 \in 0..n /\ ~(m <= m - 1)
    BY <1>4, <1>5
  <2> HIDE DEF Bad
  <2> QED BY <2>1, <1>3
<1>7. \E b \in Nat : Bound(m - 1, b)
  <2> HIDE DEF Bound
  <2> QED BY <1>6
<1>8. PICK b \in Nat : Bound(m - 1, b)
  BY <1>7
<1>9. f[m] \in Nat
  BY <1>4, <1>5
<1> DEFINE c == IF f[m] <= b THEN b ELSE f[m]
<1>10. c \in Nat /\ b <= c /\ f[m] <= c
  BY <1>9
<1> HIDE DEF c
<1>11. Bound(m, c)
  <2> SUFFICES ASSUME NEW j \in 1..m PROVE f[j] <= c
    OBVIOUS
  <2>1. CASE j = m
    BY <2>1, <1>10
  <2>2. CASE j # m
    <3>1. j \in 1..(m - 1) /\ j \in 1..n
      BY <2>2, <1>4
    <3>2. f[j] <= b /\ f[j] \in Nat
      BY <3>1, <1>8
    <3> QED BY <3>2, <1>10
  <2> QED BY <2>1, <2>2
<1> HIDE DEF Bound
<1> QED BY <1>4, <1>10, <1>11

\* The latest time of a group is a time.
LEMMA LatestIsTime == ASSUME NEW g \in Group PROVE Latest(g) \in Nat
<1> DEFINE s == g.events
           n == Len(s)
           f == [j \in 1..n |-> s[j].time]
           times == {g.createdAt} \cup {e.time : e \in Range(s)}
<1>1. s \in Seq(Arrivals) /\ g.createdAt \in Nat
  BY DEF Group
<1>2. n \in Nat /\ DOMAIN s = 1..n /\ \A j \in 1..n : s[j] \in Arrivals
  BY <1>1, LenProperties
<1>3. \A j \in 1..n : f[j] = s[j].time /\ f[j] \in Nat
  BY <1>2, CorrelationAssumption
<1> HIDE DEF f, n, s
<1>4. PICK b \in Nat : \A j \in 1..n : f[j] <= b
  BY <1>2, <1>3, Bounded
<1>5. \A t \in times : t = g.createdAt \/ \E j \in 1..n : t = f[j]
  BY <1>2, <1>3 DEF Range
<1>6. times \subseteq Nat /\ g.createdAt \in times
  BY <1>1, <1>3, <1>5
<1> DEFINE c == IF g.createdAt <= b THEN b ELSE g.createdAt
           Above == {m \in Nat : \A t \in times : t <= m}
<1>7. c \in Nat /\ b <= c /\ g.createdAt <= c
  BY <1>1
<1>8. c \in Above
  <2> HIDE DEF times, c
  <2>1. ASSUME NEW t \in times PROVE t <= c
    <3>1. CASE t = g.createdAt
      BY <3>1, <1>7
    <3>2. ASSUME NEW j \in 1..n, t = f[j] PROVE t <= c
      <4>1. f[j] \in Nat /\ f[j] <= b
        BY <1>3, <1>4
      <4> QED BY <4>1, <3>2, <1>7
    <3> QED BY <3>1, <3>2, <1>5
  <2> QED BY <2>1, <1>7
<1> HIDE DEF times, c
<1>9. Above # {} /\ Above \subseteq Nat
  BY <1>8
<1>10. PICK m \in Above : \A k \in Above : m <= k
  BY <1>9, NatMin
<1>11. m \in Nat /\ \A t \in times : t <= m
  OBVIOUS
<1>12. m \in times
  <2> SUFFICES ASSUME m \notin times PROVE FALSE
    OBVIOUS
  <2>1. \A t \in times : t \in Nat /\ t <= m /\ t # m
    BY <1>6, <1>11
  <2>2. m - 1 \in Nat
    <3> DEFINE t == g.createdAt
    <3>1. t \in Nat /\ t <= m /\ t # m
      BY <2>1, <1>6
    <3> HIDE DEF t
    <3> QED BY <3>1, <1>11
  <2>3. ASSUME NEW t \in times PROVE t <= m - 1
    <3>1. t \in Nat /\ t <= m /\ t # m
      BY <2>1
    <3> QED BY <3>1, <1>11
  <2>4. m - 1 \in Above
    BY <2>2, <2>3
  <2> QED BY <2>4, <1>10, <1>11
<1>13. Latest(g) = CHOOSE t \in times : \A u \in times : u <= t
  BY DEF Latest, times, s
<1>14. Latest(g) \in times
  BY <1>11, <1>12, <1>13
<1> QED BY <1>6, <1>14

\* An event brings its own key to a group, and no other.
LEMMA KeyJoins ==
    ASSUME NEW g, NEW x, NEW e, NEW k, k # None, HasKey(x, k),
           Range(x.events) \subseteq Range(g.events) \cup {e},
           x.cid = g.cid \/ (e.cid # None /\ x.cid = e.cid)
    PROVE  HasKey(g, k) \/ k = CorrelationKey(e)
<1>1. CASE x.cid = k
  BY <1>1 DEF HasKey, CorrelationKey
<1>2. CASE \E y \in Range(x.events) : CorrelationKey(y) = k
  BY <1>2 DEF HasKey
<1> QED BY <1>1, <1>2 DEF HasKey

LEMMA AddKeepsApart ==
    ASSUME GroupsInv, KeysInv, RequestIdFirst, NEW e \in Arrivals \ ingested, Matched(e) # None,
           AddEventToGroup(Matched(e), e), ingested' = ingested \cup {e}, now' = now
    PROVE  Apart(Range(groups))'
<1>1. PICK g \in Range(groups), x \in Group :
        /\ g.id = Matched(e) /\ Range(groups') = (Range(groups) \ {g}) \cup {x}
        /\ x.id = g.id /\ Range(x.events) \subseteq Range(g.events) \cup {e}
        /\ x.cid = g.cid \/ (e.cid # None /\ x.cid = e.cid)
  BY AddKeeps
<1>2. \A h \in Snapshot : h.id = Matched(e) => h = g
  BY <1>1 DEF Snapshot, GroupsInv, Filed
<1>3. Active(g)
  <2>1. PICK h \in Snapshot : h.id = Matched(e)
    BY MatchIsNamed DEF Named
  <2> QED BY <2>1, <1>2 DEF Snapshot
<1>4. ASSUME NEW h \in Range(groups) \ {g}, Active(h), NEW k, k # None, HasKey(h, k), HasKey(x, k)
      PROVE  FALSE
  <2>1. ~HasKey(g, k)
    BY <1>1, <1>3, <1>4 DEF KeysInv, Apart
  <2>2. k = CorrelationKey(e)
    BY <1>1, <1>4, <2>1, KeyJoins
  <2>3. h \in Snapshot
    BY <1>4 DEF Snapshot
  <2>4. PICK a \in Snapshot : a.id = Matched(e) /\ HasKey(a, k)
    BY <2>2, <2>3, <1>4, MatchHasKey
  <2> QED BY <2>1, <2>4, <1>2
<1>5. ASSUME NEW a \in Range(groups'), NEW b \in Range(groups'), a # b, Active(a), Active(b),
             NEW k, k # None, HasKey(a, k), HasKey(b, k)
      PROVE  FALSE
  <2>1. CASE a = x
    BY <2>1, <1>1, <1>4, <1>5
  <2>2. CASE b = x
    BY <2>2, <1>1, <1>4, <1>5
  <2>3. CASE a \in Range(groups) /\ b \in Range(groups)
    BY <2>3, <1>5 DEF KeysInv, Apart
  <2> QED BY <2>1, <2>2, <2>3, <1>1
<1>6. \A a \in Range(groups') : Active(a)' <=> Active(a)
  BY DEF Active
<1> QED BY <1>5, <1>6 DEF Apart

LEMMA CreateKeepsApart ==
    ASSUME GroupsInv, KeysInv, RequestIdFirst, IdsAreNoKeys, NEW e \in Arrivals \ ingested, Matched(e) = None,
           CreateGroup(e), ingested' = ingested \cup {e}, now' = now
    PROVE  Apart(Range(groups))'
<1>1. PICK x \in Group :
        /\ Range(groups') \subseteq Range(groups) \cup {x}
        /\ x.id = e.id /\ Range(x.events) = {e}
        /\ x.cid = IF e.cid # None THEN e.cid ELSE e.id
  BY CreateKeeps
<1>2. ASSUME NEW h \in Range(groups), Active(h), NEW k, k # None, HasKey(h, k), HasKey(x, k)
      PROVE  FALSE
  <2>1. h \in Snapshot
    BY <1>2 DEF Snapshot
  <2>2. k = CorrelationKey(e) \/ k = e.id
    BY <1>1, <1>2 DEF HasKey, CorrelationKey
  <2>3. CASE k = CorrelationKey(e)
    BY <2>1, <2>3, <1>2, MatchHasKey
  <2>4. CASE k = e.id
    <3>1. \A y \in Range(h.events) : CorrelationKey(y) # e.id
      BY DEF GroupsInv, Filed, IdsAreNoKeys
    <3>2. h.cid = e.id
      BY <3>1, <2>4, <1>2 DEF HasKey
    <3>3. CASE h.cid = h.id
      BY <3>2, <3>3, CorrelationAssumption DEF GroupsInv, Filed
    <3>4. ASSUME NEW y \in Arrivals, y.cid # None, h.cid = y.cid PROVE FALSE
      BY <3>2, <3>4 DEF IdsAreNoKeys, CorrelationKey
    <3> QED BY <3>3, <3>4 DEF GroupsInv, Filed
  <2> QED BY <2>2, <2>3, <2>4
<1>3. ASSUME NEW a \in Range(groups'), NEW b \in Range(groups'), a # b, Active(a), Active(b),
             NEW k, k # None, HasKey(a, k), HasKey(b, k)
      PROVE  FALSE
  <2>1. CASE a \notin Range(groups)
    BY <2>1, <1>1, <1>2, <1>3
  <2>2. CASE b \notin Range(groups)
    BY <2>2, <1>1, <1>2, <1>3
  <2>3. CASE a \in Range(groups) /\ b \in Range(groups)
    BY <2>3, <1>3 DEF KeysInv, Apart
  <2> QED BY <2>1, <2>2, <2>3
<1>4. \A a \in Range(groups') : Active(a)' <=> Active(a)
  BY DEF Active
<1> QED BY <1>3, <1>4 DEF Apart

LEMMA TickKeepsApart == ASSUME GroupsInv, KeysInv, Tick PROVE KeysInv'
<1>1. now' = now + 1 /\ groups' = groups /\ now \in Nat
  BY DEF Tick, KeysInv
<1>2. ASSUME NEW g \in Range(groups), Active(g)' PROVE Active(g)
  <2>1. Latest(g) \in Nat /\ GroupTimeout \in Nat
    BY LatestIsTime, CorrelationAssumption DEF GroupsInv, Filed
  <2>2. (now + 1) - Latest(g) <= GroupTimeout
    BY <1>1, <1>2 DEF Active
  <2> QED BY <2>1, <2>2, <1>1 DEF Active
<1> QED BY <1>1, <1>2 DEF KeysInv, Apart

LEMMA KeysNext ==
    ASSUME GroupsInv, KeysInv, RequestIdFirst, IdsAreNoKeys, [CaptureNext]_captureVars
    PROVE  KeysInv'
<1>1. CASE CorrelatorStep
  <2>1. ASSUME NEW e \in Arrivals, Ingest(e) PROVE KeysInv'
    <3>1. e \in Arrivals \ ingested /\ ingested' = ingested \cup {e} /\ now' = now /\ Correlate(e)
      BY <2>1 DEF Ingest
    <3>2. Apart(Range(groups))'
      BY <3>1, AddKeepsApart, CreateKeepsApart DEF Correlate
    <3> QED BY <3>1, <3>2 DEF KeysInv
  <2>2. CASE Tick
    BY <2>2, TickKeepsApart
  <2> QED BY <2>1, <2>2, <1>1 DEF CorrelatorStep, Next
<1>2. CASE ~CorrelatorStep
  <2>1. UNCHANGED vars
    BY <1>2 DEF CaptureNext, captureVars, TailStep, NetworkStep, BrowserStep, CommandStep
  <2> QED BY <2>1 DEF vars, KeysInv, Apart, Active
<1> QED BY <1>1, <1>2

\* If request ids are compared first and ids are nobody's keys, two groups
\* that take events never hold the same correlation key, so that what belongs
\* to one request is filed together: the second part of GroupedOnce.
THEOREM RequestsStayTogether ==
    ASSUME RequestIdFirst, IdsAreNoKeys
    PROVE  CaptureSpec => []KeysApart
<1>1. CaptureInit => GroupsInv /\ KeysInv
  <2>1. ASSUME Init PROVE KeysInv
    <3>1. groups = <<>> /\ now = 0
      BY <2>1 DEF Init, Initialize
    <3>2. Range(groups) = {}
      BY <3>1 DEF Range
    <3> QED BY <3>1, <3>2 DEF KeysInv, Apart
  <2> QED BY <2>1, GroupsStart DEF CaptureInit
<1>2. GroupsInv /\ KeysInv /\ [CaptureNext]_captureVars => GroupsInv' /\ KeysInv'
  BY GroupsNext, KeysNext
<1>3. GroupsInv /\ KeysInv => KeysApart
  <2> SUFFICES ASSUME GroupsInv, KeysInv, NEW i \in DOMAIN groups, NEW j \in DOMAIN groups, i # j,
                      Active(groups[i]), Active(groups[j]),
                      NEW e \in Range(groups[i].events), CorrelationKey(e) # None,
                      HasKey(groups[j], CorrelationKey(e))
               PROVE  FALSE
    BY DEF KeysApart
  <2>1. groups[i] \in Range(groups) /\ groups[j] \in Range(groups) /\ groups[i] # groups[j]
    BY DEF GroupsInv, IsInjective, Range
  <2>2. HasKey(groups[i], CorrelationKey(e))
    BY DEF HasKey
  <2> QED BY <2>1, <2>2 DEF KeysInv, Apart
<1> QED BY <1>1, <1>2, <1>3, PTL DEF CaptureSpec

\* If request ids are compared first and ids are nobody's keys: in whatever
\* order request, response, query and log of one request arrive, every event is
\* filed under one group, with what has its key, and the timeline shows it there.
THEOREM FiledOnce ==
    ASSUME RequestIdFirst, IdsAreNoKeys
    PROVE  CaptureSpec => []GroupedOnce
<1>1. CaptureSpec => []KeysApart
  BY RequestsStayTogether
<1>2. OneGroupEach /\ KeysApart /\ TimelineShowsAll => GroupedOnce
  BY DEF GroupedOnce
<1> QED BY <1>1, <1>2, EventsHaveOneGroup, TimelineIsComplete, PTL
=============================================================================
