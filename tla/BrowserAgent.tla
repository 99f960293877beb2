----------------------------- MODULE BrowserAgent ------------------------------
(***************************************************************************)
(* PlaywrightBrowserAdapter: a browser with one page, the listeners and    *)
(* the interval on it, and the calls that await it.  launch and close are  *)
(* sequences of awaits, and anything may happen between two of them: an    *)
(* await fails, another call begins, close is called during launch.        *)
(***************************************************************************)
EXTENDS Integers, FiniteSets

CONSTANTS
    Op,             \* calls that await the page, periodic screenshots included
    MaxLaunches     \* bound: calls of launch

ASSUME BrowserAssumption == IsFiniteSet(Op)

VARIABLES
    launching,   \* "no", or what launch awaits: "browser", "context", "page", "goto"
    closing,     \* "no", or what close awaits: "context", "browser"
    browser,     \* this.browser: 0, or the launch it comes from
    context,     \* this.context
    page,        \* this.page
    interval,    \* is periodicInterval running?
    listening,   \* is a listener on the page?
    handler,     \* is an event handler registered?
    alive,       \* launches whose browser process runs
    ops,         \* call -> what it awaits, and the page it holds
    late,        \* history: has an event told of a page that is not the adapter's?
    launches,    \* history: calls of launch so far
    met          \* history: did close and launch overlap?

fields == <<browser, context, page, interval, listening, handler>>
baVars == <<launching, closing, fields, alive, ops, late, launches, met>>

Idle == [stage |-> "none", page |-> 0]

\* emit, for the page of launch l.
Emit(l) == late' = (late \/ (handler /\ l # page))

-----------------------------------------------------------------------------
(* launch *)

\* With a browser, launch throws.
Launch ==
    /\ launching = "no" /\ browser = 0 /\ launches < MaxLaunches
    /\ launches' = launches + 1
    /\ launching' = "browser"
    /\ met' = (met \/ closing # "no")
    /\ UNCHANGED <<closing, fields, alive, ops, late>>

\* An await of launch rejects; while close is under way, that of the first page
\* too, and closing again adds nothing.
LaunchFails ==
    /\ launching \in {"browser", "context", "page"} \/ (launching = "goto" /\ closing # "no")
    /\ launching' = "no"
    /\ UNCHANGED <<closing, fields, alive, ops, late, launches, met>>

LaunchBrowser ==
    /\ launching = "browser"
    /\ launching' = "context"
    /\ browser' = launches /\ alive' = alive \cup {launches}
    /\ UNCHANGED <<closing, context, page, interval, listening, handler, ops, late,
                   launches, met>>

\* newContext, with addCookies, and newPage need what they are called on.
LaunchContext ==
    /\ launching = "context" /\ launches \in alive
    /\ launching' = "page"
    /\ context' = launches
    /\ UNCHANGED <<closing, browser, page, interval, listening, handler, alive, ops, late,
                   launches, met>>

LaunchPage ==
    /\ launching = "page" /\ launches \in alive /\ context = launches
    /\ launching' = "goto"
    /\ page' = launches /\ listening' = TRUE
    /\ UNCHANGED <<closing, browser, context, interval, handler, alive, ops, late,
                   launches, met>>

\* The target has loaded, if there is one, whatever has happened since it did;
\* config may ask for the interval.
LaunchGoto ==
    /\ launching = "goto"
    /\ launching' = "no"
    /\ interval' \in {interval, TRUE}
    /\ UNCHANGED <<closing, browser, context, page, listening, handler, alive, ops, late,
                   launches, met>>

-----------------------------------------------------------------------------
(* close *)

\* What is left of close when there is a browser to wait for, or none.
CloseRest ==
    /\ closing' = IF browser # 0 THEN "browser" ELSE "no"
    /\ page' = IF browser # 0 THEN page ELSE 0
    /\ handler' = (handler /\ browser # 0)

DetachPageListeners == listening' = IF page # 0 THEN FALSE ELSE listening

\* Mutant: the interval outlives the page.
BugCloseStart ==
    /\ DetachPageListeners
    /\ IF context # 0 THEN closing' = "context" /\ UNCHANGED <<page, handler>> ELSE CloseRest
    /\ UNCHANGED <<interval, browser, context, alive, ops, late, launches>>

\* close, as far as it goes without waiting.
CloseStart ==
    /\ interval' = FALSE
    /\ DetachPageListeners
    /\ IF context # 0 THEN closing' = "context" /\ UNCHANGED <<page, handler>> ELSE CloseRest
    /\ UNCHANGED <<browser, context, alive, ops, late, launches>>

Close == closing = "no" /\ CloseStart /\ met' = (met \/ launching # "no")

\* The first page does not load: launch closes what it opened and throws.
LaunchGotoFails ==
    /\ launching = "goto" /\ closing = "no"
    /\ launching' = "no"
    /\ CloseStart
    /\ UNCHANGED met

CloseContext ==
    /\ closing = "context"
    /\ context' = 0
    /\ CloseRest
    /\ UNCHANGED <<launching, browser, interval, listening, alive, ops, late, launches, met>>

CloseBrowser ==
    /\ closing = "browser"
    /\ closing' = "no"
    /\ alive' = alive \ {browser}
    /\ browser' = 0 /\ page' = 0 /\ handler' = FALSE
    /\ UNCHANGED <<launching, context, interval, listening, ops, late, launches, met>>

-----------------------------------------------------------------------------
(* Calls *)

OnEvent ==
    /\ ~handler /\ launches > 0
    /\ handler' = TRUE
    /\ UNCHANGED <<launching, closing, browser, context, page, interval, listening, alive, ops,
                   late, launches, met>>

Await(o, stage) ==
    /\ ops[o].stage = "none" /\ page # 0
    /\ ops' = [ops EXCEPT ![o] = [stage |-> stage, page |-> page]]
    /\ UNCHANGED <<launching, closing, fields, alive, late, launches, met>>

\* The interval: nothing waits for the screenshot before.
Periodic(o) == interval /\ Await(o, "capture")

\* screenshot and domSnapshot; navigate, goBack and reload; type;
\* waitForNavigation: one event when the page has answered.
TakeSnapshot(o) == Await(o, "capture")
Navigate(o) == Await(o, "navigation")
Type(o) == Await(o, "input")
WaitForNavigation(o) == Await(o, "wait")

\* click with screenshotOnAction: a screenshot before it and after it.
Click(o) == Await(o, "pre-action")

\* The page answers.  requirePage has been asked before; after a click it is
\* asked again, for the last screenshot.
Answer(o) ==
    LET next == CASE ops[o].stage = "pre-action" -> "click"
                  [] ops[o].stage = "click" /\ page # 0 -> "post-action"
                  [] OTHER -> "none"
    IN  /\ ops[o].stage # "none" /\ ops[o].page \in alive
        /\ ~(closing = "browser" /\ ops[o].page = browser)
        /\ Emit(ops[o].page)
        /\ ops' = [ops EXCEPT ![o] = IF next = "none" THEN Idle
                                     ELSE [stage |-> next,
                                           page |-> IF next = "post-action" THEN page ELSE @.page]]
        /\ UNCHANGED <<launching, closing, fields, alive, launches, met>>

\* The page is closed, does not answer in time, or has no such element.
Fail(o) ==
    /\ ops[o].stage # "none"
    /\ ops' = [ops EXCEPT ![o] = Idle]
    /\ UNCHANGED <<launching, closing, fields, alive, late, launches, met>>

\* The page logs, or does not handle an error.
PageEvent ==
    /\ listening /\ page \in alive /\ closing # "browser"
    /\ Emit(page)
    /\ UNCHANGED <<launching, closing, fields, alive, ops, launches, met>>

BaInit ==
    /\ launching = "no" /\ closing = "no"
    /\ browser = 0 /\ context = 0 /\ page = 0
    /\ interval = FALSE /\ listening = FALSE /\ handler = FALSE
    /\ alive = {} /\ late = FALSE /\ launches = 0 /\ met = FALSE
    /\ ops = [o \in Op |-> Idle]

BaNext ==
    \/ Launch \/ LaunchFails \/ LaunchBrowser \/ LaunchContext \/ LaunchPage \/ LaunchGoto
    \/ LaunchGotoFails
    \/ Close /\ UNCHANGED launching
    \/ CloseContext \/ CloseBrowser
    \/ OnEvent \/ PageEvent
    \/ \E o \in Op :
        \/ Periodic(o) \/ TakeSnapshot(o) \/ Navigate(o) \/ Type(o) \/ WaitForNavigation(o) \/ Click(o)
        \/ Answer(o) \/ Fail(o)

\* As long as close and launch do not meet: events only tell of the page the
\* adapter has; and between the two, the one browser process is the one it
\* knows, and without it there is no context, page, interval or listener.
ClosedIsQuiet ==
    ~met =>
        /\ ~late
        /\ launching = "no" /\ closing = "no" =>
            /\ alive = {browser} \ {0}
            /\ interval \/ listening => page # 0
            /\ {context, page} \subseteq {0, browser}
=============================================================================
