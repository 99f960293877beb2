-------------------------------- MODULE Capture --------------------------------
(***************************************************************************)
(* The tool chain of the CLI, one part of it in a behaviour: a log source, *)
(* the capture of HTTP traffic, the browser, the command that opens and    *)
(* stops them, or the correlator that its events are fed to.  The parts    *)
(* share no state; what the command needs of a source is that it is silent *)
(* once it has been stopped.                                               *)
(***************************************************************************)
EXTENDS LogSource, NetworkCapture, BrowserAgent, CaptureSession, Correlation

VARIABLE part    \* "log", "network", "browser", "command" or "correlator"; it never changes

captureVars == <<lsVars, ncVars, baVars, csVars, vars, part>>

CaptureInit ==
    /\ part \in {"log", "network", "browser", "command", "correlator"}
    /\ LsInit /\ (part # "log" => kind = "file" /\ written = 0)
    /\ NcInit /\ (part # "network" => mode = "proxy")
    /\ BaInit
    /\ CsInit /\ (part # "command" => command = "watch")
    /\ Init

TailStep == part = "log" /\ LsNext /\ UNCHANGED <<ncVars, baVars, csVars, vars, part>>
NetworkStep == part = "network" /\ NcNext /\ UNCHANGED <<lsVars, baVars, csVars, vars, part>>
BrowserStep == part = "browser" /\ BaNext /\ UNCHANGED <<lsVars, ncVars, csVars, vars, part>>
CommandStep == part = "command" /\ CsNext /\ UNCHANGED <<lsVars, ncVars, baVars, vars, part>>
CorrelatorStep == part = "correlator" /\ Next /\ UNCHANGED <<lsVars, ncVars, baVars, csVars, part>>

CaptureNext == TailStep \/ NetworkStep \/ BrowserStep \/ CommandStep \/ CorrelatorStep
CaptureSpec == CaptureInit /\ [][CaptureNext]_captureVars
=============================================================================
