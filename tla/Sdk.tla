---------------------------------- MODULE Sdk ----------------------------------
(***************************************************************************)
(* The SDK in an application, which uses one side of it in a behaviour:    *)
(* the requests of a Node server, the clients and the console it patches,  *)
(* or the requests or the errors of a page in a browser.                   *)
(***************************************************************************)
EXTENDS RequestTracing, Instrumentation, BrowserSdk

VARIABLE side     \* "requests", "patches", "network" or "errors"; it never changes

vars == <<rtVars, insVars, bsVars, side>>

Init ==
    /\ RtInit /\ InsInit /\ BsInit
    /\ side \in {"requests", "patches", "network", "errors"}
    /\ side # "patches" => target = "pg"

Requests == side = "requests" /\ RtNext /\ UNCHANGED <<insVars, bsVars, side>>
Patches == side = "patches" /\ InsNext /\ UNCHANGED <<rtVars, bsVars, side>>
Network == side = "network" /\ NetworkNext /\ UNCHANGED <<rtVars, insVars, side>>
Errors == side = "errors" /\ ErrorNext /\ UNCHANGED <<rtVars, insVars, side>>

Next == Requests \/ Patches \/ Network \/ Errors

Spec == Init /\ [][Next]_vars

\* Time passes, and the cleanup timer fires until it is stopped.
Others == <<insVars, bsVars, side>>
FairSpec ==
    /\ Spec
    /\ \A r \in Request : WF_vars(side = "requests" /\ Age(r) /\ UNCHANGED Others)
    /\ WF_vars(side = "requests" /\ Cleanup /\ UNCHANGED Others)
=============================================================================
