------------------------------ MODULE Storage --------------------------------
(***************************************************************************)
(* createStorage: the server runs on one of the adapters of the storage    *)
(* port.  On Postgres the adapter is used once every replica has booted.   *)
(* (The memory adapter is part of SessionManager.)                         *)
(***************************************************************************)
EXTENDS PostgresStorage, Migrations, FileStorage

VARIABLE backend  \* config.type

vars == <<backend, pgVars, migVars, fileVars>>

CreateStorage == backend \in {"postgres", "file"}

Init == CreateStorage /\ PgInit /\ MigInit /\ FileInit

Booting(A) == backend = "postgres" /\ A /\ UNCHANGED <<backend, pgVars, fileVars>>
Serving(A) == backend = "postgres" /\ AllReady /\ A /\ UNCHANGED <<backend, migVars, fileVars>>

Next ==
    \/ Booting(MigNext)
    \/ Serving(PgNext)
    \/ backend = "file" /\ FileNext /\ UNCHANGED <<backend, pgVars, migVars>>

Spec == Init /\ [][Next]_vars

\* Replicas are restarted and granted their lock; the database answers, timers
\* fire, and the dashboard keeps asking.
FairSpec ==
    /\ Spec
    /\ WF_vars(Booting(\E r \in Replica : Initialize(r)))
    /\ WF_vars(Serving(\E c \in Call : Advance(c)))
    /\ WF_vars(Serving(Cool))
    /\ WF_vars(Serving(\E c \in Call, s \in Session : LoadSession(c, s)))

\* Every replica of a server on Postgres ends up with the schema it needs.
EveryoneBoots == backend = "postgres" => EveryReplicaBoots
=============================================================================
