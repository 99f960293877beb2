----------------------------- MODULE Migrations ------------------------------
(***************************************************************************)
(* PostgresStorageAdapter.initialize on the replicas of the server: each   *)
(* connects and brings the shared schema up to date under an advisory lock *)
(* of the database.  A replica that fails or dies loses its connections,   *)
(* and the lock with them, and is started again.                           *)
(*                                                                         *)
(* The pool is taken to have a connection for the lock and another for the *)
(* statements; with max = 1 initialize times out instead.                  *)
(***************************************************************************)
EXTENDS Integers, FiniteSets, FiniteSetsExt

CONSTANTS
    Replica,      \* server processes
    LastVersion,  \* MIGRATIONS.length
    MaxDeaths     \* bound: boots that fail

ASSUME MigrationAssumption == LastVersion \in Nat /\ MaxDeaths \in Nat

VARIABLES
    schema,  \* table probe_migrations, version UNIQUE
    holder,  \* replicas holding the advisory lock
    boot,    \* replica -> where its initialize stands, and its next version
    deaths   \* boots that have failed

migVars == <<schema, holder, boot, deaths>>

At(r, pc) == boot[r].pc = pc
Goto(r, pc, next) == boot' = [boot EXCEPT ![r] = [pc |-> pc, next |-> next]]

\* initialize up to its migrations.
Connect(r) ==
    /\ At(r, "down")
    /\ Goto(r, "lock", 1)
    /\ UNCHANGED <<schema, holder, deaths>>

\* Mutant: the advisory lock is not waited for.
BugLock(r) ==
    /\ At(r, "lock")
    /\ holder' = holder \cup {r}
    /\ Goto(r, "read", 1)
    /\ UNCHANGED <<schema, deaths>>

Lock(r) ==
    /\ At(r, "lock")
    /\ holder = {}
    /\ holder' = {r}
    /\ Goto(r, "read", 1)
    /\ UNCHANGED <<schema, deaths>>

ReadVersion(r) ==
    /\ At(r, "read")
    /\ Goto(r, "apply", 1 + Max(schema \cup {0}))
    /\ UNCHANGED <<schema, holder, deaths>>

\* One transaction: the migration's statements and its row.
Migrate(r) ==
    /\ At(r, "apply")
    /\ boot[r].next \in (1..LastVersion) \ schema
    /\ schema' = schema \cup {boot[r].next}
    /\ Goto(r, "apply", boot[r].next + 1)
    /\ UNCHANGED <<holder, deaths>>

\* Mutant: the client goes back to the pool with the lock still held.
BugFinish(r) ==
    /\ At(r, "apply")
    /\ boot[r].next > LastVersion
    /\ Goto(r, "ready", boot[r].next)
    /\ UNCHANGED <<schema, holder, deaths>>

Finish(r) ==
    /\ At(r, "apply")
    /\ boot[r].next > LastVersion
    /\ holder' = holder \ {r}
    /\ Goto(r, "ready", boot[r].next)
    /\ UNCHANGED <<schema, deaths>>

\* A statement fails and initialize throws after unlocking, or the process
\* dies; start() exits either way.
BootFails(r) ==
    /\ ~At(r, "down") /\ ~At(r, "ready")
    /\ deaths < MaxDeaths
    /\ deaths' = deaths + 1
    /\ holder' = holder \ {r}
    /\ Goto(r, "down", 1)
    /\ UNCHANGED schema

\* A version another replica has applied in the meantime breaks UNIQUE.
Clashes(r) == At(r, "apply") /\ boot[r].next \in schema

MigInit ==
    /\ schema \in {1..v : v \in 0..LastVersion}
    /\ holder = {}
    /\ boot = [r \in Replica |-> [pc |-> "down", next |-> 1]]
    /\ deaths = 0

Initialize(r) == Connect(r) \/ Lock(r) \/ ReadVersion(r) \/ Migrate(r) \/ Finish(r)

MigNext == \E r \in Replica : Initialize(r) \/ BootFails(r)

AllReady == \A r \in Replica : At(r, "ready")

\* Replicas that boot together, with others dying half-way, never apply a
\* version twice and never leave a gap below one that is applied.
MigrationsRunOnce ==
    /\ \A r \in Replica : ~Clashes(r)
    /\ schema = 1..Cardinality(schema)

\* Every replica gets through its migrations, whoever died before it.
EveryReplicaBoots == <>[]AllReady
=============================================================================
