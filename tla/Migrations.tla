------------------------------ MODULE Migrations ------------------------------
(***************************************************************************)
(* Boots of services against one PostgreSQL database                       *)
(* (pr_agent/db/migrations_runner.py, db/database.py, the revisions under  *)
(* db/migrations/versions and the lifespan of servers/api.py).  Schema     *)
(* changes are transactional in PostgreSQL: create_all, a stamp and an     *)
(* upgrade are transactions that first read what is there and then change  *)
(* it.  They fail, changing nothing, when another boot came in between.    *)
(***************************************************************************)
EXTENDS Integers, FiniteSets

CONSTANTS
    Procs,      \* service processes that boot against the database
    Runner,     \* the ones that call run_migrations; the others create_all
    Databases,  \* kinds of database found at the first boot
    MaxCrashes  \* bound on processes killed in the middle of a boot

ASSUME RunnerAssumption == Runner \subseteq Procs /\ MaxCrashes \in Nat
ASSUME DatabasesAssumption ==
    Databases \subseteq {"greenfield", "legacy", "older", "current"}

VARIABLES
    schema,   \* what exists: see Objects
    version,  \* revision in alembic_version, 0 when there is no such table
    json,     \* disable_auto_feedback is set in a provider's JSON column
    column,   \* value of the disable_auto_feedback column
    choice,   \* history: what the administrator chose before the first boot
    at,       \* at[p]: the next step of the boot of p
    open,     \* the processes whose step's transaction is open
    saw,      \* saw[p]: the schema and version its latest transaction read
    crashes

db == <<schema, version, json, column>>
bootVars == <<db, choice, at, open, saw, crashes>>

\* "base": the tables of the schema before migrations, with git_providers and
\* pr_agent_configs; "flag": the column of 0002; "hooks": the table of 0003.
Objects == {"base", "flag", "hooks"}

HeadRevision == 3
Baseline == 1

\* The database of each kind: a new one; one of a build before migrations,
\* whose JSON columns may carry the flag; one of a build that knew 0002 only;
\* a current one.
Found(kind) ==
    CASE kind = "greenfield" -> [schema |-> {}, version |-> 0]
      [] kind = "legacy"     -> [schema |-> {"base"}, version |-> 0]
      [] kind = "older"      -> [schema |-> {"base", "flag"}, version |-> 2]
      [] kind = "current"    -> [schema |-> Objects, version |-> 3]

BootsInit ==
    /\ \E kind \in Databases :
          /\ schema = Found(kind).schema
          /\ version = Found(kind).version
          /\ json \in IF kind = "legacy" THEN BOOLEAN ELSE {FALSE}
          /\ column \in IF "flag" \in schema THEN BOOLEAN ELSE {FALSE}
    /\ choice = (json \/ column)
    /\ at = [p \in Procs |-> "down"]
    /\ open = {}
    /\ saw = [p \in Procs |-> [schema |-> {}, version |-> 0]]
    /\ crashes = 0

-----------------------------------------------------------------------------

\* Mutated form of FirstStep: any recorded revision is taken for the current
\* one.
MutTrustsVersion(s, v) ==
    IF v > 0 THEN "up" ELSE IF "base" \in s THEN "stamp" ELSE "create"

\* The first step run_migrations takes on the tables it finds.
FirstStep(s, v) ==
    IF v > 0 THEN "upgrade" ELSE IF "base" \in s THEN "stamp" ELSE "create"

\* inspect(engine): the tables are read once, outside of any transaction.
Inspect(p) ==
    /\ at[p] = "down"
    /\ at' = [at EXCEPT ![p] =
                IF p \in Runner THEN FirstStep(schema, version) ELSE "create"]
    /\ UNCHANGED <<db, choice, open, saw, crashes>>

\* The transaction of a step starts: it reads what is there.
Transactions == {"create", "stamp", "upgrade", "stamp_head"}

BeginTransaction(p) ==
    /\ at[p] \in Transactions
    /\ p \notin open
    /\ open' = open \cup {p}
    /\ saw' = [saw EXCEPT ![p] = [schema |-> schema, version |-> version]]
    /\ UNCHANGED <<db, choice, at, crashes>>

\* The open transaction of p ends, and p goes on with step.
EndsWith(p, step) ==
    /\ p \in open
    /\ open' = open \ {p}
    /\ at' = [at EXCEPT ![p] = step]

\* The tables (not columns) the models declare and s lacks.
MissingTables(s) == {"base", "hooks"} \ s

\* SQLModel.metadata.create_all: creates the tables it saw missing, each in
\* its current form; a table another boot has created meanwhile is an error.
CreateAll(p) ==
    /\ at[p] = "create"
    /\ EndsWith(p, IF p \in Runner THEN "stamp_head" ELSE "up")
    /\ MissingTables(saw[p].schema) \cap schema = {}
    /\ schema' = schema \cup MissingTables(saw[p].schema)
                        \cup (IF "base" \in saw[p].schema THEN {} ELSE {"flag"})
    /\ UNCHANGED <<version, json, column, choice, saw, crashes>>

\* command.stamp: sets the revision without running anything.  Alembic
\* updates the row it read (or creates the table it found missing), an error
\* when that has changed.
StampRevision(p) ==
    /\ version = saw[p].version
    /\ \/ /\ at[p] = "stamp"
          /\ version' = Baseline
          /\ EndsWith(p, "upgrade")
       \/ /\ at[p] = "stamp_head"
          /\ version' = HeadRevision
          /\ EndsWith(p, "up")
    /\ UNCHANGED <<schema, json, column, choice, saw, crashes>>

\* Mutated form of Pending: misses the revision right after the current one.
MutSkipsOne(v) == {r \in 1..HeadRevision : r > v + 1}

\* The revisions an upgrade to head runs from revision v.
Pending(v) == {r \in 1..HeadRevision : r > v}

\* What the upgrade() of a revision adds; it fails when that exists.
Adds(r) == IF r = 2 THEN {"flag"} ELSE IF r = 3 THEN {"hooks"} ELSE {}

\* Mutated form of Promoted: the JSON flags are stripped before they are read.
MutStripFirst(j, c) == FALSE

\* Step 2 of revision 0002: the new column takes over the JSON flag.
Promoted(j, c) == j

\* command.upgrade(cfg, "head"): all pending revisions in one transaction.
Upgrade(p) ==
    LET todo == Pending(saw[p].version)
        new  == UNION {Adds(r) : r \in todo}
    IN  /\ at[p] = "upgrade"
        /\ EndsWith(p, "up")
        /\ version = saw[p].version
        /\ new \cap schema = {}
        /\ schema' = schema \cup new
        /\ version' = HeadRevision
        /\ IF 2 \in todo
           THEN column' = Promoted(json, column) /\ json' = FALSE
           ELSE UNCHANGED <<column, json>>
        /\ UNCHANGED <<choice, saw, crashes>>

\* What makes the open transaction of p fail.
Conflict(p) ==
    \/ /\ at[p] = "create"
       /\ MissingTables(saw[p].schema) \cap schema # {}
    \/ /\ at[p] \in {"stamp", "stamp_head", "upgrade"}
       /\ version # saw[p].version
    \/ /\ at[p] = "upgrade"
       /\ UNION {Adds(r) : r \in Pending(saw[p].version)} \cap schema # {}

\* The exception ends the service, which its supervisor starts again.
Fail(p) ==
    /\ Conflict(p)
    /\ EndsWith(p, "down")
    /\ UNCHANGED <<db, choice, saw, crashes>>

\* A process is killed in the middle of its boot: an open transaction is lost.
Crash(p) ==
    /\ crashes < MaxCrashes
    /\ at[p] \notin {"down", "up"}
    /\ crashes' = crashes + 1
    /\ at' = [at EXCEPT ![p] = "down"]
    /\ open' = open \ {p}
    /\ UNCHANGED <<db, choice, saw>>

\* A running service is restarted or deployed again.
Reboot(p) ==
    /\ at[p] = "up"
    /\ at' = [at EXCEPT ![p] = "down"]
    /\ UNCHANGED <<db, choice, open, saw, crashes>>

Boot(p) ==
    Inspect(p) \/ BeginTransaction(p) \/ CreateAll(p) \/ StampRevision(p) \/ Upgrade(p) \/ Fail(p)

BootsNext == \E p \in Procs : Boot(p) \/ Crash(p) \/ Reboot(p)

BootsSpec == BootsInit /\ [][BootsNext]_bootVars

\* A service whose boot fails or is killed is started again, and a started
\* process takes its steps.  The services that only call create_all boot at
\* any time or never.
FairBootsSpec == BootsSpec /\ \A p \in Runner : WF_bootVars(Boot(p))

-----------------------------------------------------------------------------

BootTypes ==
    /\ schema \in SUBSET Objects
    /\ version \in 0..HeadRevision
    /\ json \in BOOLEAN /\ column \in BOOLEAN /\ choice \in BOOLEAN
    /\ at \in [Procs -> {"down", "up"} \cup Transactions]
    /\ open \subseteq {p \in Procs : at[p] \in Transactions}
    /\ saw \in [Procs -> [schema : SUBSET Objects, version : 0..HeadRevision]]
    /\ crashes \in 0..MaxCrashes

\* The recorded revision never runs ahead of the schema, whatever boots race
\* or are killed: a revision that is not applied but recorded would be skipped
\* for ever (migrations_runner.py:72-92).
NeverAheadOfSchema ==
    /\ version >= 1 => "base" \in schema
    /\ version >= 2 => "flag" \in schema
    /\ version >= 3 => "hooks" \in schema

\* The administrator's disable_auto_feedback survives every way to a current
\* schema: it is the JSON flag until the column exists and the column's value
\* from then on, when no JSON flag is left (0002, upgrade()).
ChoiceKept ==
    /\ choice = IF "flag" \in schema THEN column ELSE json
    /\ "flag" \in schema => ~json

\* Tables ahead of the recorded revision: the next migration fails on what
\* exists already.
Torn == version < HeadRevision /\ UNION {Adds(r) : r \in Pending(version)} \cap schema # {}

\* However boots race and are interrupted, a database gets to head and stays
\* there, unless a kill or a race left it torn ("Safe to call on every service
\* boot; no-ops once the schema is current", migrations_runner.py:59).
ReachesHeadOrTorn == <>[](version = HeadRevision \/ Torn)
=============================================================================
