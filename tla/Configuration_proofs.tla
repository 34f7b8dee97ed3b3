------------------------- MODULE Configuration_proofs -------------------------
(***************************************************************************)
(* Proofs about the configuration: the boots that migrate its schema in    *)
(* PostgreSQL (Migrations), for any number of services and crashes; the    *)
(* providers of the configuration API (LlmProviders), for any number of    *)
(* threads and rows; the refreshes of a webhook process (ConfigRefresh),   *)
(* for any number of threads and parts and any time to live; and the       *)
(* settings of a request (RequestSettings), for any number of requests,    *)
(* repositories and commands, and any edits of the settings files: which   *)
(* layer wins on every server, isolation on those that copy the settings.  *)
(***************************************************************************)
EXTENDS Migrations, LlmProviders, ConfigRefresh, RequestSettings, TLAPS

-----------------------------------------------------------------------------
(* Migrations: the boots.                                                    *)

\* What the steps of a boot have established before they start: a stamp and
\* an upgrade find the base tables; run_migrations stamps head only over a
\* complete schema, because the base tables it did not find come with the
\* current column whoever creates them.
BootsKnow ==
    \A p \in Procs :
        /\ at[p] \in {"stamp", "upgrade"} => "base" \in schema
        /\ at[p] = "stamp_head" => schema = Objects
        /\ (at[p] = "create" /\ p \in Runner /\ "base" \in schema)
              => "flag" \in schema
        /\ p \in open => saw[p].schema \subseteq schema

\* A database without tables holds no choice.
NoTablesNoChoice ==
    "base" \notin schema => "flag" \notin schema /\ ~json /\ ~column /\ ~choice

BootsInv == BootTypes /\ BootsKnow /\ NoTablesNoChoice /\ NeverAheadOfSchema /\ ChoiceKept

\* The database is untouched by the steps that only move a process.
LEMMA MovesKeepDatabase ==
    ASSUME NEW p \in Procs, BootsInv,
           Inspect(p) \/ BeginTransaction(p) \/ Fail(p) \/ Crash(p) \/ Reboot(p)
    PROVE  UNCHANGED <<db, choice>>
  BY DEF Inspect, BeginTransaction, Fail, Crash, Reboot, db

\* create_all: the tables it adds, and the column only with the base tables.
LEMMA CreateAllSchema ==
    ASSUME NEW p \in Procs, BootsInv, CreateAll(p)
    PROVE  /\ schema' \subseteq Objects
           /\ schema \subseteq schema'
           /\ "base" \in schema' /\ "hooks" \in schema'
           /\ "base" \notin schema => "flag" \in schema'
           /\ "base" \in schema => ("flag" \in schema' <=> "flag" \in schema)
           /\ p \in Runner => "flag" \in schema'
<1>1. saw[p].schema \subseteq schema /\ schema \subseteq Objects
  BY DEF BootsInv, BootsKnow, BootTypes, CreateAll, EndsWith
<1>2. /\ {"base", "hooks"} \ saw[p].schema \subseteq Objects
      /\ ({"base", "hooks"} \ saw[p].schema) \cap schema = {}
      /\ schema' = schema \cup ({"base", "hooks"} \ saw[p].schema)
                          \cup (IF "base" \in saw[p].schema THEN {} ELSE {"flag"})
  BY DEF CreateAll, MissingTables, Objects
<1>3. "base" \in schema <=> "base" \in saw[p].schema
  BY <1>1, <1>2
<1>4. p \in Runner /\ "base" \in schema => "flag" \in schema
  BY DEF BootsInv, BootsKnow, CreateAll
<1> QED
  BY <1>1, <1>2, <1>3, <1>4 DEF Objects

\* upgrade: what it adds was not there, and the flag moves with its column.
LEMMA UpgradeSchema ==
    ASSUME NEW p \in Procs, BootsInv, Upgrade(p)
    PROVE  /\ schema' = Objects
           /\ "base" \in schema
           /\ \/ /\ "flag" \notin schema
                 /\ column' = json /\ json' = FALSE
              \/ /\ "flag" \in schema
                 /\ UNCHANGED <<column, json>>
<1>1. version = saw[p].version /\ version \in 0..3
  BY DEF Upgrade, BootsInv, BootTypes, HeadRevision
<1>2. "base" \in schema /\ schema \subseteq Objects
  BY DEF BootsInv, BootsKnow, BootTypes, Upgrade
<1> DEFINE todo == Pending(saw[p].version)
           new  == UNION {Adds(r) : r \in todo}
<1>3. /\ new \cap schema = {}
      /\ schema' = schema \cup new
      /\ IF 2 \in todo THEN column' = Promoted(json, column) /\ json' = FALSE
                       ELSE UNCHANGED <<column, json>>
  BY DEF Upgrade
<1>4. todo = {r \in 1..3 : r > version}
  BY <1>1 DEF Pending, HeadRevision
<1>5. CASE version < 2
  <2>1. 2 \in todo /\ 3 \in todo
    BY <1>1, <1>4, <1>5
  <2>2. "flag" \in new /\ "hooks" \in new
    BY <2>1 DEF Adds
  <2> QED
    BY <1>2, <1>3, <2>1, <2>2 DEF Adds, Objects, Promoted
<1>6. CASE version = 2
  <2>1. todo = {3}
    BY <1>4, <1>6
  <2>2. new = {"hooks"}
    BY <2>1 DEF Adds
  <2>3. "flag" \in schema
    BY <1>6 DEF BootsInv, NeverAheadOfSchema
  <2>4. schema' = Objects
    BY <1>2, <1>3, <2>2, <2>3 DEF Objects
  <2>5. UNCHANGED <<column, json>>
    BY <1>3, <2>1
  <2> QED
    BY <1>2, <2>3, <2>4, <2>5
<1>7. CASE version = 3
  <2>1. todo = {}
    BY <1>4, <1>7
  <2>2. new = {}
    BY <2>1
  <2>3. "flag" \in schema /\ "hooks" \in schema
    BY <1>7 DEF BootsInv, NeverAheadOfSchema
  <2> QED
    BY <1>2, <1>3, <2>1, <2>2, <2>3 DEF Objects
<1>8. version < 2 \/ version = 2 \/ version = 3
  BY <1>1
<1> QED
  BY <1>5, <1>6, <1>7, <1>8

\* A process that ends its transaction goes to the given step; the others stay.
LEMMA TypeStep ==
    ASSUME BootsInv, BootsNext PROVE BootTypes'
<1>1. PICK p \in Procs : Boot(p) \/ Crash(p) \/ Reboot(p)
  BY DEF BootsNext
<1> USE DEF BootsInv, BootTypes, Transactions
<1>2. CASE Inspect(p)
  BY <1>2 DEF Inspect, FirstStep, db
<1>3. CASE BeginTransaction(p)
  BY <1>3 DEF BeginTransaction, db
<1>4. CASE CreateAll(p)
  BY <1>4 DEF CreateAll, EndsWith, MissingTables, Objects
<1>5. CASE StampRevision(p)
  BY <1>5 DEF StampRevision, EndsWith, Baseline, HeadRevision
<1>6. CASE Upgrade(p)
  <2>1. schema' = Objects /\ column' \in BOOLEAN /\ json' \in BOOLEAN
    BY <1>6, UpgradeSchema
  <2> QED
    BY <1>6, <2>1 DEF Upgrade, EndsWith, HeadRevision
<1>7. CASE Fail(p)
  BY <1>7 DEF Fail, EndsWith, db
<1>8. CASE Crash(p)
  BY <1>8, RunnerAssumption DEF Crash, db
<1>9. CASE Reboot(p)
  BY <1>9 DEF Reboot, db
<1> QED
  BY <1>1, <1>2, <1>3, <1>4, <1>5, <1>6, <1>7, <1>8, <1>9 DEF Boot

\* What the boots know survives every step of any boot.
LEMMA KnowStep ==
    ASSUME BootsInv, BootsNext PROVE BootsKnow'
<1>1. PICK p \in Procs : Boot(p) \/ Crash(p) \/ Reboot(p)
  BY DEF BootsNext
<1>2. schema \subseteq Objects /\ schema \in SUBSET Objects
  BY DEF BootsInv, BootTypes
<1>3. SUFFICES ASSUME NEW q \in Procs
               PROVE  /\ at'[q] \in {"stamp", "upgrade"} => "base" \in schema'
                      /\ at'[q] = "stamp_head" => schema' = Objects
                      /\ (at'[q] = "create" /\ q \in Runner /\ "base" \in schema')
                            => "flag" \in schema'
                      /\ q \in open' => saw'[q].schema \subseteq schema'
  BY DEF BootsKnow
<1> USE DEF BootsInv, BootTypes, BootsKnow
<1>4. CASE Inspect(p)
  <2>1. version > 0 => "base" \in schema
    BY DEF NeverAheadOfSchema
  <2> QED
    BY <1>4, <2>1 DEF Inspect, FirstStep, db
<1>5. CASE BeginTransaction(p)
  BY <1>5 DEF BeginTransaction, db
<1>6. CASE CreateAll(p)
  <2>1. /\ at' = [at EXCEPT ![p] = IF p \in Runner THEN "stamp_head" ELSE "up"]
        /\ open' = open \ {p} /\ saw' = saw
    BY <1>6 DEF CreateAll, EndsWith
  <2>2. p \in Runner => schema' = Objects
    BY <1>6, CreateAllSchema DEF Objects
  <2>3. schema \subseteq schema' /\ schema' \subseteq Objects
    BY <1>6, CreateAllSchema
  <2>4. "base" \in schema => ("flag" \in schema' <=> "flag" \in schema)
    BY <1>6, CreateAllSchema
  <2>5. "base" \notin schema => "flag" \in schema'
    BY <1>6, CreateAllSchema
  <2>6. CASE q = p
    BY <2>1, <2>2, <2>6 DEF Objects
  <2>7. CASE q # p
    <3>1. at'[q] = at[q] /\ (q \in open' => q \in open) /\ saw'[q] = saw[q]
      BY <2>1, <2>7
    <3> QED
      BY <3>1, <2>3, <2>4, <2>5
  <2> QED
    BY <2>6, <2>7
<1>7. CASE StampRevision(p)
  BY <1>7 DEF StampRevision, EndsWith
<1>8. CASE Upgrade(p)
  <2>1. schema' = Objects
    BY <1>8, UpgradeSchema
  <2>2. saw' = saw /\ open' = open \ {p} /\ at' = [at EXCEPT ![p] = "up"]
    BY <1>8 DEF Upgrade, EndsWith
  <2> QED
    BY <1>2, <2>1, <2>2 DEF Objects
<1>9. CASE Fail(p)
  BY <1>9 DEF Fail, EndsWith, db
<1>10. CASE Crash(p)
  BY <1>10 DEF Crash, db
<1>11. CASE Reboot(p)
  BY <1>11 DEF Reboot, db
<1> QED
  BY <1>1, <1>4, <1>5, <1>6, <1>7, <1>8, <1>9, <1>10, <1>11 DEF Boot

\* The three facts about the database survive every step.
LEMMA DatabaseStep ==
    ASSUME BootsInv, BootsNext
    PROVE  NoTablesNoChoice' /\ NeverAheadOfSchema' /\ ChoiceKept'
<1>1. PICK p \in Procs : Boot(p) \/ Crash(p) \/ Reboot(p)
  BY DEF BootsNext
<1> USE DEF NoTablesNoChoice, NeverAheadOfSchema, ChoiceKept
<1>2. CASE Inspect(p) \/ BeginTransaction(p) \/ Fail(p) \/ Crash(p) \/ Reboot(p)
  BY <1>2, MovesKeepDatabase DEF BootsInv, db
<1>3. CASE CreateAll(p)
  <2>1. UNCHANGED <<version, json, column, choice>>
    BY <1>3 DEF CreateAll
  <2> QED
    BY <1>3, <2>1, CreateAllSchema DEF BootsInv, BootTypes
<1>4. CASE StampRevision(p)
  <2>1. UNCHANGED <<schema, json, column, choice>>
    BY <1>4 DEF StampRevision
  <2>2. CASE at[p] = "stamp"
    BY <1>4, <2>1, <2>2 DEF StampRevision, Baseline, BootsInv, BootsKnow
  <2>3. CASE at[p] = "stamp_head"
    BY <1>4, <2>1, <2>3 DEF StampRevision, BootsInv, BootsKnow, Objects
  <2> QED
    BY <1>4, <2>2, <2>3 DEF StampRevision
<1>5. CASE Upgrade(p)
  <2>1. choice' = choice
    BY <1>5 DEF Upgrade
  <2> QED
    BY <1>5, <2>1, UpgradeSchema DEF BootsInv, BootTypes, Objects
<1> QED
  BY <1>1, <1>2, <1>3, <1>4, <1>5 DEF Boot

\* The initial databases satisfy the invariant.
LEMMA BootsInitInv == BootsInit => BootsInv
<1> SUFFICES ASSUME BootsInit PROVE BootsInv
  OBVIOUS
<1>1. PICK kind \in Databases :
          /\ schema = Found(kind).schema
          /\ version = Found(kind).version
          /\ json \in IF kind = "legacy" THEN BOOLEAN ELSE {FALSE}
          /\ column \in IF "flag" \in schema THEN BOOLEAN ELSE {FALSE}
  BY DEF BootsInit
<1>2. \/ schema = {} /\ version = 0 /\ kind # "legacy"
      \/ schema = {"base"} /\ version = 0
      \/ schema = {"base", "flag"} /\ version = 2 /\ kind # "legacy"
      \/ schema = Objects /\ version = 3 /\ kind # "legacy"
  <2>1. kind \in {"greenfield", "legacy", "older", "current"}
    BY DatabasesAssumption
  <2> QED
    BY <1>1, <2>1 DEF Found
<1>3. /\ json \in BOOLEAN /\ column \in BOOLEAN
      /\ kind # "legacy" => json = FALSE
      /\ "flag" \notin schema => column = FALSE
  BY <1>1
<1>4. choice = (json \/ column)
  BY DEF BootsInit
<1>5. NoTablesNoChoice /\ NeverAheadOfSchema
  BY <1>2, <1>3, <1>4 DEF NoTablesNoChoice, NeverAheadOfSchema, Objects
<1>6. ChoiceKept
  BY <1>2, <1>3, <1>4 DEF ChoiceKept, Objects
<1>7. BootTypes
  BY <1>2, <1>3, <1>4, RunnerAssumption DEF BootsInit, BootTypes, Objects, HeadRevision, Transactions
<1>8. BootsKnow
  BY DEF BootsInit, BootsKnow
<1> QED
  BY <1>5, <1>6, <1>7, <1>8 DEF BootsInv

LEMMA BootsStepInv == BootsInv /\ [BootsNext]_bootVars => BootsInv'
<1> SUFFICES ASSUME BootsInv, [BootsNext]_bootVars PROVE BootsInv'
  OBVIOUS
<1>1. CASE BootsNext
  BY <1>1, TypeStep, KnowStep, DatabaseStep DEF BootsInv
<1>2. CASE UNCHANGED bootVars
  BY <1>2 DEF bootVars, db, BootsInv, BootTypes, BootsKnow, NoTablesNoChoice,
              NeverAheadOfSchema, ChoiceKept
<1> QED
  BY <1>1, <1>2

\* The inductive invariant holds in every behaviour.
THEOREM BootsInductive == BootsSpec => []BootsInv
  BY BootsInitInv, BootsStepInv, PTL DEF BootsSpec

\* Whatever boots race or are killed, the recorded revision never runs ahead of
\* the schema (run_migrations).
THEOREM RevisionApplied == BootsSpec => []NeverAheadOfSchema
<1>1. BootsInv => NeverAheadOfSchema
  BY DEF BootsInv
<1> QED
  BY <1>1, BootsInductive, PTL

\* The administrator's disable_auto_feedback survives every way to the current
\* schema (revision 0002).
THEOREM ChoiceSurvives == BootsSpec => []ChoiceKept
<1>1. BootsInv => ChoiceKept
  BY DEF BootsInv
<1> QED
  BY <1>1, BootsInductive, PTL

-----------------------------------------------------------------------------
(* LlmProviders: the default provider.                                       *)

(* The part of the types that is inductive without counting the creations  *)
(* under way.                                                              *)
RowsTyped ==
    /\ ids \in Nat /\ wanted \in 0..ids
    /\ DOMAIN rows \subseteq 1..ids
    /\ rows \in [DOMAIN rows -> BOOLEAN]

Kinds == {"none", "create", "update", "delete"}
Asks == {"set", "clear", "unset"}

ThreadsTyped ==
    /\ stage \in [Endpoints -> {"idle", "select", "commit"}]
    /\ op \in [Endpoints -> [kind : Kinds, id : Nat, default : Asks]]
    /\ loaded \in [Endpoints -> BOOLEAN]
    /\ others \in [Endpoints -> SUBSET Nat]
    /\ overlap \subseteq Busy
    /\ clean \in BOOLEAN
    /\ \A t \in Endpoints :
          /\ stage[t] = "idle" => others[t] = {}
          /\ stage[t] = "select" => op[t].default = "set"
          /\ op[t].kind = "create" => op[t].id = NoProvider
          /\ op[t].kind = "delete" => op[t].default = "unset"

\* A request that has met no other one is the only one.
Alone(t) == stage[t] # "idle" /\ t \notin overlap
AloneIsAlone == \A t \in Endpoints : Alone(t) => Busy = {t}

\* What such a request has read is still so.
StillSo(t) ==
    Alone(t) =>
        /\ op[t].kind = "update" => op[t].id \in DOMAIN rows /\ loaded[t] = rows[op[t].id]
        /\ stage[t] = "commit" =>
              others[t] = IF op[t].default = "set" THEN Defaults \ {op[t].id} ELSE {}

ProvidersInv ==
    /\ RowsTyped /\ ThreadsTyped /\ AloneIsAlone
    /\ \A t \in Endpoints : StillSo(t)
    /\ DefaultIsTheLastSet

LEMMA ProvidersInitInv == ProvidersInit => ProvidersInv
<1> SUFFICES ASSUME ProvidersInit PROVE ProvidersInv
  OBVIOUS
<1>1. DOMAIN rows = {} /\ rows \in [DOMAIN rows -> BOOLEAN]
  BY DEF ProvidersInit
<1>2. RowsTyped
  BY <1>1 DEF ProvidersInit, RowsTyped, NoProvider
<1>3. NoRequest \in [kind : Kinds, id : Nat, default : Asks]
  BY DEF NoRequest, NoProvider, Kinds, Asks
<1>4. ThreadsTyped
  BY <1>3 DEF ProvidersInit, ThreadsTyped, NoRequest
<1>5. AloneIsAlone /\ \A t \in Endpoints : StillSo(t)
  BY DEF ProvidersInit, AloneIsAlone, Alone, StillSo
<1>6. DefaultIsTheLastSet
  BY <1>1 DEF ProvidersInit, DefaultIsTheLastSet, Defaults
<1> QED
  BY <1>2, <1>4, <1>5, <1>6 DEF ProvidersInv

-----------------------------------------------------------------------------
(* Requests begin. *)

LEMMA BeginInv ==
    ASSUME ProvidersInv, NEW t \in Endpoints, NEW kind \in Kinds, NEW i \in Nat, NEW default \in Asks,
           Begin(t, kind, i, default), loaded' \in [Endpoints -> BOOLEAN],
           \A u \in Endpoints \ {t} : loaded'[u] = loaded[u],
           kind = "create" => i = NoProvider,
           kind = "delete" => default = "unset",
           kind = "update" => i \in DOMAIN rows /\ loaded'[t] = rows[i]
    PROVE  ProvidersInv'
<1>1. /\ rows' = rows /\ ids' = ids /\ others' = others /\ wanted' = wanted /\ clean' = clean
      /\ stage[t] = "idle"
  BY DEF Begin
<1>2. /\ stage' = [stage EXCEPT ![t] = IF default = "set" THEN "select" ELSE "commit"]
      /\ op' = [op EXCEPT ![t] = [kind |-> kind, id |-> i, default |-> default]]
      /\ overlap' = IF Busy = {} THEN {} ELSE overlap \cup Busy \cup {t}
  BY DEF Begin
<1>3. /\ op'[t].kind = kind /\ op'[t].id = i /\ op'[t].default = default
      /\ \A u \in Endpoints \ {t} : op'[u] = op[u] /\ stage'[u] = stage[u]
      /\ op' \in [Endpoints -> [kind : Kinds, id : Nat, default : Asks]]
      /\ stage' \in [Endpoints -> {"idle", "select", "commit"}] /\ stage'[t] # "idle"
      /\ stage'[t] = "select" => default = "set"
      /\ stage'[t] = "commit" => default # "set"
  BY <1>2 DEF ProvidersInv, ThreadsTyped
<1>4. Busy' = Busy \cup {t}
  BY <1>3 DEF Busy
<1>5. RowsTyped'
  BY <1>1 DEF ProvidersInv, RowsTyped
<1>6. ThreadsTyped'
  <2>1. overlap' \subseteq Busy'
    BY <1>2, <1>4 DEF ProvidersInv, ThreadsTyped
  <2> QED
    BY <1>1, <1>3, <2>1 DEF ProvidersInv, ThreadsTyped
<1>7. \A u \in Endpoints : Alone(u)' => u = t /\ Busy = {}
  BY <1>2, <1>3, <1>4 DEF Alone, Busy
<1>8. AloneIsAlone'
  BY <1>4, <1>7 DEF AloneIsAlone
<1>9. StillSo(t)'
  <2>1. others'[t] = {}
    BY <1>1 DEF ProvidersInv, ThreadsTyped
  <2> QED
    BY <1>1, <1>3, <2>1 DEF StillSo
<1>10. \A u \in Endpoints : StillSo(u)'
  BY <1>7, <1>9 DEF StillSo
<1>11. DefaultIsTheLastSet'
  BY <1>1 DEF ProvidersInv, DefaultIsTheLastSet, Defaults
<1> QED
  BY <1>5, <1>6, <1>8, <1>10, <1>11 DEF ProvidersInv

LEMMA SelectInv ==
    ASSUME ProvidersInv, NEW t \in Endpoints, Select(t)
    PROVE  ProvidersInv'
<1>1. /\ UNCHANGED <<rows, ids, op, loaded, wanted, overlap, clean>>
      /\ stage[t] = "select"
  BY DEF Select
<1>2. /\ others' = [others EXCEPT ![t] = Defaults \ {op[t].id}]
      /\ stage' = [stage EXCEPT ![t] = "commit"]
  BY DEF Select, OtherDefaults
<1>3. Defaults \subseteq Nat
  BY DEF ProvidersInv, RowsTyped, Defaults
<1>4. Busy' = Busy
  BY <1>1, <1>2 DEF ProvidersInv, ThreadsTyped, Busy
<1>5. RowsTyped' /\ DefaultIsTheLastSet'
  BY <1>1 DEF ProvidersInv, RowsTyped, DefaultIsTheLastSet, Defaults
<1>6. ThreadsTyped'
  BY <1>1, <1>2, <1>3, <1>4 DEF ProvidersInv, ThreadsTyped
<1>7. AloneIsAlone'
  BY <1>1, <1>2, <1>4 DEF ProvidersInv, ThreadsTyped, AloneIsAlone, Alone
<1>8. ASSUME NEW u \in Endpoints PROVE StillSo(u)'
  <2>1. CASE u = t
    BY <1>1, <1>2, <2>1 DEF ProvidersInv, ThreadsTyped, StillSo, Alone, Defaults
  <2>2. CASE u # t
    BY <1>1, <1>2, <2>2 DEF ProvidersInv, ThreadsTyped, StillSo, Alone, Defaults
  <2> QED
    BY <2>1, <2>2
<1> QED
  BY <1>5, <1>6, <1>7, <1>8 DEF ProvidersInv

-----------------------------------------------------------------------------
(* Requests end. *)

\* After a request has ended none is alone: it was not, or it was the only one.
LEMMA CloseInv ==
    ASSUME ProvidersInv, NEW t \in Endpoints, Close(t), stage[t] = "commit", clean' \in BOOLEAN
    PROVE  /\ ThreadsTyped' /\ AloneIsAlone' /\ \A u \in Endpoints : StillSo(u)'
<1>1. /\ stage' = [stage EXCEPT ![t] = "idle"] /\ op' = [op EXCEPT ![t] = NoRequest]
      /\ loaded' = [loaded EXCEPT ![t] = FALSE] /\ others' = [others EXCEPT ![t] = {}]
      /\ overlap' = overlap \ {t}
  BY DEF Close
<1>2. NoRequest \in [kind : Kinds, id : Nat, default : Asks]
  BY DEF NoRequest, NoProvider, Kinds, Asks
<1>3. Busy' = Busy \ {t}
  BY <1>1 DEF ProvidersInv, ThreadsTyped, Busy
<1>4. /\ stage' \in [Endpoints -> {"idle", "select", "commit"}]
      /\ op' \in [Endpoints -> [kind : Kinds, id : Nat, default : Asks]]
      /\ loaded' \in [Endpoints -> BOOLEAN] /\ others' \in [Endpoints -> SUBSET Nat]
      /\ overlap' \subseteq Busy'
  BY <1>1, <1>2, <1>3 DEF ProvidersInv, ThreadsTyped
<1>5. ThreadsTyped'
  BY <1>1, <1>4 DEF ProvidersInv, ThreadsTyped, NoRequest
<1>6. \A u \in Endpoints : ~Alone(u)'
  <2> SUFFICES ASSUME NEW u \in Endpoints, Alone(u)' PROVE FALSE
    OBVIOUS
  <2>1. u # t /\ stage[u] # "idle" /\ u \notin overlap
    BY <1>1 DEF Alone, ProvidersInv, ThreadsTyped
  <2>2. Busy = {u}
    BY <2>1 DEF ProvidersInv, AloneIsAlone, Alone
  <2> QED
    BY <2>1, <2>2 DEF Busy
<1> QED
  BY <1>5, <1>6 DEF AloneIsAlone, StillSo

\* What a commit that is to count knows of its request.
LEMMA CommitKnows ==
    ASSUME ProvidersInv, NEW t \in Endpoints, stage[t] = "commit", Noted(t), clean'
    PROVE  /\ clean \/ op[t].default = "set"
           /\ others[t] = IF op[t].default = "set" THEN Defaults \ {op[t].id} ELSE {}
           /\ op[t].kind = "update" => op[t].id \in DOMAIN rows /\ loaded[t] = rows[op[t].id]
           /\ op[t].default \in Asks
<1>1. Alone(t) /\ (clean \/ op[t].default = "set")
  BY DEF Noted, Alone
<1> QED
  BY <1>1 DEF ProvidersInv, StillSo, ThreadsTyped

LEMMA CommitCreateInv ==
    ASSUME ProvidersInv, NEW t \in Endpoints, CommitCreate(t)
    PROVE  ProvidersInv'
<1>1. /\ stage[t] = "commit" /\ op[t].kind = "create" /\ Noted(t) /\ Close(t)
      /\ ids' = ids + 1
      /\ wanted' = IF op[t].default = "set" THEN ids' ELSE wanted
      /\ rows' = [i \in DOMAIN rows \cup {ids'} |->
                     IF i = ids' THEN op[t].default = "set" ELSE Unset(t)[i]]
  BY DEF CommitCreate
<1>2. ids \in Nat /\ wanted \in 0..ids /\ DOMAIN rows \subseteq 1..ids
      /\ \A i \in DOMAIN rows : rows[i] \in BOOLEAN
  BY DEF ProvidersInv, RowsTyped
<1>3. ids' \notin DOMAIN rows /\ DOMAIN rows' = DOMAIN rows \cup {ids'}
  BY <1>1, <1>2
<1>4. /\ rows'[ids'] = (op[t].default = "set")
      /\ \A i \in DOMAIN rows : rows'[i] = (rows[i] /\ i \notin others[t])
  BY <1>1, <1>2, <1>3 DEF Unset
<1>5. RowsTyped'
  <2>1. \A i \in DOMAIN rows' : rows'[i] \in BOOLEAN
    BY <1>3, <1>4
  <2>2. rows' \in [DOMAIN rows' -> BOOLEAN]
    BY <1>1, <1>3, <2>1
  <2> QED
    BY <1>1, <1>2, <1>3, <2>2 DEF RowsTyped
<1>6. clean' \in BOOLEAN
  BY <1>1 DEF Noted
<1>7. DefaultIsTheLastSet'
  <2> SUFFICES ASSUME clean' PROVE Defaults' = IF wanted' = NoProvider THEN {} ELSE {wanted'}
    BY DEF DefaultIsTheLastSet
  <2>1. op[t].id = NoProvider /\ NoProvider \notin DOMAIN rows
    BY <1>1, <1>2 DEF ProvidersInv, ThreadsTyped, NoProvider
  <2>2. CASE op[t].default = "set"
    <3>1. others[t] = Defaults
      BY <1>1, <2>1, <2>2, CommitKnows DEF Defaults
    <3>2. rows'[ids'] /\ \A i \in DOMAIN rows : ~rows'[i]
      BY <1>4, <2>2, <3>1 DEF Defaults
    <3>3. Defaults' = {ids'}
      BY <1>3, <3>2 DEF Defaults
    <3> QED
      BY <1>1, <1>2, <2>2, <3>3 DEF NoProvider
  <2>3. CASE op[t].default # "set"
    <3>1. others[t] = {} /\ clean
      BY <1>1, <2>3, CommitKnows
    <3>2. Defaults' = Defaults
      BY <1>3, <1>4, <2>3, <3>1 DEF Defaults
    <3> QED
      BY <1>1, <2>3, <3>1, <3>2 DEF ProvidersInv, DefaultIsTheLastSet
  <2> QED
    BY <2>2, <2>3
<1> QED
  BY <1>1, <1>5, <1>6, <1>7, CloseInv DEF ProvidersInv

LEMMA CommitUpdateInv ==
    ASSUME ProvidersInv, NEW t \in Endpoints, CommitUpdate(t)
    PROVE  ProvidersInv'
<1> DEFINE id == op[t].id
           set == op[t].default = "set"
           writes == op[t].default # "unset" /\ set # loaded[t]
<1>1. /\ stage[t] = "commit" /\ op[t].kind = "update" /\ Noted(t) /\ Close(t)
      /\ id \in DOMAIN rows /\ ids' = ids
  BY DEF CommitUpdate
<1>2. /\ rows' = IF writes THEN [Unset(t) EXCEPT ![id] = set] ELSE Unset(t)
      /\ wanted' = CASE set -> id
                     [] op[t].default = "clear" /\ wanted = id -> NoProvider
                     [] OTHER -> wanted
  BY DEF CommitUpdate
<1>3. ids \in Nat /\ wanted \in 0..ids /\ DOMAIN rows \subseteq 1..ids
      /\ \A i \in DOMAIN rows : rows[i] \in BOOLEAN
  BY DEF ProvidersInv, RowsTyped
<1>4. DOMAIN rows' = DOMAIN rows
  BY <1>2 DEF Unset
<1>5. /\ \A i \in DOMAIN rows \ {id} : rows'[i] = (rows[i] /\ i \notin others[t])
      /\ rows'[id] = IF writes THEN set ELSE rows[id] /\ id \notin others[t]
  BY <1>1, <1>2 DEF Unset
<1>6. RowsTyped'
  <2>1. \A i \in DOMAIN rows' : rows'[i] \in BOOLEAN
    <3>1. \A i \in DOMAIN rows \ {id} : rows'[i] \in BOOLEAN
      BY <1>5
    <3>2. rows'[id] \in BOOLEAN
      BY <1>1, <1>3, <1>5
    <3> QED
      BY <1>4, <3>1, <3>2
  <2>2. rows' \in [DOMAIN rows' -> BOOLEAN]
    BY <1>2, <1>4, <2>1 DEF Unset
  <2>3. wanted' \in 0..ids
    BY <1>1, <1>2, <1>3 DEF NoProvider
  <2> QED
    BY <1>1, <1>3, <1>4, <2>2, <2>3 DEF RowsTyped
<1>7. clean' \in BOOLEAN
  BY <1>1 DEF Noted
<1>8. DefaultIsTheLastSet'
  <2> SUFFICES ASSUME clean' PROVE Defaults' = IF wanted' = NoProvider THEN {} ELSE {wanted'}
    BY DEF DefaultIsTheLastSet
  <2>1. /\ clean \/ set
        /\ others[t] = IF set THEN Defaults \ {id} ELSE {}
        /\ loaded[t] = rows[id] /\ op[t].default \in Asks
    BY <1>1, CommitKnows
  <2>2. id # NoProvider
    BY <1>1, <1>3 DEF NoProvider
  <2>3. CASE set
    <3>1. rows'[id]
      BY <1>1, <1>5, <2>1, <2>3
    <3>2. \A i \in DOMAIN rows \ {id} : ~rows'[i]
      BY <1>5, <2>1, <2>3 DEF Defaults
    <3>3. Defaults' = {id}
      BY <1>1, <1>4, <3>1, <3>2 DEF Defaults
    <3> QED
      BY <1>2, <2>2, <2>3, <3>3
  <2>4. CASE op[t].default = "clear"
    <3>1. ~rows'[id]
      BY <1>1, <1>3, <1>5, <2>1, <2>4
    <3>2. Defaults' = Defaults \ {id}
      BY <1>4, <1>5, <2>1, <2>4, <3>1 DEF Defaults
    <3>3. Defaults = IF wanted = NoProvider THEN {} ELSE {wanted}
      BY <2>1, <2>4 DEF ProvidersInv, DefaultIsTheLastSet
    <3> QED
      BY <1>2, <2>2, <2>4, <3>2, <3>3
  <2>5. CASE op[t].default = "unset"
    <3>1. Defaults' = Defaults
      BY <1>1, <1>3, <1>4, <1>5, <2>1, <2>5 DEF Defaults
    <3> QED
      BY <1>2, <2>1, <2>5, <3>1 DEF ProvidersInv, DefaultIsTheLastSet
  <2> QED
    BY <2>1, <2>3, <2>4, <2>5 DEF Asks
<1> QED
  BY <1>1, <1>6, <1>7, <1>8, CloseInv DEF ProvidersInv

LEMMA CommitDeleteInv ==
    ASSUME ProvidersInv, NEW t \in Endpoints, CommitDelete(t)
    PROVE  ProvidersInv'
<1> DEFINE id == op[t].id
<1>1. /\ stage[t] = "commit" /\ op[t].kind = "delete" /\ Noted(t) /\ Close(t) /\ ids' = ids
      /\ rows' = [i \in DOMAIN rows \ {id} |-> rows[i]]
      /\ wanted' = IF wanted = id THEN NoProvider ELSE wanted
  BY DEF CommitDelete, Restrict
<1>2. RowsTyped'
  BY <1>1 DEF ProvidersInv, RowsTyped, NoProvider
<1>3. clean' \in BOOLEAN
  BY <1>1 DEF Noted
<1>4. DefaultIsTheLastSet'
  <2> SUFFICES ASSUME clean' PROVE Defaults' = IF wanted' = NoProvider THEN {} ELSE {wanted'}
    BY DEF DefaultIsTheLastSet
  <2>1. clean
    BY <1>1, CommitKnows DEF ProvidersInv, ThreadsTyped
  <2>2. Defaults' = Defaults \ {id}
    BY <1>1 DEF Defaults
  <2> QED
    BY <1>1, <2>1, <2>2 DEF ProvidersInv, DefaultIsTheLastSet
<1> QED
  BY <1>1, <1>2, <1>3, <1>4, CloseInv DEF ProvidersInv

LEMMA CommitFailsInv ==
    ASSUME ProvidersInv, NEW t \in Endpoints, CommitFails(t)
    PROVE  ProvidersInv'
<1>1. UNCHANGED <<rows, ids, wanted, clean>> /\ Close(t) /\ stage[t] = "commit"
  BY DEF CommitFails
<1>2. RowsTyped' /\ DefaultIsTheLastSet' /\ clean' \in BOOLEAN
  BY <1>1 DEF ProvidersInv, RowsTyped, ThreadsTyped, DefaultIsTheLastSet, Defaults
<1> QED
  BY <1>1, <1>2, CloseInv DEF ProvidersInv

LEMMA StutterInv == ProvidersInv /\ UNCHANGED providerVars => ProvidersInv'
  BY DEF ProvidersInv, providerVars, request, RowsTyped, ThreadsTyped, AloneIsAlone, StillSo, Alone, Busy,
     Defaults, DefaultIsTheLastSet

LEMMA ProvidersNextInv == ProvidersInv /\ [ProvidersNext]_providerVars => ProvidersInv'
<1> SUFFICES ASSUME ProvidersInv, ProvidersNext PROVE ProvidersInv'
  BY StutterInv
<1>1. PICK t \in Endpoints :
         \/ \E default \in {"set", "clear"} : Create(t, default)
         \/ \E i \in DOMAIN rows, default \in {"set", "clear", "unset"} :
               Update(t, i, default)
         \/ \E i \in DOMAIN rows : Delete(t, i)
         \/ NotFound(t)
         \/ Select(t)
         \/ CommitCreate(t) \/ CommitUpdate(t) \/ CommitDelete(t) \/ CommitFails(t)
  BY DEF ProvidersNext
<1>2. DOMAIN rows \subseteq Nat /\ \A i \in DOMAIN rows : rows[i] \in BOOLEAN
  BY DEF ProvidersInv, RowsTyped
<1>3. loaded \in [Endpoints -> BOOLEAN]
  BY DEF ProvidersInv, ThreadsTyped
<1>4. CASE \E default \in {"set", "clear"} : Create(t, default)
  <2>1. PICK default \in {"set", "clear"} : Create(t, default)
    BY <1>4
  <2>2. Begin(t, "create", NoProvider, default) /\ loaded' = loaded
    BY <2>1 DEF Create
  <2> QED
    BY <1>3, <2>2, BeginInv DEF Kinds, Asks, NoProvider
<1>5. CASE \E i \in DOMAIN rows, default \in {"set", "clear", "unset"} : Update(t, i, default)
  <2>1. PICK i \in DOMAIN rows, default \in {"set", "clear", "unset"} : Update(t, i, default)
    BY <1>5
  <2>2. Begin(t, "update", i, default) /\ loaded' = [loaded EXCEPT ![t] = rows[i]]
    BY <2>1 DEF Update
  <2>3. /\ loaded' \in [Endpoints -> BOOLEAN] /\ loaded'[t] = rows[i]
        /\ \A u \in Endpoints \ {t} : loaded'[u] = loaded[u]
    BY <1>2, <1>3, <2>2
  <2> QED
    BY <1>2, <2>2, <2>3, BeginInv DEF Kinds, Asks
<1>6. CASE \E i \in DOMAIN rows : Delete(t, i)
  <2>1. PICK i \in DOMAIN rows : Delete(t, i)
    BY <1>6
  <2>2. Begin(t, "delete", i, "unset") /\ loaded' = loaded
    BY <2>1 DEF Delete
  <2> QED
    BY <1>2, <1>3, <2>2, BeginInv DEF Kinds, Asks
<1>7. CASE NotFound(t)
  BY <1>7, StutterInv DEF NotFound
<1> QED
  BY <1>1, <1>4, <1>5, <1>6, <1>7, SelectInv, CommitCreateInv, CommitUpdateInv,
     CommitDeleteInv, CommitFailsInv

\* However many requests overlap, in whatever order their statements and their
\* commits come: as long as requests run alone the provider last set is the one
\* default, and the next request that sets the default and runs alone repairs
\* what overlapping ones have left (api.py:331-343, 360-378).
THEOREM LastSetIsTheDefault == ProvidersSpec => []DefaultIsTheLastSet
<1>1. ProvidersInv => DefaultIsTheLastSet
  BY DEF ProvidersInv
<1> QED
  BY <1>1, ProvidersInitInv, ProvidersNextInv, PTL DEF ProvidersSpec

-----------------------------------------------------------------------------
(* ConfigRefresh: the cache of a webhook process.                            *)

\* Version v was current at time s or later.
CurrentSince(v, s) == v = Current \/ ended[v + 1] >= s

\* What is known of a part that has been read for a refresh that counts from
\* time s: it is no older than that, nor than the latest invalidation.
Good(v, s) == CurrentSince(v, s) /\ v >= asked

\* While the cache counts as refreshed, its parts are good from then on.
CacheGood ==
    last # Never => \A p \in (1..Parts) \ missed : Good(applied[p], last)

\* A thread's request began before the time it read last, and a refresh of it
\* counts from no earlier time than the one before it.
Ordered(t) ==
    /\ began[t] <= clock[t]
    /\ floor[t] <= asked
    /\ pc[t] \in Refreshing => last <= clock[t]
    /\ pc[t] \in {"idle", "test", "compare", "acquire", "retest", "recompare"} => part[t] = 1

\* What the refresh of a thread has applied so far is good, and so is what it
\* has just read, which is not older than what is there.
Progress(t) ==
    /\ pc[t] \in {"fetch", "apply"} =>
          \A p \in (1..Parts) \ missed :
              p < part[t] => Good(applied[p], clock[t])
    /\ pc[t] = "apply" => /\ Good(fetched[t], clock[t])
                          /\ applied[part[t]] <= fetched[t]

RefreshInv ==
    /\ RefreshTypes
    /\ CacheGood
    /\ \A t \in Threads : Ordered(t) /\ Progress(t)

\* A thread that refreshes is alone in that.
LEMMA OneRefresh ==
    ASSUME RefreshTypes, NEW t \in Threads, NEW u \in Threads,
           pc[t] \in Refreshing,
           pc[u] \in Refreshing
    PROVE  t = u
<1>1. holder = t
  BY DEF RefreshTypes
<1>2. holder = u
  BY DEF RefreshTypes
<1> QED
  BY <1>1, <1>2

\* A change ends the current version now: what was current at some time up to
\* now still was.
LEMMA ChangeKeepsGood ==
    ASSUME RefreshTypes, Change, NEW v \in 0..Current, NEW s \in Int, s <= now,
           Good(v, s)
    PROVE  (v = Current' \/ ended'[v + 1] >= s) /\ v >= asked'
<1>1. ended \in Seq(0..now) /\ Current \in Nat /\ now \in Nat
  BY DEF RefreshTypes, Current, Times
<1>2. Len(ended') = Len(ended) + 1 /\ ended'[Len(ended) + 1] = now
  BY <1>1 DEF Change
<1>3. \A i \in 1..Len(ended) : ended'[i] = ended[i]
  BY <1>1 DEF Change
<1>4. asked' = asked
  BY DEF Change
<1>5. CASE v = Current
  BY <1>1, <1>2, <1>4, <1>5 DEF Good, CurrentSince, Current
<1>6. CASE v # Current
  <2>1. v + 1 \in 1..Len(ended) /\ ended[v + 1] >= s
    BY <1>1, <1>6 DEF Good, CurrentSince, Current
  <2> QED
    BY <1>1, <1>2, <1>3, <1>4, <2>1 DEF Good, CurrentSince, Current
<1> QED
  BY <1>5, <1>6

\* Good from a time on is good from every earlier time on.
LEMMA GoodFromEarlier ==
    ASSUME RefreshTypes, NEW v \in 0..Current, NEW r \in Int, NEW s \in Int, r <= s,
           Good(v, s)
    PROVE  Good(v, r)
<1>1. ended \in Seq(0..now) /\ now \in Nat
  BY DEF RefreshTypes, Times
<1>2. ASSUME v # Current PROVE ended[v + 1] \in Int
  <2>1. v + 1 \in 1..Len(ended)
    BY <1>1, <1>2 DEF Current
  <2> QED
    BY <1>1, <2>1
<1> QED
  BY <1>2 DEF Good, CurrentSince

\* Types at the start.
LEMMA InitOK == RefreshInit => RefreshInv
<1> SUFFICES ASSUME RefreshInit PROVE RefreshInv
  OBVIOUS
<1>1. Current = 0
  BY DEF RefreshInit, Current
<1>2. RefreshTypes
  BY <1>1, BoundsAssumption, ThreadsAssumption
     DEF RefreshInit, RefreshTypes, Times, Versions, Never, Nobody, Refreshing
<1>3. CacheGood
  BY DEF RefreshInit, CacheGood
<1>4. ASSUME NEW t \in Threads PROVE Ordered(t) /\ Progress(t)
  <2>1. /\ pc[t] = "idle" /\ part[t] = 1 /\ asked = 0
        /\ began[t] = 0 /\ clock[t] = 0 /\ floor[t] = 0
    BY DEF RefreshInit
  <2> QED
    BY <2>1 DEF Ordered, Progress, Refreshing
<1> QED
  BY <1>2, <1>3, <1>4 DEF RefreshInv

LEMMA TypePreserved ==
    ASSUME RefreshTypes, [RefreshNext]_refreshVars
    PROVE  RefreshTypes'
<1> USE BoundsAssumption, ThreadsAssumption
<1> USE DEF Versions, Times, Never, Nobody
<1>0. /\ now \in Nat /\ Current \in Nat
      /\ 0 \in 0..now /\ now \in 0..now /\ 0 \in 0..Current /\ 1 \in 1..Parts
      /\ UNCHANGED ended => Current' = Current
  BY DEF RefreshTypes, Current
<1>1. CASE UNCHANGED refreshVars
  BY <1>0, <1>1 DEF RefreshTypes, refreshVars, thread
<1>2. CASE Tick
  <2>1. ended \in Seq(0..now')
    BY <1>0, <1>2 DEF RefreshTypes, Tick
  <2>2. began' \in [Threads -> 0..now'] /\ clock' \in [Threads -> 0..now']
    <3>1. 0..now \subseteq 0..now' /\ began' = began /\ clock' = clock
      BY <1>0, <1>2 DEF Tick, thread
    <3> QED
      BY <3>1 DEF RefreshTypes
  <2>3. last' \in {-1} \cup 0..now' /\ now' \in 0..MaxTime
    BY <1>0, <1>2 DEF RefreshTypes, Tick
  <2> QED
    BY <1>0, <1>2, <2>1, <2>2, <2>3 DEF RefreshTypes, Tick, thread
<1>3. CASE Change
  <2>1. ended' \in Seq(0..now') /\ Current' = Current + 1
    BY <1>0, <1>3 DEF RefreshTypes, Change, Current
  <2>2. /\ applied' \in [1..Parts -> 0..Current']
        /\ fetched' \in [Threads -> 0..Current']
        /\ floor' \in [Threads -> 0..Current']
    <3>1. /\ applied' = applied /\ fetched' = fetched /\ floor' = floor
          /\ 0..Current \subseteq 0..Current'
      BY <1>0, <1>3, <2>1 DEF Change, thread
    <3> QED
      BY <3>1 DEF RefreshTypes
  <2>3. asked' \in 0..Current' /\ Current' \in 0..MaxChanges
    BY <1>0, <1>3, <2>1 DEF RefreshTypes, Change
  <2> QED
    BY <1>3, <2>1, <2>2, <2>3 DEF RefreshTypes, Change, thread
<1>4. CASE Invalidate
  BY <1>0, <1>4 DEF RefreshTypes, Invalidate, thread
<1>5. ASSUME NEW t \in Threads, Request(t) PROVE RefreshTypes'
  <2>1. /\ began' \in [Threads -> 0..now] /\ clock' \in [Threads -> 0..now]
        /\ floor' \in [Threads -> 0..Current]
    BY <1>0, <1>5 DEF RefreshTypes, Request, Refreshing
  <2> QED
    BY <1>0, <1>5, <2>1 DEF RefreshTypes, Request, Refreshing
<1>6. ASSUME NEW t \in Threads, Test(t) PROVE RefreshTypes'
  BY <1>0, <1>6 DEF RefreshTypes, Test, Refreshing
<1>6a. ASSUME NEW t \in Threads, Compare(t) PROVE RefreshTypes'
  BY <1>0, <1>6a DEF RefreshTypes, Compare, Refreshing
<1>7. ASSUME NEW t \in Threads, Acquire(t) PROVE RefreshTypes'
  <2>1. clock' \in [Threads -> 0..now]
    BY <1>0, <1>7 DEF RefreshTypes, Acquire
  <2> QED
    BY <1>0, <1>7, <2>1 DEF RefreshTypes, Acquire, LockFree, Refreshing
<1>8. ASSUME NEW t \in Threads, Retest(t) PROVE RefreshTypes'
  BY <1>0, <1>8 DEF RefreshTypes, Retest, Refreshing
<1>8a. ASSUME NEW t \in Threads, Recompare(t) PROVE RefreshTypes'
  <2>1. pc[t] = "recompare" /\ holder = t
    BY <1>8a DEF Recompare, RefreshTypes, Refreshing
  <2>2. ASSUME NEW s \in {"raised", "served"}, holder' = Nobody, pc' = [pc EXCEPT ![t] = s]
        PROVE  RefreshTypes'
    BY <1>0, <1>8a, <2>1, <2>2 DEF RefreshTypes, Recompare, Refreshing
  <2>3. ASSUME UNCHANGED holder, pc' = [pc EXCEPT ![t] = "fetch"] PROVE RefreshTypes'
    BY <1>0, <1>8a, <2>1, <2>3 DEF RefreshTypes, Recompare, Refreshing
  <2>4. \/ holder' = Nobody /\ pc' = [pc EXCEPT ![t] = "raised"]
        \/ holder' = Nobody /\ pc' = [pc EXCEPT ![t] = "served"]
        \/ UNCHANGED holder /\ pc' = [pc EXCEPT ![t] = "fetch"]
    BY <1>8a, Zenon DEF Recompare, Release
  <2>5. CASE holder' = Nobody /\ pc' = [pc EXCEPT ![t] = "raised"]
    BY <2>2, <2>5
  <2>6. CASE holder' = Nobody /\ pc' = [pc EXCEPT ![t] = "served"]
    BY <2>2, <2>6
  <2>7. CASE UNCHANGED holder /\ pc' = [pc EXCEPT ![t] = "fetch"]
    BY <2>3, <2>7
  <2> QED
    BY <2>4, <2>5, <2>6, <2>7, Zenon
<1>9. ASSUME NEW t \in Threads, Fetch(t) PROVE RefreshTypes'
  <2>1. fetched' \in [Threads -> 0..Current]
    BY <1>0, <1>9 DEF RefreshTypes, Fetch
  <2> QED
    BY <1>0, <1>9, <2>1 DEF RefreshTypes, Fetch, Refreshing
<1>10. ASSUME NEW t \in Threads, Applied(t)
       PROVE  applied' \in [1..Parts -> 0..Current] /\ missed' \subseteq 1..Parts
  BY <1>10 DEF RefreshTypes, Applied
<1>11. ASSUME NEW t \in Threads, ApplyPart(t) PROVE RefreshTypes'
  <2>1. part[t] + 1 \in 1..Parts
    <3>1. part[t] \in 1..Parts /\ part[t] < Parts
      BY <1>11 DEF ApplyPart, RefreshTypes
    <3> QED
      BY <3>1
  <2> QED
    BY <1>0, <1>10, <1>11, <2>1 DEF RefreshTypes, ApplyPart, Applied, Refreshing
<1>12. ASSUME NEW t \in Threads, ApplyLast(t) PROVE RefreshTypes'
  BY <1>0, <1>10, <1>12 DEF RefreshTypes, ApplyLast, Applied, Release, Stamp, Refreshing
<1>13. ASSUME NEW t \in Threads, Finish(t) PROVE RefreshTypes'
  <2>1. /\ began' \in [Threads -> 0..now] /\ clock' \in [Threads -> 0..now]
        /\ part' \in [Threads -> 1..Parts]
        /\ fetched' \in [Threads -> 0..Current]
        /\ floor' \in [Threads -> 0..Current]
    BY <1>0, <1>13 DEF RefreshTypes, Finish, Refreshing
  <2> QED
    BY <1>0, <1>13, <2>1 DEF RefreshTypes, Finish, Refreshing
<1> QED
  BY <1>1, <1>2, <1>3, <1>4, <1>5, <1>6, <1>6a, <1>7, <1>8, <1>8a, <1>9, <1>11, <1>12, <1>13
     DEF RefreshNext, Serve

\* A step that changes neither the cache nor what good means of it.
LEMMA CacheKept ==
    ASSUME RefreshTypes, CacheGood, UNCHANGED <<ended, asked, applied, missed, last>>
    PROVE  CacheGood'
  BY DEF CacheGood, Good, CurrentSince, Current

LEMMA OrderPreserved ==
    ASSUME RefreshInv, [RefreshNext]_refreshVars, NEW u \in Threads
    PROVE  Ordered(u)'
<1> USE DEF Never, Nobody, Versions, Times
<1>1. RefreshTypes /\ Ordered(u)
  BY DEF RefreshInv
<1>2. /\ now \in Nat /\ Current \in Nat /\ last \in Int /\ last <= now
      /\ asked \in Int /\ asked <= Current /\ clock[u] \in Nat /\ began[u] \in Nat
      /\ clock[u] <= now /\ began[u] <= now /\ floor[u] \in Nat
      /\ floor[u] <= Current
  BY <1>1 DEF RefreshTypes, Current
<1>3. CASE UNCHANGED refreshVars
  BY <1>1, <1>3 DEF Ordered, refreshVars, thread
<1>4. CASE Tick
  BY <1>1, <1>4 DEF Ordered, Tick, thread
<1>5. CASE Change
  BY <1>1, <1>5 DEF Ordered, Change, thread
<1>6. CASE Invalidate
  BY <1>1, <1>2, <1>6 DEF Ordered, Invalidate, thread
<1>7. ASSUME NEW t \in Threads, Request(t) PROVE Ordered(u)'
  BY <1>1, <1>2, <1>7 DEF Ordered, Request, RefreshTypes, Refreshing
<1>8. ASSUME NEW t \in Threads, Test(t) PROVE Ordered(u)'
  BY <1>1, <1>2, <1>8 DEF Ordered, Test, RefreshTypes, Refreshing
<1>8a. ASSUME NEW t \in Threads, Compare(t) PROVE Ordered(u)'
  BY <1>1, <1>2, <1>8a DEF Ordered, Compare, RefreshTypes, Refreshing
<1>9. ASSUME NEW t \in Threads, Acquire(t) PROVE Ordered(u)'
  BY <1>1, <1>2, <1>9 DEF Ordered, Acquire, RefreshTypes, Refreshing
<1>10. ASSUME NEW t \in Threads, Retest(t) PROVE Ordered(u)'
  BY <1>1, <1>2, <1>10 DEF Ordered, Retest, RefreshTypes, Refreshing
<1>10a. ASSUME NEW t \in Threads, Recompare(t) PROVE Ordered(u)'
  BY <1>1, <1>2, <1>10a DEF Ordered, Recompare, RefreshTypes, Refreshing
<1>11. ASSUME NEW t \in Threads, Fetch(t) PROVE Ordered(u)'
  BY <1>1, <1>2, <1>11 DEF Ordered, Fetch, RefreshTypes, Refreshing
<1>12. ASSUME NEW t \in Threads, ApplyPart(t) PROVE Ordered(u)'
  BY <1>1, <1>2, <1>12 DEF Ordered, ApplyPart, Applied, RefreshTypes, Refreshing
<1>13. ASSUME NEW t \in Threads, ApplyLast(t) PROVE Ordered(u)'
  <2>1. pc[u] \in Refreshing => u = t
    BY <1>1, <1>13, OneRefresh DEF ApplyLast, Applied, Refreshing
  <2> QED
    BY <1>1, <1>2, <1>13, <2>1 DEF Ordered, ApplyLast, Applied, RefreshTypes, Refreshing
<1>14. ASSUME NEW t \in Threads, Finish(t) PROVE Ordered(u)'
  BY <1>1, <1>2, <1>14 DEF Ordered, Finish, RefreshTypes, Refreshing
<1> QED
  BY <1>3, <1>4, <1>5, <1>6, <1>7, <1>8, <1>8a, <1>9, <1>10, <1>10a, <1>11, <1>12, <1>13,
     <1>14
     DEF RefreshNext, Serve

\* What applying the part of t does to the settings: the part either becomes
\* what was read or counts as missed.
LEMMA AppliedPart ==
    ASSUME RefreshTypes, NEW t \in Threads, Applied(t), NEW p \in (1..Parts) \ missed'
    PROVE  /\ p = part[t] => applied'[p] = fetched[t]
           /\ p # part[t] => applied'[p] = applied[p] /\ p \notin missed
  BY DEF RefreshTypes, Applied

LEMMA ProgressPreserved ==
    ASSUME RefreshInv, [RefreshNext]_refreshVars, NEW u \in Threads
    PROVE  Progress(u)'
<1>1. RefreshTypes /\ Ordered(u) /\ Progress(u)
  BY DEF RefreshInv
<1>2. /\ now \in Nat /\ Current \in Nat /\ clock[u] \in Int /\ clock[u] <= now
      /\ fetched[u] \in 0..Current /\ part[u] \in 1..Parts
      /\ \A p \in 1..Parts : applied[p] \in 0..Current
  <2>1. now \in Nat /\ Current \in Nat
    BY <1>1 DEF RefreshTypes, Current, Times
  <2>2. \A p \in 1..Parts : applied[p] \in 0..Current
    BY <1>1 DEF RefreshTypes
  <2> QED
    BY <1>1, <2>1, <2>2 DEF RefreshTypes
<1>3. ASSUME UNCHANGED <<ended, asked, applied, missed>>,
             pc'[u] = pc[u], clock'[u] = clock[u], part'[u] = part[u],
             fetched'[u] = fetched[u]
      PROVE  Progress(u)'
  BY <1>1, <1>3 DEF Progress, Good, CurrentSince, Current
<1>4. CASE UNCHANGED refreshVars
  BY <1>3, <1>4 DEF refreshVars, thread
<1>5. CASE Tick
  BY <1>3, <1>5 DEF Tick, thread
<1>6. CASE Change
  <2>1. ASSUME NEW v \in 0..Current, Good(v, clock[u])
        PROVE  (v = Current' \/ ended'[v + 1] >= clock[u]) /\ v >= asked'
    BY <1>1, <1>2, <1>6, <2>1, ChangeKeepsGood
  <2>2. UNCHANGED <<applied, missed, pc, clock, part, fetched>>
    BY <1>6 DEF Change, thread
  <2> QED
    BY <1>1, <1>2, <2>1, <2>2 DEF Progress, Good, CurrentSince
<1>7. CASE Invalidate
  <2>1. pc[u] \in {"fetch", "apply"} => asked' = asked
    BY <1>1, <1>7, ThreadsAssumption DEF RefreshTypes, Invalidate, Nobody, Refreshing
  <2> QED
    BY <1>1, <1>7, <2>1
       DEF Progress, Good, CurrentSince, Current, Invalidate, thread
<1>8. ASSUME NEW t \in Threads, Request(t) \/ Test(t) \/ Compare(t) \/ Acquire(t) \/ Finish(t)
      PROVE  Progress(u)'
  <2>1. CASE u = t
    <3>1. pc'[u] \notin {"fetch", "apply"}
      BY <1>1, <1>8, <2>1 DEF Request, Test, Compare, Acquire, Finish, RefreshTypes
    <3> QED
      BY <3>1 DEF Progress
  <2>2. CASE u # t
    BY <1>1, <1>3, <1>8, <2>2 DEF Request, Test, Compare, Acquire, Finish, RefreshTypes
  <2> QED
    BY <2>1, <2>2
<1>9. ASSUME NEW t \in Threads, Retest(t) \/ Recompare(t) PROVE Progress(u)'
  <2>1. CASE u = t
    <3>1. part'[u] = 1 /\ pc'[u] # "apply"
      BY <1>1, <1>9, <2>1 DEF Retest, Recompare, Ordered, RefreshTypes
    <3> QED
      BY <3>1 DEF Progress
  <2>2. CASE u # t
    BY <1>1, <1>3, <1>9, <2>2 DEF Retest, Recompare, RefreshTypes
  <2> QED
    BY <2>1, <2>2
<1>10. ASSUME NEW t \in Threads, Fetch(t) PROVE Progress(u)'
  <2>1. CASE u = t
    <3>1. pc[u] = "fetch" /\ fetched'[u] = Current /\ Current' = Current
      BY <1>1, <1>10, <2>1 DEF Fetch, RefreshTypes, Current
    <3>2. Good(fetched[u], clock[u])' /\ applied'[part'[u]] <= fetched'[u]
      BY <1>1, <1>2, <1>10, <3>1 DEF Fetch, Good, CurrentSince, RefreshTypes, Refreshing
    <3> QED
      BY <1>1, <1>10, <3>1, <3>2
         DEF Progress, Fetch, Good, CurrentSince, Current
  <2>2. CASE u # t
    BY <1>1, <1>3, <1>10, <2>2 DEF Fetch, RefreshTypes
  <2> QED
    BY <2>1, <2>2
<1>11. ASSUME NEW t \in Threads, ApplyPart(t) PROVE Progress(u)'
  <2>1. CASE u = t
    <3>1. /\ pc[u] = "apply" /\ pc'[u] = "fetch" /\ part'[u] = part[u] + 1
          /\ Applied(u) /\ clock'[u] = clock[u] /\ UNCHANGED <<ended, asked>>
      BY <1>1, <1>11, <2>1 DEF ApplyPart, Applied, RefreshTypes
    <3>2. ASSUME NEW p \in (1..Parts) \ missed', p < part[u] + 1
          PROVE  Good(applied[p], clock[u])'
      <4>1. Good(applied'[p], clock[u])
        BY <1>1, <1>2, <3>1, <3>2, AppliedPart DEF Progress
      <4> QED
        BY <3>1, <4>1 DEF Good, CurrentSince, Current
    <3> QED
      BY <3>1, <3>2 DEF Progress
  <2>2. CASE u # t
    <3>1. pc'[u] \notin {"fetch", "apply"}
      BY <1>1, <1>11, <2>2, OneRefresh DEF ApplyPart, Applied, RefreshTypes, Refreshing
    <3> QED
      BY <3>1 DEF Progress
  <2> QED
    BY <2>1, <2>2
<1>12. ASSUME NEW t \in Threads, ApplyLast(t) PROVE Progress(u)'
  <2>1. pc'[u] \notin {"fetch", "apply"}
    BY <1>1, <1>12, OneRefresh DEF ApplyLast, Applied, RefreshTypes, Refreshing
  <2> QED
    BY <2>1 DEF Progress
<1> QED
  BY <1>4, <1>5, <1>6, <1>7, <1>8, <1>9, <1>10, <1>11, <1>12 DEF RefreshNext, Serve

LEMMA CachePreserved ==
    ASSUME RefreshInv, [RefreshNext]_refreshVars
    PROVE  CacheGood'
<1>1. RefreshTypes /\ CacheGood
  BY DEF RefreshInv
<1>2. /\ now \in Nat /\ last \in Int /\ last <= now
      /\ \A p \in 1..Parts : applied[p] \in 0..Current
  <2>1. now \in Nat /\ last \in {-1} \cup 0..now
    BY <1>1 DEF RefreshTypes, Times, Never
  <2>2. \A p \in 1..Parts : applied[p] \in 0..Current
    BY <1>1 DEF RefreshTypes
  <2> QED
    BY <2>1, <2>2
<1>3. CASE UNCHANGED refreshVars \/ Tick
  BY <1>1, <1>3, CacheKept DEF refreshVars, Tick
<1>4. CASE Change
  <2>1. ASSUME NEW v \in 0..Current, Good(v, last)
        PROVE  (v = Current' \/ ended'[v + 1] >= last) /\ v >= asked'
    BY <1>1, <1>2, <1>4, <2>1, ChangeKeepsGood
  <2>2. UNCHANGED <<applied, missed, last>>
    BY <1>4 DEF Change
  <2> QED
    BY <1>1, <1>2, <2>1, <2>2 DEF CacheGood, Good, CurrentSince
<1>5. CASE Invalidate
  BY <1>5 DEF Invalidate, CacheGood
<1>6. ASSUME NEW t \in Threads,
             \/ Request(t) \/ Test(t) \/ Compare(t) \/ Acquire(t) \/ Retest(t)
             \/ Recompare(t) \/ Fetch(t) \/ Finish(t)
      PROVE  CacheGood'
  BY <1>1, <1>6, CacheKept
     DEF Request, Test, Compare, Acquire, Retest, Recompare, Fetch, Finish
<1>7. ASSUME NEW t \in Threads, ApplyPart(t) PROVE CacheGood'
  <2>1. /\ pc[t] = "apply" /\ Applied(t) /\ UNCHANGED <<ended, asked, last>>
    BY <1>7 DEF ApplyPart, Applied
  <2>2. /\ last <= clock[t] /\ clock[t] \in Int /\ fetched[t] \in 0..Current
        /\ Good(fetched[t], clock[t])
    BY <1>1, <2>1 DEF RefreshInv, Ordered, Progress, RefreshTypes, Refreshing
  <2>3. Good(fetched[t], last)
    BY <1>1, <1>2, <2>2, GoodFromEarlier
  <2>4. ASSUME last # Never, NEW p \in (1..Parts) \ missed'
        PROVE  Good(applied'[p], last)
    BY <1>1, <2>1, <2>3, <2>4, AppliedPart DEF CacheGood
  <2> QED
    BY <2>1, <2>4 DEF CacheGood, Good, CurrentSince, Current
<1>8. ASSUME NEW t \in Threads, ApplyLast(t) PROVE CacheGood'
  <2>1. /\ pc[t] = "apply" /\ Applied(t) /\ part[t] = Parts
        /\ last' = clock[t] /\ UNCHANGED <<ended, asked>>
    BY <1>8 DEF ApplyLast, Applied, Stamp
  <2>2. ASSUME NEW p \in (1..Parts) \ missed'
        PROVE  Good(applied'[p], clock[t])
    <3>1. Good(fetched[t], clock[t])
      BY <2>1 DEF RefreshInv, Progress
    <3>2. p # Parts => p < part[t]
      BY <2>1, BoundsAssumption
    <3> QED
      BY <1>1, <2>1, <3>1, <3>2, AppliedPart DEF RefreshInv, Progress
  <2> QED
    BY <2>1, <2>2 DEF CacheGood, Good, CurrentSince, Current
<1> QED
  BY <1>3, <1>4, <1>5, <1>6, <1>7, <1>8 DEF RefreshNext, Serve

\* The inductive invariant, whatever the number of threads and parts.
LEMMA RefreshInductive == RefreshSpec => []RefreshInv
<1>1. RefreshInit => RefreshInv
  BY InitOK
<1>2. RefreshInv /\ [RefreshNext]_refreshVars => RefreshInv'
  <2> SUFFICES ASSUME RefreshInv, [RefreshNext]_refreshVars PROVE RefreshInv'
    OBVIOUS
  <2>1. RefreshTypes'
    BY TypePreserved DEF RefreshInv
  <2>2. CacheGood'
    BY CachePreserved
  <2>3. ASSUME NEW t \in Threads PROVE Ordered(t)' /\ Progress(t)'
    BY OrderPreserved, ProgressPreserved
  <2> QED
    BY <2>1, <2>2, <2>3 DEF RefreshInv
<1> QED
  BY <1>1, <1>2, PTL DEF RefreshSpec

\* For any number of threads the lock is held by exactly the thread that
\* refreshes, and every state is well-typed (_refresh_lock).
THEOREM RefreshTypeCorrect == RefreshSpec => []RefreshTypes
<1>1. RefreshInv => RefreshTypes
  BY DEF RefreshInv
<1> QED
  BY <1>1, RefreshInductive, PTL

\* Overlapping refreshes never put an older version over a newer one
\* (ensure_postgres_config_loaded).
THEOREM NoRegress == RefreshSpec => SettingsNeverRegress
<1>1. ASSUME RefreshInv, [RefreshNext]_refreshVars
      PROVE  [\A p \in 1..Parts : applied'[p] >= applied[p]]_refreshVars
  <2> SUFFICES ASSUME RefreshNext, NEW p \in 1..Parts PROVE applied'[p] >= applied[p]
    BY <1>1
  <2>0. RefreshTypes
    BY <1>1 DEF RefreshInv
  <2>1. applied \in [1..Parts -> 0..Current] /\ Current \in Int
    BY <2>0 DEF RefreshTypes, Versions
  <2>2. ASSUME NEW t \in Threads, Applied(t) PROVE applied'[p] >= applied[p]
    <3>1. applied[part[t]] <= fetched[t] /\ pc[t] = "apply"
      BY <1>1, <2>2 DEF RefreshInv, Progress, Applied
    <3>2. fetched[t] \in 0..Current
      BY <2>0 DEF RefreshTypes
    <3>3. \/ applied' = [applied EXCEPT ![part[t]] = fetched[t]]
          \/ applied' = applied
      BY <2>2 DEF Applied
    <3>4. applied[p] \in Int /\ fetched[t] \in Int
      BY <2>1, <3>2
    <3>5. applied'[p] = applied[p] \/ (p = part[t] /\ applied'[p] = fetched[t])
      <4>1. CASE applied' = applied
        BY <4>1, Zenon
      <4>2. CASE applied' = [applied EXCEPT ![part[t]] = fetched[t]]
        BY <2>1, <4>2, Zenon
      <4> QED
        BY <3>3, <4>1, <4>2
    <3>6. CASE applied'[p] = applied[p]
      BY <3>4, <3>6
    <3>7. CASE p = part[t] /\ applied'[p] = fetched[t]
      BY <3>1, <3>4, <3>7
    <3> QED
      BY <3>5, <3>6, <3>7
  <2>3. ASSUME UNCHANGED applied PROVE applied'[p] >= applied[p]
    BY <2>1, <2>3
  <2> QED
    BY <2>2, <2>3 DEF RefreshNext, Serve, Tick, Change, Invalidate, Request, Test,
          Compare, Acquire, Retest, Recompare, Fetch, ApplyPart, ApplyLast, Finish
<1> QED
  BY <1>1, RefreshInductive, PTL DEF RefreshSpec, SettingsNeverRegress

\* What a request goes on with when its call returns: parts that are good since
\* some time less than the time to live before it began.
LEMMA ReturnsGood ==
    ASSUME RefreshInv, RefreshNext, NEW t \in Threads, Returns(t)
    PROVE  \E s \in Int : /\ s > began[t] - Ttl
                          /\ \A p \in (1..Parts) \ missed' : Good(applied'[p], s)
<1>1. RefreshTypes /\ CacheGood /\ Ordered(t) /\ Progress(t)
  BY DEF RefreshInv
<1>2. /\ now \in Nat /\ last \in Int /\ clock[t] \in Int /\ began[t] \in Int
      /\ Ttl \in Nat \ {0} /\ began[t] <= clock[t]
  BY <1>1, BoundsAssumption DEF RefreshTypes, Times, Never, Ordered
<1>3. CASE Fresh(t) /\ UNCHANGED <<applied, missed>>
  <2>1. last # Never /\ clock[t] - last < Ttl
    BY <1>3 DEF Fresh
  <2>2. last > began[t] - Ttl
    BY <1>2, <2>1
  <2> QED
    BY <1>1, <1>2, <1>3, <2>1, <2>2 DEF CacheGood
<1>4. CASE ApplyLast(t)
  <2>1. pc[t] = "apply" /\ Applied(t) /\ part[t] = Parts
    BY <1>4 DEF ApplyLast, Applied
  <2>2. Good(fetched[t], clock[t])
    BY <1>1, <2>1 DEF Progress
  <2>3. ASSUME NEW p \in (1..Parts) \ missed' PROVE Good(applied'[p], clock[t])
    <3>1. p # Parts => p < part[t]
      BY <2>1, BoundsAssumption
    <3> QED
      BY <1>1, <2>1, <2>2, <3>1, AppliedPart DEF Progress
  <2> QED
    BY <1>2, <2>3
<1>5. (Fresh(t) /\ UNCHANGED <<applied, missed>>) \/ ApplyLast(t)
  <2>1. ASSUME Tick \/ Change \/ Invalidate PROVE FALSE
    BY <2>1 DEF Returns, Tick, Change, Invalidate, thread
  <2>2. ASSUME NEW u \in Threads, u # t, Serve(u) PROVE FALSE
    BY <1>1, <2>2 DEF Returns, RefreshTypes, Serve, Request, Test, Compare, Acquire,
          Retest, Recompare,
          Fetch, ApplyPart, ApplyLast, Finish
  <2>3. ASSUME Serve(t)
        PROVE  (Fresh(t) /\ UNCHANGED <<applied, missed>>) \/ ApplyLast(t)
    BY <1>1, <2>3 DEF Returns, RefreshTypes, Serve, Request, Test, Compare, Acquire,
          Retest, Recompare,
          Fetch, ApplyPart, Finish
  <2> QED
    BY <2>1, <2>2, <2>3 DEF RefreshNext
<1> QED
  BY <1>3, <1>4, <1>5

\* A request goes on with settings whose parts, unless their latest query
\* failed, were current less than the time to live before it began
\* (ensure_postgres_config_loaded).
THEOREM StalenessBounded == RefreshSpec => BoundedStaleness
<1>1. ASSUME RefreshInv, [RefreshNext]_refreshVars
      PROVE  [\A t \in Threads : Returns(t) =>
                 \A p \in (1..Parts) \ missed' :
                     CurrentAfter(applied'[p], began[t] - Ttl)]_refreshVars
  <2> SUFFICES ASSUME RefreshNext, NEW t \in Threads, Returns(t),
                      NEW p \in (1..Parts) \ missed'
               PROVE  CurrentAfter(applied'[p], began[t] - Ttl)
    BY <1>1
  <2>1. PICK s \in Int : s > began[t] - Ttl /\ Good(applied'[p], s)
    BY <1>1, ReturnsGood
  <2>2. applied'[p] \in 0..Current'
    <3>1. RefreshTypes'
      BY <1>1, TypePreserved DEF RefreshInv
    <3>2. applied' \in [1..Parts -> 0..Current']
      BY <3>1, Zenon DEF RefreshTypes
    <3> QED
      BY <3>2, Zenon
  <2>3. ended \in Seq(0..now) /\ now \in Nat /\ began[t] - Ttl \in Int
    BY <1>1, BoundsAssumption DEF RefreshInv, RefreshTypes, Times
  <2>4. Current' = Current
    BY DEF RefreshNext, Returns, Tick, Change, Invalidate, Serve, Request, Test,
          Compare, Acquire, Retest, Recompare, Fetch, ApplyPart, ApplyLast, Finish, Current, thread
  <2>5. ASSUME applied'[p] # Current
        PROVE  ended[applied'[p] + 1] > began[t] - Ttl
    <3>1. applied'[p] + 1 \in 1..Len(ended)
      BY <2>2, <2>3, <2>4, <2>5 DEF Current
    <3>2. ended[applied'[p] + 1] \in Int /\ ended[applied'[p] + 1] >= s
      BY <2>1, <2>3, <2>5, <3>1 DEF Good, CurrentSince
    <3> QED
      BY <2>1, <2>3, <3>2
  <2> QED
    BY <2>5 DEF CurrentAfter
<1> QED
  BY <1>1, RefreshInductive, PTL DEF RefreshSpec, BoundedStaleness

\* A call begun after an invalidation that came between refreshes goes on with
\* nothing older than it (invalidate_postgres_config_cache).
THEOREM InvalidationsWork == RefreshSpec => InvalidationObeyed
<1>1. ASSUME RefreshInv, [RefreshNext]_refreshVars
      PROVE  [\A t \in Threads : Returns(t) =>
                 \A p \in (1..Parts) \ missed' : applied'[p] >= floor[t]]_refreshVars
  <2> SUFFICES ASSUME RefreshNext, NEW t \in Threads, Returns(t),
                      NEW p \in (1..Parts) \ missed'
               PROVE  applied'[p] >= floor[t]
    BY <1>1
  <2>1. applied'[p] >= asked
    BY <1>1, ReturnsGood DEF Good
  <2>2. floor[t] <= asked /\ asked \in Int /\ floor[t] \in Int
    BY <1>1 DEF RefreshInv, Ordered, RefreshTypes
  <2>3. applied'[p] \in Int
    <3>1. RefreshTypes'
      BY <1>1, TypePreserved DEF RefreshInv
    <3>2. applied' \in [1..Parts -> 0..Current']
      BY <3>1, Zenon DEF RefreshTypes
    <3>3. applied'[p] \in 0..Current'
      BY <3>2, Zenon
    <3> QED
      BY <3>3
  <2> QED
    BY <2>1, <2>2, <2>3
<1> QED
  BY <1>1, RefreshInductive, PTL DEF RefreshSpec, InvalidationObeyed

-----------------------------------------------------------------------------
(* RequestSettings: the layers of settings of a request.                     *)

\* The names that stand for the process's settings and for no file are free.
Named == Global \notin Requests /\ "-" \notin Repos

FileOf(g) == [repo : {g}, version : Nat, disables : BOOLEAN, sets : BOOLEAN]

\* The values of the parameter that belong to request r.
Own(r) == {Default, FromFile(req[r].repo, cached[r].version)}
            \cup {FromArgs(r, i) : i \in 1..NumCommands}

Values(S) == [disabled : BOOLEAN, param : S]

-----------------------------------------------------------------------------

FilesGood ==
    /\ edits \in Nat
    /\ DOMAIN file = Repos /\ \A g \in Repos : file[g] \in FileOf(g)

FileTypes == UNION {Files(g, v) : g \in Repos, v \in 0..MaxEdits}

Phases == {"new", "queued", "admitted", "running", "done"}

\* With TypeOK, what the length of a request's history rests on.
TypeInv ==
    /\ server \in Servers
    /\ file \in [Repos -> FileTypes]
    /\ edits \in 0..MaxEdits
    /\ settings \in [Requests \cup {Global} -> Values(Params)]
    /\ cached \in [Requests -> {NotFetched} \cup FileTypes]
    /\ req \in [Requests -> Asked \cup {Nothing}]
    /\ phase \in [Requests -> Phases]
    /\ ran \in [Requests -> Seq(Params)]
    /\ \A r \in Requests :
          /\ Len(ran[r]) <= NumCommands
          /\ phase[r] \in {"new", "queued", "admitted"} => ran[r] = <<>>
          /\ phase[r] \in {"queued", "admitted", "running"} => req[r] \in Asked

\* Argument or file, as the server and the kind of the request have it.
Answers(r) ==
    \A i \in DOMAIN ran[r] : i \in req[r].args =>
        ran[r][i] = IF FileOverrides(r) THEN FromFile(req[r].repo, cached[r].version)
                    ELSE FromArgs(r, i)

\* What is known of a request by how far it has come, on any server.
Layered(r) ==
    /\ phase[r] \in {"new", "queued"} => cached[r] = NotFetched
    /\ phase[r] \in {"new", "queued", "admitted"} => ran[r] = <<>>
    /\ phase[r] \in {"admitted", "running"} =>
          /\ cached[r] \in FileOf(req[r].repo)
          /\ ~(req[r].kind = "opened" /\ cached[r].disables)
    /\ phase[r] = "admitted" => TestedFirst(r)
    /\ phase[r] \in {"running", "done"} => Answers(r)
    /\ phase[r] = "done" =>
          /\ req[r].kind = "opened" /\ cached[r].disables => ran[r] = <<>>
          /\ req[r].kind # "opened" => Len(ran[r]) = Length(r)

\* On a server that copies the settings.
Isolated(r) ==
    /\ phase[r] = "queued" => settings[r] = [disabled |-> FALSE, param |-> Default]
    /\ phase[r] = "running" => settings[r] \in Values(Own(r))
    /\ phase[r] \in {"running", "done"} => ran[r] \in Seq(Own(r))

Served(r) == Layered(r) /\ (server \in Copying => Isolated(r))

GlobalKept ==
    server \in Copying => settings[Global] = [disabled |-> FALSE, param |-> Default]

IInv == TypeInv /\ FilesGood /\ GlobalKept /\ \A r \in Requests : Served(r)

-----------------------------------------------------------------------------
(* Types, whether or not requests share the settings.                      *)

LEMMA TypeInvImplies == TypeInv => TypeOK
<1> SUFFICES ASSUME TypeInv PROVE TypeOK
  OBVIOUS
<1>1. \A r \in Requests : ran[r] \in UNION {[1..n -> Params] : n \in 0..NumCommands}
  <2> TAKE r \in Requests
  <2>1. ran[r] \in [1..Len(ran[r]) -> Params] /\ Len(ran[r]) \in 0..NumCommands
    BY NumbersAssumption DEF TypeInv
  <2> QED
    BY <2>1
<1> QED
  BY <1>1 DEF TypeInv, TypeOK, FileTypes, Values, Phases

\* What a request may ask for depends on the server alone.
LEMMA AskedKept == server' = server => Asked' = Asked
  BY DEF Asked, KindsServed

\* A file and the arguments of a command keep a settings object typed.
LEMMA LayersTyped ==
    ASSUME NEW s \in Values(Params), NEW f \in FileTypes
    PROVE  ApplyFile(s, f) \in Values(Params)
<1>1. PICK g \in Repos, v \in 0..MaxEdits : f \in Files(g, v)
  BY DEF FileTypes
<1>2. f.repo = g /\ f.version = v /\ f.disables \in BOOLEAN /\ f.sets \in BOOLEAN
  BY <1>1 DEF Files
<1>3. FromFile(f.repo, f.version) \in Params
  BY <1>2 DEF Params
<1> QED
  BY <1>2, <1>3 DEF ApplyFile, Values

LEMMA ArgsTyped ==
    ASSUME NEW s \in Values(Params), NEW r \in Requests, NEW i \in 1..NumCommands
    PROVE  ApplyArgs(s, r, i) \in Values(Params)
<1>1. FromArgs(r, i) \in Params
  BY DEF Params
<1> QED
  BY <1>1 DEF ApplyArgs, Values

\* What a request finds is a file.
LEMMA Fetched ==
    ASSUME TypeInv, NEW r \in Requests, req[r] \in Asked
    PROVE  RepoSettings(r) \in FileTypes
  BY DEF TypeInv, RepoSettings, Asked

LEMMA RunTyped ==
    ASSUME TypeInv, NEW r \in Requests, req[r] \in Asked, NEW i, i = Len(ran[r]) + 1,
           i <= NumCommands, NEW s \in Values(Params), NEW f \in FileTypes,
           cached' = [cached EXCEPT ![r] = f], RunCommand(r, i, s, f),
           UNCHANGED <<server, file, edits, req>>
    PROVE  TypeInv'
<1>1. i \in 1..NumCommands
  BY DEF TypeInv
<1>2. PICK t \in Values(Params) :
        /\ settings' = [settings EXCEPT ![Scope(r)] = t]
        /\ ran' = [ran EXCEPT ![r] = Append(@, t.param)]
        /\ phase' = [phase EXCEPT ![r] = "running"]
  <2>1. CommandSettings(s, f, r, i) \in Values(Params) /\ AutoSettings(s, f, r, i) \in Values(Params)
    BY <1>1, LayersTyped, ArgsTyped DEF CommandSettings, AutoSettings
  <2> QED
    BY <2>1 DEF RunCommand
<1>3. Scope(r) \in Requests \cup {Global}
  BY DEF Scope
<1>4. t.param \in Params
  BY DEF Values
<1>5. ran' \in [Requests -> Seq(Params)] /\ \A x \in Requests : Len(ran'[x]) <= NumCommands
  BY <1>1, <1>2, <1>4 DEF TypeInv
<1>6. settings' \in [Requests \cup {Global} -> Values(Params)]
  BY <1>2, <1>3 DEF TypeInv
<1>7. \A x \in Requests :
         /\ phase'[x] \in {"new", "queued", "admitted"} => ran'[x] = <<>>
         /\ phase'[x] \in {"queued", "admitted", "running"} => req'[x] \in Asked
  BY <1>2 DEF TypeInv, Phases
<1>8. phase' \in [Requests -> Phases]
  BY <1>2 DEF TypeInv, Phases
<1> QED
  BY <1>2, <1>5, <1>6, <1>7, <1>8, AskedKept DEF TypeInv

LEMMA TypeInit == RequestsInit => TypeInv
<1> SUFFICES ASSUME RequestsInit PROVE TypeInv
  OBVIOUS
<1>1. Default \in Params
  BY DEF Params
<1>2. file \in [Repos -> FileTypes] /\ edits \in 0..MaxEdits
  BY NumbersAssumption DEF RequestsInit, FileTypes
<1>3. settings \in [Requests \cup {Global} -> Values(Params)]
  BY <1>1 DEF RequestsInit, Values
<1>4. ran \in [Requests -> Seq(Params)] /\ \A r \in Requests : ran[r] = <<>> /\ Len(ran[r]) <= NumCommands
  BY NumbersAssumption DEF RequestsInit
<1>5. /\ cached \in [Requests -> {NotFetched} \cup FileTypes]
      /\ req \in [Requests -> Asked \cup {Nothing}]
      /\ phase \in [Requests -> Phases] /\ \A r \in Requests : phase[r] = "new"
      /\ server \in Servers
  BY DEF RequestsInit, Phases
<1> QED
  BY <1>2, <1>3, <1>4, <1>5 DEF TypeInv

\* The settings and the file an event finds are typed.
LEMMA FoundTyped ==
    ASSUME TypeInv, NEW r \in Requests, req[r] \in Asked
    PROVE  /\ Scope(r) \in Requests \cup {Global} /\ settings[Scope(r)] \in Values(Params)
           /\ ApplyFile(settings[Scope(r)], RepoSettings(r)) \in Values(Params)
<1>1. Scope(r) \in Requests \cup {Global}
  BY DEF Scope
<1>2. settings[Scope(r)] \in Values(Params)
  BY <1>1 DEF TypeInv
<1> QED
  BY <1>1, <1>2, Fetched, LayersTyped

LEMMA TypeNext == TypeInv /\ [RequestsNext]_requestVars => TypeInv'
<1> SUFFICES ASSUME TypeInv, [RequestsNext]_requestVars PROVE TypeInv'
  OBVIOUS
<1>0. server' = server /\ Asked' = Asked
  BY AskedKept DEF RequestsNext, requestVars, Receive, Admit, Start, NextCommand, LastCommand, Edit
<1>1. CASE UNCHANGED requestVars
  BY <1>0, <1>1 DEF requestVars, TypeInv
<1>2. ASSUME NEW r \in Requests, Receive(r) PROVE TypeInv'
  <2>1. settings' \in [Requests \cup {Global} -> Values(Params)]
    BY <1>2 DEF Receive, TypeInv
  <2>2. PICK a \in Asked : req' = [req EXCEPT ![r] = a]
    BY <1>2 DEF Receive
  <2>3. phase' = [phase EXCEPT ![r] = "queued"] /\ phase[r] = "new"
        /\ UNCHANGED <<file, edits, cached, ran>>
    BY <1>2 DEF Receive
  <2>4. phase' \in [Requests -> Phases] /\ req' \in [Requests -> Asked \cup {Nothing}]
    BY <2>2, <2>3 DEF TypeInv, Phases
  <2>5. \A x \in Requests :
           /\ Len(ran'[x]) <= NumCommands
           /\ phase'[x] \in {"new", "queued", "admitted"} => ran'[x] = <<>>
           /\ phase'[x] \in {"queued", "admitted", "running"} => req'[x] \in Asked
    BY <2>2, <2>3 DEF TypeInv
  <2> QED
    BY <1>0, <2>1, <2>3, <2>4, <2>5 DEF TypeInv
<1>3. ASSUME NEW r \in Requests, NEW f, NEW s, NEW p \in {"done", "admitted"},
             f = RepoSettings(r), s = ApplyFile(settings[Scope(r)], f),
             phase[r] = "queued", cached' = [cached EXCEPT ![r] = f],
             settings' = [settings EXCEPT ![Scope(r)] = s],
             phase' = [phase EXCEPT ![r] = p], UNCHANGED <<file, edits, req, ran>>
      PROVE  TypeInv'
  <2>1. req[r] \in Asked
    BY <1>3 DEF TypeInv
  <2>2. Scope(r) \in Requests \cup {Global} /\ f \in FileTypes /\ s \in Values(Params)
    BY <1>3, <2>1, Fetched, FoundTyped
  <2>3. settings' \in [Requests \cup {Global} -> Values(Params)]
    BY <1>3, <2>2 DEF TypeInv
  <2>4. phase' \in [Requests -> Phases] /\ cached' \in [Requests -> {NotFetched} \cup FileTypes]
    BY <1>3, <2>2 DEF TypeInv, Phases
  <2>5. \A x \in Requests :
           /\ Len(ran'[x]) <= NumCommands
           /\ phase'[x] \in {"new", "queued", "admitted"} => ran'[x] = <<>>
           /\ phase'[x] \in {"queued", "admitted", "running"} => req'[x] \in Asked
    BY <1>3, <2>1 DEF TypeInv
  <2> QED
    BY <1>0, <1>3, <2>3, <2>4, <2>5 DEF TypeInv
<1>4. ASSUME NEW r \in Requests, Admit(r) PROVE TypeInv'
  <2>1. PICK p \in {"done", "admitted"} : phase' = [phase EXCEPT ![r] = p]
    BY <1>4 DEF Admit
  <2> QED
    BY <1>3, <1>4, <2>1 DEF Admit
<1>5. ASSUME NEW r \in Requests, Start(r) PROVE TypeInv'
  <2>1. PICK f, s : f = RepoSettings(r) /\ s = ApplyFile(settings[Scope(r)], f)
    OBVIOUS
  <2>2. /\ cached' = [cached EXCEPT ![r] = f] /\ phase[r] \in {"queued", "admitted"}
        /\ UNCHANGED <<server, file, edits, req>>
        /\ \/ /\ phase[r] = "queued"
              /\ settings' = [settings EXCEPT ![Scope(r)] = s]
              /\ phase' = [phase EXCEPT ![r] = "done"] /\ ran' = ran
           \/ RunCommand(r, 1, s, f)
    BY <1>5, <2>1 DEF Start
  <2>3. req[r] \in Asked /\ ran[r] = <<>>
    BY <2>2 DEF TypeInv
  <2>4. f \in FileTypes /\ s \in Values(Params)
    BY <2>1, <2>3, Fetched, FoundTyped
  <2>5. CASE RunCommand(r, 1, s, f)
    <3>1. 1 = Len(ran[r]) + 1 /\ 1 <= NumCommands
      BY <2>3, NumbersAssumption
    <3> QED
      BY <2>2, <2>3, <2>4, <2>5, <3>1, RunTyped
  <2> QED
    BY <1>3, <2>1, <2>2, <2>5
<1>6. ASSUME NEW r \in Requests, NextCommand(r) PROVE TypeInv'
  <2>1. PICK f, s : f = RepoSettings(r) /\ s = settings[Scope(r)]
    OBVIOUS
  <2>2. /\ phase[r] = "running" /\ cached' = [cached EXCEPT ![r] = f]
        /\ UNCHANGED <<server, file, edits, req>>
        /\ Len(ran[r]) < Length(r) /\ RunCommand(r, Len(ran[r]) + 1, s, f)
    BY <1>6, <2>1 DEF NextCommand
  <2>3. req[r] \in Asked /\ Len(ran[r]) \in Nat
    BY <2>2 DEF TypeInv
  <2>4. Len(ran[r]) + 1 <= NumCommands
    BY <2>2, <2>3, NumbersAssumption DEF Length
  <2>5. f \in FileTypes /\ s \in Values(Params)
    BY <2>1, <2>3, Fetched, FoundTyped
  <2> QED
    BY <2>2, <2>3, <2>4, <2>5, RunTyped
<1>7. ASSUME NEW r \in Requests, LastCommand(r) PROVE TypeInv'
  <2>1. phase' \in [Requests -> Phases]
    BY <1>7 DEF LastCommand, TypeInv, Phases
  <2> QED
    BY <1>0, <1>7, <2>1 DEF LastCommand, TypeInv
<1>8. ASSUME NEW g \in Repos, Edit(g) PROVE TypeInv'
  <2>1. PICK f \in Files(g, edits + 1) : file' = [file EXCEPT ![g] = f]
    BY <1>8 DEF Edit
  <2>2. edits + 1 \in 0..MaxEdits /\ edits' = edits + 1
    BY <1>8, NumbersAssumption DEF Edit, TypeInv
  <2>3. f \in FileTypes
    BY <2>2 DEF FileTypes
  <2> QED
    BY <1>0, <1>8, <2>1, <2>2, <2>3 DEF Edit, TypeInv
<1> QED
  BY <1>1, <1>2, <1>4, <1>5, <1>6, <1>7, <1>8 DEF RequestsNext

-----------------------------------------------------------------------------
(* Which layer wins, and what the copies keep apart.                       *)

\* The settings a command runs with.
LEMMA SettingsAre ==
    ASSUME NEW r, NEW f \in FileOf(req[r].repo), NEW i, NEW S,
           Default \in S, FromFile(req[r].repo, f.version) \in S,
           i \in req[r].args => FromArgs(r, i) \in S,
           NEW s \in Values(S)
    PROVE  /\ CommandSettings(s, f, r, i) \in Values(S)
           /\ AutoSettings(s, f, r, i) \in Values(S)
           /\ i \in req[r].args =>
                 /\ CommandSettings(s, f, r, i).param = FromArgs(r, i)
                 /\ AutoSettings(s, f, r, i).param =
                       IF f.sets THEN FromFile(req[r].repo, f.version) ELSE FromArgs(r, i)
<1>1. f.repo = req[r].repo /\ f.disables \in BOOLEAN /\ f.sets \in BOOLEAN
  BY DEF FileOf
<1>2. ASSUME NEW u \in Values(S)
      PROVE  /\ ApplyFile(u, f) \in Values(S)
             /\ ApplyFile(u, f).param =
                   IF f.sets THEN FromFile(req[r].repo, f.version) ELSE u.param
  BY <1>1 DEF ApplyFile, Values
<1>3. ASSUME NEW u \in Values(S)
      PROVE  /\ ApplyArgs(u, r, i) \in Values(S)
             /\ i \in req[r].args => ApplyArgs(u, r, i).param = FromArgs(r, i)
  BY DEF ApplyArgs, Values
<1>4. /\ CommandSettings(s, f, r, i) \in Values(S)
      /\ i \in req[r].args => CommandSettings(s, f, r, i).param = FromArgs(r, i)
  BY <1>2, <1>3 DEF CommandSettings
<1>5. /\ AutoSettings(s, f, r, i) \in Values(S)
      /\ i \in req[r].args =>
            AutoSettings(s, f, r, i).param =
                IF f.sets THEN FromFile(req[r].repo, f.version) ELSE FromArgs(r, i)
  BY <1>2, <1>3 DEF AutoSettings
<1> QED
  BY <1>4, <1>5

\* What is known of a request stays so while it does nothing.
LEMMA OthersKept ==
    ASSUME NEW r \in Requests, Served(r), phase'[r] = phase[r], ran'[r] = ran[r],
           cached'[r] = cached[r], req'[r] = req[r], server' = server,
           server \in Copying => settings'[r] = settings[r]
    PROVE  Served(r)'
<1>1. /\ Own(r)' = Own(r) /\ Length(r)' = Length(r) /\ TestedFirst(r)' = TestedFirst(r)
      /\ FileOverrides(r)' = FileOverrides(r)
  BY DEF Own, Length, TestedFirst, FileOverrides, TakesArguments
<1>2. Answers(r)' = Answers(r)
  BY <1>1 DEF Answers
<1>3. Layered(r)'
  BY <1>1, <1>2 DEF Served, Layered
<1>4. server \in Copying => Isolated(r)'
  BY <1>1 DEF Served, Isolated
<1> QED
  BY <1>3, <1>4 DEF Served

\* The requests beside r, when a step of r writes the settings of its scope.
LEMMA Beside ==
    ASSUME IInv, Named, NEW r \in Requests, server' = server,
           \A x \in Requests \ {r} : /\ phase'[x] = phase[x] /\ ran'[x] = ran[x]
                                    /\ cached'[x] = cached[x] /\ req'[x] = req[x],
           NEW t, settings' = [settings EXCEPT ![Scope(r)] = t]
    PROVE  GlobalKept' /\ \A x \in Requests \ {r} : Served(x)'
<1>1. server \in Copying => /\ \A x \in Requests \ {r} : settings'[x] = settings[x]
                            /\ settings'[Global] = settings[Global]
  BY DEF IInv, TypeInv, Scope, Named
<1> QED
  BY <1>1, OthersKept DEF IInv, GlobalKept

\* A request that runs its next command.
LEMMA Runs ==
    ASSUME IInv, Named, NEW r \in Requests, NEW f \in FileOf(req[r].repo),
           req[r] \in Asked, UNCHANGED <<server, req>>, ran[r] \in Seq(Params),
           cached' = [cached EXCEPT ![r] = f],
           NEW S, S = {Default, FromFile(req[r].repo, f.version)}
                        \cup {FromArgs(r, i) : i \in 1..NumCommands},
           NEW s \in Values(Params),
           server \in Copying => s \in Values(S) /\ ran[r] \in Seq(S),
           FromFile(req[r].repo, f.version) \in Params,
           \A i \in DOMAIN ran[r] : i \in req[r].args =>
               ran[r][i] = IF TakesArguments(r) /\ f.sets THEN FromFile(req[r].repo, f.version)
                           ELSE FromArgs(r, i),
           ~(req[r].kind = "opened" /\ f.disables),
           RunCommand(r, Len(ran[r]) + 1, s, f)
    PROVE  GlobalKept' /\ \A x \in Requests : Served(x)'
<1>0. PICK n : n = Len(ran[r]) + 1
  OBVIOUS
<1>1. PICK t : /\ t = IF TakesArguments(r) THEN AutoSettings(s, f, r, n)
                      ELSE CommandSettings(s, f, r, n)
               /\ settings' = [settings EXCEPT ![Scope(r)] = t]
               /\ ran' = [ran EXCEPT ![r] = Append(@, t.param)]
               /\ phase' = [phase EXCEPT ![r] = "running"]
  BY <1>0 DEF RunCommand
<1>2. n \in req[r].args => FromArgs(r, n) \in S /\ FromArgs(r, n) \in Params
  BY DEF Asked, Params
<1>3. /\ t \in Values(Params)
      /\ n \in req[r].args =>
            t.param = IF TakesArguments(r) /\ f.sets THEN FromFile(req[r].repo, f.version)
                      ELSE FromArgs(r, n)
  <2>1. Default \in Params
    BY DEF Params
  <2> QED
    BY <1>1, <1>2, <2>1, SettingsAre
<1>4. server \in Copying => t \in Values(S)
  <2>1. Default \in S /\ FromFile(req[r].repo, f.version) \in S
    OBVIOUS
  <2> QED
    BY <1>1, <1>2, <2>1, SettingsAre
<1>5. GlobalKept' /\ \A x \in Requests \ {r} : Served(x)'
  BY <1>1, Beside DEF IInv, TypeInv
<1>6. /\ phase'[r] = "running" /\ cached'[r] = f /\ req'[r] = req[r]
      /\ ran'[r] = Append(ran[r], t.param)
      /\ server \in Copying => settings'[r] = t
  BY <1>1 DEF IInv, TypeInv, Scope
<1>7. t.param \in Params /\ (server \in Copying => t.param \in S)
  BY <1>3, <1>4 DEF Values
<1>8. FileOverrides(r)' = (TakesArguments(r) /\ f.sets)
  BY <1>6 DEF FileOverrides, TakesArguments
<1>9. Answers(r)'
  <2> SUFFICES ASSUME NEW i \in DOMAIN ran'[r], i \in req[r].args
               PROVE  ran'[r][i] = IF TakesArguments(r) /\ f.sets
                                   THEN FromFile(req[r].repo, f.version) ELSE FromArgs(r, i)
    BY <1>6, <1>8 DEF Answers
  <2>1. CASE i \in DOMAIN ran[r]
    <3>1. ran'[r][i] = ran[r][i]
      BY <1>6, <1>7, <2>1
    <3> QED
      BY <2>1, <3>1
  <2>2. CASE i \notin DOMAIN ran[r]
    <3>1. i = n /\ ran'[r][i] = t.param
      BY <1>0, <1>6, <1>7, <2>2
    <3> QED
      BY <1>3, <3>1
  <2> QED
    BY <2>1, <2>2
<1>10. Layered(r)'
  BY <1>6, <1>9 DEF Layered
<1>11. server \in Copying => Isolated(r)'
  <2>1. Own(r)' = S
    BY <1>6 DEF Own
  <2>2. server \in Copying => ran'[r] \in Seq(S)
    BY <1>6, <1>7
  <2> QED
    BY <1>4, <1>6, <2>1, <2>2 DEF Isolated
<1> QED
  BY <1>5, <1>10, <1>11 DEF Served

\* The file a request finds, and the settings once it is applied.
LEMMA FirstFile ==
    ASSUME IInv, Named, NEW r \in Requests, phase[r] \in {"queued", "admitted", "running"},
           NEW f, f = RepoSettings(r)
    PROVE  /\ req[r] \in Asked /\ f \in FileOf(req[r].repo) /\ f.repo = req[r].repo
           /\ f.disables \in BOOLEAN /\ f.sets \in BOOLEAN
           /\ FromFile(req[r].repo, f.version) \in Params
           /\ phase[r] # "queued" => f = cached[r]
<1>1. req[r] \in Asked /\ req[r].repo \in Repos
  BY DEF IInv, TypeInv, Asked
<1>2. f \in FileOf(req[r].repo) /\ (phase[r] # "queued" => f = cached[r])
  <2>1. CASE phase[r] = "queued"
    <3>1. cached[r] = NotFetched
      BY <2>1 DEF IInv, Served, Layered
    <3> QED
      BY <1>1, <2>1, <3>1 DEF RepoSettings, IInv, FilesGood
  <2>2. CASE phase[r] # "queued"
    <3>1. cached[r] \in FileOf(req[r].repo)
      BY <2>2 DEF IInv, Served, Layered
    <3>2. cached[r] # NotFetched
      BY <1>1, <3>1 DEF FileOf, NotFetched, Named
    <3> QED
      BY <3>1, <3>2 DEF RepoSettings
  <2> QED
    BY <2>1, <2>2
<1>3. f.repo = req[r].repo /\ f.disables \in BOOLEAN /\ f.sets \in BOOLEAN
  BY <1>2 DEF FileOf
<1>4. FromFile(req[r].repo, f.version) \in Params
  <2>1. f \in FileTypes
    BY <1>1, Fetched DEF IInv
  <2>2. PICK g \in Repos, v \in 0..MaxEdits : f \in Files(g, v)
    BY <2>1 DEF FileTypes
  <2>3. f.version = v
    BY <2>2 DEF Files
  <2> QED
    BY <1>1, <2>3 DEF Params
<1> QED
  BY <1>1, <1>2, <1>3, <1>4

LEMMA ReceiveInv ==
    ASSUME IInv, Named, NEW r \in Requests, Receive(r)
    PROVE  FilesGood' /\ GlobalKept' /\ \A x \in Requests : Served(x)'
<1>1. PICK a \in Asked :
        /\ phase[r] = "new" /\ req' = [req EXCEPT ![r] = a]
        /\ settings' = IF Scope(r) = Global THEN settings
                       ELSE [settings EXCEPT ![r] = settings[Global]]
        /\ phase' = [phase EXCEPT ![r] = "queued"]
        /\ UNCHANGED <<server, file, edits, cached, ran>>
  BY DEF Receive
<1>2. FilesGood'
  BY <1>1 DEF IInv, FilesGood
<1>3. server \in Copying => /\ settings' = [settings EXCEPT ![r] = settings[Global]]
                            /\ settings[Global] = [disabled |-> FALSE, param |-> Default]
                            /\ r # Global
  BY <1>1 DEF Scope, Named, IInv, GlobalKept
<1>4. GlobalKept'
  BY <1>1, <1>3 DEF GlobalKept, IInv, TypeInv
<1>5. ASSUME NEW x \in Requests, x # r PROVE Served(x)'
  BY <1>1, <1>3, <1>5, OthersKept DEF IInv, TypeInv
<1>6. Served(r)'
  <2>1. /\ phase'[r] = "queued" /\ ran'[r] = <<>> /\ cached'[r] = NotFetched
        /\ server \in Copying => settings'[r] = [disabled |-> FALSE, param |-> Default]
    BY <1>1, <1>3 DEF IInv, TypeInv, Served, Layered
  <2> QED
    BY <1>1, <2>1 DEF Served, Layered, Isolated
<1> QED
  BY <1>2, <1>4, <1>5, <1>6

\* The flag is tested, and the request ends there or goes on.
LEMMA Tested ==
    ASSUME IInv, Named, NEW r \in Requests, phase[r] = "queued",
           NEW f, f = RepoSettings(r), cached' = [cached EXCEPT ![r] = f],
           NEW s, settings' = [settings EXCEPT ![Scope(r)] = s],
           NEW p \in {"done", "admitted"}, phase' = [phase EXCEPT ![r] = p],
           p = "done" => req[r].kind = "opened",
           p = "admitted" => TestedFirst(r) /\ ~f.disables,
           UNCHANGED <<server, file, edits, req, ran>>
    PROVE  GlobalKept' /\ \A x \in Requests : Served(x)'
<1>1. GlobalKept' /\ \A x \in Requests \ {r} : Served(x)'
  BY Beside DEF IInv, TypeInv
<1>2. /\ phase'[r] = p /\ ran'[r] = <<>> /\ cached'[r] = f /\ req'[r] = req[r]
      /\ f \in FileOf(req[r].repo)
  BY FirstFile DEF IInv, TypeInv
<1>3. Layered(r)'
  <2>1. Answers(r)'
    BY <1>2 DEF Answers
  <2> QED
    BY <1>2, <2>1 DEF Layered, TestedFirst
<1>4. server \in Copying => Isolated(r)'
  <2>1. server \in Copying => p = "done"
    BY DEF TestedFirst, Copying
  <2> QED
    BY <1>2, <2>1 DEF Isolated
<1> QED
  BY <1>1, <1>3, <1>4 DEF Served

LEMMA AdmitInv ==
    ASSUME IInv, Named, NEW r \in Requests, Admit(r)
    PROVE  FilesGood' /\ GlobalKept' /\ \A x \in Requests : Served(x)'
<1>1. PICK f, s : f = RepoSettings(r) /\ s = ApplyFile(settings[Scope(r)], f)
  OBVIOUS
<1>2. /\ phase[r] = "queued" /\ TestedFirst(r)
      /\ cached' = [cached EXCEPT ![r] = f]
      /\ settings' = [settings EXCEPT ![Scope(r)] = s]
      /\ phase' = [phase EXCEPT ![r] =
                      IF Refused(r, settings[Scope(r)], s) THEN "done" ELSE "admitted"]
      /\ UNCHANGED <<server, file, edits, req, ran>>
  BY <1>1 DEF Admit
<1>3. s.disabled = (settings[Scope(r)].disabled \/ f.disables)
  BY <1>1 DEF ApplyFile
<1>4. ~Refused(r, settings[Scope(r)], s) => ~f.disables
  BY <1>2, <1>3 DEF Refused, TestedFirst
<1>5. req[r].kind = "opened"
  BY <1>2 DEF TestedFirst
<1>6. PICK p : p = IF Refused(r, settings[Scope(r)], s) THEN "done" ELSE "admitted"
  OBVIOUS
<1>7. /\ p \in {"done", "admitted"} /\ phase' = [phase EXCEPT ![r] = p]
      /\ p = "admitted" => ~f.disables
  BY <1>2, <1>4, <1>6
<1>8. FilesGood'
  BY <1>2 DEF IInv, FilesGood
<1> QED
  BY <1>1, <1>2, <1>5, <1>7, <1>8, Tested

LEMMA StartInv ==
    ASSUME IInv, Named, NEW r \in Requests, Start(r)
    PROVE  FilesGood' /\ GlobalKept' /\ \A x \in Requests : Served(x)'
<1>1. PICK f, s, old : /\ f = RepoSettings(r) /\ old = settings[Scope(r)] /\ s = ApplyFile(old, f)
  OBVIOUS
<1>2. /\ phase[r] = "admitted" \/ (phase[r] = "queued" /\ ~TestedFirst(r))
      /\ cached' = [cached EXCEPT ![r] = f]
      /\ UNCHANGED <<server, file, edits, req>>
      /\ \/ /\ phase[r] = "queued" /\ Refused(r, old, s)
            /\ settings' = [settings EXCEPT ![Scope(r)] = s]
            /\ phase' = [phase EXCEPT ![r] = "done"] /\ ran' = ran
         \/ /\ ~(phase[r] = "queued" /\ Refused(r, old, s))
            /\ RunCommand(r, 1, s, f)
  BY <1>1 DEF Start
<1>3. /\ req[r] \in Asked /\ f \in FileOf(req[r].repo) /\ f.repo = req[r].repo
      /\ f.disables \in BOOLEAN /\ f.sets \in BOOLEAN
      /\ FromFile(req[r].repo, f.version) \in Params
      /\ phase[r] = "admitted" => f = cached[r]
  BY <1>1, <1>2, FirstFile
<1>4. ran[r] = <<>> /\ s \in Values(Params)
  BY <1>1, <1>2, <1>3, FoundTyped DEF IInv, TypeInv
<1>5. FilesGood'
  BY <1>2 DEF IInv, FilesGood
<1>6. CASE /\ phase[r] = "queued" /\ Refused(r, old, s)
           /\ settings' = [settings EXCEPT ![Scope(r)] = s]
           /\ phase' = [phase EXCEPT ![r] = "done"] /\ ran' = ran
  <2>1. req[r].kind = "opened"
    BY <1>6 DEF Refused
  <2> QED
    BY <1>1, <1>2, <1>5, <1>6, <2>1, Tested
<1>7. CASE ~(phase[r] = "queued" /\ Refused(r, old, s)) /\ RunCommand(r, 1, s, f)
  <2>1. ~(req[r].kind = "opened" /\ f.disables)
    <3>1. CASE phase[r] = "admitted"
      BY <1>3, <3>1 DEF IInv, Served, Layered
    <3>2. CASE phase[r] = "queued"
      <4>1. s.disabled = (old.disabled \/ f.disables)
        BY <1>1 DEF ApplyFile
      <4> QED
        BY <1>7, <3>2, <4>1 DEF Refused
    <3> QED
      BY <1>2, <3>1, <3>2
  <2>2. PICK S : S = {Default, FromFile(req[r].repo, f.version)}
                       \cup {FromArgs(r, i) : i \in 1..NumCommands}
    OBVIOUS
  <2>3. server \in Copying => s \in Values(S)
    <3>1. server \in Copying => phase[r] = "queued" /\ Scope(r) = r
      BY <1>2 DEF IInv, Served, Layered, TestedFirst, Copying, Scope
    <3>2. server \in Copying => old = [disabled |-> FALSE, param |-> Default]
      BY <1>1, <3>1 DEF IInv, Served, Isolated
    <3>3. server \in Copying => s = [disabled |-> f.disables,
             param |-> IF f.sets THEN FromFile(req[r].repo, f.version) ELSE Default]
      BY <1>1, <1>3, <3>2 DEF ApplyFile
    <3> QED
      BY <1>3, <2>2, <3>3 DEF Values
  <2>4. Len(ran[r]) + 1 = 1 /\ ran[r] \in Seq(S) /\ ran[r] \in Seq(Params) /\ DOMAIN ran[r] = {}
    BY <1>4
  <2> QED
    BY <1>2, <1>3, <1>4, <1>5, <1>7, <2>1, <2>2, <2>3, <2>4, Runs
<1> QED
  BY <1>2, <1>6, <1>7

LEMMA NextCommandInv ==
    ASSUME IInv, Named, NEW r \in Requests, NextCommand(r)
    PROVE  FilesGood' /\ GlobalKept' /\ \A x \in Requests : Served(x)'
<1>1. PICK f, s : f = RepoSettings(r) /\ s = settings[Scope(r)]
  OBVIOUS
<1>2. /\ phase[r] = "running" /\ cached' = [cached EXCEPT ![r] = f]
      /\ UNCHANGED <<server, file, edits, req>>
      /\ RunCommand(r, Len(ran[r]) + 1, s, f)
  BY <1>1 DEF NextCommand
<1>3. /\ req[r] \in Asked /\ f \in FileOf(req[r].repo) /\ f = cached[r]
      /\ FromFile(req[r].repo, f.version) \in Params
  BY <1>1, <1>2, FirstFile
<1>4. s \in Values(Params) /\ ran[r] \in Seq(Params)
  BY <1>1, <1>3, FoundTyped DEF IInv, TypeInv
<1>5. Answers(r) /\ ~(req[r].kind = "opened" /\ f.disables)
  BY <1>2, <1>3 DEF IInv, Served, Layered
<1>6. PICK S : S = {Default, FromFile(req[r].repo, f.version)}
                     \cup {FromArgs(r, i) : i \in 1..NumCommands}
  OBVIOUS
<1>7. server \in Copying => s \in Values(S) /\ ran[r] \in Seq(S)
  <2>1. Own(r) = S
    BY <1>3, <1>6 DEF Own
  <2> QED
    BY <1>1, <1>2, <2>1 DEF IInv, Served, Isolated, Scope
<1>8. GlobalKept' /\ \A x \in Requests : Served(x)'
  BY <1>2, <1>3, <1>4, <1>5, <1>6, <1>7, Runs DEF Answers, FileOverrides
<1>9. FilesGood'
  BY <1>2 DEF IInv, FilesGood
<1> QED
  BY <1>8, <1>9

LEMMA LastCommandInv ==
    ASSUME IInv, Named, NEW r \in Requests, LastCommand(r)
    PROVE  FilesGood' /\ GlobalKept' /\ \A x \in Requests : Served(x)'
<1>1. /\ phase[r] = "running" /\ Len(ran[r]) = Length(r) /\ phase' = [phase EXCEPT ![r] = "done"]
      /\ UNCHANGED <<server, file, edits, settings, cached, req, ran>>
  BY DEF LastCommand
<1>2. FilesGood' /\ GlobalKept'
  BY <1>1 DEF IInv, FilesGood, GlobalKept
<1>3. ASSUME NEW x \in Requests, x # r PROVE Served(x)'
  BY <1>1, <1>3, OthersKept DEF IInv, TypeInv
<1>4. Served(r)'
  <2>1. phase'[r] = "done"
    BY <1>1 DEF IInv, TypeInv
  <2>2. /\ Answers(r) /\ ~(req[r].kind = "opened" /\ cached[r].disables)
        /\ server \in Copying => ran[r] \in Seq(Own(r))
    BY <1>1 DEF IInv, Served, Layered, Isolated
  <2>3. /\ Own(r)' = Own(r) /\ Length(r)' = Length(r) /\ FileOverrides(r)' = FileOverrides(r)
    BY <1>1 DEF Own, Length, FileOverrides, TakesArguments
  <2>4. Answers(r)'
    BY <1>1, <2>2, <2>3 DEF Answers
  <2> QED
    BY <1>1, <2>1, <2>2, <2>3, <2>4 DEF Served, Layered, Isolated
<1> QED
  BY <1>2, <1>3, <1>4

LEMMA EditInv ==
    ASSUME IInv, NEW g \in Repos, Edit(g)
    PROVE  FilesGood' /\ GlobalKept' /\ \A x \in Requests : Served(x)'
<1>1. /\ edits' = edits + 1
      /\ \E f \in Files(g, edits + 1) : file' = [file EXCEPT ![g] = f]
      /\ UNCHANGED <<server, settings, cached, req, phase, ran>>
  BY DEF Edit
<1>2. FilesGood'
  BY <1>1 DEF IInv, FilesGood, Files, FileOf
<1>3. GlobalKept' /\ \A x \in Requests : Served(x)'
  BY <1>1, OthersKept DEF IInv, GlobalKept
<1> QED
  BY <1>2, <1>3

LEMMA InitInv == RequestsInit => IInv
<1> SUFFICES ASSUME RequestsInit PROVE IInv
  OBVIOUS
<1>1. FilesGood
  BY DEF RequestsInit, FilesGood, Files, FileOf
<1>2. GlobalKept /\ \A r \in Requests : Served(r)
  BY DEF RequestsInit, GlobalKept, Served, Layered, Isolated
<1> QED
  BY <1>1, <1>2, TypeInit DEF IInv

LEMMA NextInv == ASSUME Named PROVE IInv /\ [RequestsNext]_requestVars => IInv'
<1> SUFFICES ASSUME IInv, [RequestsNext]_requestVars PROVE IInv'
  OBVIOUS
<1>1. TypeInv'
  BY TypeNext DEF IInv
<1>2. FilesGood' /\ GlobalKept' /\ \A x \in Requests : Served(x)'
  <2>1. CASE UNCHANGED requestVars
    BY <2>1, OthersKept DEF requestVars, IInv, FilesGood, GlobalKept
  <2>2. CASE RequestsNext
    BY <2>2, ReceiveInv, AdmitInv, StartInv, NextCommandInv, LastCommandInv, EditInv DEF RequestsNext
  <2> QED
    BY <2>1, <2>2
<1> QED
  BY <1>1, <1>2 DEF IInv

LEMMA Inductive == ASSUME Named PROVE RequestsSpec => []IInv
<1>1. IInv /\ [RequestsNext]_requestVars => IInv'
  BY NextInv
<1> QED
  BY <1>1, InitInv, PTL DEF RequestsSpec

\* The properties follow.
LEMMA InvImplies == IInv => NoCrossTalk /\ OneFilePerRequest /\ LayersInOrder
<1> SUFFICES ASSUME IInv PROVE NoCrossTalk /\ OneFilePerRequest /\ LayersInOrder
  OBVIOUS
<1>1. ASSUME NEW r \in Requests
      PROVE  /\ server \in Copying => \A i \in DOMAIN ran[r] : ran[r][i] \in Own(r)
             /\ Answers(r)
             /\ req[r].kind = "opened" /\ cached[r].disables => ran[r] = <<>>
             /\ req[r].kind # "opened" /\ phase[r] = "done" => Len(ran[r]) = Length(r)
  <2>1. Layered(r) /\ (server \in Copying => Isolated(r)) /\ phase[r] \in Phases
    BY DEF IInv, Served, TypeInv
  <2>2. CASE ran[r] = <<>>
    BY <2>1, <2>2 DEF Answers, Layered
  <2>3. CASE ran[r] # <<>>
    <3>1. phase[r] \in {"running", "done"}
      BY <2>1, <2>3 DEF Layered, Phases
    <3>2. server \in Copying => ran[r] \in Seq(Own(r))
      BY <2>1, <3>1 DEF Isolated
    <3> QED
      BY <2>1, <3>1, <3>2 DEF Layered
  <2> QED
    BY <2>2, <2>3
<1>2. NoCrossTalk
  BY <1>1 DEF NoCrossTalk, Own, Default, FromFile, FromArgs
<1>3. OneFilePerRequest
  <2> SUFFICES ASSUME server \in Copying,
                      NEW r \in Requests, NEW i \in DOMAIN ran[r], NEW j \in DOMAIN ran[r],
                      ran[r][i][1] = "file", ran[r][j][1] = "file"
               PROVE  ran[r][i] = ran[r][j]
    BY DEF OneFilePerRequest
  <2>1. ASSUME NEW p \in Own(r), p[1] = "file"
        PROVE  p = FromFile(req[r].repo, cached[r].version)
    BY <2>1 DEF Own, Default, FromFile, FromArgs
  <2> QED
    BY <1>1, <2>1
<1>4. ArgumentsApply /\ FlagStopsOpenedOnly
  BY <1>1 DEF ArgumentsApply, FlagStopsOpenedOnly, Answers
<1>5. TypeOK
  BY TypeInvImplies DEF IInv
<1> QED
  BY <1>2, <1>3, <1>4, <1>5 DEF LayersInOrder

-----------------------------------------------------------------------------

\* On a server that copies the settings, whatever requests run side by side and
\* however their steps interleave, no command runs with a parameter of another
\* request or of another repository's file (github_app.py:58).
THEOREM Isolation == ASSUME Named PROVE RequestsSpec => []NoCrossTalk
  BY Inductive, InvImplies, PTL

\* On such a server, however often and whenever a repository's file is edited,
\* the commands of one request see one version of it
\* (git_providers/utils.py:19-31).
THEOREM OneVersionOfTheFile == ASSUME Named PROVE RequestsSpec => []OneFilePerRequest
  BY Inductive, InvImplies, PTL

\* On every server, whatever other requests do: an argument of a command applies
\* to it, unless the server takes the arguments out of the command and the
\* repository's file sets the parameter, which then wins; no command runs for an
\* opened pull request whose repository disables the automatic feedback, while
\* the flag stops no push; and no other value ever gets into a settings object
\* or a command (agent/pr_agent.py:54-74, github_app.py:405-421,
\* bitbucket_server_webhook.py:220-231).
THEOREM RightLayerWins == ASSUME Named PROVE RequestsSpec => []LayersInOrder
  BY Inductive, InvImplies, PTL
==============================================================================
