----------------------------- MODULE LlmProviders -----------------------------
(***************************************************************************)
(* The LLM providers of the configuration API (pr_agent/servers/api.py)    *)
(* and which of them is the default.  A request is a transaction at READ   *)
(* COMMITTED: each of its statements sees what is committed by then, and   *)
(* what it changes is written and committed together at its end (the       *)
(* session writes only columns whose value differs from the loaded one,    *)
(* and fails when a row it updates is gone).  The endpoints are plain      *)
(* functions, which the framework runs in threads, side by side.           *)
(***************************************************************************)
EXTENDS Integers, FiniteSets, Functions

CONSTANTS
    Endpoints,   \* threads that run endpoints
    MaxId      \* bound on the providers created

ASSUME MaxIdAssumption == MaxId \in Nat

VARIABLES
    rows,     \* rows[i]: is_default of provider i, for the committed rows
    ids,      \* ids given out so far
    stage,       \* stage[t]: where the request of the thread is
    op,       \* op[t]: the request, its provider and what it says of is_default
    loaded,   \* loaded[t]: is_default of that provider when it was read
    others,   \* others[t]: the other defaults it found
    wanted,   \* history: provider the latest successful request made the default
    overlap,  \* history: threads whose request ran beside another one
    clean     \* history: no such request has committed since a request that
              \* ran alone set the default

request == <<stage, op, loaded, others>>
providerVars == <<rows, ids, request, wanted, overlap, clean>>

NoProvider == 0
NoRequest == [kind |-> "none", id |-> NoProvider, default |-> "unset"]

Defaults == {i \in DOMAIN rows : rows[i]}

ProvidersInit ==
    /\ rows = <<>>
    /\ ids = 0
    /\ stage = [t \in Endpoints |-> "idle"]
    /\ op = [t \in Endpoints |-> NoRequest]
    /\ loaded = [t \in Endpoints |-> FALSE]
    /\ others = [t \in Endpoints |-> {}]
    /\ wanted = NoProvider
    /\ overlap = {}
    /\ clean = TRUE

\* The threads with a request under way.
Busy == {t \in Endpoints : stage[t] # "idle"}

\* A validated request goes on to the other defaults when it sets its
\* provider as the default, to its commit otherwise.
Begin(t, kind, i, default) ==
    /\ stage[t] = "idle"
    /\ op' = [op EXCEPT ![t] = [kind |-> kind, id |-> i, default |-> default]]
    /\ stage' = [stage EXCEPT ![t] = IF default = "set" THEN "select" ELSE "commit"]
    /\ overlap' = IF Busy = {} THEN {} ELSE overlap \cup Busy \cup {t}
    /\ UNCHANGED <<rows, ids, others, wanted, clean>>

\* create_llm_provider, up to its validations.
Create(t, default) ==
    /\ default # "unset"
    /\ ids + Cardinality({u \in Endpoints : op[u].kind = "create"}) < MaxId
    /\ Begin(t, "create", NoProvider, default)
    /\ UNCHANGED loaded

\* update_llm_provider: the provider is read first.
Update(t, i, default) ==
    /\ i \in DOMAIN rows
    /\ Begin(t, "update", i, default)
    /\ loaded' = [loaded EXCEPT ![t] = rows[i]]

\* delete_llm_provider: the provider is read first.
Delete(t, i) ==
    /\ i \in DOMAIN rows
    /\ Begin(t, "delete", i, "unset")
    /\ UNCHANGED loaded

\* An update or a deletion of a provider that does not exist is answered 404.
NotFound(t) ==
    /\ stage[t] = "idle"
    /\ \E i \in 1..MaxId : i \notin DOMAIN rows
    /\ UNCHANGED providerVars

\* Mutated form of OtherDefaults: the others are left alone.
MutLeavesOthers(t) == {}

\* The statement that selects the other defaults.
OtherDefaults(t) == Defaults \ {op[t].id}

Select(t) ==
    /\ stage[t] = "select"
    /\ others' = [others EXCEPT ![t] = OtherDefaults(t)]
    /\ stage' = [stage EXCEPT ![t] = "commit"]
    /\ UNCHANGED <<rows, ids, op, loaded, wanted, overlap, clean>>

\* The response is sent and the session closed.
Close(t) ==
    /\ stage' = [stage EXCEPT ![t] = "idle"]
    /\ op' = [op EXCEPT ![t] = NoRequest]
    /\ loaded' = [loaded EXCEPT ![t] = FALSE]
    /\ others' = [others EXCEPT ![t] = {}]
    /\ overlap' = overlap \ {t}

\* What the commit of the request of t makes of the history.
Noted(t) == clean' = (t \notin overlap /\ (clean \/ op[t].default = "set"))

\* The rows with the other defaults unset.
Unset(t) == [i \in DOMAIN rows |-> rows[i] /\ i \notin others[t]]

CommitCreate(t) ==
    /\ stage[t] = "commit" /\ op[t].kind = "create"
    /\ others[t] \subseteq DOMAIN rows
    /\ ids' = ids + 1
    /\ rows' = [i \in DOMAIN rows \cup {ids'} |->
                   IF i = ids' THEN op[t].default = "set" ELSE Unset(t)[i]]
    /\ wanted' = IF op[t].default = "set" THEN ids' ELSE wanted
    /\ Noted(t)
    /\ Close(t)

\* The provider's own is_default is written when it differs from the loaded
\* value; its updated_at always is.
CommitUpdate(t) ==
    LET id == op[t].id
        set == op[t].default = "set"
        writes == op[t].default # "unset" /\ set # loaded[t]
    IN  /\ stage[t] = "commit" /\ op[t].kind = "update"
        /\ others[t] \cup {id} \subseteq DOMAIN rows
        /\ rows' = IF writes THEN [Unset(t) EXCEPT ![id] = set] ELSE Unset(t)
        /\ wanted' = CASE set -> id
                       [] op[t].default = "clear" /\ wanted = id -> NoProvider
                       [] OTHER -> wanted
        /\ UNCHANGED ids
        /\ Noted(t)
        /\ Close(t)

\* Deleting a row that is already gone succeeds.
CommitDelete(t) ==
    /\ stage[t] = "commit" /\ op[t].kind = "delete"
    /\ rows' = Restrict(rows, DOMAIN rows \ {op[t].id})
    /\ wanted' = IF wanted = op[t].id THEN NoProvider ELSE wanted
    /\ UNCHANGED ids
    /\ Noted(t)
    /\ Close(t)

\* A row to be updated is gone: the commit fails as a whole.
CommitFails(t) ==
    /\ stage[t] = "commit"
    /\ \/ ~(others[t] \subseteq DOMAIN rows)
       \/ op[t].kind = "update" /\ op[t].id \notin DOMAIN rows
    /\ UNCHANGED <<rows, ids, wanted, clean>>
    /\ Close(t)

ProvidersNext ==
    \E t \in Endpoints :
        \/ \E default \in {"set", "clear"} : Create(t, default)
        \/ \E i \in DOMAIN rows, default \in {"set", "clear", "unset"} :
              Update(t, i, default)
        \/ \E i \in DOMAIN rows : Delete(t, i)
        \/ NotFound(t)
        \/ Select(t)
        \/ CommitCreate(t) \/ CommitUpdate(t) \/ CommitDelete(t) \/ CommitFails(t)

ProvidersSpec == ProvidersInit /\ [][ProvidersNext]_providerVars

-----------------------------------------------------------------------------

\* Requests that run alone keep exactly one default, the provider the latest
\* of them set, through creations, updates, clears and deletions; and whatever
\* overlapping requests have left behind, two defaults or none, the next
\* request that sets the default and runs alone repairs it (api.py:331-343,
\* 360-378).
DefaultIsTheLastSet ==
    clean => Defaults = IF wanted = NoProvider THEN {} ELSE {wanted}
=============================================================================
