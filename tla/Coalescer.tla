------------------------------ MODULE Coalescer ------------------------------
(***************************************************************************)
(* What coalescing promises, whatever counters and conditions implement    *)
(* it.  Requests for a key are served by jobs: at most one job per key     *)
(* runs at a time, a job takes up every request made before it starts, and *)
(* a request is never left behind: some job that starts after it takes it. *)
(***************************************************************************)
CONSTANTS
    Keys,      \* what requests are about
    Requests   \* the requests themselves

VARIABLES
    busy,      \* busy[k]: a job for k is running
    pending    \* pending[k]: requests for k not taken up by a job yet

cvars == <<busy, pending>>

CInit ==
    /\ busy = [k \in Keys |-> FALSE]
    /\ pending = [k \in Keys |-> {}]

\* A request that no job takes up in the same step.
Submit(k, r) ==
    /\ pending' = [pending EXCEPT ![k] = @ \cup {r}]
    /\ UNCHANGED busy

\* A job starts and takes up all that is pending (and the request that
\* started it, if one did).
Start(k) ==
    /\ ~busy[k]
    /\ busy' = [busy EXCEPT ![k] = TRUE]
    /\ pending' = [pending EXCEPT ![k] = {}]

Finish(k) ==
    /\ busy[k]
    /\ busy' = [busy EXCEPT ![k] = FALSE]
    /\ UNCHANGED pending

\* The process that serves the keys K is killed.
Crash(K) ==
    /\ busy' = [k \in Keys |-> IF k \in K THEN FALSE ELSE busy[k]]
    /\ pending' = [k \in Keys |-> IF k \in K THEN {} ELSE pending[k]]

CNext ==
    \/ \E k \in Keys : \/ \E r \in Requests : Submit(k, r)
                       \/ Start(k)
                       \/ Finish(k)
    \/ \E K \in SUBSET Keys : Crash(K)

\* Safety alone: a discarded request may be forgotten.
Safety == CInit /\ [][CNext]_cvars

TakeUp(k) == pending[k] # {} /\ Start(k)

CSpec == /\ Safety
         /\ \A k \in Keys : WF_cvars(TakeUp(k)) /\ WF_cvars(Finish(k))

\* No request is left behind.
NoRequestLeft ==
    \A k \in Keys : \A r \in Requests : r \in pending[k] ~> r \notin pending[k]
=============================================================================
