----------------------------- MODULE TimeoutDict -----------------------------
(***************************************************************************)
(* DefaultDictWithTimeout (pr_agent/servers/utils.py): a defaultdict that   *)
(* keeps the time each key was last used and is meant to drop the keys not  *)
(* used for a time to live.  A dictionary is a record of its values, its    *)
(* key times and the time of its last refresh; the operations are functions *)
(* of the dictionary, the key and the clock.                                *)
(***************************************************************************)
EXTENDS Integers, Functions

CONSTANTS
    Ttl,       \* seconds after which an unused key is to go
    Interval   \* refresh_interval

ASSUME TtlAssumption == Ttl \in Nat /\ Interval \in Nat

\* __init__ at time t.
New(t) == [vals |-> <<>>, times |-> <<>>, last |-> t - Interval]

Has(d, k) == k \in DOMAIN d.vals

\* A function with k mapped to v, whether or not it had k.
Put(f, k, v) == [x \in DOMAIN f \cup {k} |-> IF x = k THEN v ELSE f[x]]

\* The keys older than the time to live at time t.
Stale(d, t) == {k \in DOMAIN d.times : t - d.times[k] > Ttl}

\* Mutated form of SkipsRefresh: the comparison the other way round.
MutSkipsWithinInterval(d, t) == t - d.last <= Interval

\* The early return of __refresh, as the code has it: it returns when MORE
\* than the interval has passed since the last refresh.
SkipsRefresh(d, t) == t - d.last > Interval

\* __refresh at time t: drops the stale keys (__delitem__ drops both their
\* value and their time).
Refresh(d, t) ==
    IF SkipsRefresh(d, t) THEN d
    ELSE [vals  |-> Restrict(d.vals, DOMAIN d.vals \ Stale(d, t)),
          times |-> Restrict(d.times, DOMAIN d.times \ Stale(d, t)),
          last  |-> t]

\* __setitem__: notes the time and stores the value.
SetItem(d, k, v, t) ==
    [d EXCEPT !.times = Put(@, k, t), !.vals = Put(@, k, v)]

\* What __getitem__ does before it looks the key up: the access counts as a
\* use of the key (update_key_time_on_get), and the dictionary is refreshed.
Touch(d, k, t) == Refresh([d EXCEPT !.times = Put(@, k, t)], t)

\* d[k] of a dictionary whose default_factory would make v: a missing key is
\* stored through __setitem__.
GetOrMake(d, k, v, t) ==
    LET e == Touch(d, k, t) IN IF Has(e, k) THEN e ELSE SetItem(e, k, v, t)

\* setdefault(k, v) is the built-in method: it neither notes a time nor
\* refreshes.
SetDefault(d, k, v) ==
    IF Has(d, k) THEN d ELSE [d EXCEPT !.vals = Put(@, k, v)]
=============================================================================
