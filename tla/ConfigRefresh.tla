----------------------------- MODULE ConfigRefresh -----------------------------
(***************************************************************************)
(* How a webhook process sees what the dashboard stores in PostgreSQL      *)
(* (pr_agent/secret_providers/postgres_provider.py): everything is applied *)
(* to the settings when the server module is imported, and again by        *)
(* ensure_postgres_config_loaded, which caches it for a time to live.      *)
(* A refresh reads and applies the parts of the configuration one after    *)
(* the other (the credentials of each git provider, the LLM provider, the  *)
(* automation of the default configuration), each in a session of its own; *)
(* what a part holds is represented by the version of the database it was  *)
(* read from.                                                              *)
(***************************************************************************)
EXTENDS Integers, Sequences

CONSTANTS
    Threads,     \* threads of the process that serve requests
    Parts,       \* how many parts a refresh reads, one query each
    Ttl,         \* ttl_seconds
    MaxTime,     \* bound of the clock
    MaxChanges   \* bound on the changes made in the dashboard

ASSUME BoundsAssumption ==
    /\ Parts \in Nat \ {0} /\ Ttl \in Nat \ {0}
    /\ MaxTime \in Nat /\ MaxChanges \in Nat

ASSUME ThreadsAssumption == "nobody" \notin Threads

VARIABLES
    now,        \* time.monotonic()
    ended,      \* ended[v + 1]: when version v of the database was replaced
    applied,    \* applied[p]: version part p of the settings comes from
    missed,     \* history: parts whose latest query failed or found nothing
    last,       \* _last_refresh_at, Never when None
    holder,     \* thread that holds _refresh_lock
    pc,         \* pc[t]: where the thread is
    began,      \* began[t]: when its request called ensure_...
    clock,      \* clock[t]: the time it read last
    part,       \* part[t]: the part its refresh is at
    fetched,    \* fetched[t]: version it read of that part
    asked,      \* history: version of the database at the latest invalidation
                \* that came while no refresh was under way
    floor       \* floor[t]: asked when its request began

thread == <<pc, began, clock, part, fetched, floor>>
refreshVars == <<now, ended, applied, missed, last, holder, asked, thread>>

Never == -1
Nobody == "nobody"

\* The current version of the database.
Current == Len(ended)

RefreshInit ==
    /\ now = 0
    /\ ended = <<>>
    /\ applied = [p \in 1..Parts |-> 0]
    /\ missed = {}
    /\ last = Never
    /\ holder = Nobody
    /\ pc = [t \in Threads |-> "idle"]
    /\ began = [t \in Threads |-> 0]
    /\ clock = [t \in Threads |-> 0]
    /\ part = [t \in Threads |-> 1]
    /\ fetched = [t \in Threads |-> 0]
    /\ asked = 0
    /\ floor = [t \in Threads |-> 0]

Tick ==
    /\ now < MaxTime
    /\ now' = now + 1
    /\ UNCHANGED <<ended, applied, missed, last, holder, asked, thread>>

\* An administrator changes something in the dashboard.
Change ==
    /\ Current < MaxChanges
    /\ ended' = Append(ended, now)
    /\ UNCHANGED <<now, applied, missed, last, holder, asked, thread>>

\* invalidate_postgres_config_cache, which takes no lock.
Invalidate ==
    /\ last' = Never
    /\ asked' = IF holder = Nobody THEN Current ELSE asked
    /\ UNCHANGED <<now, ended, applied, missed, holder, thread>>

-----------------------------------------------------------------------------

\* A request calls ensure_postgres_config_loaded, which reads the time.
Request(t) ==
    /\ pc[t] = "idle"
    /\ began' = [began EXCEPT ![t] = now]
    /\ floor' = [floor EXCEPT ![t] = asked]
    /\ clock' = [clock EXCEPT ![t] = now]
    /\ pc' = [pc EXCEPT ![t] = "test"]
    /\ UNCHANGED <<now, ended, applied, missed, last, holder, asked, part,
                   fetched>>

\* The cache is fresh at the time the thread has read.
Fresh(t) == last # Never /\ clock[t] - last < Ttl

\* The first test, without the lock, is two readings of _last_refresh_at: whether
\* it is None, and then how long ago that was, which raises a TypeError if there
\* was an invalidation in between.
Test(t) ==
    /\ pc[t] = "test"
    /\ pc' = [pc EXCEPT ![t] = IF last = Never THEN "acquire" ELSE "compare"]
    /\ UNCHANGED <<now, ended, applied, missed, last, holder, asked, began,
                   clock, part, fetched, floor>>

Compare(t) ==
    /\ pc[t] = "compare"
    /\ pc' = [pc EXCEPT ![t] = IF last = Never THEN "raised"
                               ELSE IF Fresh(t) THEN "served" ELSE "acquire"]
    /\ UNCHANGED <<now, ended, applied, missed, last, holder, asked, began,
                   clock, part, fetched, floor>>

\* Mutated form of LockFree: the lock is not waited for.
MutNoLock == TRUE

LockFree == holder = Nobody

\* The lock is taken and the time read again.
Acquire(t) ==
    /\ pc[t] = "acquire"
    /\ LockFree
    /\ holder' = t
    /\ clock' = [clock EXCEPT ![t] = now]
    /\ pc' = [pc EXCEPT ![t] = "retest"]
    /\ UNCHANGED <<now, ended, applied, missed, last, asked, began, part,
                   fetched, floor>>

Release == holder' = Nobody

\* The second test, with the lock and as the first: another thread may have
\* refreshed meanwhile.
Retest(t) ==
    /\ pc[t] = "retest"
    /\ pc' = [pc EXCEPT ![t] = IF last = Never THEN "fetch" ELSE "recompare"]
    /\ UNCHANGED <<now, ended, applied, missed, last, holder, asked, began,
                   clock, part, fetched, floor>>

Recompare(t) ==
    /\ pc[t] = "recompare"
    /\ \/ last = Never /\ Release /\ pc' = [pc EXCEPT ![t] = "raised"]
       \/ Fresh(t) /\ Release /\ pc' = [pc EXCEPT ![t] = "served"]
       \/ /\ last # Never /\ ~Fresh(t)
          /\ pc' = [pc EXCEPT ![t] = "fetch"]
          /\ UNCHANGED holder
    /\ UNCHANGED <<now, ended, applied, missed, last, asked, began, clock,
                   part, fetched, floor>>

\* apply_postgres_credentials_to_config reads the rows of a part.
Fetch(t) ==
    /\ pc[t] = "fetch"
    /\ fetched' = [fetched EXCEPT ![t] = Current]
    /\ pc' = [pc EXCEPT ![t] = "apply"]
    /\ UNCHANGED <<now, ended, applied, missed, last, holder, asked, began,
                   clock, part, floor>>

\* Mutated form of Stamp: the refresh counts from its end.
MutStampsEnd(t) == now

\* The time a refresh counts from: the one read before it.
Stamp(t) == clock[t]

\* The rows of the part are applied to the settings, or the part is left as
\* it is when its query failed or found nothing: that is swallowed.
Applied(t) ==
    /\ pc[t] = "apply"
    /\ \/ /\ applied' = [applied EXCEPT ![part[t]] = fetched[t]]
          /\ missed' = missed \ {part[t]}
       \/ /\ missed' = missed \cup {part[t]}
          /\ UNCHANGED applied

\* A part is done and the next one is read.
ApplyPart(t) ==
    /\ part[t] < Parts
    /\ Applied(t)
    /\ part' = [part EXCEPT ![t] = @ + 1]
    /\ pc' = [pc EXCEPT ![t] = "fetch"]
    /\ UNCHANGED <<now, ended, last, holder, asked, began, clock, fetched,
                   floor>>

\* The last part is done: the cache counts as refreshed, whatever failed.
ApplyLast(t) ==
    /\ part[t] = Parts
    /\ Applied(t)
    /\ last' = Stamp(t)
    /\ Release
    /\ pc' = [pc EXCEPT ![t] = "served"]
    /\ UNCHANGED <<now, ended, asked, began, clock, part, fetched, floor>>

\* The request is done with, or failed; nothing of it remains.
Finish(t) ==
    /\ pc[t] \in {"served", "raised"}
    /\ pc' = [pc EXCEPT ![t] = "idle"]
    /\ began' = [began EXCEPT ![t] = 0]
    /\ clock' = [clock EXCEPT ![t] = 0]
    /\ part' = [part EXCEPT ![t] = 1]
    /\ fetched' = [fetched EXCEPT ![t] = 0]
    /\ floor' = [floor EXCEPT ![t] = 0]
    /\ UNCHANGED <<now, ended, applied, missed, last, holder, asked>>

Serve(t) ==
    \/ Request(t) \/ Test(t) \/ Compare(t) \/ Acquire(t) \/ Retest(t) \/ Recompare(t)
    \/ Fetch(t) \/ ApplyPart(t) \/ ApplyLast(t) \/ Finish(t)

RefreshNext == Tick \/ Change \/ Invalidate \/ \E t \in Threads : Serve(t)

RefreshSpec == RefreshInit /\ [][RefreshNext]_refreshVars

-----------------------------------------------------------------------------

Versions == 0..MaxChanges
Times == 0..MaxTime

\* Where a thread has the lock.
Refreshing == {"retest", "recompare", "fetch", "apply"}

\* With the types, that the lock is held by exactly the thread between its
\* acquisition and its release.
RefreshTypes ==
    /\ now \in Times
    /\ ended \in Seq(0..now) /\ Current \in Versions
    /\ holder \in Threads \cup {Nobody}
    /\ applied \in [1..Parts -> 0..Current]
    /\ missed \subseteq 1..Parts
    /\ part \in [Threads -> 1..Parts]
    /\ last \in {Never} \cup 0..now
    /\ asked \in 0..Current
    /\ pc \in [Threads -> {"idle", "test", "compare", "acquire", "retest",
                           "recompare", "fetch", "apply", "served", "raised"}]
    /\ began \in [Threads -> 0..now] /\ clock \in [Threads -> 0..now]
    /\ fetched \in [Threads -> 0..Current] /\ floor \in [Threads -> 0..Current]
    /\ \A t \in Threads : (holder = t) <=> (pc[t] \in Refreshing)

\* Version v was current at some time after t.
CurrentAfter(v, t) == v = Current \/ ended[v + 1] > t

\* The call of t returns in this step, and its request goes on.
Returns(t) == pc[t] # "served" /\ pc'[t] = "served"

\* A request goes on with settings every part of which was current less than
\* the time to live before it began, however slow the refreshes of other
\* threads are and however they overlap with changes and invalidations; only
\* a part whose latest query failed may be older
\* (ensure_postgres_config_loaded, postgres_provider.py:696).
BoundedStaleness ==
    [][\A t \in Threads : Returns(t) =>
          \A p \in (1..Parts) \ missed' :
              CurrentAfter(applied'[p], began[t] - Ttl)]_refreshVars

\* Overlapping refreshes never put an older version over a newer one: the
\* lock spans the reading and the applying (postgres_provider.py:712-721).
SettingsNeverRegress ==
    [][\A p \in 1..Parts : applied'[p] >= applied[p]]_refreshVars

\* "Force the next call to `ensure_postgres_config_loaded` to reload"
\* (postgres_provider.py:725): a call begun after an invalidation goes on
\* with nothing older than what the database held at the invalidation.  That
\* holds of invalidations between refreshes only: one that comes during a
\* refresh is undone by the stamp at its end.
InvalidationObeyed ==
    [][\A t \in Threads : Returns(t) =>
          \A p \in (1..Parts) \ missed' : applied'[p] >= floor[t]]_refreshVars
=============================================================================
