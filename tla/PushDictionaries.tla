--------------------------- MODULE PushDictionaries ---------------------------
(***************************************************************************)
(* The two dictionaries behind the coalescing of pushes                    *)
(* (_duplicate_push_triggers and _pending_task_duplicate_push_conditions   *)
(* of pr_agent/servers/github_app.py) over time.  GithubApp takes them as  *)
(* plain maps; here they are the DefaultDictWithTimeout of TimeoutDict,    *)
(* with tasks that may last longer than the time to live.                  *)
(***************************************************************************)
EXTENDS TimeoutDict, Sequences

CONSTANTS
    Keys,     \* pull requests
    Tasks,    \* push events
    MaxTime   \* bound of the clock

VARIABLES
    now,         \* the clock, in the unit of Ttl and Interval
    counters,    \* _duplicate_push_triggers
    conditions,  \* the conditions, each value the number of the object
    made,        \* condition objects made so far
    queue,       \* queue[n]: tasks waiting in condition object n
    pc,          \* pc[t]: where the task is
    key          \* key[t]: its pull request

vars == <<now, counters, conditions, made, queue, pc, key>>

NoKey == "none"

\* The module is imported at time 0; every request comes later.
Init ==
    /\ now = 1
    /\ counters = New(0)
    /\ conditions = New(0)
    /\ made = 0
    /\ queue = <<>>
    /\ pc = [t \in Tasks |-> "new"]
    /\ key = [t \in Tasks |-> NoKey]

Tick ==
    /\ now < MaxTime
    /\ now' = now + 1
    /\ UNCHANGED <<counters, conditions, made, queue, pc, key>>

\* _pending_task_duplicate_push_conditions[k], as often as the handler
\* evaluates it in one stretch: the clock does not move in between.
UseCondition(k) ==
    LET d == GetOrMake(conditions, k, made + 1, now)
    IN  /\ conditions' = d
        /\ made' = IF d.vals[k] = made + 1 THEN made + 1 ELSE made
        /\ queue' = IF d.vals[k] = made + 1 THEN Append(queue, <<>>) ELSE queue

\* setdefault, the test against max_active_tasks and "+= 1".
Count(k) ==
    LET d == SetDefault(counters, k, 0)
    IN  counters' = SetItem(Touch(d, k, now), k, d.vals[k] + 1, now)

Active(k) == IF Has(counters, k) THEN counters.vals[k] ELSE 0

EnterFirst(t, k) ==
    /\ pc[t] = "new"
    /\ Active(k) = 0
    /\ Count(k)
    /\ UseCondition(k)
    /\ pc' = [pc EXCEPT ![t] = "running"]
    /\ key' = [key EXCEPT ![t] = k]
    /\ UNCHANGED now

\* The second task waits in the condition object the dictionary holds now.
EnterWaiting(t, k) ==
    LET d == GetOrMake(conditions, k, made + 1, now)
    IN  /\ pc[t] = "new"
        /\ Active(k) = 1
        /\ Count(k)
        /\ conditions' = d
        /\ IF d.vals[k] = made + 1
           THEN /\ made' = made + 1
                /\ queue' = Append(queue, <<t>>)
           ELSE /\ made' = made
                /\ queue' = [queue EXCEPT ![d.vals[k]] = Append(@, t)]
        /\ pc' = [pc EXCEPT ![t] = "waiting"]
        /\ key' = [key EXCEPT ![t] = k]
        /\ UNCHANGED now

\* A discarded event only runs setdefault.
Discard(t, k) ==
    /\ pc[t] = "new"
    /\ Active(k) = 2
    /\ counters' = SetDefault(counters, k, 0)
    /\ pc' = [pc EXCEPT ![t] = "done"]
    /\ UNCHANGED <<now, conditions, made, queue, key>>

Resume(t) ==
    /\ pc[t] = "woken"
    /\ pc' = [pc EXCEPT ![t] = "running"]
    /\ UNCHANGED <<now, counters, conditions, made, queue, key>>

\* The finally block: notify(1) on the condition the dictionary holds now,
\* then "-= 1" on the counter, a KeyError when the counter is gone.
Leave(t) ==
    LET k == key[t]
        d == GetOrMake(conditions, k, made + 1, now)
        n == d.vals[k]
        c == Touch(counters, k, now)
        woken == IF n <= made /\ queue[n] # <<>> THEN {Head(queue[n])} ELSE {}
    IN  /\ pc[t] = "running"
        /\ conditions' = d
        /\ made' = IF n > made THEN made + 1 ELSE made
        /\ queue' = IF n > made THEN Append(queue, <<>>)
                    ELSE IF queue[n] = <<>> THEN queue
                    ELSE [queue EXCEPT ![n] = Tail(@)]
        /\ counters' = IF Has(c, k) THEN SetItem(c, k, c.vals[k] - 1, now)
                       ELSE c
        /\ pc' = [x \in Tasks |->
                    IF x = t THEN IF Has(c, k) THEN "done" ELSE "KeyError"
                    ELSE IF x \in woken THEN "woken" ELSE pc[x]]
        /\ UNCHANGED <<now, key>>

Next ==
    \/ Tick
    \/ \E t \in Tasks, k \in Keys :
          EnterFirst(t, k) \/ EnterWaiting(t, k) \/ Discard(t, k)
    \/ \E t \in Tasks : Resume(t) \/ Leave(t)

Spec == Init /\ [][Next]_vars

-----------------------------------------------------------------------------

\* However long a task of a pull request lasts, and whatever other pull
\* requests do meanwhile, its counter is not dropped under it: the finally
\* block never fails on it and the next pushes see the task
\* (github_app.py:182-213).  Holds because keys are never dropped at all.
CounterOutlivesTasks ==
    \A t \in Tasks :
        /\ pc[t] # "KeyError"
        /\ pc[t] \in {"running", "waiting", "woken"} =>
              Active(key[t]) > 0

\* A waiting task waits in the condition object the dictionary still holds:
\* notify(1) on another object would leave it waiting for ever.
WaiterOnHeldCondition ==
    \A t \in Tasks : pc[t] = "waiting" =>
        \E n \in 1..made :
            /\ t \in {queue[n][i] : i \in DOMAIN queue[n]}
            /\ Has(conditions, key[t]) /\ conditions.vals[key[t]] = n

\* What a task under way relies on in the two dictionaries is kept for it.
InUseIsKept == CounterOutlivesTasks /\ WaiterOnHeldCondition

\* What the guard of __refresh (utils.py:67) comes to over any sequence of
\* uses and pauses: no key, however stale, ever leaves a dictionary, though
\* utils.py:49 speaks of deleting the items older than the time to live.
KeysNeverDropped ==
    [][/\ DOMAIN counters.vals \subseteq DOMAIN counters'.vals
       /\ DOMAIN conditions.vals \subseteq DOMAIN conditions'.vals]_vars
=============================================================================
