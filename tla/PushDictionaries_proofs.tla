------------------------ MODULE PushDictionaries_proofs ------------------------
(***************************************************************************)
(* Proofs about PushDictionaries, for any number of tasks and pull         *)
(* requests, any time to live and refresh interval, and a clock without    *)
(* bound.                                                                  *)
(***************************************************************************)
EXTENDS PushDictionaries, TLAPS

\* A dictionary made at time 0: its refresh is never due.
Unrefreshed(d) ==
    /\ d = [vals |-> d.vals, times |-> d.times, last |-> d.last]
    /\ d.last = 0 - Interval

-----------------------------------------------------------------------------
(* The operations on such a dictionary. *)

LEMMA NewIs == Unrefreshed(New(0)) /\ New(0).vals = <<>>
  BY DEF New, Unrefreshed

LEMMA TouchIs ==
    ASSUME NEW d, Unrefreshed(d), NEW k, NEW t \in Nat \ {0}
    PROVE  Unrefreshed(Touch(d, k, t)) /\ Touch(d, k, t).vals = d.vals
<1>1. ASSUME NEW e, e = [d EXCEPT !.times = Put(@, k, t)]
      PROVE  Unrefreshed(e) /\ e.vals = d.vals /\ Refresh(e, t) = e
  <2>1. Unrefreshed(e) /\ e.vals = d.vals
    BY <1>1 DEF Unrefreshed
  <2>2. t - e.last > Interval
    BY <2>1, TtlAssumption DEF Unrefreshed
  <2> QED
    BY <2>1, <2>2 DEF Refresh, SkipsRefresh
<1> QED
  BY <1>1 DEF Touch

LEMMA SetItemIs ==
    ASSUME NEW d, Unrefreshed(d), NEW k, NEW v, NEW t
    PROVE  Unrefreshed(SetItem(d, k, v, t)) /\ SetItem(d, k, v, t).vals = Put(d.vals, k, v)
<1>1. ASSUME NEW e, e = [d EXCEPT !.times = Put(@, k, t), !.vals = Put(@, k, v)]
      PROVE  Unrefreshed(e) /\ e.vals = Put(d.vals, k, v)
  BY <1>1 DEF Unrefreshed
<1> QED
  BY <1>1 DEF SetItem

LEMMA SetDefaultIs ==
    ASSUME NEW d, Unrefreshed(d), NEW k, NEW v
    PROVE  /\ Unrefreshed(SetDefault(d, k, v))
           /\ SetDefault(d, k, v).vals = IF Has(d, k) THEN d.vals ELSE Put(d.vals, k, v)
<1>1. ASSUME NEW e, e = [d EXCEPT !.vals = Put(@, k, v)]
      PROVE  Unrefreshed(e) /\ e.vals = Put(d.vals, k, v)
  BY <1>1 DEF Unrefreshed
<1> QED
  BY <1>1 DEF SetDefault

LEMMA GetOrMakeIs ==
    ASSUME NEW d, Unrefreshed(d), NEW k, NEW v, NEW t \in Nat \ {0}
    PROVE  /\ Unrefreshed(GetOrMake(d, k, v, t))
           /\ GetOrMake(d, k, v, t).vals = IF Has(d, k) THEN d.vals ELSE Put(d.vals, k, v)
  BY TouchIs, SetItemIs DEF GetOrMake, Has

-----------------------------------------------------------------------------

Members(k) == {t \in Tasks : pc[t] \in {"running", "waiting", "woken"} /\ key[t] = k}

Typed ==
    /\ now \in Nat \ {0}
    /\ Unrefreshed(counters) /\ Unrefreshed(conditions)
    /\ made \in Nat
    /\ queue \in Seq(Seq(Tasks)) /\ Len(queue) = made
    /\ \A k \in DOMAIN conditions.vals : conditions.vals[k] \in 1..made
    /\ pc \in [Tasks -> {"new", "running", "waiting", "woken", "done"}]
    /\ key \in [Tasks -> Keys \cup {NoKey}]

\* The counter of a pull request is the number of its tasks.
CountsMembers(k) ==
    \/ Active(k) = 0 /\ Members(k) = {}
    \/ Active(k) = 1 /\ \E t \in Tasks : Members(k) = {t}
    \/ Active(k) = 2 /\ \E t, u \in Tasks : t # u /\ Members(k) = {t, u}

\* A queue holds waiting tasks of its pull request, each once.
QueuesWait ==
    \A n \in 1..made :
        /\ \A i \in 1..Len(queue[n]) :
              /\ pc[queue[n][i]] = "waiting"
              /\ Has(conditions, key[queue[n][i]])
              /\ conditions.vals[key[queue[n][i]]] = n
        /\ \A i, j \in 1..Len(queue[n]) : queue[n][i] = queue[n][j] => i = j

InQueue(t, n) == \E i \in 1..Len(queue[n]) : queue[n][i] = t

\* WaiterOnHeldCondition with the places in the queue spelled out.
WaitersQueued ==
    \A t \in Tasks : pc[t] = "waiting" =>
        /\ Has(conditions, key[t])
        /\ InQueue(t, conditions.vals[key[t]])

IInv == Typed /\ (\A k : CountsMembers(k)) /\ QueuesWait /\ WaitersQueued

LEMMA InitInv == Init => IInv
<1> SUFFICES ASSUME Init PROVE IInv
  OBVIOUS
<1>1. Typed
  BY NewIs DEF Init, Typed
<1>2. \A k : CountsMembers(k)
  BY NewIs DEF Init, CountsMembers, Members, Active, Has
<1>3. QueuesWait /\ WaitersQueued
  BY DEF Init, QueuesWait, WaitersQueued
<1> QED
  BY <1>1, <1>2, <1>3 DEF IInv

\* The two properties follow.
LEMMA InvImplies == IInv => CounterOutlivesTasks /\ WaiterOnHeldCondition
<1> SUFFICES ASSUME IInv PROVE CounterOutlivesTasks /\ WaiterOnHeldCondition
  OBVIOUS
<1>1. CounterOutlivesTasks
  <2> SUFFICES ASSUME NEW t \in Tasks
               PROVE  /\ pc[t] # "KeyError"
                      /\ pc[t] \in {"running", "waiting", "woken"} => Active(key[t]) > 0
    BY DEF CounterOutlivesTasks
  <2>1. pc[t] # "KeyError"
    BY DEF IInv, Typed
  <2>2. ASSUME pc[t] \in {"running", "waiting", "woken"} PROVE Active(key[t]) > 0
    <3>1. t \in Members(key[t])
      BY <2>2 DEF Members
    <3> QED
      BY <3>1 DEF IInv, CountsMembers
  <2> QED
    BY <2>1, <2>2
<1>2. WaiterOnHeldCondition
  <2> SUFFICES ASSUME NEW t \in Tasks, pc[t] = "waiting"
               PROVE  \E n \in 1..made :
                          /\ t \in {queue[n][i] : i \in DOMAIN queue[n]}
                          /\ Has(conditions, key[t]) /\ conditions.vals[key[t]] = n
    BY DEF WaiterOnHeldCondition
  <2>1. Has(conditions, key[t]) /\ InQueue(t, conditions.vals[key[t]])
    BY DEF IInv, WaitersQueued
  <2>2. conditions.vals[key[t]] \in 1..made
    BY <2>1 DEF IInv, Typed, Has
  <2>3. queue[conditions.vals[key[t]]] \in Seq(Tasks)
    BY <2>2 DEF IInv, Typed
  <2> QED
    BY <2>1, <2>2, <2>3 DEF InQueue
<1> QED
  BY <1>1, <1>2

-----------------------------------------------------------------------------
(* What the actions do to the dictionaries. *)

LEMMA CountIs ==
    ASSUME Typed, NEW k, Count(k), Active(k) \in Nat
    PROVE  /\ Unrefreshed(counters') /\ DOMAIN counters.vals \subseteq DOMAIN counters'.vals
           /\ Active(k)' = Active(k) + 1 /\ \A j : j # k => Active(j)' = Active(j)
<1> DEFINE d == SetDefault(counters, k, 0)
<1>1. Unrefreshed(d) /\ d.vals = IF Has(counters, k) THEN counters.vals ELSE Put(counters.vals, k, 0)
  BY SetDefaultIs DEF Typed
<1>2. /\ k \in DOMAIN d.vals /\ d.vals[k] = Active(k)
      /\ DOMAIN d.vals = DOMAIN counters.vals \cup {k}
      /\ \A j \in DOMAIN counters.vals \ {k} : d.vals[j] = counters.vals[j]
  <2>1. CASE Has(counters, k)
    BY <1>1, <2>1 DEF Active, Has
  <2>2. CASE ~Has(counters, k)
    <3>1. d.vals = Put(counters.vals, k, 0)
      BY <1>1, <2>2
    <3>2. Active(k) = 0
      BY <2>2 DEF Active
    <3> HIDE DEF d
    <3> QED
      BY <3>1, <3>2 DEF Put
  <2> QED
    BY <2>1, <2>2
<1> HIDE DEF d
<1>3. Unrefreshed(Touch(d, k, now)) /\ Touch(d, k, now).vals = d.vals
  BY <1>1, TouchIs DEF Typed
<1>4. counters' = SetItem(Touch(d, k, now), k, d.vals[k] + 1, now)
  BY DEF Count, d
<1>5. Unrefreshed(counters') /\ counters'.vals = Put(d.vals, k, d.vals[k] + 1)
  BY <1>3, <1>4, SetItemIs
<1>6. /\ DOMAIN counters'.vals = DOMAIN counters.vals \cup {k}
      /\ counters'.vals[k] = Active(k) + 1
      /\ \A j \in DOMAIN counters.vals \ {k} : counters'.vals[j] = counters.vals[j]
  <2>1. /\ DOMAIN counters'.vals = DOMAIN d.vals \cup {k} /\ counters'.vals[k] = d.vals[k] + 1
        /\ \A j \in DOMAIN d.vals \ {k} : counters'.vals[j] = d.vals[j]
    BY <1>5 DEF Put
  <2> QED
    BY <1>2, <2>1
<1> QED
  BY <1>5, <1>6 DEF Active, Has

\* The condition of a pull request, made when it is missing.
LEMMA ConditionIs ==
    ASSUME Typed, NEW k, conditions' = GetOrMake(conditions, k, made + 1, now)
    PROVE  /\ Unrefreshed(conditions') /\ DOMAIN conditions'.vals = DOMAIN conditions.vals \cup {k}
           /\ \A j \in DOMAIN conditions.vals : conditions'.vals[j] = conditions.vals[j]
           /\ conditions'.vals[k] = IF Has(conditions, k) THEN conditions.vals[k] ELSE made + 1
           /\ Has(conditions, k) => conditions.vals[k] \in 1..made
<1>1. /\ Unrefreshed(conditions')
      /\ conditions'.vals = IF Has(conditions, k) THEN conditions.vals
                            ELSE Put(conditions.vals, k, made + 1)
  BY GetOrMakeIs DEF Typed
<1>2. Has(conditions, k) => conditions.vals[k] \in 1..made
  BY DEF Typed, Has
<1> QED
  <2>1. CASE Has(conditions, k)
    BY <1>1, <1>2, <2>1 DEF Has
  <2>2. CASE ~Has(conditions, k)
    <3>1. conditions'.vals = Put(conditions.vals, k, made + 1)
      BY <1>1, <2>2
    <3>2. /\ DOMAIN conditions'.vals = DOMAIN conditions.vals \cup {k}
          /\ conditions'.vals[k] = made + 1
          /\ \A j \in DOMAIN conditions.vals \ {k} : conditions'.vals[j] = conditions.vals[j]
      BY <3>1 DEF Put
    <3> QED
      BY <1>1, <2>2, <3>2 DEF Has
  <2> QED
    BY <2>1, <2>2

\* A condition that may be new, with an empty queue.
LEMMA UseConditionIs ==
    ASSUME Typed, NEW k, UseCondition(k)
    PROVE  /\ Unrefreshed(conditions') /\ DOMAIN conditions.vals \subseteq DOMAIN conditions'.vals
           /\ \A j \in DOMAIN conditions.vals : conditions'.vals[j] = conditions.vals[j]
           /\ \A j \in DOMAIN conditions'.vals : conditions'.vals[j] \in 1..made'
           /\ made' \in Nat /\ made <= made'
           /\ queue' \in Seq(Seq(Tasks)) /\ Len(queue') = made'
           /\ \A n \in 1..made : queue'[n] = queue[n]
           /\ \A n \in 1..made' : n > made => queue'[n] = <<>>
<1>1. conditions' = GetOrMake(conditions, k, made + 1, now)
  BY DEF UseCondition
<1>2. /\ Unrefreshed(conditions') /\ DOMAIN conditions'.vals = DOMAIN conditions.vals \cup {k}
      /\ \A j \in DOMAIN conditions.vals : conditions'.vals[j] = conditions.vals[j]
      /\ conditions'.vals[k] = IF Has(conditions, k) THEN conditions.vals[k] ELSE made + 1
      /\ Has(conditions, k) => conditions.vals[k] \in 1..made
  BY <1>1, ConditionIs
<1>3. /\ made' = IF conditions'.vals[k] = made + 1 THEN made + 1 ELSE made
      /\ queue' = IF conditions'.vals[k] = made + 1 THEN Append(queue, <<>>) ELSE queue
  BY <1>1 DEF UseCondition
<1>4. made \in Nat /\ queue \in Seq(Seq(Tasks)) /\ Len(queue) = made
  BY DEF Typed
<1>5. <<>> \in Seq(Tasks)
  OBVIOUS
<1>6. CASE conditions'.vals[k] = made + 1
  <2>1. made' = made + 1 /\ queue' = Append(queue, <<>>)
    BY <1>3, <1>6
  <2>2. /\ queue' \in Seq(Seq(Tasks)) /\ Len(queue') = made'
        /\ (\A n \in 1..made : queue'[n] = queue[n]) /\ queue'[made + 1] = <<>>
    BY <1>4, <1>5, <2>1
  <2>3. \A j \in DOMAIN conditions'.vals : conditions'.vals[j] \in 1..made'
    BY <1>2, <1>4, <1>6, <2>1 DEF Typed
  <2> QED
    BY <1>2, <1>4, <2>1, <2>2, <2>3
<1>7. CASE conditions'.vals[k] # made + 1
  <2>1. made' = made /\ queue' = queue
    BY <1>3, <1>7
  <2>2. \A j \in DOMAIN conditions'.vals : conditions'.vals[j] \in 1..made'
    BY <1>2, <1>4, <1>7, <2>1 DEF Typed
  <2> QED
    BY <1>2, <1>4, <2>1, <2>2
<1> QED
  BY <1>6, <1>7

-----------------------------------------------------------------------------
(* Each action keeps the invariant, and the keys. *)

KeysKept ==
    /\ DOMAIN counters.vals \subseteq DOMAIN counters'.vals
    /\ DOMAIN conditions.vals \subseteq DOMAIN conditions'.vals

\* A task that arrives is counted.
LEMMA Arrival ==
    ASSUME IInv, NEW t \in Tasks, NEW k \in Keys, NEW place \in {"running", "waiting"},
           pc[t] = "new", Active(k) \in 0..1, Count(k),
           pc' = [pc EXCEPT ![t] = place], key' = [key EXCEPT ![t] = k]
    PROVE  \A j : CountsMembers(j)'
<1>1. pc \in [Tasks -> {"new", "running", "waiting", "woken", "done"}] /\ key \in [Tasks -> Keys \cup {NoKey}]
  BY DEF IInv, Typed
<1>2. Members(k)' = Members(k) \cup {t} /\ t \notin Members(k)
  BY <1>1 DEF Members
<1>3. \A j : j # k => Members(j)' = Members(j)
  BY <1>1 DEF Members
<1>4. Active(k)' = Active(k) + 1 /\ \A j : j # k => Active(j)' = Active(j)
  BY CountIs DEF IInv
<1>5. CountsMembers(k)'
  <2>1. CASE Active(k) = 0
    <3>1. Members(k)' = {t}
      BY <1>2, <2>1 DEF IInv, CountsMembers
    <3> QED
      BY <1>4, <2>1, <3>1 DEF CountsMembers
  <2>2. CASE Active(k) = 1
    <3>1. PICK u \in Tasks : Members(k) = {u}
      BY <2>2 DEF IInv, CountsMembers
    <3>2. Members(k)' = {u, t} /\ u # t
      BY <1>2, <3>1
    <3> QED
      BY <1>4, <2>2, <3>2 DEF CountsMembers
  <2> QED
    BY <2>1, <2>2
<1>6. ASSUME NEW j, j # k PROVE CountsMembers(j)'
  BY <1>3, <1>4, <1>6 DEF IInv, CountsMembers
<1> QED
  BY <1>5, <1>6

\* What is left alone by a step that moves nobody to or from a queue.
LEMMA QueuesKept ==
    ASSUME IInv,
           \A n \in 1..made : queue'[n] = queue[n],
           \A n \in 1..made' : n > made => queue'[n] = <<>>,
           made' \in Nat, made <= made',
           \A j \in DOMAIN conditions.vals :
               j \in DOMAIN conditions'.vals /\ conditions'.vals[j] = conditions.vals[j],
           \A t \in Tasks : pc[t] = "waiting" => pc'[t] = "waiting" /\ key'[t] = key[t],
           \A t \in Tasks : pc'[t] = "waiting" => pc[t] = "waiting"
    PROVE  QueuesWait' /\ WaitersQueued'
<1>1. made \in Nat /\ queue \in Seq(Seq(Tasks)) /\ Len(queue) = made
  BY DEF IInv, Typed
<1>2. \A n \in 1..made : queue[n] \in Seq(Tasks)
  BY <1>1
<1>3. QueuesWait'
  <2> SUFFICES ASSUME NEW n \in 1..made'
               PROVE  /\ \A i \in 1..Len(queue'[n]) :
                            /\ pc'[queue'[n][i]] = "waiting"
                            /\ Has(conditions', key'[queue'[n][i]])
                            /\ conditions'.vals[key'[queue'[n][i]]] = n
                      /\ \A i, j \in 1..Len(queue'[n]) : queue'[n][i] = queue'[n][j] => i = j
    BY DEF QueuesWait, Has
  <2>1. CASE n > made
    <3>1. queue'[n] = <<>>
      BY <2>1
    <3> QED
      BY <3>1
  <2>2. CASE n <= made
    <3>1. n \in 1..made /\ queue'[n] = queue[n] /\ queue[n] \in Seq(Tasks)
      BY <1>1, <1>2, <2>2
    <3>2. \A i \in 1..Len(queue[n]) : queue[n][i] \in Tasks
      BY <3>1
    <3>3. /\ \A i \in 1..Len(queue[n]) :
              /\ pc[queue[n][i]] = "waiting"
              /\ key[queue[n][i]] \in DOMAIN conditions.vals
              /\ conditions.vals[key[queue[n][i]]] = n
          /\ \A i, j \in 1..Len(queue[n]) : queue[n][i] = queue[n][j] => i = j
      BY <3>1 DEF IInv, QueuesWait, Has
    <3> QED
      BY <3>1, <3>2, <3>3 DEF Has
  <2> QED
    BY <1>1, <2>1, <2>2
<1>4. WaitersQueued'
  <2> SUFFICES ASSUME NEW t \in Tasks, pc'[t] = "waiting"
               PROVE  /\ Has(conditions', key'[t])
                      /\ \E i \in 1..Len(queue'[conditions'.vals[key'[t]]]) :
                            queue'[conditions'.vals[key'[t]]][i] = t
    BY DEF WaitersQueued, InQueue, Has
  <2>1. pc[t] = "waiting" /\ key'[t] = key[t]
    OBVIOUS
  <2>2. key[t] \in DOMAIN conditions.vals /\ InQueue(t, conditions.vals[key[t]])
    BY <2>1 DEF IInv, WaitersQueued, Has
  <2>3. conditions.vals[key[t]] \in 1..made
    BY <2>2 DEF IInv, Typed
  <2> QED
    BY <2>1, <2>2, <2>3 DEF InQueue, Has
<1> QED
  BY <1>3, <1>4

LEMMA EnterFirstInv ==
    ASSUME IInv, NEW t \in Tasks, NEW k \in Keys, EnterFirst(t, k)
    PROVE  IInv' /\ KeysKept
<1>1. /\ pc[t] = "new" /\ Active(k) = 0 /\ Count(k) /\ UseCondition(k) /\ now' = now
      /\ pc' = [pc EXCEPT ![t] = "running"] /\ key' = [key EXCEPT ![t] = k]
  BY DEF EnterFirst
<1>2. Unrefreshed(counters') /\ DOMAIN counters.vals \subseteq DOMAIN counters'.vals
  BY <1>1, CountIs DEF IInv
<1>3. /\ Unrefreshed(conditions') /\ DOMAIN conditions.vals \subseteq DOMAIN conditions'.vals
      /\ \A j \in DOMAIN conditions.vals : conditions'.vals[j] = conditions.vals[j]
      /\ \A j \in DOMAIN conditions'.vals : conditions'.vals[j] \in 1..made'
      /\ made' \in Nat /\ made <= made'
      /\ queue' \in Seq(Seq(Tasks)) /\ Len(queue') = made'
      /\ \A n \in 1..made : queue'[n] = queue[n]
      /\ \A n \in 1..made' : n > made => queue'[n] = <<>>
  BY <1>1, UseConditionIs DEF IInv
<1>4. pc \in [Tasks -> {"new", "running", "waiting", "woken", "done"}] /\ key \in [Tasks -> Keys \cup {NoKey}]
  BY DEF IInv, Typed
<1>5. Typed'
  <2>1. /\ pc' \in [Tasks -> {"new", "running", "waiting", "woken", "done"}]
        /\ key' \in [Tasks -> Keys \cup {NoKey}]
    BY <1>1, <1>4
  <2>2. now' \in Nat \ {0}
    BY <1>1 DEF IInv, Typed
  <2> QED
    BY <1>2, <1>3, <2>1, <2>2 DEF Typed
<1>6. \A j : CountsMembers(j)'
  <2>1. Active(k) \in 0..1 /\ "running" \in {"running", "waiting"}
    BY <1>1
  <2> QED
    BY <1>1, <2>1, Arrival, Zenon
<1>7. QueuesWait' /\ WaitersQueued'
  <2>1. \A u \in Tasks : pc[u] = "waiting" => pc'[u] = "waiting" /\ key'[u] = key[u]
    BY <1>1, <1>4
  <2>2. \A u \in Tasks : pc'[u] = "waiting" => pc[u] = "waiting"
    BY <1>1, <1>4
  <2> QED
    BY <1>3, <2>1, <2>2, QueuesKept
<1> QED
  BY <1>2, <1>3, <1>5, <1>6, <1>7 DEF IInv, KeysKept

LEMMA EnterWaitingInv ==
    ASSUME IInv, NEW t \in Tasks, NEW k \in Keys, EnterWaiting(t, k)
    PROVE  IInv' /\ KeysKept
<1> DEFINE d == GetOrMake(conditions, k, made + 1, now)
<1>1. /\ pc[t] = "new" /\ Active(k) = 1 /\ Count(k) /\ conditions' = d /\ now' = now
      /\ pc' = [pc EXCEPT ![t] = "waiting"] /\ key' = [key EXCEPT ![t] = k]
      /\ IF d.vals[k] = made + 1
         THEN made' = made + 1 /\ queue' = Append(queue, <<t>>)
         ELSE made' = made /\ queue' = [queue EXCEPT ![d.vals[k]] = Append(@, t)]
  BY DEF EnterWaiting
<1>2. Unrefreshed(counters') /\ DOMAIN counters.vals \subseteq DOMAIN counters'.vals
  BY <1>1, CountIs DEF IInv
<1>3. /\ Unrefreshed(conditions') /\ DOMAIN conditions'.vals = DOMAIN conditions.vals \cup {k}
      /\ \A j \in DOMAIN conditions.vals : conditions'.vals[j] = conditions.vals[j]
      /\ conditions'.vals[k] = IF Has(conditions, k) THEN conditions.vals[k] ELSE made + 1
      /\ Has(conditions, k) => conditions.vals[k] \in 1..made
  BY <1>1, ConditionIs DEF IInv
<1>4. /\ pc \in [Tasks -> {"new", "running", "waiting", "woken", "done"}]
      /\ key \in [Tasks -> Keys \cup {NoKey}]
      /\ made \in Nat /\ queue \in Seq(Seq(Tasks)) /\ Len(queue) = made
      /\ \A j \in DOMAIN conditions.vals : conditions.vals[j] \in 1..made
  BY DEF IInv, Typed
<1> DEFINE n == conditions'.vals[k]
<1>5. /\ made' \in Nat /\ made <= made' /\ n \in 1..made'
      /\ queue' \in Seq(Seq(Tasks)) /\ Len(queue') = made'
      /\ \A m \in 1..made' : m # n => m \in 1..made /\ queue'[m] = queue[m]
      /\ queue'[n] = IF n = made + 1 THEN <<t>> ELSE Append(queue[n], t)
      /\ n # made + 1 => n \in 1..made /\ queue[n] \in Seq(Tasks)
  <2>1. CASE n = made + 1
    <3>1. made' = made + 1 /\ queue' = Append(queue, <<t>>)
      BY <1>1, <2>1
    <3>2. <<t>> \in Seq(Tasks)
      OBVIOUS
    <3> QED
      BY <1>4, <2>1, <3>1, <3>2
  <2>2. CASE n # made + 1
    <3>1. made' = made /\ queue' = [queue EXCEPT ![n] = Append(@, t)]
      BY <1>1, <2>2
    <3>2. n \in 1..made
      BY <1>3, <2>2
    <3>3. queue[n] \in Seq(Tasks) /\ Append(queue[n], t) \in Seq(Tasks)
      BY <1>4, <3>2
    <3> QED
      BY <1>4, <2>2, <3>1, <3>2, <3>3
  <2> QED
    BY <2>1, <2>2
<1>6. Typed'
  <2>1. /\ pc' \in [Tasks -> {"new", "running", "waiting", "woken", "done"}]
        /\ key' \in [Tasks -> Keys \cup {NoKey}]
    BY <1>1, <1>4
  <2>2. now' \in Nat \ {0}
    BY <1>1 DEF IInv, Typed
  <2>3. \A j \in DOMAIN conditions'.vals : conditions'.vals[j] \in 1..made'
    BY <1>3, <1>4, <1>5
  <2> QED
    BY <1>2, <1>3, <1>5, <2>1, <2>2, <2>3 DEF Typed
<1>7. \A j : CountsMembers(j)'
  <2>1. Active(k) \in 0..1 /\ "waiting" \in {"running", "waiting"}
    BY <1>1
  <2> QED
    BY <1>1, <2>1, Arrival, Zenon
<1>8. /\ pc'[t] = "waiting" /\ key'[t] = k
      /\ \A u \in Tasks \ {t} : pc'[u] = pc[u] /\ key'[u] = key[u]
  BY <1>1, <1>4
<1>9. \A m \in 1..made : \A i \in 1..Len(queue[m]) :
         /\ queue[m][i] \in Tasks \ {t}
         /\ pc[queue[m][i]] = "waiting" /\ key[queue[m][i]] \in DOMAIN conditions.vals
         /\ conditions.vals[key[queue[m][i]]] = m
  BY <1>1, <1>4 DEF IInv, QueuesWait, Has
<1> HIDE DEF n, d
<1>10. QueuesWait'
  <2> SUFFICES ASSUME NEW m \in 1..made'
               PROVE  /\ \A i \in 1..Len(queue'[m]) :
                            /\ pc'[queue'[m][i]] = "waiting"
                            /\ key'[queue'[m][i]] \in DOMAIN conditions'.vals
                            /\ conditions'.vals[key'[queue'[m][i]]] = m
                      /\ \A i, j \in 1..Len(queue'[m]) : queue'[m][i] = queue'[m][j] => i = j
    BY DEF QueuesWait, Has
  <2>1. CASE m # n
    <3>1. m \in 1..made /\ queue'[m] = queue[m]
      BY <1>5, <2>1
    <3>2. \A i, j \in 1..Len(queue[m]) : queue[m][i] = queue[m][j] => i = j
      BY <3>1 DEF IInv, QueuesWait
    <3> QED
      BY <1>3, <1>8, <1>9, <3>1, <3>2
  <2>2. CASE m = n /\ n = made + 1
    <3>1. queue'[m] = <<t>>
      BY <1>5, <2>2
    <3> QED
      BY <1>3, <1>8, <2>2, <3>1 DEF n
  <2>3. CASE m = n /\ n # made + 1
    <3>1. n \in 1..made /\ queue[n] \in Seq(Tasks) /\ queue'[m] = Append(queue[n], t)
      BY <1>5, <2>3
    <3>2. /\ Len(queue'[m]) = Len(queue[n]) + 1 /\ queue'[m][Len(queue[n]) + 1] = t
          /\ \A i \in 1..Len(queue[n]) : queue'[m][i] = queue[n][i]
      BY <3>1
    <3>3. \A i, j \in 1..Len(queue[n]) : queue[n][i] = queue[n][j] => i = j
      BY <3>1 DEF IInv, QueuesWait
    <3>4. \A i \in 1..Len(queue[n]) :
             /\ queue[n][i] # t /\ pc'[queue[n][i]] = "waiting"
             /\ key'[queue[n][i]] \in DOMAIN conditions'.vals
             /\ conditions'.vals[key'[queue[n][i]]] = m
      BY <1>3, <1>8, <1>9, <2>3, <3>1
    <3>5. k \in DOMAIN conditions'.vals /\ conditions'.vals[k] = m
      BY <1>3, <2>3 DEF n
    <3>6. Len(queue[n]) \in Nat
      BY <3>1
    <3>7. \A i \in 1..Len(queue'[m]) : i \in 1..Len(queue[n]) \/ i = Len(queue[n]) + 1
      BY <3>2, <3>6
    <3>8. \A i \in 1..Len(queue'[m]) :
             /\ pc'[queue'[m][i]] = "waiting"
             /\ key'[queue'[m][i]] \in DOMAIN conditions'.vals
             /\ conditions'.vals[key'[queue'[m][i]]] = m
      BY <1>8, <3>2, <3>4, <3>5, <3>7
    <3>9. \A i, j \in 1..Len(queue'[m]) : queue'[m][i] = queue'[m][j] => i = j
      BY <3>2, <3>3, <3>4, <3>7
    <3> QED
      BY <3>8, <3>9
  <2> QED
    BY <2>1, <2>2, <2>3
<1>11. WaitersQueued'
  <2> SUFFICES ASSUME NEW u \in Tasks, pc'[u] = "waiting"
               PROVE  /\ key'[u] \in DOMAIN conditions'.vals
                      /\ \E i \in 1..Len(queue'[conditions'.vals[key'[u]]]) :
                            queue'[conditions'.vals[key'[u]]][i] = u
    BY DEF WaitersQueued, InQueue, Has
  <2>1. CASE u = t
    <3>1. key'[u] \in DOMAIN conditions'.vals /\ conditions'.vals[key'[u]] = n
      BY <1>3, <1>8, <2>1 DEF n
    <3>2. \E i \in 1..Len(queue'[n]) : queue'[n][i] = t
      <4>1. CASE n = made + 1
        BY <1>5, <4>1
      <4>2. CASE n # made + 1
        <5>1. queue[n] \in Seq(Tasks) /\ queue'[n] = Append(queue[n], t)
          BY <1>5, <4>2
        <5>2. Len(queue[n]) + 1 \in 1..Len(queue'[n]) /\ queue'[n][Len(queue[n]) + 1] = t
          BY <5>1
        <5> QED
          BY <5>2
      <4> QED
        BY <4>1, <4>2
    <3> QED
      BY <2>1, <3>1, <3>2
  <2>2. CASE u # t
    <3>1. pc[u] = "waiting" /\ key'[u] = key[u]
      BY <1>8, <2>2
    <3>2. key[u] \in DOMAIN conditions.vals /\ InQueue(u, conditions.vals[key[u]])
      BY <3>1 DEF IInv, WaitersQueued, Has
    <3> DEFINE m == conditions.vals[key[u]]
    <3>3. m \in 1..made /\ key'[u] \in DOMAIN conditions'.vals /\ conditions'.vals[key'[u]] = m
      BY <1>3, <1>4, <3>1, <3>2
    <3>4. PICK i \in 1..Len(queue[m]) : queue[m][i] = u
      BY <3>2 DEF InQueue
    <3> HIDE DEF m
    <3>5. i \in 1..Len(queue'[m]) /\ queue'[m][i] = u
      <4>1. CASE m # n
        <5>1. m \in 1..made'
          BY <1>4, <1>5, <3>3
        <5> QED
          BY <1>5, <3>4, <4>1, <5>1
      <4>2. CASE m = n
        <5>1. n # made + 1
          BY <1>4, <3>3, <4>2
        <5>2. queue[n] \in Seq(Tasks) /\ queue'[n] = Append(queue[n], t)
          BY <1>5, <5>1
        <5> QED
          BY <3>4, <4>2, <5>2
      <4> QED
        BY <4>1, <4>2
    <3> QED
      BY <3>3, <3>5
  <2> QED
    BY <2>1, <2>2
<1> QED
  BY <1>2, <1>3, <1>6, <1>7, <1>10, <1>11 DEF IInv, KeysKept

\* A step that leaves the dictionaries and the queues alone, and moves a task
\* on that does not wait, or none.
LEMMA MoveInv ==
    ASSUME IInv, UNCHANGED <<counters, conditions, made, queue, key>>, now' \in Nat \ {0},
           pc' \in [Tasks -> {"new", "running", "waiting", "woken", "done"}],
           \A t \in Tasks : pc[t] = "waiting" <=> pc'[t] = "waiting",
           \A t \in Tasks : pc[t] \in {"running", "waiting", "woken"}
                            <=> pc'[t] \in {"running", "waiting", "woken"}
    PROVE  IInv' /\ KeysKept
<1>1. Typed'
  BY DEF IInv, Typed
<1>2. \A k : Members(k)' = Members(k)
  BY DEF Members
<1>3. \A k : Active(k)' = Active(k)
  BY DEF Active
<1>4. \A k : CountsMembers(k)'
  BY <1>2, <1>3 DEF IInv, CountsMembers
<1>5. made \in Nat
  BY DEF IInv, Typed
<1>6. QueuesWait' /\ WaitersQueued'
  BY <1>5, QueuesKept
<1> QED
  BY <1>1, <1>4, <1>6 DEF IInv, KeysKept

LEMMA TickInv == IInv /\ Tick => IInv' /\ KeysKept
<1> SUFFICES ASSUME IInv, Tick PROVE IInv' /\ KeysKept
  OBVIOUS
<1>1. /\ UNCHANGED <<counters, conditions, made, queue, pc, key>> /\ now' = now + 1
  BY DEF Tick
<1>2. now' \in Nat \ {0} /\ pc' \in [Tasks -> {"new", "running", "waiting", "woken", "done"}]
  BY <1>1 DEF IInv, Typed
<1> QED
  BY <1>1, <1>2, MoveInv

LEMMA DiscardInv ==
    ASSUME IInv, NEW t \in Tasks, NEW k \in Keys, Discard(t, k)
    PROVE  IInv' /\ KeysKept
<1>1. /\ pc[t] = "new" /\ Active(k) = 2 /\ counters' = SetDefault(counters, k, 0)
      /\ pc' = [pc EXCEPT ![t] = "done"] /\ UNCHANGED <<now, conditions, made, queue, key>>
  BY DEF Discard
<1>2. Has(counters, k)
  BY <1>1 DEF Active
<1>3. counters' = counters
  BY <1>1, <1>2 DEF SetDefault
<1>4. now' \in Nat \ {0} /\ pc \in [Tasks -> {"new", "running", "waiting", "woken", "done"}]
  BY <1>1 DEF IInv, Typed
<1> QED
  BY <1>1, <1>3, <1>4, MoveInv

LEMMA ResumeInv ==
    ASSUME IInv, NEW t \in Tasks, Resume(t)
    PROVE  IInv' /\ KeysKept
<1>1. /\ pc[t] = "woken" /\ pc' = [pc EXCEPT ![t] = "running"]
      /\ UNCHANGED <<now, counters, conditions, made, queue, key>>
  BY DEF Resume
<1>2. now' \in Nat \ {0} /\ pc \in [Tasks -> {"new", "running", "waiting", "woken", "done"}]
  BY <1>1 DEF IInv, Typed
<1> QED
  BY <1>1, <1>2, MoveInv

\* A task that leaves is no longer counted.
LEMMA Departure ==
    ASSUME IInv, NEW t \in Tasks, pc[t] = "running",
           pc' \in [Tasks -> {"new", "running", "waiting", "woken", "done"}], key' = key,
           pc'[t] = "done",
           \A u \in Tasks \ {t} : pc[u] \in {"running", "waiting", "woken"}
                                  <=> pc'[u] \in {"running", "waiting", "woken"},
           Active(key[t])' = Active(key[t]) - 1,
           \A j : j # key[t] => Active(j)' = Active(j)
    PROVE  \A j : CountsMembers(j)'
<1>0. PICK k : k = key[t]
  OBVIOUS
<1>1. t \in Members(k) /\ Members(k)' = Members(k) \ {t}
  BY <1>0 DEF Members
<1>2. \A j : j # k => Members(j)' = Members(j)
  BY <1>0 DEF Members
<1>3. Active(k)' = Active(k) - 1 /\ \A j : j # k => Active(j)' = Active(j)
  BY <1>0
<1>4. CountsMembers(k)
  BY DEF IInv
<1>5. CountsMembers(k)'
  <2>1. CASE Active(k) = 1
    <3>1. Members(k)' = {}
      BY <1>1, <1>4, <2>1 DEF CountsMembers
    <3> QED
      BY <1>3, <2>1, <3>1 DEF CountsMembers
  <2>2. CASE Active(k) = 2
    <3>1. PICK u \in Tasks, v \in Tasks : u # v /\ Members(k) = {u, v}
      BY <1>4, <2>2 DEF CountsMembers
    <3>2. \E x \in Tasks : Members(k)' = {x}
      <4>1. CASE t = u
        BY <1>1, <3>1, <4>1
      <4>2. CASE t = v
        BY <1>1, <3>1, <4>2
      <4> QED
        BY <1>1, <3>1, <4>1, <4>2
    <3> QED
      BY <1>3, <2>2, <3>2 DEF CountsMembers
  <2>3. Active(k) \in {1, 2}
    BY <1>1, <1>4 DEF CountsMembers
  <2> QED
    BY <2>1, <2>2, <2>3
<1>6. ASSUME NEW j, j # k PROVE CountsMembers(j)'
  BY <1>2, <1>3, <1>6 DEF IInv, CountsMembers
<1> QED
  BY <1>5, <1>6

LEMMA LeaveInv ==
    ASSUME IInv, NEW t \in Tasks, Leave(t)
    PROVE  IInv' /\ KeysKept
<1> DEFINE k == key[t]
           d == GetOrMake(conditions, k, made + 1, now)
           n == d.vals[k]
           c == Touch(counters, k, now)
           woken == IF n <= made /\ queue[n] # <<>> THEN {Head(queue[n])} ELSE {}
<1>1. /\ pc[t] = "running" /\ conditions' = d /\ now' = now /\ key' = key
      /\ made' = IF n > made THEN made + 1 ELSE made
      /\ queue' = IF n > made THEN Append(queue, <<>>)
                  ELSE IF queue[n] = <<>> THEN queue
                  ELSE [queue EXCEPT ![n] = Tail(@)]
      /\ counters' = IF Has(c, k) THEN SetItem(c, k, c.vals[k] - 1, now) ELSE c
      /\ pc' = [x \in Tasks |->
                  IF x = t THEN IF Has(c, k) THEN "done" ELSE "KeyError"
                  ELSE IF x \in woken THEN "woken" ELSE pc[x]]
  BY DEF Leave
<1>2. /\ pc \in [Tasks -> {"new", "running", "waiting", "woken", "done"}]
      /\ key \in [Tasks -> Keys \cup {NoKey}]
      /\ made \in Nat /\ queue \in Seq(Seq(Tasks)) /\ Len(queue) = made
      /\ \A j \in DOMAIN conditions.vals : conditions.vals[j] \in 1..made
  BY DEF IInv, Typed
<1>3. Unrefreshed(c) /\ c.vals = counters.vals
  BY TouchIs DEF IInv, Typed
<1>4. Has(counters, k) /\ Active(k) = counters.vals[k] /\ Active(k) \in Nat
  <2>1. t \in Members(k)
    BY <1>1 DEF Members
  <2>2. Active(k) \in {1, 2}
    BY <2>1 DEF IInv, CountsMembers
  <2> QED
    BY <2>2 DEF Active
<1>5. /\ Unrefreshed(counters') /\ DOMAIN counters'.vals = DOMAIN counters.vals
      /\ Active(k)' = Active(k) - 1 /\ \A j : j # k => Active(j)' = Active(j)
  <2>1. counters' = SetItem(c, k, c.vals[k] - 1, now)
    BY <1>1, <1>3, <1>4 DEF Has
  <2>2. Unrefreshed(counters') /\ counters'.vals = Put(counters.vals, k, counters.vals[k] - 1)
    <3> HIDE DEF c, k
    <3> QED
      BY <1>3, <2>1, SetItemIs
  <2>3. /\ DOMAIN counters'.vals = DOMAIN counters.vals /\ counters'.vals[k] = counters.vals[k] - 1
        /\ \A j \in DOMAIN counters.vals \ {k} : counters'.vals[j] = counters.vals[j]
    <3> HIDE DEF k
    <3> QED
      BY <1>4, <2>2 DEF Put, Has
  <2>4. counters'.vals[k] = Active(k) - 1
    BY <1>4, <2>3
  <2>5. k' = k
    BY <1>1
  <2> HIDE DEF k
  <2>6. Active(k)' = Active(k) - 1
    BY <1>4, <2>3, <2>4, <2>5 DEF Active, Has
  <2>7. ASSUME NEW j, j # k PROVE Active(j)' = Active(j)
    BY <2>3, <2>7 DEF Active, Has
  <2> QED
    BY <2>2, <2>3, <2>6, <2>7
<1>6. /\ Unrefreshed(conditions') /\ DOMAIN conditions'.vals = DOMAIN conditions.vals \cup {k}
      /\ \A j \in DOMAIN conditions.vals : conditions'.vals[j] = conditions.vals[j]
      /\ conditions'.vals[k] = IF Has(conditions, k) THEN conditions.vals[k] ELSE made + 1
      /\ Has(conditions, k) => conditions.vals[k] \in 1..made
  BY <1>1, ConditionIs DEF IInv
<1>7. n = conditions'.vals[k]
  BY <1>1
<1>8. /\ pc'[t] = "done"
      /\ \A x \in Tasks \ {t} : pc'[x] = IF x \in woken THEN "woken" ELSE pc[x]
  BY <1>1, <1>3, <1>4 DEF Has
<1> HIDE DEF d, c
<1>9. n \in 1..made \/ (n = made + 1 /\ ~Has(conditions, k))
  BY <1>2, <1>6, <1>7
<1>10. \A x \in woken : pc[x] = "waiting" /\ x \in Tasks /\ x # t
  <2>1. ASSUME n <= made, queue[n] # <<>>
        PROVE  pc[Head(queue[n])] = "waiting" /\ Head(queue[n]) \in Tasks
    <3>1. n \in 1..made
      BY <1>2, <1>9, <2>1
    <3>2. queue[n] \in Seq(Tasks)
      BY <1>2, <3>1
    <3> HIDE DEF n
    <3>3. 1 \in 1..Len(queue[n]) /\ Head(queue[n]) = queue[n][1] /\ queue[n][1] \in Tasks
      BY <2>1, <3>2
    <3> QED
      BY <3>1, <3>3 DEF IInv, QueuesWait
  <2> QED
    BY <1>1, <2>1
<1>11. pc' \in [Tasks -> {"new", "running", "waiting", "woken", "done"}]
  <2>1. \A x \in Tasks : pc'[x] \in {"new", "running", "waiting", "woken", "done"}
    BY <1>2, <1>8
  <2>2. DOMAIN pc' = Tasks /\ pc' = [x \in Tasks |-> pc'[x]]
    BY <1>1
  <2> QED
    BY <2>1, <2>2
<1>12. \A j : CountsMembers(j)'
  <2>1. \A u \in Tasks \ {t} : pc[u] \in {"running", "waiting", "woken"}
                               <=> pc'[u] \in {"running", "waiting", "woken"}
    BY <1>8, <1>10
  <2> QED
    BY <1>1, <1>5, <1>8, <1>11, <2>1, Departure
<1>13. now' \in Nat \ {0}
  BY <1>1 DEF IInv, Typed
<1>14. CASE n = made + 1 \/ queue[n] = <<>>
  <2>1. woken = {}
    BY <1>2, <1>14
  <2>2. /\ made' \in Nat /\ made <= made' /\ queue' \in Seq(Seq(Tasks)) /\ Len(queue') = made'
        /\ \A m \in 1..made : queue'[m] = queue[m]
        /\ \A m \in 1..made' : m > made => queue'[m] = <<>>
        /\ n \in 1..made'
    <3>1. <<>> \in Seq(Tasks)
      OBVIOUS
    <3> HIDE DEF n
    <3>2. CASE n = made + 1
      BY <1>1, <1>2, <3>1, <3>2
    <3>3. CASE n # made + 1
      BY <1>1, <1>2, <1>9, <1>14, <3>3
    <3> QED
      BY <3>2, <3>3
  <2>3. Typed'
    <3>1. \A j \in DOMAIN conditions'.vals : conditions'.vals[j] \in 1..made'
      BY <1>2, <1>6, <1>7, <2>2
    <3> QED
      BY <1>1, <1>2, <1>5, <1>6, <1>11, <1>13, <2>2, <3>1 DEF Typed
  <2>4. QueuesWait' /\ WaitersQueued'
    <3>1. \A u \in Tasks : pc[u] = "waiting" => pc'[u] = "waiting" /\ key'[u] = key[u]
      BY <1>1, <1>8, <2>1
    <3>2. \A u \in Tasks : pc'[u] = "waiting" => pc[u] = "waiting"
      BY <1>1, <1>8, <2>1
    <3>3. \A j \in DOMAIN conditions.vals :
             j \in DOMAIN conditions'.vals /\ conditions'.vals[j] = conditions.vals[j]
      BY <1>6
    <3> QED
      BY <2>2, <3>1, <3>2, <3>3, QueuesKept
  <2> QED
    BY <1>5, <1>6, <1>12, <2>3, <2>4 DEF IInv, KeysKept
<1>15. CASE n # made + 1 /\ queue[n] # <<>>
  <2> DEFINE w == queue[n][1]
  <2>1. n \in 1..made /\ queue[n] \in Seq(Tasks) /\ Has(conditions, k)
    <3>1. n \in 1..made
      BY <1>9, <1>15
    <3> HIDE DEF n
    <3> QED
      BY <1>2, <1>6, <1>7, <1>15, <3>1
  <2>2. woken = {w} /\ 1 \in 1..Len(queue[n]) /\ w \in Tasks
    <3>1. woken = {Head(queue[n])}
      BY <1>15, <2>1
    <3> HIDE DEF n, woken
    <3> QED
      BY <1>15, <2>1, <3>1
  <2>3. /\ made' = made /\ queue' = [queue EXCEPT ![n] = Tail(@)]
    BY <1>1, <1>2, <1>15, <2>1
  <2> HIDE DEF n, woken
  <2>4. /\ queue' \in Seq(Seq(Tasks)) /\ Len(queue') = made
        /\ queue'[n] = Tail(queue[n]) /\ \A m \in 1..made : m # n => queue'[m] = queue[m]
    <3>1. Tail(queue[n]) \in Seq(Tasks)
      BY <1>15, <2>1
    <3> QED
      BY <1>2, <2>1, <2>3, <3>1
  <2>5. /\ Len(queue[n]) \in Nat /\ Len(Tail(queue[n])) = Len(queue[n]) - 1
        /\ \A i \in 1..Len(Tail(queue[n])) : Tail(queue[n])[i] = queue[n][i + 1]
    BY <1>15, <2>1
  <2>6. \A j \in DOMAIN conditions.vals : conditions'.vals[j] = conditions.vals[j] /\ j \in DOMAIN conditions'.vals
    BY <1>6
  <2>7. \A m \in 1..made : \A i \in 1..Len(queue[m]) :
           /\ queue[m][i] \in Tasks \ {t} /\ pc[queue[m][i]] = "waiting"
           /\ key[queue[m][i]] \in DOMAIN conditions.vals
           /\ conditions.vals[key[queue[m][i]]] = m
    BY <1>1, <1>2 DEF IInv, QueuesWait, Has
  <2>8. \A m \in 1..made : \A i, j \in 1..Len(queue[m]) : queue[m][i] = queue[m][j] => i = j
    BY DEF IInv, QueuesWait
  <2>9. conditions.vals[key[w]] = n /\ w # t
    BY <2>1, <2>2, <2>7
  <2>10. pc'[w] = "woken" /\ \A x \in Tasks \ {t, w} : pc'[x] = pc[x]
    BY <1>8, <2>2, <2>9
  <2>11. Typed'
    <3>1. \A j \in DOMAIN conditions'.vals : conditions'.vals[j] \in 1..made
      BY <1>2, <1>6, <1>7, <2>1
    <3> QED
      BY <1>1, <1>2, <1>5, <1>6, <1>11, <1>13, <2>3, <2>4, <3>1 DEF Typed
  <2> HIDE DEF w, k
  <2>12. QueuesWait'
    <3> SUFFICES ASSUME NEW m \in 1..made
                 PROVE  /\ \A i \in 1..Len(queue'[m]) :
                              /\ pc'[queue'[m][i]] = "waiting"
                              /\ key'[queue'[m][i]] \in DOMAIN conditions'.vals
                              /\ conditions'.vals[key'[queue'[m][i]]] = m
                        /\ \A i, j \in 1..Len(queue'[m]) : queue'[m][i] = queue'[m][j] => i = j
      BY <2>3 DEF QueuesWait, Has
    <3>1. CASE m # n
      <4>1. queue'[m] = queue[m]
        BY <2>4, <3>1
      <4>2. \A i \in 1..Len(queue[m]) : queue[m][i] \in Tasks \ {t, w}
        BY <2>7, <2>9, <3>1
      <4>3. ASSUME NEW i \in 1..Len(queue[m])
            PROVE  /\ pc'[queue[m][i]] = "waiting"
                   /\ key'[queue[m][i]] \in DOMAIN conditions'.vals
                   /\ conditions'.vals[key'[queue[m][i]]] = m
        BY <1>1, <2>6, <2>7, <2>10, <4>2
      <4> QED
        BY <2>8, <4>1, <4>3
    <3>2. CASE m = n
      <4>1. \A i \in 1..Len(queue'[m]) :
               /\ i + 1 \in 1..Len(queue[n]) /\ i + 1 # 1 /\ queue'[m][i] = queue[n][i + 1]
        <5>1. queue'[m] = Tail(queue[n])
          BY <2>4, <3>2
        <5> SUFFICES ASSUME NEW i \in 1..Len(Tail(queue[n]))
                     PROVE  /\ i + 1 \in 1..Len(queue[n]) /\ i + 1 # 1
                            /\ Tail(queue[n])[i] = queue[n][i + 1]
          BY <5>1
        <5> QED
          BY <2>5
      <4>2. \A i \in 1..Len(queue'[m]) : queue'[m][i] \in Tasks \ {t, w}
        <5> TAKE i \in 1..Len(queue'[m])
        <5>1. i + 1 \in 1..Len(queue[n]) /\ i + 1 # 1 /\ queue'[m][i] = queue[n][i + 1]
          BY <4>1
        <5>2. 1 \in 1..Len(queue[n])
          BY <2>5, <5>1
        <5>3. queue[n][i + 1] # queue[n][1]
          BY <2>1, <2>8, <5>1, <5>2
        <5>4. queue[n][i + 1] \in Tasks \ {t}
          BY <2>1, <2>7, <5>1
        <5> QED
          BY <5>1, <5>3, <5>4 DEF w
      <4>3. \A i \in 1..Len(queue'[m]) :
               /\ pc'[queue'[m][i]] = "waiting"
               /\ key'[queue'[m][i]] \in DOMAIN conditions'.vals
               /\ conditions'.vals[key'[queue'[m][i]]] = m
        <5> TAKE i \in 1..Len(queue'[m])
        <5>1. PICK h \in 1..Len(queue[n]) : queue'[m][i] = queue[n][h]
          BY <4>1
        <5>2. queue[n][h] \in Tasks \ {t, w}
          BY <4>2, <5>1
        <5>3. /\ pc[queue[n][h]] = "waiting" /\ key[queue[n][h]] \in DOMAIN conditions.vals
              /\ conditions.vals[key[queue[n][h]]] = n
          BY <2>1, <2>7
        <5> QED
          BY <1>1, <2>6, <2>10, <3>2, <5>1, <5>2, <5>3
      <4>4. \A i, j \in 1..Len(queue'[m]) : queue'[m][i] = queue'[m][j] => i = j
        <5> TAKE i, j \in 1..Len(queue'[m])
        <5>1. queue'[m][i] = queue'[m][j] => i + 1 = j + 1
          BY <2>1, <2>8, <4>1
        <5> QED
          BY <5>1
      <4> QED
        BY <4>3, <4>4
    <3> QED
      BY <3>1, <3>2
  <2>13. WaitersQueued'
    <3> SUFFICES ASSUME NEW u \in Tasks, pc'[u] = "waiting"
                 PROVE  /\ key'[u] \in DOMAIN conditions'.vals
                        /\ \E i \in 1..Len(queue'[conditions'.vals[key'[u]]]) :
                              queue'[conditions'.vals[key'[u]]][i] = u
      BY DEF WaitersQueued, InQueue, Has
    <3>1. u # t /\ u # w /\ pc[u] = "waiting" /\ key'[u] = key[u]
      BY <1>1, <1>8, <2>10
    <3>2. key[u] \in DOMAIN conditions.vals /\ InQueue(u, conditions.vals[key[u]])
      BY <3>1 DEF IInv, WaitersQueued, Has
    <3> DEFINE m == conditions.vals[key[u]]
    <3>3. m \in 1..made /\ key'[u] \in DOMAIN conditions'.vals /\ conditions'.vals[key'[u]] = m
      BY <1>2, <2>6, <3>1, <3>2
    <3>4. PICK i \in 1..Len(queue[m]) : queue[m][i] = u
      BY <3>2 DEF InQueue
    <3> HIDE DEF m
    <3>5. \E h \in 1..Len(queue'[m]) : queue'[m][h] = u
      <4>1. CASE m # n
        BY <2>4, <3>3, <3>4, <4>1
      <4>2. CASE m = n
        <5>1. i # 1
          BY <3>1, <3>4, <4>2 DEF w
        <5>2. i - 1 \in 1..Len(queue'[n]) /\ queue'[n][i - 1] = queue[n][(i - 1) + 1]
          BY <2>4, <2>5, <3>4, <4>2, <5>1
        <5>3. (i - 1) + 1 = i
          BY <3>4
        <5> QED
          BY <3>4, <4>2, <5>2, <5>3
      <4> QED
        BY <4>1, <4>2
    <3> QED
      BY <3>3, <3>5
  <2> QED
    BY <1>5, <1>6, <1>12, <2>11, <2>12, <2>13 DEF IInv, KeysKept
<1> QED
  BY <1>14, <1>15

LEMMA NextInv == IInv /\ [Next]_vars => IInv' /\ (KeysKept \/ UNCHANGED vars)
<1> SUFFICES ASSUME IInv, [Next]_vars PROVE IInv' /\ (KeysKept \/ UNCHANGED vars)
  OBVIOUS
<1>1. CASE UNCHANGED vars
  <2>1. /\ UNCHANGED <<counters, conditions, made, queue, key>> /\ pc' = pc /\ now' = now
    BY <1>1 DEF vars
  <2>2. now' \in Nat \ {0} /\ pc' \in [Tasks -> {"new", "running", "waiting", "woken", "done"}]
    BY <2>1 DEF IInv, Typed
  <2> QED
    BY <2>1, <2>2, MoveInv
<1>2. CASE Next
  BY <1>2, TickInv, EnterFirstInv, EnterWaitingInv, DiscardInv, ResumeInv, LeaveInv DEF Next
<1> QED
  BY <1>1, <1>2

LEMMA Inductive == Spec => []IInv
<1>1. IInv /\ [Next]_vars => IInv'
  BY NextInv
<1> QED
  BY <1>1, InitInv, PTL DEF Spec

\* Whatever the time to live and however long a task lasts, the counter of its
\* pull request is there, and above zero, until the task has left, so the
\* finally block never fails and a later push sees the task; and a waiting task
\* waits in the very condition the dictionary holds for its pull request, the
\* one the running task will notify (github_app.py:182-213).
THEOREM InUseStays == Spec => []InUseIsKept
<1>1. IInv => InUseIsKept
  BY InvImplies DEF InUseIsKept
<1> QED
  BY <1>1, Inductive, PTL

\* Whatever the time to live and the refresh interval, no key ever leaves a
\* dictionary (utils.py:67, whose guard is inverted).
THEOREM NeverDropped == Spec => KeysNeverDropped
<1>1. IInv /\ [Next]_vars => [/\ DOMAIN counters.vals \subseteq DOMAIN counters'.vals
                              /\ DOMAIN conditions.vals \subseteq DOMAIN conditions'.vals]_vars
  BY NextInv DEF KeysKept
<1> QED
  BY <1>1, Inductive, PTL DEF Spec, KeysNeverDropped
=============================================================================
