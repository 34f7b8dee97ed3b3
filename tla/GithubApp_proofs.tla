--------------------------- MODULE GithubApp_proofs ---------------------------
(***************************************************************************)
(* Proofs about GithubApp, for any number of webhooks, pull requests and   *)
(* workers, any mix of kinds, filters and backlog settings, and any number *)
(* of restarts.                                                            *)
(***************************************************************************)
EXTENDS GithubApp, TLAPS

(* The inductive invariant: the counter's type is not inductive without    *)
(* knowing that a task about to release it was counted, and that needs to  *)
(* know that only push tasks ever wait or are woken.                       *)
Core == TypeOK /\ CounterMatchesTasks

OnlyPushesWait ==
    \A e \in Events : pc[e] \in {"waiting", "woken", "discarded"} => IsPush(e)

IInv == Core /\ OnlyPushesWait

USE DEF Suspended, Ended, AllKinds, AllFates

LEMMA HookFields ==
    ASSUME NEW hook \in Webhook
    PROVE  /\ hook # NoEvent
           /\ hook.kind \in Kinds /\ hook.pr \in PRs /\ hook.worker \in Workers
           /\ hook.fate \in Fates /\ hook.backlog \in BOOLEAN
           /\ hook.kind \in AllKinds
  <1>1. /\ hook.kind \in Kinds /\ hook.pr \in PRs /\ hook.worker \in Workers
        /\ hook.fate \in Fates /\ hook.backlog \in Backlog
    BY DEF Webhook
  <1>2. NoEvent.kind = "none"
    BY DEF NoEvent
  <1>3. hook.kind \in AllKinds /\ hook.kind # "none"
    BY <1>1, KindsAssumption
  <1> QED
    BY <1>1, <1>2, <1>3, BacklogAssumption

LEMMA EventFields ==
    ASSUME TypeOK, NEW e \in Events, pc[e] # "unsent"
    PROVE  /\ event[e] \in Webhook
           /\ event[e].kind \in Kinds /\ event[e].pr \in PRs
           /\ event[e].worker \in Workers
           /\ event[e].fate \in Fates /\ event[e].backlog \in BOOLEAN
           /\ event[e].kind \in AllKinds
BY HookFields DEF TypeOK

LEMMA InitInv == Init => IInv
  <1> SUFFICES ASSUME Init PROVE IInv
    OBVIOUS
  <1>1. TypeOK
    BY BoundsAssumption DEF Init, TypeOK, NoEvent
  <1>2. CounterMatchesTasks
    BY DEF Init, CounterMatchesTasks, CounterMatches, Processing, Waiting, Tasks, NoEvent
  <1>3. OnlyPushesWait
    BY DEF Init, OnlyPushesWait
  <1> QED
    BY <1>1, <1>2, <1>3 DEF IInv, Core

-----------------------------------------------------------------------------
(* Each action keeps the invariant. *)

\* A step that touches one worker and pull request leaves the others alone.
LEMMA OtherPairs ==
    ASSUME CounterMatchesTasks, NEW w \in Workers, NEW p \in PRs,
           CounterMatches(w, p)',
           \A v \in Workers, q \in PRs : <<v, q>> # <<w, p>> =>
               /\ Processing(v, q)' = Processing(v, q)
               /\ Waiting(v, q)' = Waiting(v, q)
               /\ active'[v][q] = active[v][q]
               /\ waiters'[v][q] = waiters[v][q]
    PROVE  CounterMatchesTasks'
  <1> SUFFICES ASSUME NEW v \in Workers, NEW q \in PRs
               PROVE  CounterMatches(v, q)'
    BY DEF CounterMatchesTasks
  <1>1. CASE <<v, q>> = <<w, p>>
    BY <1>1
  <1>2. CASE <<v, q>> # <<w, p>>
    <2>1. CounterMatches(v, q)
      BY DEF CounterMatchesTasks
    <2> QED
      BY <1>2, <2>1 DEF CounterMatches
  <1> QED
    BY <1>1, <1>2

LEMMA DeliverType ==
    ASSUME IInv, NEW e \in Events, NEW hook \in Webhook, Deliver(e, hook)
    PROVE  TypeOK'
  <1> USE DEF IInv, Core
  <1>1. hook # NoEvent /\ hook.pr \in PRs
    BY HookFields
  <1> QED
    BY <1>1 DEF TypeOK, Deliver

LEMMA DeliverCounter ==
    ASSUME IInv, NEW e \in Events, NEW hook \in Webhook, Deliver(e, hook)
    PROVE  CounterMatchesTasks'
  <1> USE DEF IInv, Core
  <1>1. \A w \in Workers, p \in PRs :
           /\ Processing(w, p)' = Processing(w, p)
           /\ Waiting(w, p)' = Waiting(w, p)
    BY DEF TypeOK, Deliver, Processing, Waiting, Tasks
  <1>2. active' = active /\ waiters' = waiters
    BY DEF Deliver
  <1> QED
    BY <1>1, <1>2 DEF CounterMatchesTasks, CounterMatches

LEMMA EndWithoutCommandsInv ==
    ASSUME IInv, NEW e \in Events, EndWithoutCommands(e)
    PROVE  Core'
  <1> USE DEF IInv, Core
  <1>1. TypeOK'
    BY DEF TypeOK, EndWithoutCommands
  <1>2. \A w \in Workers, p \in PRs :
           /\ Processing(w, p)' = Processing(w, p)
           /\ Waiting(w, p)' = Waiting(w, p)
    BY DEF TypeOK, EndWithoutCommands, Processing, Waiting, Tasks
  <1>3. active' = active /\ waiters' = waiters
    BY DEF EndWithoutCommands
  <1> QED
    BY <1>1, <1>2, <1>3 DEF CounterMatchesTasks, CounterMatches

LEMMA BeginCommandsType ==
    ASSUME TypeOK, NEW e \in Events, pc[e] # "unsent", BeginCommands(e),
           UNCHANGED <<head, event, published, restarts>>,
           active' \in [Workers -> [PRs -> 0..2]],
           waiters' \in [Workers -> [PRs -> Seq(Events)]]
    PROVE  TypeOK'
  <1>1. event[e].kind \in AllKinds /\ event[e].pr \in PRs
    BY EventFields
  <1>2. Commands[event[e].kind] \in Nat
    BY <1>1, CommandsAssumption
  <1>3. PICK d \in {0, head[event[e].pr]} : seen' = [seen EXCEPT ![e] = d]
    BY DEF BeginCommands, NewDiff
  <1>4. seen' \in [Events -> Nat]
    BY <1>1, <1>3 DEF TypeOK
  <1> QED
    BY <1>1, <1>2, <1>4 DEF TypeOK, BeginCommands

LEMMA StartDirectlyInv ==
    ASSUME IInv, NEW e \in Events, StartDirectly(e)
    PROVE  Core'
  <1> USE DEF IInv, Core
  <1>1. TypeOK'
    BY BeginCommandsType DEF StartDirectly, TypeOK
  <1>2. \A w \in Workers, p \in PRs :
           /\ Processing(w, p)' = Processing(w, p)
           /\ Waiting(w, p)' = Waiting(w, p)
    BY DEF TypeOK, StartDirectly, BeginCommands, IsPush, Processing, Waiting,
           Tasks
  <1>3. active' = active /\ waiters' = waiters
    BY DEF StartDirectly
  <1> QED
    BY <1>1, <1>2, <1>3 DEF CounterMatchesTasks, CounterMatches

LEMMA DiscardInv ==
    ASSUME IInv, NEW e \in Events, Discard(e)
    PROVE  Core'
  <1> USE DEF IInv, Core
  <1>1. TypeOK'
    <2>1. event[e].worker \in Workers /\ event[e].pr \in PRs
      BY EventFields DEF Discard
    <2>2. owed' \in [Workers -> [PRs -> SUBSET Events]]
      BY <2>1 DEF TypeOK, Discard, Owe
    <2> QED
      BY <2>2 DEF TypeOK, Discard
  <1>2. \A w \in Workers, p \in PRs :
           /\ Processing(w, p)' = Processing(w, p)
           /\ Waiting(w, p)' = Waiting(w, p)
    BY DEF TypeOK, Discard, Processing, Waiting, Tasks
  <1>3. active' = active /\ waiters' = waiters
    BY DEF Discard
  <1> QED
    BY <1>1, <1>2, <1>3 DEF CounterMatchesTasks, CounterMatches

\* A push task that holds a place in the counter is one of its tasks.
LEMMA CountedTask ==
    ASSUME IInv, NEW e \in Events, pc[e] \in {"woken", "command"}, IsPush(e)
    PROVE  LET w == event[e].worker
               p == event[e].pr
           IN  /\ w \in Workers /\ p \in PRs
               /\ active[w][p] \in {1, 2}
               /\ Processing(w, p) = {e}
  <1> USE DEF IInv, Core
  <1> DEFINE w == event[e].worker
             p == event[e].pr
  <1>1. w \in Workers /\ p \in PRs
    BY EventFields
  <1>2. e \in Processing(w, p)
    BY DEF Processing, Tasks, IsPush
  <1>3. active[w][p] \in 0..2
    BY <1>1 DEF TypeOK
  <1>4. active[w][p] # 0
    BY <1>1, <1>2 DEF CounterMatchesTasks, CounterMatches
  <1>5. CASE active[w][p] = 1
    BY <1>1, <1>2, <1>5 DEF CounterMatchesTasks, CounterMatches
  <1>6. CASE active[w][p] = 2
    BY <1>1, <1>2, <1>6 DEF CounterMatchesTasks, CounterMatches
  <1> QED
    BY <1>1, <1>3, <1>4, <1>5, <1>6

\* The finally block leaves the bookkeeping exact: a waiter that is woken
\* takes the place of the task that ends.
LEMMA ReleaseCounter ==
    ASSUME IInv, NEW e \in Events, pc[e] \in {"woken", "command"}, IsPush(e),
           Release(e, active[event[e].worker][event[e].pr]),
           event' = event
    PROVE  /\ CounterMatchesTasks'
           /\ pc' \in [Events -> Suspended \cup Ended \cup {"unsent"}]
           /\ \A x \in Events : (pc'[x] = "unsent") <=> (pc[x] = "unsent")
           /\ active' \in [Workers -> [PRs -> 0..2]]
           /\ waiters' \in [Workers -> [PRs -> Seq(Events)]]
  <1> USE DEF IInv, Core
  <1> DEFINE w == event[e].worker
             p == event[e].pr
  <1>1. /\ w \in Workers /\ p \in PRs
        /\ active[w][p] \in {1, 2}
        /\ Processing(w, p) = {e}
    BY CountedTask
  <1>2. \A v \in Workers, q \in PRs : <<v, q>> # <<w, p>> =>
           active'[v][q] = active[v][q] /\ waiters'[v][q] = waiters[v][q]
    BY <1>1 DEF Release, TypeOK
  <1>3. active'[w][p] = active[w][p] - 1
    BY <1>1 DEF Release, TypeOK
  <1>4. CASE active[w][p] = 1
    <2>1. waiters[w][p] = <<>> /\ Waiting(w, p) = {}
      BY <1>1, <1>4 DEF CounterMatchesTasks, CounterMatches
    <2>2. pc' = [x \in Events |-> IF x = e THEN "done" ELSE pc[x]]
      BY <2>1 DEF Release
    <2>3. waiters' = waiters
      BY <2>1 DEF Release
    <2>4. \A v \in Workers, q \in PRs : <<v, q>> # <<w, p>> =>
             /\ Processing(v, q)' = Processing(v, q)
             /\ Waiting(v, q)' = Waiting(v, q)
      BY <2>2 DEF TypeOK, Processing, Waiting, Tasks
    <2>5. Processing(w, p)' = {} /\ Waiting(w, p)' = {}
      BY <2>1, <2>2, <1>1 DEF TypeOK, Processing, Waiting, Tasks
    <2>6. CounterMatchesTasks'
      BY <1>1, <1>2, <1>3, <1>4, <2>1, <2>3, <2>4, <2>5
         DEF CounterMatchesTasks, CounterMatches
    <2> QED
      BY <1>1, <1>4, <2>2, <2>3, <2>6 DEF TypeOK, Release
  <1>5. CASE active[w][p] = 2
    <2>1. PICK f \in Events : Waiting(w, p) = {f} /\ waiters[w][p] = <<f>>
      BY <1>1, <1>5 DEF CounterMatchesTasks, CounterMatches
    <2>2. waiters[w][p] # <<>> /\ Head(waiters[w][p]) = f
          /\ Tail(waiters[w][p]) = <<>>
      BY <2>1
    <2>3. f # e /\ pc[f] = "waiting"
      BY <2>1 DEF Waiting, Tasks
    <2>4. pc' = [x \in Events |-> IF x = e THEN "done"
                                  ELSE IF x = f THEN "woken" ELSE pc[x]]
      BY <2>2 DEF Release
    <2>5. waiters'[w][p] = <<>>
      BY <1>1, <2>2 DEF Release, TypeOK
    <2>6. event[f].kind = "push" /\ event[f].worker = w /\ event[f].pr = p
      BY <2>1 DEF Waiting, Tasks
    <2>7. \A v \in Workers, q \in PRs : <<v, q>> # <<w, p>> =>
             /\ Processing(v, q)' = Processing(v, q)
             /\ Waiting(v, q)' = Waiting(v, q)
      <3> SUFFICES ASSUME NEW v \in Workers, NEW q \in PRs, <<v, q>> # <<w, p>>
                   PROVE  /\ Processing(v, q)' = Processing(v, q)
                          /\ Waiting(v, q)' = Waiting(v, q)
        OBVIOUS
      <3>1. \A x \in Events : event[x].worker = v /\ event[x].pr = q =>
               x # e /\ x # f
        BY <2>6
      <3> QED
        BY <2>4, <3>1 DEF Processing, Waiting, Tasks
    <2>8. Processing(w, p)' = {f} /\ Waiting(w, p)' = {}
      BY <1>1, <2>1, <2>3, <2>4, <2>6 DEF TypeOK, Processing, Waiting, Tasks
    <2>9. CounterMatchesTasks'
      <3>1. active'[w][p] = 1
        BY <1>3, <1>5
      <3> QED
        BY <1>1, <1>2, <3>1, <2>5, <2>7, <2>8 DEF CounterMatchesTasks, CounterMatches
    <2>10. waiters' \in [Workers -> [PRs -> Seq(Events)]]
      BY <1>1, <2>2 DEF Release, TypeOK
    <2>11. active' \in [Workers -> [PRs -> 0..2]]
      BY <1>1, <1>5 DEF Release, TypeOK
    <2>12. /\ pc' \in [Events -> Suspended \cup Ended \cup {"unsent"}]
           /\ \A x \in Events : (pc'[x] = "unsent") <=> (pc[x] = "unsent")
      BY <2>3, <2>4 DEF TypeOK
    <2> QED
      BY <2>9, <2>10, <2>11, <2>12
  <1> QED
    BY <1>1, <1>4, <1>5

LEMMA StartFirstInv ==
    ASSUME IInv, NEW e \in Events, StartFirst(e)
    PROVE  Core'
  <1> USE DEF IInv, Core
  <1> DEFINE w == event[e].worker
             p == event[e].pr
  <1>1. /\ w \in Workers /\ p \in PRs /\ event[e].backlog \in BOOLEAN
        /\ pc[e] = "received" /\ event[e].kind = "push" /\ event' = event
    BY EventFields DEF StartFirst, IsPush
  <1>2. active[w][p] = 0
    BY <1>1 DEF StartFirst, MaxActive, TypeOK
  <1>3. /\ Processing(w, p) = {} /\ Waiting(w, p) = {}
        /\ waiters[w][p] = <<>>
    BY <1>1, <1>2 DEF CounterMatchesTasks, CounterMatches
  <1>4. CASE event[e].fate = "run"
    <2>1. /\ BeginCommands(e) /\ waiters' = waiters
          /\ active' = [active EXCEPT ![w][p] = @ + 1]
      BY <1>4 DEF StartFirst
    <2>2. active' \in [Workers -> [PRs -> 0..2]] /\ active'[w][p] = 1
      BY <1>1, <1>2, <2>1 DEF TypeOK
    <2>3. TypeOK'
      BY <1>1, <2>1, <2>2, BeginCommandsType DEF StartFirst, TypeOK
    <2>4. pc' = [pc EXCEPT ![e] = "command"]
      BY <2>1 DEF BeginCommands
    <2>5. \A v \in Workers, q \in PRs : <<v, q>> # <<w, p>> =>
             /\ Processing(v, q)' = Processing(v, q)
             /\ Waiting(v, q)' = Waiting(v, q)
             /\ active'[v][q] = active[v][q]
      BY <1>1, <2>1, <2>4 DEF TypeOK, Processing, Waiting, Tasks
    <2>6. Processing(w, p)' = {e} /\ Waiting(w, p)' = {}
      BY <1>1, <1>3, <2>4 DEF TypeOK, Processing, Waiting, Tasks
    <2>7. CounterMatches(w, p)'
      BY <1>1, <1>3, <2>1, <2>2, <2>6 DEF CounterMatches
    <2>8. CounterMatchesTasks'
      BY <1>1, <2>1, <2>5, <2>7, OtherPairs
    <2> QED
      BY <2>3, <2>8
  <1>5. CASE event[e].fate = "skipped"
    <2>1. Release(e, active[w][p] + 1)
      BY <1>5 DEF StartFirst
    <2>2. /\ pc' = [x \in Events |-> IF x = e THEN "done" ELSE pc[x]]
          /\ waiters' = waiters
      BY <1>3, <2>1 DEF Release
    <2>3. /\ active' \in [Workers -> [PRs -> 0..2]]
          /\ \A v \in Workers, q \in PRs : active'[v][q] = active[v][q]
      BY <1>1, <1>2, <2>1 DEF Release, TypeOK
    <2>4. TypeOK'
      BY <1>1, <1>5, <2>2, <2>3 DEF StartFirst, TypeOK
    <2>5. \A v \in Workers, q \in PRs :
             /\ Processing(v, q)' = Processing(v, q)
             /\ Waiting(v, q)' = Waiting(v, q)
      BY <1>1, <2>2 DEF TypeOK, Processing, Waiting, Tasks
    <2> QED
      BY <2>2, <2>3, <2>4, <2>5 DEF CounterMatchesTasks, CounterMatches
  <1> QED
    BY <1>4, <1>5 DEF StartFirst

LEMMA WaitBehindInv ==
    ASSUME IInv, NEW e \in Events, WaitBehind(e)
    PROVE  Core'
  <1> USE DEF IInv, Core
  <1> DEFINE w == event[e].worker
             p == event[e].pr
  <1>1. /\ w \in Workers /\ p \in PRs
        /\ pc[e] = "received" /\ event[e].kind = "push" /\ event' = event
    BY EventFields DEF WaitBehind, IsPush
  <1>2. /\ active[w][p] = 1
        /\ active' = [active EXCEPT ![w][p] = @ + 1]
        /\ waiters' = [waiters EXCEPT ![w][p] = Append(@, e)]
        /\ pc' = [pc EXCEPT ![e] = "waiting"]
    BY DEF WaitBehind
  <1>3. PICK f \in Events : /\ Processing(w, p) = {f} /\ Waiting(w, p) = {}
                            /\ waiters[w][p] = <<>>
    BY <1>1, <1>2 DEF CounterMatchesTasks, CounterMatches
  <1>4. active' \in [Workers -> [PRs -> 0..2]] /\ active'[w][p] = 2
    BY <1>1, <1>2 DEF TypeOK
  <1>5. waiters' \in [Workers -> [PRs -> Seq(Events)]]
        /\ waiters'[w][p] = <<e>>
    BY <1>1, <1>2, <1>3 DEF TypeOK
  <1>6. owed' \in [Workers -> [PRs -> SUBSET Events]]
    <2>1. owed \in [Workers -> [PRs -> SUBSET Events]]
      BY DEF TypeOK
    <2>2. owed' = [owed EXCEPT ![w][p] = @ \cup {e}] \/ owed' = owed
      BY DEF WaitBehind, Owe
    <2> QED
      BY <1>1, <2>1, <2>2
  <1>7. TypeOK'
    BY <1>1, <1>2, <1>4, <1>5, <1>6 DEF TypeOK, WaitBehind
  <1>8. \A v \in Workers, q \in PRs : <<v, q>> # <<w, p>> =>
           /\ Processing(v, q)' = Processing(v, q)
           /\ Waiting(v, q)' = Waiting(v, q)
           /\ active'[v][q] = active[v][q]
           /\ waiters'[v][q] = waiters[v][q]
    <2> SUFFICES ASSUME NEW v \in Workers, NEW q \in PRs, <<v, q>> # <<w, p>>
                 PROVE  /\ Processing(v, q)' = Processing(v, q)
                        /\ Waiting(v, q)' = Waiting(v, q)
                        /\ active'[v][q] = active[v][q]
                        /\ waiters'[v][q] = waiters[v][q]
      OBVIOUS
    <2>1. \A x \in Events : event[x].worker = v /\ event[x].pr = q =>
             pc'[x] = pc[x]
      BY <1>2 DEF TypeOK
    <2>2. Processing(v, q)' = Processing(v, q) /\ Waiting(v, q)' = Waiting(v, q)
      BY <1>1, <2>1 DEF Processing, Waiting, Tasks
    <2>3. active'[v][q] = active[v][q] /\ waiters'[v][q] = waiters[v][q]
      BY <1>1, <1>2 DEF TypeOK
    <2> QED
      BY <2>2, <2>3
  <1>9. Processing(w, p)' = {f} /\ Waiting(w, p)' = {e}
    <2>1. \A x \in Events : pc'[x] = IF x = e THEN "waiting" ELSE pc[x]
      BY <1>2 DEF TypeOK
    <2>2. Processing(w, p)' = Processing(w, p)
      BY <1>1, <2>1 DEF Processing, Tasks
    <2>3. Waiting(w, p)' = Waiting(w, p) \cup {e}
      BY <1>1, <2>1 DEF Waiting, Tasks
    <2> QED
      BY <1>3, <2>2, <2>3
  <1>10. CounterMatches(w, p)'
    BY <1>1, <1>4, <1>5, <1>9 DEF CounterMatches
  <1>11. CounterMatchesTasks'
    BY <1>1, <1>8, <1>10, OtherPairs
  <1> QED
    BY <1>7, <1>11

LEMMA ResumeInv ==
    ASSUME IInv, NEW e \in Events, Resume(e)
    PROVE  Core'
  <1> USE DEF IInv, Core
  <1>1. pc[e] = "woken" /\ event' = event /\ IsPush(e)
    BY DEF Resume, OnlyPushesWait
  <1>2. CASE event[e].fate = "run"
    <2>1. /\ BeginCommands(e) /\ active' = active /\ waiters' = waiters
      BY <1>2 DEF Resume
    <2>2. TypeOK'
      BY <1>1, <2>1, BeginCommandsType DEF Resume, TypeOK
    <2>3. \A v \in Workers, q \in PRs :
             /\ Processing(v, q)' = Processing(v, q)
             /\ Waiting(v, q)' = Waiting(v, q)
      BY <1>1, <2>1 DEF TypeOK, BeginCommands, Processing, Waiting, Tasks
    <2> QED
      BY <2>1, <2>2, <2>3 DEF CounterMatchesTasks, CounterMatches
  <1>3. CASE event[e].fate = "skipped"
    <2>1. Release(e, active[event[e].worker][event[e].pr])
      BY <1>3 DEF Resume
    <2>2. /\ CounterMatchesTasks'
          /\ pc' \in [Events -> Suspended \cup Ended \cup {"unsent"}]
          /\ \A x \in Events : (pc'[x] = "unsent") <=> (pc[x] = "unsent")
          /\ active' \in [Workers -> [PRs -> 0..2]]
          /\ waiters' \in [Workers -> [PRs -> Seq(Events)]]
      BY <1>1, <2>1, ReleaseCounter
    <2>3. TypeOK'
      BY <1>1, <1>3, <2>2 DEF Resume, TypeOK
    <2> QED
      BY <2>2, <2>3
  <1> QED
    BY <1>2, <1>3 DEF Resume

LEMMA UpdateKeepsRange ==
    ASSUME NEW S, NEW T, NEW f \in [S -> T], NEW x \in S, NEW d \in T
    PROVE  [f EXCEPT ![x] = d] \in [S -> T]
  OBVIOUS

LEMMA EndCommandInv ==
    ASSUME IInv, NEW e \in Events, NEW ok \in BOOLEAN, EndCommand(e, ok)
    PROVE  Core'
  <1> USE DEF IInv, Core
  <1> DEFINE p == event[e].pr
  <1>1. /\ pc[e] = "command" /\ event' = event /\ p \in PRs
        /\ head' = head /\ owed' = owed /\ restarts' = restarts
    BY EventFields DEF EndCommand
  <1>2. published' \in [PRs -> Nat]
    BY <1>1 DEF EndCommand, TypeOK
  <1>3. CASE left[e] > 1
    <2>1. /\ pc' = pc /\ active' = active /\ waiters' = waiters
          /\ left' = [left EXCEPT ![e] = @ - 1]
      BY <1>3 DEF EndCommand
    <2>2. seen' \in [Events -> Nat]
      <3>1. PICK d \in KeptDiff(e) : seen' = [seen EXCEPT ![e] = d]
        BY <1>3 DEF EndCommand
      <3>2. d \in Nat
        BY <1>1, <3>1 DEF KeptDiff, NewDiff, TypeOK
      <3>3. seen \in [Events -> Nat]
        BY DEF TypeOK
      <3>4. [seen EXCEPT ![e] = d] \in [Events -> Nat]
        BY <3>2, <3>3, UpdateKeepsRange
      <3> QED
        BY <3>1, <3>4
    <2>3. left' \in [Events -> Nat]
      BY <1>3, <2>1 DEF TypeOK
    <2>4. TypeOK'
      BY <1>1, <1>2, <2>1, <2>2, <2>3 DEF TypeOK
    <2> QED
      BY <1>1, <2>1, <2>4
         DEF CounterMatchesTasks, CounterMatches, Processing, Waiting, Tasks
  <1>4. CASE left[e] = 1 /\ IsPush(e)
    <2>1. /\ Release(e, active[event[e].worker][p]) /\ seen' = seen
          /\ left' = [left EXCEPT ![e] = @ - 1]
      BY <1>4 DEF EndCommand
    <2>2. /\ CounterMatchesTasks'
          /\ pc' \in [Events -> Suspended \cup Ended \cup {"unsent"}]
          /\ \A x \in Events : (pc'[x] = "unsent") <=> (pc[x] = "unsent")
          /\ active' \in [Workers -> [PRs -> 0..2]]
          /\ waiters' \in [Workers -> [PRs -> Seq(Events)]]
      BY <1>1, <1>4, <2>1, ReleaseCounter
    <2>3. TypeOK'
      <3>1. left' \in [Events -> Nat]
        BY <1>4, <2>1 DEF TypeOK
      <3>2. \A x \in Events : (pc'[x] = "unsent") <=> (event'[x] = NoEvent)
        BY <1>1, <2>2 DEF TypeOK
      <3> QED
        BY <1>1, <1>2, <2>1, <2>2, <3>1, <3>2 DEF TypeOK
    <2> QED
      BY <2>2, <2>3
  <1>5. CASE left[e] = 1 /\ ~IsPush(e)
    <2>1. /\ pc' = [pc EXCEPT ![e] = "done"]
          /\ seen' = seen /\ active' = active /\ waiters' = waiters
          /\ left' = [left EXCEPT ![e] = @ - 1]
      BY <1>5 DEF EndCommand
    <2>2. TypeOK'
      BY <1>1, <1>2, <1>5, <2>1 DEF TypeOK
    <2>3. \A v \in Workers, q \in PRs :
             /\ Processing(v, q)' = Processing(v, q)
             /\ Waiting(v, q)' = Waiting(v, q)
      BY <1>1, <1>5, <2>1 DEF TypeOK, IsPush, Processing, Waiting, Tasks
    <2> QED
      BY <2>1, <2>2, <2>3 DEF CounterMatchesTasks, CounterMatches
  <1> QED
    BY <1>3, <1>4, <1>5 DEF EndCommand

LEMMA RestartInv ==
    ASSUME IInv, NEW w \in Workers, Restart(w)
    PROVE  Core'
  <1> USE DEF IInv, Core
  <1>1. TypeOK'
    BY EventFields DEF TypeOK, Restart
  <1>2. \A v \in Workers, q \in PRs : v # w =>
           /\ Processing(v, q)' = Processing(v, q)
           /\ Waiting(v, q)' = Waiting(v, q)
           /\ active'[v][q] = active[v][q]
           /\ waiters'[v][q] = waiters[v][q]
    BY DEF TypeOK, Restart, Processing, Waiting, Tasks
  <1>3. \A q \in PRs : /\ Processing(w, q)' = {} /\ Waiting(w, q)' = {}
                       /\ active'[w][q] = 0 /\ waiters'[w][q] = <<>>
    BY DEF TypeOK, Restart, Processing, Waiting, Tasks
  <1>4. CounterMatchesTasks'
    BY <1>2, <1>3 DEF CounterMatchesTasks, CounterMatches
  <1> QED
    BY <1>1, <1>4

LEMMA OnlyPushesWaitStep ==
    ASSUME IInv, [Next]_vars
    PROVE  OnlyPushesWait'
  <1> USE DEF IInv, Core, OnlyPushesWait, IsPush
  <1>1. ASSUME NEW e \in Events, NEW hook \in Webhook, Deliver(e, hook)
        PROVE  OnlyPushesWait'
    BY <1>1 DEF Deliver, TypeOK
  <1>2. ASSUME NEW e \in Events, EndWithoutCommands(e)
        PROVE  OnlyPushesWait'
    BY <1>2 DEF EndWithoutCommands, TypeOK
  <1>3. ASSUME NEW e \in Events, StartDirectly(e)
        PROVE  OnlyPushesWait'
    BY <1>3 DEF StartDirectly, BeginCommands, TypeOK
  <1>4. ASSUME NEW e \in Events, NEW n, Release(e, n), pc[e] # "unsent",
               event' = event, IsPush(e)
        PROVE  OnlyPushesWait'
    <2> DEFINE w == event[e].worker
               p == event[e].pr
               q == waiters[w][p]
    <2>1. w \in Workers /\ p \in PRs
      BY <1>4, EventFields
    <2>2. q # <<>> => \E f \in Waiting(w, p) : Head(q) = f
      <3>1. active[w][p] \in {0, 1, 2}
        BY <2>1 DEF TypeOK
      <3>2. CounterMatches(w, p)
        BY <2>1 DEF CounterMatchesTasks
      <3>3. q = <<>> \/ \E f \in Waiting(w, p) : q = <<f>>
        BY <3>1, <3>2 DEF CounterMatches
      <3> QED
        BY <3>3
    <2>3. q # <<>> => event[Head(q)].kind = "push"
      BY <2>2 DEF Waiting, Tasks
    <2> QED
      BY <1>4, <2>3 DEF Release, TypeOK
  <1>5. ASSUME NEW e \in Events, StartFirst(e)
        PROVE  OnlyPushesWait'
    BY <1>4, <1>5 DEF StartFirst, BeginCommands, TypeOK
  <1>6. ASSUME NEW e \in Events, WaitBehind(e)
        PROVE  OnlyPushesWait'
    BY <1>6 DEF WaitBehind, TypeOK
  <1>7. ASSUME NEW e \in Events, Discard(e)
        PROVE  OnlyPushesWait'
    BY <1>7 DEF Discard, TypeOK
  <1>8. ASSUME NEW e \in Events, Resume(e)
        PROVE  OnlyPushesWait'
    <2>1. pc[e] = "woken" /\ event' = event /\ IsPush(e)
      BY <1>8 DEF Resume
    <2>2. CASE BeginCommands(e)
      BY <2>1, <2>2 DEF BeginCommands, TypeOK
    <2>3. CASE Release(e, active[event[e].worker][event[e].pr])
      BY <1>4, <2>1, <2>3
    <2> QED
      BY <1>8, <2>2, <2>3 DEF Resume
  <1>9. ASSUME NEW e \in Events, NEW ok \in BOOLEAN, EndCommand(e, ok)
        PROVE  OnlyPushesWait'
    <2>1. pc[e] = "command" /\ event' = event
      BY <1>9 DEF EndCommand
    <2>2. CASE pc' = pc \/ pc' = [pc EXCEPT ![e] = "done"]
      BY <2>1, <2>2 DEF TypeOK
    <2>3. CASE Release(e, active[event[e].worker][event[e].pr]) /\ IsPush(e)
      BY <1>4, <2>1, <2>3
    <2> QED
      BY <1>9, <2>2, <2>3 DEF EndCommand
  <1>10. ASSUME NEW w \in Workers, Restart(w)
         PROVE  OnlyPushesWait'
    BY <1>10 DEF Restart, TypeOK
  <1>11. CASE UNCHANGED vars
    BY <1>11 DEF vars
  <1> QED
    BY <1>1, <1>2, <1>3, <1>5, <1>6, <1>7, <1>8, <1>9, <1>10, <1>11
       DEF Next, Handle, Idle

LEMMA IInvStep == IInv /\ [Next]_vars => IInv'
  <1> SUFFICES ASSUME IInv, [Next]_vars PROVE IInv'
    OBVIOUS
  <1>1. OnlyPushesWait'
    BY OnlyPushesWaitStep
  <1>2. ASSUME NEW e \in Events, NEW hook \in Webhook, Deliver(e, hook)
        PROVE  Core'
    BY <1>2, DeliverType, DeliverCounter DEF Core
  <1>3. ASSUME UNCHANGED vars
        PROVE  Core'
    <2>1. TypeOK'
      BY <1>3 DEF vars, IInv, Core, TypeOK
    <2>2. CounterMatchesTasks'
      BY <1>3 DEF vars, IInv, Core, CounterMatchesTasks, CounterMatches,
                  Processing, Waiting, Tasks
    <2> QED
      BY <2>1, <2>2 DEF Core
  <1>4. ASSUME NEW e \in Events, Handle(e)
        PROVE  Core'
    <2>1. CASE EndWithoutCommands(e) \/ StartDirectly(e) \/ StartFirst(e)
      BY <2>1, EndWithoutCommandsInv, StartDirectlyInv, StartFirstInv
    <2>2. CASE WaitBehind(e) \/ Discard(e) \/ Resume(e)
      BY <2>2, WaitBehindInv, DiscardInv, ResumeInv
    <2>3. CASE \E ok \in BOOLEAN : EndCommand(e, ok)
      BY <2>3, EndCommandInv
    <2> QED
      BY <1>4, <2>1, <2>2, <2>3 DEF Handle
  <1>5. ASSUME NEW w \in Workers, Restart(w)
        PROVE  Core'
    BY <1>5, RestartInv
  <1>6. ASSUME Idle
        PROVE  Core'
    BY <1>3, <1>6 DEF Idle
  <1>7. Core'
    BY <1>2, <1>3, <1>4, <1>5, <1>6 DEF Next
  <1> QED
    BY <1>1, <1>7 DEF IInv

LEMMA Invariance == Spec => []IInv
  <1> QED
    BY InitInv, IInvStep, PTL DEF Spec

-----------------------------------------------------------------------------
(* The theorems. *)

\* Every reachable state is well typed: in particular no counter of push
\* tasks ever exceeds 2 or goes below 0.
THEOREM TypeCorrect == Spec => []TypeOK
  <1>1. IInv => TypeOK
    BY DEF IInv, Core
  <1> QED
    BY <1>1, Invariance, PTL

\* The counter and the queue of the condition always describe the tasks of
\* the worker exactly (github_app.py:182-213).
THEOREM CounterExact == Spec => []CounterMatchesTasks
  <1>1. IInv => CounterMatchesTasks
    BY DEF IInv, Core
  <1> QED
    BY <1>1, Invariance, PTL

\* A worker processes at most one push task of a pull request at a time.
THEOREM OneProcessing == Spec => []OneProcessingPerWorker
  <1>1. IInv => OneProcessingPerWorker
    <2> SUFFICES ASSUME IInv, NEW w \in Workers, NEW p \in PRs,
                        NEW e \in Tasks(w, p, {"command"}),
                        NEW f \in Tasks(w, p, {"command"})
                 PROVE  e = f
      BY DEF OneProcessingPerWorker
    <2>1. e \in Processing(w, p) /\ f \in Processing(w, p)
      BY DEF Processing, Tasks
    <2>2. active[w][p] \in 0..2 /\ CounterMatches(w, p)
      BY DEF IInv, Core, TypeOK, CounterMatchesTasks
    <2> QED
      BY <2>1, <2>2 DEF CounterMatches
  <1> QED
    BY <1>1, Invariance, PTL

-----------------------------------------------------------------------------
(* A worker implements the safety part of Coalescer. *)

\* The running push tasks of w and p.
Running(w, p) == Tasks(w, p, {"command"})

\* A step that changes neither the running tasks nor what is owed is a
\* stuttering step of the abstract specification.
LEMMA Stutters ==
    ASSUME \A w \in Workers, p \in PRs : Running(w, p)' = Running(w, p),
           owed' = owed
    PROVE  UNCHANGED C!cvars
  <1>1. JobBusy' = JobBusy
    BY DEF JobBusy, Jobs, Running
  <1>2. JobPending' = JobPending
    BY DEF JobPending
  <1> QED
    BY <1>1, <1>2 DEF C!cvars

LEMMA JobParts ==
    ASSUME NEW w \in Workers, NEW p \in PRs
    PROVE  \A j \in Jobs : /\ j[1] \in Workers /\ j[2] \in PRs
                           /\ (j = <<w, p>>) <=> (j[1] = w /\ j[2] = p)
BY DEF Jobs

\* A step that makes the task e run and clears what is owed for its PR starts
\* a job.
LEMMA Starts ==
    ASSUME IInv, NEW e \in Events, IsPush(e),
           pc[e] \in {"received", "woken"}, BeginCommands(e), event' = event,
           Running(event[e].worker, event[e].pr) = {}
    PROVE  C!CNext
  <1> DEFINE w == event[e].worker
             p == event[e].pr
             k == <<w, p>>
  <1> USE DEF IInv, Core, IsPush
  <1>1. w \in Workers /\ p \in PRs /\ k \in Jobs
    BY EventFields DEF Jobs
  <1>2. pc' = [pc EXCEPT ![e] = "command"]
        /\ owed' = [owed EXCEPT ![w][p] = {}]
    BY DEF BeginCommands
  <1>3. \A v \in Workers, q \in PRs :
           /\ v = w /\ q = p => Running(v, q)' # {}
           /\ ~(v = w /\ q = p) => Running(v, q)' = Running(v, q)
    BY <1>1, <1>2 DEF TypeOK, Running, Tasks
  <1>4. ~JobBusy[k]
    BY <1>1 DEF JobBusy, Running
  <1>5. JobBusy' = [JobBusy EXCEPT ![k] = TRUE]
    <2>1. \A j \in Jobs :
             /\ j[1] = w /\ j[2] = p => Running(j[1], j[2])' # {}
             /\ ~(j[1] = w /\ j[2] = p) =>
                   Running(j[1], j[2])' = Running(j[1], j[2])
      BY <1>1, <1>3, JobParts
    <2>2. \A j \in Jobs : j = k <=> (j[1] = w /\ j[2] = p)
      BY <1>1, JobParts
    <2> QED
      BY <1>1, <2>1, <2>2 DEF JobBusy, Running
  <1>6. JobPending' = [JobPending EXCEPT ![k] = {}]
    <2>1. \A j \in Jobs : owed'[j[1]][j[2]] =
            IF j = k THEN {} ELSE owed[j[1]][j[2]]
      BY <1>1, <1>2, JobParts DEF TypeOK
    <2> QED
      BY <1>1, <2>1 DEF JobPending
  <1> QED
    BY <1>1, <1>4, <1>5, <1>6 DEF C!CNext, C!Start

\* A step that puts off or discards the push e submits a request, or does
\* nothing when e would not be processed anyway.
LEMMA Submits ==
    ASSUME IInv, NEW e \in Events, pc[e] # "unsent", owed' = Owe(e),
           \A w \in Workers, p \in PRs : Running(w, p)' = Running(w, p)
    PROVE  [C!CNext]_C!cvars
  <1> DEFINE w == event[e].worker
             p == event[e].pr
             k == <<w, p>>
  <1> USE DEF IInv, Core
  <1>1. w \in Workers /\ p \in PRs /\ k \in Jobs
    BY EventFields DEF Jobs
  <1>2. CASE event[e].fate # "run"
    BY <1>2, Stutters DEF Owe
  <1>3. CASE event[e].fate = "run"
    <2>1. JobBusy' = JobBusy
      BY DEF JobBusy, Jobs, Running
    <2>2. owed' = [owed EXCEPT ![w][p] = @ \cup {e}]
      BY <1>3 DEF Owe
    <2>3. JobPending' = [JobPending EXCEPT ![k] = @ \cup {e}]
      <3>1. \A j \in Jobs : owed'[j[1]][j[2]] =
              IF j = k THEN owed[w][p] \cup {e} ELSE owed[j[1]][j[2]]
        BY <1>1, <2>2, JobParts DEF TypeOK
      <3>2. JobPending[k] = owed[w][p]
        BY <1>1 DEF JobPending
      <3> QED
        BY <1>1, <3>1, <3>2 DEF JobPending
    <2> QED
      BY <1>1, <2>1, <2>3 DEF C!CNext, C!Submit
  <1> QED
    BY <1>2, <1>3

\* The finally block of a task that did not run ends no job; that of a task
\* that ran its last command finishes one.
LEMMA ReleaseRunning ==
    ASSUME IInv, NEW e \in Events, IsPush(e), pc[e] # "unsent",
           NEW n, Release(e, n), event' = event
    PROVE  \A w \in Workers, p \in PRs :
               Running(w, p)' = Running(w, p) \ {e}
  <1> DEFINE v == event[e].worker
             r == event[e].pr
             q == waiters[v][r]
  <1> USE DEF IInv, Core
  <1>1. v \in Workers /\ r \in PRs
    BY EventFields
  <1>2. q # <<>> => pc[Head(q)] = "waiting"
    <2>1. q # <<>> => \E f \in Waiting(v, r) : Head(q) = f
      BY <1>1 DEF CounterMatchesTasks, CounterMatches, TypeOK
    <2> QED
      BY <2>1 DEF Waiting, Tasks
  <1> QED
    BY <1>2 DEF Release, TypeOK, Running, Tasks

LEMMA CommandStep ==
    ASSUME IInv, NEW e \in Events, NEW ok \in BOOLEAN, EndCommand(e, ok)
    PROVE  [C!CNext]_C!cvars
  <1> DEFINE w == event[e].worker
             p == event[e].pr
             k == <<w, p>>
  <1> USE DEF IInv, Core
  <1>1. /\ pc[e] = "command" /\ event' = event /\ owed' = owed
        /\ w \in Workers /\ p \in PRs /\ k \in Jobs
    BY EventFields DEF EndCommand, Jobs
  <1>2. CASE pc' = pc
    BY <1>1, <1>2, Stutters DEF Running, Tasks
  <1>3. CASE pc' = [pc EXCEPT ![e] = "done"] /\ ~IsPush(e)
    <2>1. \A v \in Workers, q \in PRs : Running(v, q)' = Running(v, q)
      BY <1>1, <1>3 DEF TypeOK, Running, Tasks, IsPush
    <2> QED
      BY <1>1, <2>1, Stutters
  <1>4. CASE Release(e, active[w][p]) /\ IsPush(e)
    <2>1. \A v \in Workers, q \in PRs : Running(v, q)' = Running(v, q) \ {e}
      BY <1>1, <1>4, ReleaseRunning
    <2>2. e \in Running(w, p) /\ Running(w, p) \subseteq Processing(w, p)
      BY <1>1, <1>4 DEF Running, Processing, Tasks, IsPush
    <2>3. Processing(w, p) = {e}
      BY <1>1, <1>4, CountedTask
    <2>4. JobBusy[k] /\ Running(w, p)' = {}
      BY <1>1, <2>1, <2>2, <2>3 DEF JobBusy, Running
    <2>5. \A v \in Workers, q \in PRs :
             /\ v = w /\ q = p => Running(v, q)' = {}
             /\ ~(v = w /\ q = p) => Running(v, q)' = Running(v, q)
      BY <1>1, <2>1, <2>2, <2>3 DEF Running, Tasks
    <2>6. JobBusy' = [JobBusy EXCEPT ![k] = FALSE]
      <3>1. \A j \in Jobs :
               /\ j[1] = w /\ j[2] = p => Running(j[1], j[2])' = {}
               /\ ~(j[1] = w /\ j[2] = p) =>
                     Running(j[1], j[2])' = Running(j[1], j[2])
        BY <1>1, <2>5, JobParts
      <3>2. \A j \in Jobs : j = k <=> (j[1] = w /\ j[2] = p)
        BY <1>1, JobParts
      <3> QED
        BY <1>1, <3>1, <3>2 DEF JobBusy, Running
    <2>7. JobPending' = JobPending
      BY <1>1 DEF JobPending
    <2> QED
      BY <1>1, <2>4, <2>6, <2>7 DEF C!CNext, C!Finish
  <1> QED
    BY <1>2, <1>3, <1>4 DEF EndCommand

LEMMA RestartStep ==
    ASSUME IInv, NEW w \in Workers, Restart(w)
    PROVE  C!CNext
  <1> DEFINE K == {k \in Jobs : k[1] = w}
  <1> USE DEF IInv, Core
  <1>1. event' = event /\ owed' = [owed EXCEPT ![w] = [p \in PRs |-> {}]]
    BY DEF Restart
  <1>2. \A v \in Workers, q \in PRs :
           Running(v, q)' = IF v = w THEN {} ELSE Running(v, q)
    BY <1>1 DEF TypeOK, Restart, Running, Tasks
  <1>3. \A k \in Jobs : k[1] \in Workers /\ k[2] \in PRs
    BY DEF Jobs
  <1>4. JobBusy' = [k \in Jobs |-> IF k \in K THEN FALSE ELSE JobBusy[k]]
    BY <1>2, <1>3 DEF JobBusy, Running
  <1>5. JobPending' = [k \in Jobs |-> IF k \in K THEN {} ELSE JobPending[k]]
    BY <1>1, <1>3 DEF JobPending, TypeOK
  <1>6. K \in SUBSET Jobs
    OBVIOUS
  <1> QED
    BY <1>4, <1>5, <1>6 DEF C!CNext, C!Crash

LEMMA AbstractStep == IInv /\ [Next]_vars => [C!CNext]_C!cvars
  <1> SUFFICES ASSUME IInv, [Next]_vars PROVE [C!CNext]_C!cvars
    OBVIOUS
  <1> USE DEF IInv, Core
  <1>1. ASSUME NEW e \in Events, NEW hook \in Webhook, Deliver(e, hook)
        PROVE  [C!CNext]_C!cvars
    <2>1. \A w \in Workers, p \in PRs : Running(w, p)' = Running(w, p)
      BY <1>1 DEF Deliver, TypeOK, Running, Tasks
    <2> QED
      BY <1>1, <2>1, Stutters DEF Deliver
  <1>2. ASSUME NEW e \in Events, EndWithoutCommands(e)
        PROVE  [C!CNext]_C!cvars
    <2>1. \A w \in Workers, p \in PRs : Running(w, p)' = Running(w, p)
      BY <1>2 DEF EndWithoutCommands, TypeOK, Running, Tasks
    <2> QED
      BY <1>2, <2>1, Stutters DEF EndWithoutCommands
  <1>3. ASSUME NEW e \in Events, StartDirectly(e)
        PROVE  [C!CNext]_C!cvars
    <2>1. \A w \in Workers, p \in PRs : Running(w, p)' = Running(w, p)
      BY <1>3 DEF StartDirectly, BeginCommands, IsPush, TypeOK, Running, Tasks
    <2> QED
      BY <1>3, <2>1, Stutters DEF StartDirectly, BeginCommands
  <1>4. ASSUME NEW e \in Events, StartFirst(e)
        PROVE  [C!CNext]_C!cvars
    <2> DEFINE w == event[e].worker
               p == event[e].pr
    <2>1. /\ w \in Workers /\ p \in PRs /\ event[e].backlog \in BOOLEAN
          /\ pc[e] = "received" /\ IsPush(e) /\ event' = event
      BY <1>4, EventFields DEF StartFirst
    <2>2. active[w][p] = 0
      BY <1>4, <2>1 DEF StartFirst, MaxActive, TypeOK
    <2>3. Running(w, p) = {}
      BY <2>1, <2>2 DEF CounterMatchesTasks, CounterMatches, Processing,
                        Running, Tasks
    <2>4. CASE BeginCommands(e)
      BY <2>1, <2>3, <2>4, Starts
    <2>5. CASE Release(e, active[w][p] + 1) /\ owed' = owed
      <3>1. \A v \in Workers, q \in PRs :
               Running(v, q)' = Running(v, q) \ {e}
        BY <2>1, <2>5, ReleaseRunning
      <3>2. \A v \in Workers, q \in PRs : e \notin Running(v, q)
        BY <2>1 DEF Running, Tasks
      <3> QED
        BY <2>5, <3>1, <3>2, Stutters
    <2> QED
      BY <1>4, <2>4, <2>5 DEF StartFirst
  <1>5. ASSUME NEW e \in Events, WaitBehind(e) \/ Discard(e)
        PROVE  [C!CNext]_C!cvars
    <2>1. \A w \in Workers, p \in PRs : Running(w, p)' = Running(w, p)
      BY <1>5 DEF WaitBehind, Discard, TypeOK, Running, Tasks
    <2> QED
      BY <1>5, <2>1, Submits DEF WaitBehind, Discard
  <1>6. ASSUME NEW e \in Events, Resume(e)
        PROVE  [C!CNext]_C!cvars
    <2> DEFINE w == event[e].worker
               p == event[e].pr
    <2>1. pc[e] = "woken" /\ IsPush(e) /\ event' = event
      BY <1>6 DEF Resume, OnlyPushesWait
    <2>2. Processing(w, p) = {e}
      BY <2>1, CountedTask
    <2>3. Running(w, p) = {}
      BY <2>1, <2>2 DEF Processing, Running, Tasks
    <2>4. CASE BeginCommands(e)
      BY <2>1, <2>3, <2>4, Starts
    <2>5. CASE Release(e, active[w][p]) /\ owed' = owed
      <3>1. \A v \in Workers, q \in PRs :
               Running(v, q)' = Running(v, q) \ {e}
        BY <2>1, <2>5, ReleaseRunning
      <3>2. \A v \in Workers, q \in PRs : e \notin Running(v, q)
        BY <2>1 DEF Running, Tasks
      <3> QED
        BY <2>5, <3>1, <3>2, Stutters
    <2> QED
      BY <1>6, <2>4, <2>5 DEF Resume
  <1>7. CASE UNCHANGED vars
    BY <1>7, Stutters DEF vars, Running, Tasks
  <1> QED
    BY <1>1, <1>2, <1>3, <1>4, <1>5, <1>6, <1>7, CommandStep, RestartStep
       DEF Next, Handle, Idle

\* Whatever the filters and settings decide and whichever worker dies, each
\* worker behaves as a Coalescer: a processing starts only when no other one
\* of the same pull request runs, and takes up all that is owed.
THEOREM ImplementsCoalescer == Spec => CoalescesSafely
  <1>1. Init => C!CInit
    <2> SUFFICES ASSUME Init PROVE C!CInit
      OBVIOUS
    <2>1. JobBusy = [k \in Jobs |-> FALSE]
      BY DEF Init, JobBusy, Tasks, NoEvent
    <2>2. JobPending = [k \in Jobs |-> {}]
      BY DEF Init, JobPending, Jobs
    <2> QED
      BY <2>1, <2>2 DEF C!CInit
  <1> QED
    BY <1>1, AbstractStep, Invariance, PTL DEF Spec, CoalescesSafely, C!Safety
-----------------------------------------------------------------------------
(* Nothing discarded is left behind, and feedback never goes back. *)

\* One step keeps a delegate for every push that is owed a processing.
LEMMA DelegateStep ==
    ASSUME IInv, DelegateForEveryPush, [Next]_vars,
           Backlog \subseteq {TRUE}, "skipped" \notin Fates
    PROVE  DelegateForEveryPush'
  <1> DEFINE D(w, p) == Tasks(w, p, {"waiting", "woken"})
  <1> USE DEF IInv, Core
  <1> SUFFICES ASSUME NEW w \in Workers, NEW p \in PRs,
                      owed'[w][p] # {}
               PROVE  D(w, p)' # {}
    BY DEF DelegateForEveryPush
  <1>1. owed[w][p] # {} => D(w, p) # {}
    BY DEF DelegateForEveryPush
  <1>2. ASSUME NEW e \in Events, NEW hook \in Webhook, Deliver(e, hook)
        PROVE  D(w, p)' # {}
    BY <1>1, <1>2 DEF Deliver, TypeOK, Tasks
  <1>3. ASSUME NEW e \in Events, EndWithoutCommands(e)
        PROVE  D(w, p)' # {}
    BY <1>1, <1>3 DEF EndWithoutCommands, TypeOK, Tasks
  <1>4. ASSUME NEW e \in Events, StartDirectly(e)
        PROVE  D(w, p)' # {}
    BY <1>1, <1>4 DEF StartDirectly, BeginCommands, TypeOK, Tasks
  <1>5. ASSUME NEW e \in Events, BeginCommands(e), IsPush(e),
               pc[e] \in {"received", "woken"}, event' = event
        PROVE  D(w, p)' # {}
    <2>1. event[e].worker \in Workers /\ event[e].pr \in PRs
      BY <1>5, EventFields
    <2>2. ~(event[e].worker = w /\ event[e].pr = p)
      BY <1>5, <2>1 DEF BeginCommands, TypeOK
    <2>3. owed'[w][p] = owed[w][p]
      BY <1>5, <2>1, <2>2 DEF BeginCommands, TypeOK
    <2> QED
      BY <1>1, <1>5, <2>2, <2>3 DEF BeginCommands, TypeOK, Tasks
  <1>6. ASSUME NEW e \in Events, StartFirst(e) \/ Resume(e)
        PROVE  D(w, p)' # {}
    <2>1. pc[e] # "unsent" /\ IsPush(e) /\ event' = event
          /\ pc[e] \in {"received", "woken"}
      BY <1>6 DEF StartFirst, Resume, OnlyPushesWait
    <2>2. event[e].fate # "skipped"
      BY <2>1, EventFields
    <2>3. BeginCommands(e)
      BY <1>6, <2>2 DEF StartFirst, Resume
    <2> QED
      BY <1>5, <2>1, <2>3
  <1>7. ASSUME NEW e \in Events, WaitBehind(e)
        PROVE  D(w, p)' # {}
    <2>1. /\ event[e].worker \in Workers /\ event[e].pr \in PRs /\ IsPush(e)
          /\ event' = event /\ pc' = [pc EXCEPT ![e] = "waiting"]
      BY <1>7, EventFields DEF WaitBehind
    <2>2. CASE event[e].worker = w /\ event[e].pr = p
      <3>1. e \in D(w, p)'
        BY <2>1, <2>2 DEF Tasks, IsPush, TypeOK
      <3> QED
        BY <3>1
    <2>3. CASE ~(event[e].worker = w /\ event[e].pr = p)
      <3>1. owed'[w][p] = owed[w][p]
        BY <1>7, <2>1, <2>3 DEF WaitBehind, Owe, TypeOK
      <3> QED
        BY <1>1, <2>1, <2>3, <3>1 DEF Tasks, TypeOK
    <2> QED
      BY <2>2, <2>3
  <1>8. ASSUME NEW e \in Events, Discard(e)
        PROVE  D(w, p)' # {}
    <2>1. /\ event[e].worker \in Workers /\ event[e].pr \in PRs
          /\ pc[e] = "received"
          /\ event' = event /\ pc' = [pc EXCEPT ![e] = "discarded"]
          /\ event[e].backlog \in Backlog
      BY <1>8, EventFields DEF Discard, Webhook
    <2>2. D(w, p)' = D(w, p)
      BY <2>1 DEF Tasks, TypeOK
    <2>3. CASE event[e].worker = w /\ event[e].pr = p
      <3>1. active[w][p] = 2
        <4>1. event[e].backlog
          BY <2>1, Zenon
        <4>2. MaxActive(e) = 2
          BY <4>1 DEF MaxActive
        <4>3. active[w][p] \in 0..2 /\ active[w][p] >= MaxActive(e)
          BY <1>8, <2>3 DEF Discard, TypeOK
        <4> QED
          BY <4>2, <4>3
      <3>2. Waiting(w, p) # {}
        BY <3>1 DEF CounterMatchesTasks, CounterMatches
      <3>3. Waiting(w, p) \subseteq D(w, p)
        BY DEF Waiting, Tasks
      <3> QED
        BY <2>2, <3>2, <3>3
    <2>4. CASE ~(event[e].worker = w /\ event[e].pr = p)
      <3>1. owed'[w][p] = owed[w][p]
        BY <1>8, <2>1, <2>4 DEF Discard, Owe, TypeOK
      <3> QED
        BY <1>1, <2>2, <3>1
    <2> QED
      BY <2>3, <2>4
  <1>9. ASSUME NEW e \in Events, NEW ok \in BOOLEAN, EndCommand(e, ok)
        PROVE  D(w, p)' # {}
    <2>1. pc[e] = "command" /\ event' = event /\ owed' = owed
      BY <1>9 DEF EndCommand
    <2>2. PICK d \in Events : d \in D(w, p)
      BY <1>1, <2>1 DEF Tasks
    <2>3. d # e /\ pc[d] \in {"waiting", "woken"}
      BY <2>1, <2>2 DEF Tasks
    <2>4. pc'[d] \in {"waiting", "woken"}
      BY <1>9, <2>1, <2>3 DEF EndCommand, Release, TypeOK
    <2>5. d \in D(w, p)'
      BY <2>1, <2>2, <2>4 DEF Tasks
    <2> QED
      BY <2>5
  <1>10. ASSUME NEW v \in Workers, Restart(v)
         PROVE  D(w, p)' # {}
    <2>1. v # w
      BY <1>10 DEF Restart, TypeOK
    <2> QED
      BY <1>1, <1>10, <2>1 DEF Restart, TypeOK, Tasks
  <1>11. ASSUME UNCHANGED vars
         PROVE  D(w, p)' # {}
    BY <1>1, <1>11 DEF vars, Tasks
  <1> QED
    BY <1>2, <1>3, <1>4, <1>6, <1>7, <1>8, <1>9, <1>10, <1>11
       DEF Next, Handle, Idle

\* With the backlog, and when the filters that run after the wait reject no
\* push, every push that was put off or discarded has a delegate that is
\* still going to start a processing (github_app.py:176-181).
THEOREM EveryPushHasDelegate ==
    ASSUME Backlog \subseteq {TRUE}, "skipped" \notin Fates
    PROVE  Spec => []DelegateForEveryPush
  <1>1. Init => DelegateForEveryPush
    BY DEF Init, DelegateForEveryPush
  <1>2. IInv /\ DelegateForEveryPush /\ [Next]_vars => DelegateForEveryPush'
    BY DelegateStep
  <1> QED
    BY <1>1, <1>2, Invariance, PTL DEF Spec

\* The diff a running batch has kept is between what was published last and
\* the head of its pull request.
SeenInv ==
    /\ \A p \in PRs : published[p] <= head[p]
    /\ \A e \in Events : pc[e] = "command" =>
          /\ seen[e] # 0 => published[event[e].pr] <= seen[e]
          /\ seen[e] <= head[event[e].pr]

LEMMA SeenStep ==
    ASSUME IInv, SeenInv, [Next]_vars,
           Kinds \subseteq {"push"}, \A v, w \in Workers : v = w
    PROVE  SeenInv' /\ [\A p \in PRs : published'[p] >= published[p]]_published
  <1> USE DEF IInv, Core
  <1> DEFINE Kept == SeenInv'
                     /\ [\A p \in PRs : published'[p] >= published[p]]_published
  <1>1. ASSUME NEW e \in Events, NEW hook \in Webhook, Deliver(e, hook)
        PROVE  Kept
    <2>1. hook.pr \in PRs
      BY HookFields
    <2>2. \A p \in PRs : head'[p] \in Nat /\ head[p] <= head'[p]
      BY <1>1, <2>1 DEF Deliver, TypeOK
    <2>3. \A x \in Events : pc'[x] = "command" =>
             /\ pc[x] = "command" /\ event'[x] = event[x] /\ event[x].pr \in PRs
      BY <1>1, EventFields DEF Deliver, TypeOK
    <2> QED
      BY <1>1, <2>2, <2>3 DEF Deliver, SeenInv, TypeOK
  <1>2. ASSUME NEW e \in Events, pc[e] # "unsent", BeginCommands(e),
               UNCHANGED <<head, event, published>>
        PROVE  Kept
    <2>1. event[e].pr \in PRs
      BY <1>2, EventFields
    <2>2. PICK d \in {0, head[event[e].pr]} :
             /\ seen' = [seen EXCEPT ![e] = d]
             /\ pc' = [pc EXCEPT ![e] = "command"]
      BY <1>2 DEF BeginCommands, NewDiff
    <2>3. /\ seen'[e] # 0 => published[event[e].pr] <= seen'[e]
          /\ seen'[e] <= head[event[e].pr]
      BY <2>1, <2>2 DEF SeenInv, TypeOK
    <2>4. ASSUME NEW x \in Events, x # e
          PROVE  pc'[x] = pc[x] /\ seen'[x] = seen[x]
      BY <2>2, <2>4 DEF TypeOK
    <2>5. SeenInv'
      BY <1>2, <2>3, <2>4 DEF SeenInv
    <2> QED
      BY <1>2, <2>5
  <1>3. ASSUME UNCHANGED <<head, event, published, seen>>,
               \A x \in Events : pc'[x] = "command" => pc[x] = "command"
        PROVE  Kept
    BY <1>3 DEF SeenInv, TypeOK
  <1>4. ASSUME NEW e \in Events, NEW n, Release(e, n)
        PROVE  \A x \in Events : pc'[x] = "command" => pc[x] = "command"
    BY <1>4 DEF Release
  <1>5. ASSUME NEW e \in Events, NEW ok \in BOOLEAN, EndCommand(e, ok)
        PROVE  Kept
    <2> DEFINE w == event[e].worker
               p == event[e].pr
    <2>1. /\ pc[e] = "command" /\ event' = event /\ head' = head
          /\ w \in Workers /\ p \in PRs /\ IsPush(e)
      BY <1>5, EventFields DEF EndCommand, IsPush
    <2>2. \A x \in Events : pc[x] = "command" /\ event[x].pr = p => x = e
      <3> SUFFICES ASSUME NEW x \in Events, pc[x] = "command", event[x].pr = p
                   PROVE  x = e
        OBVIOUS
      <3>1. event[x].worker = w /\ event[x].kind = "push"
        BY <2>1, EventFields
      <3>2. x \in Processing(w, p)
        BY <3>1 DEF Processing, Tasks
      <3>3. Processing(w, p) = {e}
        BY <2>1, CountedTask
      <3> QED
        BY <3>2, <3>3
    <2>3. \A x \in Events : pc'[x] = "command" => pc[x] = "command"
      BY <1>5, <1>4, <2>1 DEF EndCommand, TypeOK
    <2>4. /\ seen[e] # 0 => published[p] <= seen[e]
          /\ seen[e] <= head[p] /\ published[p] <= head[p]
      BY <2>1 DEF SeenInv
    <2>5. /\ \A q \in PRs : q # p => published'[q] = published[q]
          /\ published'[p] \in {published[p], seen[e]}
          /\ seen[e] = 0 => published'[p] = published[p]
      BY <1>5, <2>1 DEF EndCommand, TypeOK
    <2>6. \A x \in Events : x # e => seen'[x] = seen[x]
      BY <1>5 DEF EndCommand, TypeOK
    <2>7. \/ seen'[e] = seen[e]
          \/ seen[e] = 0 /\ seen'[e] = head[p]
      BY <1>5 DEF EndCommand, KeptDiff, NewDiff, TypeOK
    <2>8. \A x \in Events : pc[x] = "command" => event[x].pr \in PRs
      BY EventFields
    <2>9. \A q \in PRs : /\ published[q] \in Nat /\ head[q] \in Nat
                         /\ published[q] <= published'[q]
                         /\ published'[q] <= head[q]
      <3>1. \A q \in PRs : /\ published[q] \in Nat /\ head[q] \in Nat
                           /\ published[q] <= head[q]
        BY DEF SeenInv, TypeOK
      <3>2. seen[e] \in Nat
        BY DEF TypeOK
      <3> QED
        BY <2>1, <2>4, <2>5, <3>1, <3>2
    <2>10. \A x \in Events : pc'[x] = "command" =>
              /\ seen'[x] # 0 => published'[event[x].pr] <= seen'[x]
              /\ seen'[x] <= head[event[x].pr]
      <3> SUFFICES ASSUME NEW x \in Events, pc'[x] = "command"
                   PROVE  /\ seen'[x] # 0 => published'[event[x].pr] <= seen'[x]
                          /\ seen'[x] <= head[event[x].pr]
        OBVIOUS
      <3>1. pc[x] = "command" /\ event[x].pr \in PRs
        BY <2>3, <2>8
      <3>2. CASE x = e
        <4>1. /\ published[p] \in Nat /\ head[p] \in Nat /\ seen[e] \in Nat
          BY <2>1 DEF TypeOK
        <4>2. /\ published'[p] \in {published[p], seen[e]}
              /\ seen[e] = 0 => published'[p] = published[p]
          BY <2>1, <2>5
        <4> QED
          BY <3>2, <4>1, <4>2, <2>4, <2>7
      <3>3. CASE x # e
        <4>1. event[x].pr # p /\ seen'[x] = seen[x]
          BY <3>1, <3>3, <2>2, <2>6
        <4>2. published'[event[x].pr] = published[event[x].pr]
          BY <3>1, <4>1, <2>5
        <4> QED
          BY <3>1, <4>1, <4>2 DEF SeenInv
      <3> QED
        BY <3>2, <3>3
    <2> QED
      BY <2>1, <2>9, <2>10 DEF SeenInv
  <1>6. ASSUME NEW e \in Events, StartFirst(e) \/ Resume(e)
        PROVE  Kept
    <2>1. CASE BeginCommands(e)
      BY <1>2, <1>6, <2>1 DEF StartFirst, Resume
    <2>2. CASE \E n : Release(e, n) /\ seen' = seen
      BY <1>3, <1>4, <1>6, <2>2 DEF StartFirst, Resume
    <2> QED
      BY <1>6, <2>1, <2>2 DEF StartFirst, Resume
  <1>7. ASSUME NEW e \in Events, StartDirectly(e)
        PROVE  Kept
    BY <1>2, <1>7 DEF StartDirectly
  <1>8. ASSUME NEW e \in Events,
               EndWithoutCommands(e) \/ WaitBehind(e) \/ Discard(e)
        PROVE  Kept
    BY <1>3, <1>8 DEF EndWithoutCommands, WaitBehind, Discard, TypeOK
  <1>9. ASSUME NEW w \in Workers, Restart(w)
        PROVE  Kept
    BY <1>3, <1>9 DEF Restart, TypeOK
  <1>10. ASSUME UNCHANGED vars
         PROVE  Kept
    BY <1>3, <1>10 DEF vars
  <1> QED
    BY <1>1, <1>5, <1>6, <1>7, <1>8, <1>9, <1>10 DEF Next, Handle, Idle

\* On a single worker that handles pushes only, the feedback published on a
\* pull request never goes back to an older head, although every command after
\* the first publishes about the diff the first one read.
THEOREM FeedbackMonotone ==
    ASSUME Kinds \subseteq {"push"}, \A v, w \in Workers : v = w
    PROVE  Spec => FeedbackNeverRegresses
  <1>1. Init => SeenInv
    BY DEF Init, SeenInv
  <1>2. IInv /\ SeenInv /\ [Next]_vars =>
           SeenInv' /\ [\A p \in PRs : published'[p] >= published[p]]_published
    BY SeenStep
  <1> QED
    BY <1>1, <1>2, Invariance, PTL DEF Spec, FeedbackNeverRegresses
=============================================================================
