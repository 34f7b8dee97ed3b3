------------------------------ MODULE GithubApp ------------------------------
(***************************************************************************)
(* The GitHub App webhook server (pr_agent/servers/github_app.py).         *)
(*                                                                         *)
(* A webhook is answered at once and handled by a background coroutine of  *)
(* the worker process that received it.  A coroutine runs without          *)
(* interruption between two suspension points, and the handlers suspend    *)
(* only in Condition.wait() and while a command of the agent awaits the    *)
(* model; one action below is one such uninterrupted stretch.              *)
(*                                                                         *)
(* Push events ("synchronize") of one pull request are coalesced by a      *)
(* counter and an asyncio Condition, both dictionaries of the worker       *)
(* process: one task is processed, at most one waits, the rest is          *)
(* discarded.  PR-opened events and comments take no part in that.         *)
(***************************************************************************)
EXTENDS Naturals, Sequences

CONSTANTS
    Events,      \* webhook deliveries (a finite supply)
    PRs,         \* pull requests, by api_url
    Workers,     \* worker processes of the server (gunicorn)
    Kinds,       \* kinds of webhook that arrive, a subset of AllKinds
    Fates,       \* how the handlers' filters judge a webhook
    Backlog,     \* values of push_trigger_pending_tasks_backlog met
    Commands,    \* number of commands each kind of webhook runs
    MaxHead,     \* bound: commits pushed to a pull request
    MaxRestarts  \* bound: worker processes killed

AllKinds == {"push", "opened", "comment"}

\* "run": processed; "filtered": an early return before the counter is read
\* (draft, closed, no handle_push_trigger, a merge commit ...); "skipped":
\* the filters applied after the counter is taken reject it (sender not
\* eligible, PR ignored by the repository's own settings, no commands).
AllFates == {"run", "filtered", "skipped"}

ASSUME KindsAssumption == Kinds \subseteq AllKinds
ASSUME FatesAssumption == Fates \subseteq AllFates
ASSUME BacklogAssumption == Backlog \subseteq BOOLEAN
ASSUME CommandsAssumption == Commands \in [AllKinds -> Nat \ {0}]
ASSUME BoundsAssumption == MaxHead \in Nat /\ MaxRestarts \in Nat

VARIABLES
    head,       \* head[p]: the newest head of p, counted from 1
    event,      \* event[e]: the webhook, or NoEvent while not sent
    pc,         \* pc[e]: where the coroutine handling e is suspended
    left,       \* left[e]: auto commands not finished
    seen,       \* seen[e]: head whose diff the context of the request holds,
                \* 0 while it holds none
    active,     \* _duplicate_push_triggers, per worker and PR
    waiters,    \* tasks in Condition.wait(), per worker and PR
    published,  \* published[p]: head the newest published feedback is about
    owed,       \* history: push events put off or discarded since the last
                \* processing of the PR started
    restarts

vars == <<head, event, pc, left, seen, active, waiters, published, owed,
          restarts>>

NoEvent == [kind |-> "none"]

Webhook == [kind : Kinds, pr : PRs, worker : Workers, fate : Fates,
            backlog : Backlog]

\* Places a coroutine is suspended at, or has ended in.
Suspended == {"received", "waiting", "woken", "command"}
Ended     == {"done", "discarded", "lost"}

Init ==
    /\ head = [p \in PRs |-> 1]
    /\ event = [e \in Events |-> NoEvent]
    /\ pc = [e \in Events |-> "unsent"]
    /\ left = [e \in Events |-> 0]
    /\ seen = [e \in Events |-> 0]
    /\ active = [w \in Workers |-> [p \in PRs |-> 0]]
    /\ waiters = [w \in Workers |-> [p \in PRs |-> <<>>]]
    /\ published = [p \in PRs |-> 0]
    /\ owed = [w \in Workers |-> [p \in PRs |-> {}]]
    /\ restarts = 0

-----------------------------------------------------------------------------

IsPush(e) == event[e].kind = "push"

\* Mutated forms of MaxActive: a third task admitted; the backlog ignored.
MutThirdTask(e) == IF event[e].backlog THEN 3 ELSE 1
MutNoBacklog(e) == 1

\* max_active_tasks: one task in process, and one waiting with the backlog.
MaxActive(e) == IF event[e].backlog THEN 2 ELSE 1

\* A push moves the head of the pull request; GitHub delivers its webhook to
\* one of the workers.  Opened and comment events leave the head alone.
Deliver(e, hook) ==
    /\ pc[e] = "unsent"
    /\ hook.kind = "push" => head[hook.pr] < MaxHead
    /\ head' = IF hook.kind = "push"
               THEN [head EXCEPT ![hook.pr] = @ + 1] ELSE head
    /\ event' = [event EXCEPT ![e] = hook]
    /\ pc' = [pc EXCEPT ![e] = "received"]
    /\ UNCHANGED <<left, seen, active, waiters, published, owed, restarts>>

\* get_diff_files reads the diff of the head, which the context of the request
\* keeps; nothing is kept when a call fails.
NewDiff(e) == {0, head[event[e].pr]}

\* The handler up to the first await of its first command.  The diff of the
\* PR is read there, so what was owed so far is covered by this processing.
BeginCommands(e) ==
    LET w == event[e].worker
        p == event[e].pr
    IN  /\ pc' = [pc EXCEPT ![e] = "command"]
        /\ left' = [left EXCEPT ![e] = Commands[event[e].kind]]
        /\ \E d \in NewDiff(e) : seen' = [seen EXCEPT ![e] = d]
        /\ owed' = IF IsPush(e) THEN [owed EXCEPT ![w][p] = {}] ELSE owed

\* Mutated forms of Release: the decrement, or the notify, is missing.
MutNoDecrement(e, n) ==
    LET w == event[e].worker
        p == event[e].pr
        q == waiters[w][p]
    IN  /\ pc' = [x \in Events |->
                    IF x = e THEN "done"
                    ELSE IF q # <<>> /\ x = Head(q) THEN "woken"
                    ELSE pc[x]]
        /\ waiters' = IF q = <<>> THEN waiters
                      ELSE [waiters EXCEPT ![w][p] = Tail(q)]
        /\ active' = [active EXCEPT ![w][p] = n]
MutNoNotify(e, n) ==
    /\ pc' = [pc EXCEPT ![e] = "done"]
    /\ active' = [active EXCEPT ![event[e].worker][event[e].pr] = n - 1]
    /\ UNCHANGED waiters

\* The finally block: notify(1) and the decrement, in one uninterrupted
\* stretch.  n is the counter's value before the decrement.
Release(e, n) ==
    LET w == event[e].worker
        p == event[e].pr
        q == waiters[w][p]
    IN  /\ pc' = [x \in Events |->
                    IF x = e THEN "done"
                    ELSE IF q # <<>> /\ x = Head(q) THEN "woken"
                    ELSE pc[x]]
        /\ waiters' = IF q = <<>> THEN waiters
                      ELSE [waiters EXCEPT ![w][p] = Tail(q)]
        /\ active' = [active EXCEPT ![w][p] = n - 1]

\* An early return of the push handler, and every path of the opened and
\* comment handlers that runs no command.
EndWithoutCommands(e) ==
    /\ pc[e] = "received"
    /\ \/ event[e].fate = "filtered"
       \/ ~IsPush(e) /\ event[e].fate = "skipped"
    /\ pc' = [pc EXCEPT ![e] = "done"]
    /\ UNCHANGED <<head, event, left, seen, active, waiters, published, owed,
                   restarts>>

\* handle_new_pr_opened and handle_comments_on_pr start their commands
\* whatever else the worker is doing on the PR.
StartDirectly(e) ==
    /\ pc[e] = "received"
    /\ ~IsPush(e)
    /\ event[e].fate = "run"
    /\ BeginCommands(e)
    /\ UNCHANGED <<head, event, active, waiters, published, restarts>>

\* A push that is admitted and does not wait: counted, and processed.
StartFirst(e) ==
    LET w == event[e].worker
        p == event[e].pr
    IN  /\ pc[e] = "received"
        /\ IsPush(e)
        /\ event[e].fate # "filtered"
        /\ active[w][p] < MaxActive(e)
        /\ active[w][p] # 1
        /\ \/ /\ event[e].fate = "run"
              /\ BeginCommands(e)
              /\ active' = [active EXCEPT ![w][p] = @ + 1]
              /\ UNCHANGED waiters
           \/ /\ event[e].fate = "skipped"
              /\ Release(e, active[w][p] + 1)
              /\ UNCHANGED <<left, seen, owed>>
        /\ UNCHANGED <<head, event, published, restarts>>

\* A push that runs on its own is owed a processing that reads it.
Owe(e) ==
    IF event[e].fate = "run"
    THEN [owed EXCEPT ![event[e].worker][event[e].pr] = @ \cup {e}]
    ELSE owed

\* A push while one task is active, with the backlog: it waits.
WaitBehind(e) ==
    LET w == event[e].worker
        p == event[e].pr
    IN  /\ pc[e] = "received"
        /\ IsPush(e)
        /\ event[e].fate # "filtered"
        /\ active[w][p] = 1
        /\ active[w][p] < MaxActive(e)
        /\ active' = [active EXCEPT ![w][p] = @ + 1]
        /\ waiters' = [waiters EXCEPT ![w][p] = Append(@, e)]
        /\ pc' = [pc EXCEPT ![e] = "waiting"]
        /\ owed' = Owe(e)
        /\ UNCHANGED <<head, event, left, seen, published, restarts>>

\* Any further push is discarded.
Discard(e) ==
    LET w == event[e].worker
        p == event[e].pr
    IN  /\ pc[e] = "received"
        /\ IsPush(e)
        /\ event[e].fate # "filtered"
        /\ active[w][p] >= MaxActive(e)
        /\ pc' = [pc EXCEPT ![e] = "discarded"]
        /\ owed' = Owe(e)
        /\ UNCHANGED <<head, event, left, seen, active, waiters, published,
                       restarts>>

\* The woken task resumes after wait() and goes on with the flow.
Resume(e) ==
    /\ pc[e] = "woken"
    /\ \/ /\ event[e].fate = "run"
          /\ BeginCommands(e)
          /\ UNCHANGED <<active, waiters>>
       \/ /\ event[e].fate = "skipped"
          /\ Release(e, active[event[e].worker][event[e].pr])
          /\ UNCHANGED <<left, seen, owed>>
    /\ UNCHANGED <<head, event, published, restarts>>

\* get_diff_files in a later command of the batch: the diff that the context
\* holds, whatever was pushed since.
KeptDiff(e) == IF seen[e] # 0 THEN {seen[e]} ELSE NewDiff(e)

\* A command returns.  It published about the diff it was given, or failed:
\* PRAgent's handle_request turns every exception into a return value.  The
\* next command builds a new provider, but finds the first one's diff.
EndCommand(e, ok) ==
    LET p == event[e].pr
    IN  /\ pc[e] = "command"
        /\ ok => seen[e] # 0
        /\ published' = IF ok THEN [published EXCEPT ![p] = seen[e]]
                        ELSE published
        /\ left' = [left EXCEPT ![e] = @ - 1]
        /\ \/ /\ left[e] > 1
              /\ \E d \in KeptDiff(e) : seen' = [seen EXCEPT ![e] = d]
              /\ UNCHANGED <<pc, active, waiters>>
           \/ /\ left[e] = 1
              /\ IsPush(e)
              /\ Release(e, active[event[e].worker][p])
              /\ UNCHANGED seen
           \/ /\ left[e] = 1
              /\ ~IsPush(e)
              /\ pc' = [pc EXCEPT ![e] = "done"]
              /\ UNCHANGED <<seen, active, waiters>>
        /\ UNCHANGED <<head, event, owed, restarts>>

\* A worker is killed: its coroutines and its two dictionaries are gone.
Restart(w) ==
    /\ restarts < MaxRestarts
    /\ restarts' = restarts + 1
    /\ pc' = [e \in Events |->
                IF pc[e] \in Suspended /\ event[e].worker = w
                THEN "lost" ELSE pc[e]]
    /\ active' = [active EXCEPT ![w] = [p \in PRs |-> 0]]
    /\ waiters' = [waiters EXCEPT ![w] = [p \in PRs |-> <<>>]]
    /\ owed' = [owed EXCEPT ![w] = [p \in PRs |-> {}]]
    /\ UNCHANGED <<head, event, left, seen, published>>

\* Every webhook has been handled: the server idles.
Idle ==
    /\ \A e \in Events : pc[e] \in Ended \cup {"unsent"}
    /\ UNCHANGED vars

\* The steps of the coroutine that handles e.
Handle(e) ==
    \/ EndWithoutCommands(e)
    \/ StartDirectly(e)
    \/ StartFirst(e)
    \/ WaitBehind(e)
    \/ Discard(e)
    \/ Resume(e)
    \/ \E ok \in BOOLEAN : EndCommand(e, ok)

Next ==
    \/ \E e \in Events, hook \in Webhook : Deliver(e, hook)
    \/ \E e \in Events : Handle(e)
    \/ \E w \in Workers : Restart(w)
    \/ Idle

\* The event loop runs every ready coroutine, and a command ends: its calls
\* of the model and of the provider's API have timeouts.
Fairness == \A e \in Events : WF_vars(Handle(e))

Spec == Init /\ [][Next]_vars /\ Fairness

-----------------------------------------------------------------------------

TypeOK ==
    /\ head \in [PRs -> Nat]
    /\ event \in [Events -> Webhook \cup {NoEvent}]
    /\ pc \in [Events -> Suspended \cup Ended \cup {"unsent"}]
    /\ left \in [Events -> Nat]
    /\ seen \in [Events -> Nat]
    /\ active \in [Workers -> [PRs -> 0..2]]
    /\ waiters \in [Workers -> [PRs -> Seq(Events)]]
    /\ published \in [PRs -> Nat]
    /\ owed \in [Workers -> [PRs -> SUBSET Events]]
    /\ restarts \in Nat
    /\ \A e \in Events : (pc[e] = "unsent") <=> (event[e] = NoEvent)

\* The push tasks of p on worker w that are at one of the given places.
Tasks(w, p, places) ==
    {e \in Events : /\ pc[e] \in places
                    /\ event[e].kind = "push"
                    /\ event[e].worker = w
                    /\ event[e].pr = p}

Processing(w, p) == Tasks(w, p, {"woken", "command"})
Waiting(w, p)    == Tasks(w, p, {"waiting"})

\* The counter of a worker counts its tasks: 0 means none, 1 one that is
\* processed (or woken to be), 2 one that is processed and one that waits in
\* the condition's queue.  The counter and the queue are two dictionaries
\* that several coroutines update; a waiter the queue does not hold would
\* never be woken, and a counter too high would discard every later push.
CounterMatches(w, p) ==
    /\ active[w][p] = 0 => /\ Processing(w, p) = {}
                           /\ Waiting(w, p) = {}
                           /\ waiters[w][p] = <<>>
    /\ active[w][p] = 1 => /\ \E e \in Events : Processing(w, p) = {e}
                           /\ Waiting(w, p) = {}
                           /\ waiters[w][p] = <<>>
    /\ active[w][p] = 2 => \E e, f \in Events :
                              /\ Processing(w, p) = {e}
                              /\ Waiting(w, p) = {f}
                              /\ waiters[w][p] = <<f>>

CounterMatchesTasks == \A w \in Workers, p \in PRs : CounterMatches(w, p)

\* A worker never processes two push tasks of one pull request at a time
\* (github_app.py:176-181).
OneProcessingPerWorker ==
    \A w \in Workers, p \in PRs :
        \A e, f \in Tasks(w, p, {"command"}) : e = f

\* "One waiting as a delegate to trigger the processing for the new commits"
\* (github_app.py:178-181): as long as a push that was put off or discarded
\* has not been covered by a processing started after it, some task is still
\* going to start one.
DelegateForEveryPush ==
    \A w \in Workers, p \in PRs :
        owed[w][p] # {} => Tasks(w, p, {"waiting", "woken"}) # {}

\* The feedback on a pull request never goes back to an older head.  A batch
\* goes on publishing about the diff its first command read while commits
\* arrive; of two push tasks the one that starts later has the newer diff and
\* must publish last (github_app.py:176-181).
FeedbackNeverRegresses ==
    [][\A p \in PRs : published'[p] >= published[p]]_published

\* Every handler ends: no coroutine waits for a notify that never comes.
EveryHandlerEnds ==
    \A e \in Events : pc[e] \in Suspended ~> pc[e] \in Ended

-----------------------------------------------------------------------------

\* The worker processes coalesce the pushes of each pull request: a job is a
\* push task that runs its commands, a request a push put off or discarded.
Jobs == Workers \X PRs
JobBusy == [k \in Jobs |-> Tasks(k[1], k[2], {"command"}) # {}]
JobPending == [k \in Jobs |-> owed[k[1]][k[2]]]

C == INSTANCE Coalescer WITH Keys <- Jobs, Requests <- Events,
                             busy <- JobBusy, pending <- JobPending

\* With the backlog, and as long as the filters agree on all the pushes of a
\* pull request, a worker is a coalescer: nothing it discards is left behind.
Coalesces == C!CSpec

\* Whatever the filters decide and whichever worker dies, its safety part
\* holds: no job starts while another one runs.
CoalescesSafely == C!Safety
=============================================================================
