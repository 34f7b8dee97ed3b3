------------------------------- MODULE Webhooks -------------------------------
(***************************************************************************)
(* What the servers do with the events of one pull request                 *)
(* (pr_agent/servers/*.py): which automatic commands an event starts,      *)
(* which comments are obeyed, and what becomes of the bot's own comments,  *)
(* which the host delivers as events too.  A server is one process that    *)
(* handles every delivery in a task of its own; deliveries may arrive in   *)
(* any order.  The coalescing of pushes is in GithubApp, the layers of the *)
(* settings in RequestSettings.                                            *)
(***************************************************************************)
EXTENDS Integers, FiniteSets

CONSTANTS
    Servers,      \* the servers considered
    NumCommands,  \* length of pr_commands and of push_commands
    MaxActs,      \* bound on the acts of users
    MaxReplies    \* bound on the comments of the bot that are delivered

ASSUME CommandsAssumption ==
    NumCommands \in Nat \ {0} /\ MaxActs \in Nat /\ MaxReplies \in Nat

ASSUME ServersAssumption ==
    Servers \subseteq {"github_app", "gitlab", "bitbucket", "bitbucket_server",
                       "azure", "gitea", "action"}

VARIABLES
    server,   \* the server that is installed
    known,    \* the account of the bot is recognised as one
    config,   \* the flags set in the configuration of the server
    file,     \* file[f]: what .pr_agent.toml says of flag f, if anything
    pr,       \* the pull request
    acts,     \* number of acts of users
    replies,  \* number of comments of the bot delivered
    events,   \* deliveries not handled yet
    handled,  \* the events handled, with the batch of commands each started
    tasks,    \* batches that run
    threads   \* what became of the threads of comments (Azure DevOps)

vars == <<server, known, config, file, pr, acts, replies, events, handled,
          tasks, threads>>

\* config.disable_auto_feedback, a filter that the title of the pull request
\* may match (config.ignore_pr_title), and handle_push_trigger.
Flags == {"quiet", "ignores", "push"}

\* How a comment begins: a slash and a command, the same after white space,
\* the bare name of a command, a quoted image ("> ![image]"), or anything else;
\* and whether it has "/ask".
Texts == [lead : {"slash", "space", "word", "image", "prose"}, ask : BOOLEAN]
Prose == [lead |-> "prose", ask |-> FALSE]

\* What may become of the thread of a command: the notice is put there, the
\* command answers, or raises; the thread is closed, or that is refused; the
\* removal of the notice is refused.
Fates == {"noticed", "answered", "raised", "closed", "unclosed", "unremoved"}

\* The setting before and after the repository's file is applied.
Configured(f) == f \in config
Effective(f) == IF file[f] = {} THEN f \in config ELSE file[f] = {TRUE}

\* What becomes of a comment depends on no flag: a bound on the cases.
Plain == config = {} /\ \A f \in Flags : file[f] = {}

Init ==
    /\ server \in Servers
    /\ known \in BOOLEAN
    /\ config \in SUBSET Flags
    /\ file \in [Flags -> {{}, {TRUE}, {FALSE}}]
    /\ Cardinality({f \in Flags : file[f] # {}}) < 2
    /\ known \/ Plain
    /\ pr = [opened |-> FALSE, draft |-> FALSE, marked |-> FALSE]
    /\ acts = 0
    /\ replies = 0
    /\ events = {}
    /\ handled = {}
    /\ tasks = {}
    /\ threads = [f \in Fates |-> {}]

-----------------------------------------------------------------------------
(* What users do, and the payload of its webhook.                          *)

Payload(kind, p, fresh) ==
    [id |-> <<"user", acts>>, kind |-> kind, draft |-> p.draft,
     marked |-> p.marked, fresh |-> fresh]

Act(kind, p, fresh) ==
    /\ acts < MaxActs
    /\ acts' = acts + 1
    /\ pr' = p
    /\ events' = events \cup {Payload(kind, p, fresh)}
    /\ UNCHANGED <<server, known, config, file, replies, handled, tasks, threads>>

Open == /\ ~pr.opened
        /\ \E d, i \in BOOLEAN :
              Act("opened", [opened |-> TRUE, draft |-> d, marked |-> i], TRUE)

\* Whether the last commit, by the same user, is less than fifteen seconds
\* old: only the server of Bitbucket asks.
Fresh == IF server = "bitbucket" THEN BOOLEAN ELSE {TRUE}

MarkReady == /\ pr.opened /\ pr.draft
             /\ \E fresh \in Fresh :
                   Act("ready", [pr EXCEPT !.draft = FALSE], fresh)

Push == pr.opened /\ \E fresh \in Fresh : Act("push", pr, fresh)

\* The title comes to match the filter or stops to, maybe right after a push.
Retitle == /\ pr.opened
           /\ \E fresh \in Fresh :
                 Act("retitled", [pr EXCEPT !.marked = ~@], fresh)

Comment(id, by, text, line) ==
    [id |-> id, kind |-> "comment", by |-> by, text |-> text, line |-> line]

\* A comment, while nothing else goes on (a bound on the interleavings).
Say ==
    /\ pr.opened /\ Plain /\ ~pr.draft /\ ~pr.marked
    /\ acts < MaxActs
    /\ events = {} /\ tasks = {} /\ replies = 0
    /\ acts' = acts + 1
    /\ \E t \in Texts, line \in BOOLEAN :
          events' = events \cup {Comment(<<"user", acts>>, "user", t, line)}
    /\ UNCHANGED <<server, known, config, file, pr, replies, handled, tasks, threads>>

-----------------------------------------------------------------------------
(* The automatic commands an event of the pull request starts: the name of *)
(* the list of commands, or none.                                          *)

Opens(e) == e.kind \in {"opened", "ready"}

\* should_process_pr_logic with the settings before, or after, the file.
Ignored(e) == e.marked /\ Configured("ignores")
IgnoredByFile(e) == e.marked /\ Effective("ignores")

GithubBatch(e) ==
    IF Ignored(e) \/ e.draft \/ IgnoredByFile(e) THEN {}
    ELSE IF Opens(e) /\ ~Effective("quiet") THEN {"pr_commands"}
    ELSE IF e.kind = "push" /\ Effective("push") THEN {"push_commands"} ELSE {}

\* Mutated form of GitlabBatch: a draft that gets ready is not looked at.
MutNotReady(e) ==
    IF Ignored(e) \/ e.draft \/ IgnoredByFile(e) THEN {}
    ELSE IF e.kind = "opened" /\ ~Effective("quiet") THEN {"pr_commands"}
    ELSE IF e.kind = "push" /\ Effective("push") THEN {"push_commands"} ELSE {}

GitlabBatch(e) ==
    IF Ignored(e) \/ e.draft \/ IgnoredByFile(e) THEN {}
    ELSE IF Opens(e) /\ ~Effective("quiet") THEN {"pr_commands"}
    ELSE IF e.kind = "push" /\ Effective("push") THEN {"push_commands"} ELSE {}

\* Only the event of the creation is filtered.
FilteredOnCreation(e) == e.kind = "opened" /\ (Ignored(e) \/ IgnoredByFile(e))

\* Any update may be a push: it is taken for one when the last commit is recent.
TakenForPush(e) == e.kind # "opened" /\ e.fresh

BitbucketBatch(e) ==
    IF FilteredOnCreation(e) THEN {}
    ELSE IF e.kind = "opened" /\ ~Effective("quiet") THEN {"pr_commands"}
    ELSE IF TakenForPush(e) /\ Effective("push") THEN {"push_commands"} ELSE {}

LeftAlone(e) == IgnoredByFile(e) \/ Effective("quiet")

\* A push starts nothing: pr:from_ref_updated is answered as an unsupported
\* event, and the branch for repo:refs_changed waits for a pull request in its
\* payload, where that event has none.
BitbucketServerBatch(e) ==
    IF LeftAlone(e) \/ e.kind # "opened" THEN {} ELSE {"pr_commands"}

AzureBatch(e) ==
    IF e.kind = "opened" /\ ~Effective("quiet") THEN {"pr_commands"} ELSE {}

\* Mutated form of GiteaBatch: filtered before the file is applied only.
MutFilteredOnce(e) ==
    IF Ignored(e) THEN {}
    ELSE IF e.kind = "opened" /\ ~Effective("quiet") THEN {"pr_commands"}
    ELSE IF e.kind = "push" /\ Configured("push") THEN {"push_commands"} ELSE {}

\* handle_push_trigger is read before the file is applied.
GiteaBatch(e) ==
    IF Ignored(e) \/ IgnoredByFile(e) THEN {}
    ELSE IF e.kind = "opened" /\ ~Effective("quiet") THEN {"pr_commands"}
    ELSE IF e.kind = "push" /\ Configured("push") THEN {"push_commands"} ELSE {}

\* The GitHub action runs its three tools and looks at no filter.
ActionBatch(e) == IF Opens(e) THEN {"pr_commands"} ELSE {}

Batch(e) ==
    CASE server = "github_app"       -> GithubBatch(e)
      [] server = "gitlab"           -> GitlabBatch(e)
      [] server = "bitbucket"        -> BitbucketBatch(e)
      [] server = "bitbucket_server" -> BitbucketServerBatch(e)
      [] server = "azure"            -> AzureBatch(e)
      [] server = "gitea"            -> GiteaBatch(e)
      [] server = "action"           -> ActionBatch(e)

-----------------------------------------------------------------------------
(* The command a comment starts, or none.                                  *)

\* PRAgent._handle_request: the first word without its slashes.
Parsed(t) ==
    IF t.lead \in {"image", "prose"} THEN {}
    ELSE IF t.ask /\ t.lead # "word" THEN {"ask"} ELSE {"review"}

\* A question on a line of the diff is rewritten to /ask_line.
OnLine(e) == IF e.line /\ e.text.ask THEN {"ask_line"} ELSE Parsed(e.text)

\* The bot's own comments are dropped where its account is recognised.
Dropped(e) == e.by = "bot" /\ known

\* Azure DevOps and Gitea require that the comment begins with a slash.
Slash(t) == t.lead = "slash"

\* handle_comments_on_pr moves the question of a quoted image to the front.
Reformatted(t) == IF t.lead = "image" /\ t.ask THEN [t EXCEPT !.lead = "slash"] ELSE t

GithubCommand(e) ==
    LET text == Reformatted(e.text)
    IN  IF Dropped(e) \/ text.lead \notin {"slash", "space"} THEN {}
        ELSE OnLine([e EXCEPT !.text = text])

GitlabCommand(e) == IF Dropped(e) THEN {} ELSE OnLine(e)
BitbucketCommand(e) == IF Dropped(e) THEN {} ELSE Parsed(e.text)
BitbucketServerCommand(e) == Parsed(e.text)
AzureCommand(e) == IF Slash(e.text) THEN OnLine(e) ELSE {}
GiteaCommand(e) == IF Slash(e.text) /\ ~e.line THEN Parsed(e.text) ELSE {}
ActionCommand(e) == OnLine(e)

Command(e) ==
    CASE server = "github_app"       -> GithubCommand(e)
      [] server = "gitlab"           -> GitlabCommand(e)
      [] server = "bitbucket"        -> BitbucketCommand(e)
      [] server = "bitbucket_server" -> BitbucketServerCommand(e)
      [] server = "azure"            -> AzureCommand(e)
      [] server = "gitea"            -> GiteaCommand(e)
      [] server = "action"           -> ActionCommand(e)

-----------------------------------------------------------------------------

Started(e) == IF e.kind = "comment" THEN Command(e) ELSE Batch(e)

\* Number of commands of a batch: a list of the settings, or one comment.
Size(batch) == IF batch \in {"pr_commands", "push_commands"}
               THEN NumCommands ELSE 1

\* The batch of event e: the command that runs, and the calls to close the
\* thread of a comment that follow it.
Task(e, b) == [event |-> e, batch |-> b, todo |-> Size(b), at |-> "command"]

\* A command on a thread: its notice "On it!" is put there, unless that fails.
OnThread(e) == server = "azure" /\ e.kind = "comment"

\* A delivery is handled up to the first command.
Deliver(e) ==
    /\ e \in events
    /\ events' = events \ {e}
    /\ handled' = handled \cup {[event |-> e, batch |-> Started(e)]}
    /\ tasks' = tasks \cup {Task(e, b) : b \in Started(e)}
    /\ \/ UNCHANGED threads
       \/ /\ OnThread(e) /\ Started(e) # {}
          /\ threads' = [threads EXCEPT !.noticed = @ \cup {e.id}]
    /\ UNCHANGED <<server, known, config, file, pr, acts, replies>>

\* Mutated form of Sanitized: the text of the model goes out as it is.
MutSanitized(t) == t

\* No line of an answer begins with a slash: a space is put before it.
Sanitized(t) == IF t.lead = "slash" THEN [t EXCEPT !.lead = "space"] ELSE t

\* What a command publishes: the tools' own comments begin with a header, the
\* answer to a question on a line is the text of the model, stripped.
Published(batch) ==
    IF batch = "ask_line"
    THEN {Sanitized(t) : t \in {u \in Texts : u.lead # "space"}}
    ELSE {Prose}

Publish(t, text) ==
    IF replies < MaxReplies
    THEN /\ replies' = replies + 1
         /\ events' = events \cup {Comment(<<"bot", replies>>, "bot", text,
                                           t.batch = "ask_line")}
    ELSE UNCHANGED <<replies, events>>

\* How a command ends: with a comment; with none though the agent takes it for
\* handled, because the tool caught its own exception, or a question was about
\* no line of the diff; or with an exception that reaches the agent.
Endings(t) ==
    CASE t.batch = "ask" -> {"answered", "raised"}
      [] OTHER           -> {"answered", "silent", "raised"}

\* What follows the command: the next one, or the calls that end its thread.
Rest(t, handled_) ==
    IF t.todo > 1 THEN {[t EXCEPT !.todo = @ - 1]}
    ELSE IF OnThread(t.event) /\ handled_ THEN {[t EXCEPT !.at = "status"]}
    ELSE {}

\* Mutated form of Follows: the thread is closed whatever the agent returns.
MutFollows(t, ending) == Rest(t, TRUE)

\* handle_request_comment goes on when the agent says that it has handled the
\* command, which is that no exception reached it.
Follows(t, ending) == Rest(t, ending # "raised")

Noted(t, ending) ==
    IF ~OnThread(t.event) THEN threads
    ELSE CASE ending = "answered" -> [threads EXCEPT !.answered = @ \cup {t.event.id}]
           [] ending = "raised"   -> [threads EXCEPT !.raised = @ \cup {t.event.id}]
           [] OTHER               -> threads

\* A command ends; the next one of the batch follows.
EndCommand(t) ==
    /\ t \in tasks /\ t.at = "command"
    /\ \E ending \in Endings(t) :
          /\ tasks' = (tasks \ {t}) \cup Follows(t, ending)
          /\ threads' = Noted(t, ending)
          /\ \/ /\ ending = "answered"
                /\ \E text \in Published(t.batch) : Publish(t, text)
             \/ ending # "answered" /\ UNCHANGED <<replies, events>>
    /\ UNCHANGED <<server, known, config, file, pr, acts, handled>>

\* Mutated form of AfterStatus: a refused call ends the handling.
MutAfterStatus(t, ok) == IF ok THEN {[t EXCEPT !.at = "notice"]} ELSE {}

\* A refused call is only logged: the notice is removed all the same.
AfterStatus(t, ok) == {[t EXCEPT !.at = "notice"]}

\* set_thread_status.
SetStatus(t) ==
    /\ t \in tasks /\ t.at = "status"
    /\ \E ok \in BOOLEAN :
          /\ tasks' = (tasks \ {t}) \cup AfterStatus(t, ok)
          /\ threads' = IF ok THEN [threads EXCEPT !.closed = @ \cup {t.event.id}]
                        ELSE [threads EXCEPT !.unclosed = @ \cup {t.event.id}]
    /\ UNCHANGED <<server, known, config, file, pr, acts, replies, events, handled>>

\* remove_initial_comment.
RemoveNotice(t) ==
    /\ t \in tasks /\ t.at = "notice"
    /\ \E ok \in BOOLEAN :
          threads' = IF ok THEN [threads EXCEPT !.noticed = @ \ {t.event.id}]
                     ELSE [threads EXCEPT !.unremoved = @ \cup {t.event.id}]
    /\ tasks' = tasks \ {t}
    /\ UNCHANGED <<server, known, config, file, pr, acts, replies, events, handled>>

\* What a batch that runs does next.
Step(t) == EndCommand(t) \/ SetStatus(t) \/ RemoveNotice(t)

Next ==
    \/ Open \/ MarkReady \/ Push \/ Retitle \/ Say
    \/ \E e \in events : Deliver(e)
    \/ \E t \in tasks : Step(t)

\* Deliveries arrive and commands end.
Fairness == /\ WF_vars(\E e \in events : Deliver(e))
            /\ WF_vars(\E t \in tasks : Step(t))

Spec == Init /\ [][Next]_vars /\ Fairness

-----------------------------------------------------------------------------

Batches == {"pr_commands", "push_commands", "ask", "ask_line", "review"}

TypeOK ==
    /\ server \in Servers
    /\ known \in BOOLEAN
    /\ config \subseteq Flags
    /\ file \in [Flags -> SUBSET BOOLEAN]
    /\ pr \in [opened : BOOLEAN, draft : BOOLEAN, marked : BOOLEAN]
    /\ acts \in 0..MaxActs
    /\ replies \in 0..MaxReplies
    /\ events \cap {h.event : h \in handled} = {}
    /\ \A h \in handled : h.batch \subseteq Batches /\ Cardinality(h.batch) < 2
    /\ \A t \in tasks : t.todo \in 1..Size(t.batch)

\* What the documentation promises for an event of the pull request: the
\* settings of the repository count, drafts wait, a pull request the filters
\* match is left alone, automatic feedback can be switched off for new pull
\* requests and for pushes (automations_and_usage.md:83-89, 109-115).
Promised(e) ==
    IF e.draft \/ IgnoredByFile(e) \/ Effective("quiet") THEN {}
    ELSE IF Opens(e) THEN {"pr_commands"}
    ELSE IF e.kind = "push" /\ Effective("push") THEN {"push_commands"} ELSE {}

\* Where a server starts nothing although it should: the filter of the server's
\* configuration cannot be lifted by the repository; three servers take no
\* notice of a draft that gets ready; Bitbucket recognises only pushes that are
\* recent; three servers know no push; Gitea takes the trigger of pushes from
\* the server's configuration.
Withheld(e) ==
    \/ server \in {"github_app", "gitlab", "bitbucket", "gitea"} /\ Ignored(e)
    \/ server \notin {"github_app", "gitlab", "action"} /\ e.kind = "ready"
    \/ server = "bitbucket" /\ e.kind = "push" /\ ~e.fresh
    \/ server \in {"bitbucket_server", "azure", "action"} /\ e.kind = "push"
    \/ server = "gitea" /\ e.kind = "push" /\ ~Configured("push")

\* Where it starts what it should not: drafts are nothing special outside
\* GitHub App and GitLab; disable_auto_feedback does not stop pushes, nor the
\* action; Bitbucket takes any update for a push and does not filter it; Azure
\* DevOps and the action know no filter.
Unasked(e) ==
    \/ server \notin {"github_app", "gitlab"} /\ e.draft
    \/ server \in {"github_app", "gitlab", "gitea"} /\ e.kind = "push" /\ Effective("quiet")
    \/ server = "bitbucket" /\ e.kind # "opened" /\ e.fresh
    \/ server \in {"azure", "action"} /\ e.marked
    \/ server = "action" /\ Effective("quiet")
    \/ server = "gitea" /\ e.kind = "push" /\ ~Effective("push")

\* Every event starts what is promised, no more and no less, outside the known
\* divergences, each in its own direction (servers/*.py: should_process_pr_logic,
\* is_draft, the handlers of pushes, before and after apply_repo_settings).
AsPromised ==
    \A h \in handled :
        h.event.kind # "comment" =>
            \/ h.batch = Promised(h.event)
            \/ h.batch = {} /\ Withheld(h.event)
            \/ h.batch # {} /\ Unasked(h.event)

\* No comment of the bot's is taken for a command, so that no command leads to
\* another: at most the answer to a question on a line is, by the servers that
\* accept a command after white space, without a slash, or "/ask" anywhere,
\* where the account of the bot is not recognised (pr_line_questions.py:90-93).
BotStartsNothing ==
    \A h \in handled :
        (h.event.kind = "comment" /\ h.event.by = "bot" /\ h.batch # {}) =>
            /\ h.event.line
            /\ \/ h.event.text.lead = "space" \/ h.event.text.ask
               \/ h.event.text.lead = "word" /\ server # "github_app"
            /\ server \in {"github_app", "gitlab", "action"}
            /\ known => server = "action"

\* A thread whose command failed with an exception that reached the agent stays
\* open; a thread with an answer ends closed, and without the notice, but for
\* the calls that were refused; and the notice is left under a command only
\* then (azuredevops_server_webhook.py:39-52).  A command whose tool caught its
\* own exception is the one case in which a thread is closed unanswered.
ThreadsTell ==
    /\ threads.closed \cap threads.raised = {}
    /\ tasks = {} =>
          /\ threads.answered \subseteq threads.closed \cup threads.unclosed
          /\ threads.noticed \subseteq threads.raised \cup threads.unremoved
    /\ \A h \in handled :
          /\ h.event.id \in threads.closed \ threads.answered => h.batch # {"ask"}
          /\ h.event.id \in threads.closed \cup threads.raised => h.batch # {}

\* Every event delivered is handled once, by one batch at most, whose thread
\* ends as its commands did.
HandledWhole == TypeOK /\ ThreadsTell

Greeted == \E h \in handled : "pr_commands" \in h.batch

Wanted == /\ ~Configured("ignores") /\ ~Effective("ignores")
          /\ ~Effective("quiet")

\* Every pull request that is not a draft, or ceases to be one, has its first
\* commands, in whatever order its events arrive.
ReadyGetsGreeted == (pr.opened /\ ~pr.draft /\ Wanted) ~> Greeted
=============================================================================
