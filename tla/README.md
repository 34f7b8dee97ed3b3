# co-review: verification project

TLA+ specifications of co-review (a fork of PR-Agent with a dashboard and a
configuration database), checked with TLC on small instances, and theorems
about them checked with TLAPS. The reference is the source under `src/`; paths
below are relative to `src/pr-agent/pr_agent/` unless they start with `docs/`
or `dashboard/`. `PROJECT.json` lists the runs, the mutants that every checked
property is able to detect, the lines every definition models, the hazards of
the code and where a property covers them, and the disagreements found.

## 1. The system

A git host (GitHub, GitLab, Bitbucket, Azure DevOps, Gitea) delivers webhooks
to a server of ours; the server reads the repository's settings file, decides
which commands to run, and runs them through one agent. A command fetches the
diff, fits it into prompts, calls a model, and publishes comments and labels.
Administrators configure credentials, the default model and the automation in
a dashboard, which calls a configuration API over PostgreSQL; the servers read
that database when they start.

| component | state it keeps | operations | interacts with | what is hard |
|---|---|---|---|---|
| GitHub App server (`servers/github_app.py`, `servers/gunicorn_config.py`) | per process: a counter of active push tasks and a condition per pull request | deliver, start, wait, discard, wake, run commands, release | agent; several worker processes that share nothing | coroutines interleave at every await; workers are killed; filters are evaluated before and after the wait |
| expiring dictionaries (`servers/utils.py`) | values, key times, time of the last refresh | get, set, setdefault, delete, refresh | holds the counters and the conditions above | entries dropped by age under a task that uses them |
| settings of a request (`config_loader.py`, `git_providers/utils.py`, `agent/pr_agent.py`) | global settings, the request's copy, the cached repository file | apply the file, apply arguments, run a command | every server, every tool | layers applied in different orders by different callers; a shared global; edits of the file during a request |
| other webhook servers and the action (`servers/*.py`) | the threads of Azure DevOps | opened, ready, push, comment | settings, agent, the comments of the bot | filters before or after the repository's file; drafts; the bot's own comments come back as events |
| schema migrations (`db/migrations_runner.py`, `db/migrations/`, `db/database.py`) | tables, columns, recorded revision | inspect, create_all, stamp, upgrade | every service that boots | boots race; a boot may be killed between two transactions |
| database configuration (`secret_providers/postgres_provider.py`) | time of the last refresh, a lock; the process's settings | load at import, refresh after a time to live, invalidate | database, settings | threads overlap with each other, with the clock and with changes |
| configuration API (`servers/api.py`, `db/models.py`) | rows: git providers, LLM providers, configurations | create, update, patch, delete; token limits | database, dashboard | check and write in separate statements of overlapping transactions |
| GitHub polling (`servers/github_polling.py`) | handled ids, Last-Modified, a queue | poll, mark read, validate, queue, start processes | notifications of GitHub | what is lost or repeated when comments arrive during a poll |
| diff compression (`algo/pr_processing.py`, `algo/language_handler.py`) | the prompts under construction, the lists of files left out | extended diff, compressed diff, several diffs | provider clients, tools | boundaries of the token limit; what happens to files that do not fit |
| fallback models and AI handlers (`algo/pr_processing.py`, `algo/ai_handlers/`) | the deployment in the settings | try pairs of model and deployment, retry a call, calls in parallel | diff compression, tools | a side effect of one prediction read back by the next; calls of an abandoned attempt |
| patches and hunks (`algo/git_patch_processing.py`, `algo/utils.py`) | none | extend, prune, number, find lines | diff compression, suggestions, questions on lines | boundaries of files and of hunks |
| provider clients (`git_providers/`) | what was read of the pull request; the context of the request | read commits, files, diff; publish, edit, remove | git host, every tool | commits pushed between two calls; a cache that outlives a command; hosts that differ |
| suggestions (`tools/pr_code_suggestions.py`, the clients) | the list under publication | reflect, select, publish, verify, fix, retry | model, git host | refused comments, calls whose effect is not heard of, retries |
| comments of the tools (`git_providers/git_provider.py`, `tools/`) | the comments, labels and description of a pull request | publish, edit, prune history, remove | git host, users | partial failures, concurrent runs, read-modify-write |
| other tools, dashboard, command line, webhook registry | none of interest here | | | input and output |

What makes each component correct, beyond the type of its state:

* **coalescing of pushes**: the counter says exactly which tasks exist, a
  discarded push is covered by a processing that starts after it, no task waits
  for ever, published feedback does not go back to an older head;
* **expiring dictionaries**: what is in use is not dropped;
* **settings**: no request sees another's, one file per request, the more
  specific layer wins, the flag that disables feedback does so;
* **servers**: an event starts what the documentation promises, a draft gets its
  commands when it is ready, the bot never answers itself;
* **migrations**: the recorded revision never runs ahead of the schema, a
  database gets to head and stays there, nothing an administrator chose is lost;
* **database configuration**: bounded staleness, no return to older rows, an
  invalidation is obeyed;
* **configuration API**: one default, the one chosen last;
* **polling**: every mention handled once;
* **diff compression**: every prompt is within the limit of its model and every
  file is in one of them or listed; **fallback models**: every model with its
  own deployment and its own prompts; **hunks**: numbers and lines agree with
  the two versions of the file;
* **provider clients**: a command reads one version of the pull request, not
  older than its request; an incremental review passes over reviewed commits only;
* **suggestions**: each is placed once, with its own score;
* **comments**: one persistent comment, a bounded history in order, no temporary
  comment left, the users' labels and texts survive.

## 2. Modules

| module | models | state and actions |
|---|---|---|
| `Coalescer` | what coalescing promises, abstractly | per key: a job runs or not, requests not taken up; submit, start, finish, crash |
| `GithubApp` | `servers/github_app.py` under gunicorn | `active` is `_duplicate_push_triggers`, `waiters` the queues of the conditions, `pc`/`left` where a handler is suspended and how many commands it has left; one action per stretch of code between two suspension points. `seen` is the head whose diff the context of the batch holds; `head`, `published`, `owed` are history |
| `TimeoutDict` | `DefaultDictWithTimeout` as operators | get, set, setdefault, refresh |
| `PushDictionaries` | the coalescing over two such dictionaries, with a clock | `counters`, `conditions` and the condition objects `queue` |
| `RequestSettings` | layers of settings over every server | `server`, `settings` per scope (the global object and each request's copy), `cached` (the repository's file as the request read it), `ran` (what each command ran with); receive, admit, start, next and last command, edit |
| `Webhooks` | the handlers of seven servers (GitHub App, GitLab, Bitbucket, Bitbucket Server, Azure DevOps, Gitea, the action) | `events` delivered in any order, `handled` with the batch each started, `tasks` under way and the calls that end a thread, `threads` of Azure DevOps by what became of them; the users open, mark ready, push and comment, the bot's comments are delivered too |
| `Migrations` | `run_migrations` and the API's `create_all` | `db` (schema, revision, where the flag is), per process `pc`, `saw`, open transactions |
| `ConfigRefresh` | `ensure_postgres_config_loaded` called by several threads | `last` is `_last_refresh_at`, which each test reads twice, `holder` the lock, `applied` the version of each part; `missed`, `asked`, `floor` are history |
| `LlmProviders` | LLM provider endpoints as READ COMMITTED transactions | `rows`, per thread the request and what it read; `wanted`, `overlap` and `clean` are history |
| `Polling` | `polling_loop` and `is_valid_notification` | `batch`, `handled`, `queue` of the loop; `comments`, `unread`, `modified` at GitHub; `started` (the processes, each with the comment that was its occasion) and `missed` are history |
| `PullRequest` | a pull request at its host, and the calls that read and write it | `pr` (comments, labels, description), `run[r]` where a run of a tool is; a call takes effect or fails, and a client raises or goes on, as each host's does |
| `ReviewRun`, `ImproveRun`, `DescribeRun` | one run of each tool, call by call | the temporary comment, prediction, labels, persistent comment, history of suggestions, description |
| `Tools` | runs of these tools on one pull request, with users who set labels and edit the description | composition of the four above |
| `DiffBudget` | `get_pr_diff`, `get_pr_diff_multiple_patchs`, `get_pr_multi_diffs` | `dict`, `todo`, `total`, `chunk`, `chunks`, `left`: one action per file the loops meet |
| `ModelCalls` | `retry_with_fallback_models`, the retries of `chat_completion`, the calls of the tools: for each part of a diff, the reflection of improve on each answer, the last call of describe | `pairs`, `attempt`, `deployment` (the one in the settings), `waiting` calls, `sent` as history |
| `Hunks` | `extend_patch`, `omit_deletion_hunks`, `decouple_and_convert_to_hunks_with_lines_numbers`, `extract_hunk_lines_from_patch`, `find_line_number_of_relevant_line_in_file` | a change of a file, its patch as git writes it, and what was made of it |
| `Lists` | what Python's comprehensions select from a list | `Chosen`, `Those`; used by `Hunks` and `Suggestions` |
| `Prompts` | `ModelCalls` and `Hunks` in one request | extends `ModelCalls` and `Hunks` |
| `Snapshots` | which version each client reads when, GitHub's incremental review and the context of a request | `commits` (external), `cache`, `command`, `shown`, `reviews`, `report` |
| `Suggestions` | from the answers of a model to comments on lines, on six hosts | `kept`, `table`, `queue`, `rest`, `verified`, `invalid`, `posted`; a call may fail with or without its effect |
| `Pipeline` | a tool from the pull request to its comments | extends `Prompts`, `Snapshots` and `Suggestions`; an instance takes one of the three parts, because each hands the next a value over which the next one's instances range anyway |
| `..._proofs` | theorems about the module of that name; `Configuration_proofs` about `Migrations`, `ConfigRefresh`, `LlmProviders` and `RequestSettings` | |
| `MC...` | instances for TLC | |

`GithubApp` refines `Coalescer`: `Coalesces` is the abstract specification with
its liveness under the mapping *busy = a push task runs its commands, pending =
pushes put off or discarded and not covered yet*, `CoalescesSafely` its safety
part. `PushDictionaries` justifies that `GithubApp` takes the dictionaries as
plain maps: an entry in use is never dropped. In `GithubApp` a command is one
step; `Tools` and `Pipeline` open it. `Webhooks` says which commands a server
starts, `RequestSettings` with which settings.

Atomicity. In the asyncio servers a step runs from one suspension point to the
next; in `handle_push_trigger_for_new_commits` there is none between the
`setdefault` and the `wait`, nor inside the `finally` block (the condition's
lock is never held across a suspension, so it is never contended). In
`ConfigRefresh` every read or write of shared state by a thread is a step. In
`Migrations` a step is a statement or a transaction. In `LlmProviders` a step
is a statement, and a commit with the writes it flushes is one step: the
session writes in the order of primary keys and holds its row locks until the
commit, so commits are serialised row by row. In `Tools`, `Snapshots` and
`Suggestions` a step is one call to the host with the computation up to the
next one.

## 3. Runs

| run | bounds | shows | properties |
|---|---|---|---|
| `github_push` | 4 pushes, 1 pull request, 1 worker, 2 commands, fairness | counter exact, a delegate for every push, feedback never regresses; every handler ends; refinement of `Coalescer` with its liveness | `CounterMatchesTasks`, `DelegateForEveryPush`, `FeedbackNeverRegresses`, `EveryHandlerEnds`, `Coalesces` |
| `github_mixed` | 3 events, 2 workers, pushes and opened, late filters, both backlog settings, 1 restart | safety part of `Coalescer` on every worker, with crashes | `CoalescesSafely` |
| `push_dictionaries` | 4 tasks, 2 pull requests, time to live 2, clock to 5 | tasks may last longer than the time to live; nothing in use is dropped | `InUseIsKept` |
| `settings_layers` | 3 servers (one that copies the settings, Azure DevOps and Bitbucket Server), 2 requests, 2 repositories, 2 commands, 1 edit; 524 000 states | isolation and one file per request where the settings are copied; precedence of file and arguments and the disable flag on every server | `NoCrossTalk`, `OneFilePerRequest`, `LayersInOrder` |
| `servers` | 7 servers, 3 acts of users, 2 comments of the bot delivered, 2 commands; 866 000 states | each event starts what is promised, but where `Withheld` says that it starts nothing or `Unasked` that it starts too much; the bot starts nothing; threads end as their commands did, refused calls apart; a pull request that is ready gets its first commands | `AsPromised`, `BotStartsNothing`, `HandledWhole`, `ReadyGetsGreeted` |
| `migrations_boots` | 2 services with `run_migrations`, one with `create_all`, every kind of initial database, 2 crashes, fairness | revision never ahead of the schema, choice kept, head reached or tables torn | `NeverAheadOfSchema`, `ChoiceKept`, `ReachesHeadOrTorn` |
| `refresh` | 2 threads, 2 parts, time to live 1, clock to 3, 2 changes, failing queries, invalidations; 7 110 000 states | bounded staleness, settings never go back, invalidations between refreshes obeyed | `BoundedStaleness`, `SettingsNeverRegress`, `InvalidationObeyed` |
| `llm` | 3 threads, 3 providers | requests that run alone keep one default, the last choice, and repair what overlapping ones left | `DefaultIsTheLastSet` |
| `polling` | 3 pull requests, 5 comments, 1 failing call, parallel bound 0 (two tasks), pages of 3, scan of 2; 608 000 states | no comment causes two processes; every mention is processed, superseded, out of reach of the scan, or lost in a named way | `OneRunPerComment`, `EveryMentionAnswered` |
| `tools` | 2 to 5 runs, one after the other or two at a time, 20 settings of host, tools and options, 1 failing call, 1 act of a user, a history of two; 1 087 000 states | temporary and persistent comments, the history of suggestions, labels, the description | `TemporaryRemoved`, `OnePersistentComment`, `HistoryInOrder`, `LabelsOfReviews`, `SuggestionsKept`, `UserLabelsKept`, `TextsSurvive` |
| `pipeline` | see below; 735 000 states | the diff divided into prompts, models and deployments, hunks, versions, incremental reviews, placement and scores of suggestions; requests and publications end | `DiffIsDivided`, `EachCallItsModel`, `PatchesFaithful`, `ReadsOneVersion`, `NothingLost`, `PlacedOnce`, `AsReflected`, `RequestEnds`, `PublicationEnds` |
| `gitea_twice` (violation) | two suggestions, no failing call | on Gitea every suggestion is published twice | `PostedOnce` |

Four pushes are what one running task, one waiting delegate, a discarded push
and a push after them take; four tasks on two keys let a key stay unused while
another is used; two threads and two changes are what a stale write takes;
three providers are what two overlapping defaults and a third one that repairs
them take; three pull requests are what it takes to exceed the parallel bound
in one iteration (the code starts two tasks more than it); pages of three
comments, of which two are scanned, leave comments before the scan, in it and
after the page (in the code they are 30, GitHub's default, and 4). Three acts of
users are an opening, a change to ready and a push in any order of delivery;
five runs of the improve tool, one after the other, are what a history of two
tables takes to be cut below one that has no commit noted before it.

The instances of `pipeline`: every triple of six kinds of files (without a
patch, deletions only, small to larger than a prompt, of one or two languages),
with limits that the prompt alone exceeds, just meets or leaves room under, one
to four calls; up to three models with limits of their own and none, with and
without a reasoning model, deployments for all, some or none of them, two
predictions, calls in parallel; one hunk or two with zero to five lines around
them and gaps below, at and above the context, with every edit of up to two
lines removed and added (counts of zero and of one among them); the readers of
six hosts with up to three commands and three commits; pairs of nine kinds
of suggestions (inside a hunk, over its end, around it, beside it, outside the
file, without score, code or lines), complete, short or failed reflections, four
shapes of the diff (one hunk, two, one of a single line, one of deletions only),
every host and mode of publication, one failing call.
Larger bounds were tried where TLC allowed (five pushes, two failing calls of
the polling loop, a fourth commit) and showed nothing new.

Where a run says `CHECK_DEADLOCK FALSE`, all the events of the instance have
been handled and the system really has nothing left to do; `Polling` says so
with an action `Idle`.

Fairness: `GithubApp` assumes weak fairness of every suspended handler (the
event loop runs what is ready, and commands end because their calls have
timeouts); a webhook is never assumed to arrive. `Webhooks` assumes that a
delivery made is handled. `Pipeline` assumes that a call to a model or to a host
is answered or refused in the end (both have timeouts, and the tool goes on at
once); nobody has to push commits. `Migrations` assumes that a service with
`run_migrations` takes its steps, and that the supervisor restarts it
(`docker-compose.yml`, `restart: unless-stopped`); crashes are bounded, not
fair, and the services that only call `create_all` may come up or not.
`Coalescer` asks for weak fairness of taking up pending requests and of
finishing a job; that this follows is what `github_push` checks.

A property that joins several facts of one mechanism (`DiffIsDivided`,
`EachCallItsModel`, `PatchesFaithful`, `ReadsOneVersion`, `PlacedOnce`,
`AsReflected`, `HistoryInOrder`, `LabelsOfReviews`, `LayersInOrder`,
`InUseIsKept`) is the conjunction of definitions that are named and explained
one by one in its module, and the mutants include one for most of the parts.
The type invariants of the modules are parts of such properties too, and are
proved.

### Disagreements between the code and what it says

One is a run whose counterexample TLC finds; `PROJECT.json` quotes the lines:

* `gitea_twice`: Gitea's `publish_code_suggestions` returns nothing, which
  `push_inline_code_suggestions` takes for a failure of all suggestions and
  publishes each again (`git_providers/gitea_provider.py:328`).

Others were met while modelling. The properties are stated for what the code
does, and name the exception; the text or code it disagrees with is named here.

Servers and settings:

* The waiting delegate is filtered after its wait, by its own webhook; if it is
  rejected the pushes discarded in its favour are lost (`servers/github_app.py:191`
  against line 178). `DelegateForEveryPush` needs that no push is filtered so.
* The counters are per process, but the container runs several workers
  (`docker/Dockerfile:14`, `servers/gunicorn_config.py:74`): two pushes of one
  pull request that reach different workers are processed side by side, where
  `servers/github_app.py:176-181` speaks of one. `CoalescesSafely` is per worker.
* `servers/utils.py:49` speaks of deleting old items; the guard at line 67 is
  inverted, and `KeysNeverDropped` (proved) states the outcome. The inversion
  also keeps the dictionaries safe: with the guard the other way round (the
  mutant of the run) a counter is dropped under a task that outlasts the time
  to live.
* On Azure DevOps and Bitbucket Server the global settings are shared by all
  requests, and one repository's file applies to another
  (`servers/azuredevops_server_webhook.py:171`); `NoCrossTalk` is about the
  servers that copy them.
* `docs/docs/usage-guide/automations_and_usage.md:136-147` offers the arguments
  of automatic commands for customising automated runs. They yield to the
  repository's file when it sets the same parameter, and so do the arguments of
  comments on Bitbucket Server, because the server takes them out of the command
  before the agent applies the file again (`FileOverrides` is the exception in
  `ArgumentsApply`).
* `disable_auto_feedback` stops the commands of opened pull requests; line 89 of
  that page says those of pushes too, which go on (`FlagStopsOpenedOnly` in
  `RequestSettings`, `Unasked` in `Webhooks`, whose promise is the one the page
  makes).
* Which events a server filters differs. `Withheld` lists where a server starts
  nothing although the documentation promises something: Bitbucket Server answers
  `pr:from_ref_updated` as an unsupported event, which the comment at
  `servers/bitbucket_server_webhook.py:173` names, and waits for a pull request
  in `repo:refs_changed`, which has none, so that no push starts anything there;
  nor on Azure DevOps and for the action; Bitbucket recognises pushes by a last
  commit of the same author within 15 seconds; Gitea reads `handle_push_trigger`
  before the repository's file; a draft that gets ready starts nothing on four
  servers. `Unasked` lists where one starts what it should not: Bitbucket does
  not filter pushes; Azure DevOps and the action have no filters; drafts are
  left alone by GitHub App and GitLab only.
* A model's answer that begins with "/" gets a space in front
  (`tools/pr_line_questions.py:90`), which the GitHub App, GitLab and the action
  strip again; GitLab looks for "/ask" anywhere in a comment on a line. Where
  the account of the bot is not recognised it may answer itself once per answer
  (`BotStartsNothing` bounds this).
* The tools catch their own exceptions: on Azure DevOps a command that failed so
  counts as handled, and its thread is closed without an answer and without the
  notice. An exception that reaches the agent leaves the thread open and the
  notice in place. Closing the thread and removing the notice are two calls,
  either of which may be refused (`ThreadsTell`).
* A boot killed between `create_all` and the stamp leaves a database that no
  later boot can migrate (`db/migrations_runner.py:81`; `Torn`). The API boots with
  `create_all` alone (`servers/api.py:53`), where `db/migrations_runner.py:12`
  asks it to run the migrations, with the same effect on a legacy database.
* Nothing under `pr_agent/` calls `ensure_postgres_config_loaded`
  (`secret_providers/postgres_provider.py:689` says the webhook handlers do): a
  change in the dashboard does not reach a running server. `ConfigRefresh` models
  the function for the callers it is written for. An invalidation during a
  refresh is undone by the stamp at its end (line 721), and one between the test
  for `None` and the comparison (lines 708-709) makes the latter raise.
* An update that sets the default it read as set, while another request clears
  it, succeeds and leaves no default (`servers/api.py:371` against line 360); two
  overlapping requests that each set a default leave two (line 331).
* The polling loop marks a notification as read before it looks at it, forgets
  its queue when a call raises, starts two processes more than its bound, and
  answers a mention again when a reply to it is polled; it asks for one page of
  comments, which begins with the oldest, and takes its end for the newest
  (`servers/github_polling.py:116-119`). `EveryMentionAnswered`
  and `OneRunPerComment` bound what that can do.

Prompts and models:

* A file met when the prompt is over the hard threshold is put into no list of
  remaining files (`algo/pr_processing.py:293`; `NoFileForgotten` says when).
* `get_pr_multi_diffs` (improve) keeps no list of what it leaves out: a file too
  large for any prompt is logged and skipped, and the file at which the calls
  are used up, with all that follow, is in no prompt (`algo/pr_processing.py:459`
  and 482; `NoFileForgotten` and `LeftOutForLackOfCalls` say when).
* A deployment set for a fallback stays in the settings and is taken for that of
  the first model by the next prediction (`algo/pr_processing.py:330`).
* The reflection of improve is asked of `config.model_reasoning`, or of
  `config.model` unless the first fallback answers for it, with the diff and the
  deployment of whatever attempt it belongs to
  (`tools/pr_code_suggestions.py:403-411`): a second fallback has its suggestions
  scored by the model that failed before. `FitsItsModel` names the two cases.
* A header of a hunk that leaves out a count, as git does when it is one, makes
  the search for a line raise a TypeError (`algo/utils.py:1149`, 1171, 1186), for
  the lines of that hunk and of those after it (`LinesFound`).
* The last hunk of a patch is shown only if it has lines of the new file
  (`algo/git_patch_processing.py:395`): that of a file which is emptied is not
  (`ChangesKept`).
* `raise openai.APIError from e` (`algo/ai_handlers/litellm_ai_handler.py`) lacks
  the arguments of that exception: an unexpected error surfaces as a TypeError,
  and is not tried again.
* Deletions are pruned at the end of a patch only, where
  `docs/docs/core-abilities/compression_strategy.md:42` speaks of all
  (`EndsWithAnAddition`).
* `bad_extensions +=` and `patterns +=` append to lists of the settings: they
  grow with every call.

Provider clients and publication:

* The context of a request is asked for a provider under the literal key
  "pr_url", where nothing is stored (`git_providers/__init__.py:52-53`, 64): every
  command makes a new one, though line 42 says otherwise. The GitHub client's
  diff and files are found in the context all the same: later commands of a
  batch show the first one's diff and comment on the newest commit, and what an
  incremental review has put there is partial (`OneVersion` and
  `NotOlderThanBatch` name the case).
* An incremental review starts at commits authored after the previous review
  was created: commits pushed while that one was under way, or authored before
  and pushed after, are passed over (`NothingLost` says exactly which).
* GitLab's `get_relevant_diff` answers with the newest version whatever is asked;
  Gitea keeps the last hunk of a file only (`gitea_provider.py:140`); Bitbucket
  Server shows a renamed file with the contents of the file before it
  (`bitbucket_server_provider.py:283`); Azure DevOps shows it as added. These
  are about single files, which `Snapshots` does not model.
* Both Bitbucket clients repeat the earlier suggestions when a later one fails;
  Bitbucket does not look at the status of an answer. GitHub moves a suggestion
  near a hunk to a place that may end before it begins, and drops it silently;
  its client also reads a count that the header of a hunk leaves out, which
  stands for one, as zero (`extract_hunk_headers`), so a good suggestion on a
  hunk with one line of the new file is moved like that and dropped
  (`FirstLineIsEnough` names the exception).
* One failed or short reflection empties the whole table (`TableWhole`);
  publication inline drops suggestions without lines silently.
* GitHub's `get_pr_labels` answers "none" when the call fails, and the labels
  written next erase all others; GitLab's ignores that it was asked for an
  update; Azure DevOps and Gitea only ever add labels; Azure DevOps lists the
  comments newest first. `UserLabelsKept`, `OneEffortLabel` and
  `OnePersistentComment` name the exceptions.

## 4. Proofs

`GithubApp_proofs` holds for any sets of events, pull requests and workers, any
number of commands, heads and restarts:

* `TypeCorrect`, `CounterExact`, `OneProcessing`. The counter's range is not
  inductive by itself: that a release finds the counter above zero needs the
  task to have been counted (`CounterMatchesTasks`), and that needs to know that
  only push tasks are ever in a queue. `IInv == TypeOK /\ CounterMatchesTasks /\
  OnlyPushesWait` is inductive; `OneProcessing` follows from it.
* `ImplementsCoalescer`: from `IInv`, every step maps to a step of `Coalescer`
  or a stutter (`AbstractStep`).
* `EveryPushHasDelegate`, under the assumptions that the backlog is on and that
  no push is rejected by a filter after its wait: a delegate that is rejected
  then loses the pushes discarded for it, so the second is needed.
* `FeedbackMonotone`, for pushes on a single worker: the diff that the context of
  a running batch holds, or the head where it holds none yet, is no older than
  what was published last (`SeenInv`). The commands of a batch publish about the
  diff of the first one that read it, so heads may pass meanwhile.

`PushDictionaries_proofs` holds for any number of tasks and pull requests, any
time to live and refresh interval, and a clock without bound: `InUseStays` and
`NeverDropped`. `Unrefreshed` says that a dictionary's last refresh lies as far
before time 0 as the interval is long, so that the inverted guard skips every
refresh; every operation keeps it. `IInv` then adds that a counter is the number
of the pull request's tasks that run, wait or have been woken (zero, one or
two), and that the queues of the conditions hold exactly the waiting tasks, each
once, in the condition of its pull request.

`Configuration_proofs` has one part for each module about the configuration.

* `Migrations`, for any set of services, any mixture of `run_migrations` and
  `create_all`, and any number of crashes: `RevisionApplied` and
  `ChoiceSurvives`. The inductive invariant adds what a boot knows at each step
  (`BootsKnow`: the schema only grows, and a boot stamps head only over a schema
  that is complete) and that a database without tables holds no choice.
* `ConfigRefresh`, for any number of threads, parts and changes and any positive
  time to live: `RefreshTypeCorrect`, `NoRegress`, `StalenessBounded` and
  `InvalidationsWork`. None of the last three is about one state alone; each
  needs to know what the cache stands for, so `RefreshInv` adds to the types
  three parts. `CacheGood`: while the cache counts as refreshed at `last`, every
  part whose latest query succeeded was current at some time since `last`, and
  is no older than the latest invalidation counted. `Ordered`: the times a
  thread has read lie between the start of its request and now. `Progress`: in
  a refresh the parts already applied are as good as the time the thread read
  under the lock, and what it has read of the next part is no older than what
  the settings hold. Progress of one thread survives the steps of the others
  because at most one thread refreshes at a time (`OneRefresh`, from the lock's
  part of the types). The time to live must be positive: with zero, "less than
  the time to live before" would exclude a part replaced at the very time it was
  read.
* `LlmProviders`, for any number of threads and rows: `LastSetIsTheDefault`. The
  property is inductive only together with what a request that runs alone has
  read: `StillSo` says that nothing has changed the rows since, and
  `AloneIsAlone` that no other request is under way.
* `RequestSettings`, for any number of requests, repositories and commands and
  any edits: `RightLayerWins` on every server, `Isolation` and
  `OneVersionOfTheFile` on those that give each request a copy of the settings,
  given that the names which stand for "none" and for the process are not those
  of requests or repositories (`Named`). `Layered(r)` says by the place of a
  request what its cached file is and which of its commands' parameters come
  from an argument; that needs nothing of the others, because arguments and file
  are applied without a suspension before a command reads them. `Isolated(r)`
  says what its settings and parameters can be at all, on servers that copy
  them, where the only shared object, the global one, is never written
  (`GlobalKept`). A step of one request leaves both alone for the others
  (`OthersKept`). The types (`TypeInv`) do not rest on that and are proved by
  themselves.

`Webhooks_proofs` holds for any of the servers, any settings of it and of the
repositories, and any number of events: `PromisesKept`, `NoEcho` and
`ThreadsEndWell`. What is to be shown of an event is about the event and what
does not change (`HandledSo`: every batch is the one its event starts), so the
first two come down to a case for each server and kind of event. The threads
need more: an event is delivered once (`EventsKnown`), a task belongs to one
event (`TasksKnown`), and what became of a thread is what the place of its task
allows: nothing while the command runs, an answer or a swallowed exception
before the thread is closed, a closed one or a refused call before the notice
is removed (`ThreadsKnown`).

`Polling_proofs` holds for any finite set of pull requests, any kinds of comments
and any failures: `OneOccasionOneRun` and `NoMentionForgotten`. That a comment is
the occasion of one process only rests on what has been looked at
(`OccasionsKnown`). `EveryMentionAnswered` speaks of an idle loop; what holds at
every moment is `NoneForgotten`: a mention is settled, or a notification that is
still to be looked at leads to it, and up to a comment that has been looked at
every mention is settled.

`Tools_proofs` holds for any number of runs, any settings, any number of failing
calls and any acts of the users. `Known` says what a run can be at each step
(`Typed`, `Tooled`, `Knows`) and what each call can do to the comments.

* `UserLabelsAreKept` and `TextsDoSurvive` are about single steps, given `Known`.
* `LabelsOfReviewsAre` needs that a run which overlaps with no other has read the
  labels that are there (`SeenCurrent`) and that they are those of the latest
  review that has written (`LatestDecides`); `Ordered`, that runs begin in the
  order of their numbers and that two which overlap have met.
* `TemporaryIsRemoved` needs to know at which steps a run may have its temporary
  or progress comment up (`Temporaries`), and that names and kinds of comments
  agree (`Shaped`).
* `PersistentCommentIsOne`: a run that goes on to publish has seen that there is
  no other comment of its kind, or meets the run that published it
  (`Persistent`).
* `HistoryIsInOrder`: that a history is newest first, each table once and cut to
  its bound, is inductive only together with the histories that runs have read
  and are going to write back with their own table on top (`Histories`), the
  fact that a run's own table is not among them (`Unlike`), that every table
  there is of a run that has come to publish (`Begun`) and that comments have
  ids of their own (`Identified`).
* `SuggestionsAreKept` is about single steps too, but which tables a step removes
  depends on what its run has read long before.  As long as no edit has
  slipped (`Slips`), every run of the tool is where its options direct it, a
  progress comment that is still to show a table is there and unread, and every
  history tells of published tables only, with no entry but the last lacking a
  commit (`Improves`).  For each run that is none of the property's exceptions
  (`Guarded`), other runs that have read a comment have read the same about it
  as the comment still says (`Agree`), and some comment has its table that no
  run is about to remove (`Safe`).  A merge that drops the table has as many
  newer ones above it as the bound allows (`KeptMerged`, by counting them), and
  a call that fails changes no comment (`FailedCall`), the step at which an edit
  slips included.  The model checker corrected the property first: a table that
  overwrote "no suggestions" has no commit noted before it, and the cut below it
  takes the table above as well, so that one table fewer than `max_history_len`
  promises may stay (`Uncounted`).

`Pipeline_proofs` holds for any hosts, commands, commits and batches with the
part of `Snapshots` at work (`VersionsAgree`, `NoCommitLost`), and for any pull requests, models and deployments with that of `Prompts`
(`DiffsAreDivided`, `CallsAreTheirModels`), and for any answers, scores, hunks
and failing calls with that of `Suggestions` (`SuggestionsAsReflected`,
`SuggestionsPlacedOnce`). `Hunks_proofs` has the theorem about the remaining part,
`PatchesAreFaithful`, for any change of a file, any context and any settings of
the extension.

* Versions: a history variable records the version at which a request was made;
  the invariant says of the context of the request, of the command under way and
  of the diff it shows that each was read between that version and the present
  one, and of what was not taken from the context that it was read since the
  command began.
* Incremental reviews: `ReviewsAccount` says of every review that each commit it
  has read was covered or may be passed over, and `CommandAccounts` the same of
  what the command under way is going to cover. The second is needed because the
  range, the files and the diff are read by three calls.
* Prompts: whatever the loops do, a file they have looked at is in a prompt, in
  a list or left out for the reason the property names, one they have not looked
  at is still to do, and every prompt closed has met a file that it had no room
  for. For compressed diffs (`FillGood`) the shown, the postponed and those left
  out divide the files (`Divided`) and the totals bound what a prompt holds
  (`FillSizes`, `FillPasses`); for improve (`MultiGood`), which keeps no list of
  what it leaves out, each file met is shown or too large for any prompt
  (`MultiMet`), and with the calls used up the last prompt has no room
  (`NoRoomLeft`).
* Calls: a call under way was made from the prompts that are still there
  (`PromptMade`), the record of what an attempt has sent only grows (`SentGrows`,
  `SentGood`), and so a reflection follows an answer on its part and the last
  call of describe follows those on all parts, whatever other attempts' calls
  come in between.
* Suggestions: what `Chosen` selects from a sequence and `FlattenSeq` makes of
  several is characterised without induction, by the increasing sequence of
  positions it takes (`Takes`): the elements are exactly those that pass, in
  their order. With it what is kept, put in the table and sent is known item by
  item (`KeptItems`, `OwnItems`, `LinedItems`), which gives
  `SuggestionsAsReflected`.
* Their placement: `PushInvariant` says which lists a publication holds at each of
  its steps (`PushTyped`), that a suggestion which is to have a comment is posted
  or still in one of the lists while no call has failed (`NoneForgotten`), and
  that it is in one of them only, and there once (`NoneTwice`). The last excludes
  the hosts that are sent everything again. A suggestion that GitHub's client
  clips to its hunk stays placeable only in a hunk of two lines or more
  (`ClippedPlaceable`), the exception `PlacedOnce` names.
* Patches: the state is easy (`HunksInv`: the files and the patch are those git
  makes of the change, and what was seen is one of the things made of the
  patch); the work is in what the computations return for every change. A line
  of a hunk is in a version of the file at its `Rank` among the lines of that
  version, below all that comes before the hunk (`HunkLines`), and nowhere else
  (`WhereShown`). The n-th line after a hunk is the same in both versions up to
  one more than git's context (`ContextAround`), because that many lines are
  unchanged or not shown before the next hunk can change one: this is where
  `e.after <= Context + 1` in `NumbersOfTheNewFile` comes from, with
  `AsGitCuts` what is assumed of git. The lines before a hunk need no such bound,
  the code compares them with the new file (`CommonEndIs`). So a hunk with
  context around it still has its lines where its header says
  (`PlacedWhenExtended`), and keeps those that are changed (`KeptWhenExtended`);
  a line that is looked up is counted to its place, unless a header before it
  lacks a count (`LinesAreFound`), and a question selects by the same count (`AskedAre`).

The assumptions are those the modules state, each of which TLC evaluates on its
runs: kinds of events and fates are those of the code, commands and retries are
positive numbers, bounds are numbers, a change is cut as git cuts it
(`ChangesAssumption`), the history has a positive bound
(`HistoryAssumption`; a bound of zero would cut the list of tables at its other
end), the runs and pull requests are finitely many, users' texts and labels are
not those that tools write, and no thread has the name that stands for none.

Model-checked only:

* everything under fairness, because liveness and ENABLED are out of reach of
  the prover: `EveryHandlerEnds`, `Coalesces`, `ReachesHeadOrTorn`,
  `ReadyGetsGreeted`, `RequestEnds`, `PublicationEnds`; and the violation run.

No module declares a RECURSIVE operator. What a list defined step by step
contains (`Chosen`, `FlattenSeq`) is proved without induction over data: the
first place where it failed would follow from the one before it
(`NoFirstFailure`, from the well-foundedness of the numbers).

## 5. Abstractions

* A pull request's commits are a counter, its head; feedback is about the head
  a command read. `Snapshots` gives each commit the time it was authored.
* A filter's decision is an attribute of the webhook in `GithubApp`; in
  `Webhooks` the filters are represented by one that the title matches or not.
* The repository's file holds one parameter, with a version (`RequestSettings`),
  or each of three flags (`Webhooks`); the merge of sections is not modelled.
* The number of tokens of a file, with context and without deletions, is a number
  of the instance, and prompts add up (`DiffBudget`); what a line says is its
  place (`Hunks`); a comment is its kind, its author and its tables
  (`PullRequest`); a suggestion is its lines, its score and whether it has code.
* A host refuses a comment on lines that are not within one hunk; this and the
  numbering of commits are the hosts' behaviour and marked external.
* In `Migrations`, two boots that stamp a database without a version table at
  once are taken as one of them failing; the supervisor restarts it.
* In `ConfigRefresh` what a part of the configuration holds is the version of
  the database it was read from; that removed values linger is a hazard
  recorded without a property.
* In `Polling` a comment is its place in its pull request and whether it mentions
  the user. That a request for notifications is answered 304 until something is
  notified, and that a pull request which mentioned the user notifies of later
  comments, is GitHub's behaviour as the loop relies on it.
* `LlmProviders` takes validated requests; who the administrators are and what
  the credentials contain plays no part.

## 6. Not modelled

Signatures and payload parsing, the wording of prompts and Markdown, wire
formats, the dashboard's pages, logging; the clients of CodeCommit, Gerrit and
local repositories, repository contents and tickets; the endpoints of git
providers and token limits, which are single-row statements without a relation
between rows; the remaining tools, each a prompt, one model call and one
publication. The webhook registry (`servers/webhook_registry.py`) is not called
by any code yet. See `components` in `PROJECT.json` for each with its reason.

## 7. Plan

Done, in this order: the coalescing of pushes and the dictionaries under it;
migrations; settings; the refresh of the configuration; LLM providers; polling;
the tools' comments; the servers; prompts, models and hunks; provider clients
and suggestions; proofs of every invariant and action property that a run checks.

Left:

1. `TokenLimits`: the default configuration row, with `LlmProviders` as its
   pattern.
2. The settings key by key in `ConfigRefresh`, for values that linger after
   their row is gone.
