-------------------------------- MODULE Snapshots --------------------------------
(***************************************************************************)
(* Which commits of a pull request a command reads, shows to the model and *)
(* comments on.  A provider of pr_agent/git_providers reads the pull       *)
(* request in several calls, commits are pushed between them, and on       *)
(* GitHub the context of a request keeps what its first command has read   *)
(* for the others.  The pull request itself is external: a version of it   *)
(* is the number of its commits.                                           *)
(***************************************************************************)
EXTENDS Integers, Sequences, SequencesExt, FiniteSets, FiniteSetsExt

CONSTANTS
    Readers,      \* instances: [host, context, commands]
    Commands,     \* "review", "increment" (review -i), "improve"
    MaxCommits    \* bound on the commits of the pull request

Hosts == {"github", "gitlab", "gitea", "azure", "bitbucket_server", "bitbucket"}

ASSUME ReadersAssumption ==
    \A r \in Readers : r.host \in Hosts /\ r.context \in BOOLEAN

VARIABLES
    reader,       \* the instance, or NoReader
    commits,      \* of the pull request: [authored, merge]
    clock,        \* of the authors and of the host
    asked,        \* the version when the batch of commands began, 0 before
    cache,        \* the context of the request: [files, diff]
    command,      \* the command under way
    shown,        \* its diff
    reviews,      \* the review comments: [increment, created, known, covers, cached]
    report,       \* what the last command published
    ran           \* commands begun

readVars == <<reader, commits, clock, asked, cache, command, shown, reviews, report, ran>>

NoReader == [host |-> "none", context |-> FALSE, commands |-> 0]
NoDiff == [patch |-> 0, content |-> 0, covers |-> {}, partial |-> FALSE,
           cached |-> FALSE]
NoCommand == [kind |-> "none", at |-> "idle", began |-> 0, pr |-> 0, known |-> 0,
              range |-> {}, files |-> 0, cached |-> FALSE]
NoReport == [kind |-> "none", began |-> 0, ended |-> 0, asked |-> 0, placed |-> 0, diff |-> NoDiff]
Fresh == [files |-> 0, diff |-> NoDiff]

Version == Len(commits)
On(host) == reader.host = host

\* Only GitHub's diff is kept in the context, and only a server has one.
Kept == On("github") /\ reader.context

-----------------------------------------------------------------------------
(* Commits and reviews. *)

\* Mutated form of CommitRange: without the first commit after the review.
MutCommitRange ==
    LET since == Last(reviews).created
        later == {k \in 1..Version : \A j \in k..Version : commits[j].authored > since}
    IN  later \ {k \in later : k - 1 \notin later}

\* get_commit_range: back from the last commit as long as they were authored
\* after the last review comment was created.
CommitRange ==
    LET since == Last(reviews).created
    IN  {k \in 1..Version : \A j \in k..Version : commits[j].authored > since}

\* The commits an incremental review shows: not those that merge the base.
Unreviewed(range) == {k \in range : ~commits[k].merge}

-----------------------------------------------------------------------------

SnapshotsIdle ==
    /\ reader = NoReader /\ commits = <<>> /\ clock = 0 /\ asked = 0 /\ cache = Fresh
    /\ command = NoCommand /\ shown = NoDiff /\ reviews = <<>> /\ report = NoReport /\ ran = 0

SnapshotsInit ==
    /\ reader \in Readers
    /\ commits = <<[authored |-> 0, merge |-> FALSE]>> /\ clock = 1
    /\ asked = 0 /\ cache = Fresh
    /\ command = NoCommand /\ shown = NoDiff /\ reviews = <<>> /\ report = NoReport /\ ran = 0

Authored == IF commits = <<>> THEN 0 ELSE Last(commits).authored

\* A commit is pushed, authored some time before.
PushCommit ==
    /\ Version < MaxCommits
    /\ \E t \in Authored..clock, merge \in BOOLEAN :
          commits' = Append(commits, [authored |-> t, merge |-> merge])
    /\ clock' = clock + 1
    /\ UNCHANGED <<reader, asked, cache, command, shown, reviews, report, ran>>

Idle == command.at = "idle"

\* Mutated form of BeginBatch: the context outlives the request.
MutBeginBatch ==
    /\ Idle
    /\ asked # Version \/ cache # Fresh
    /\ asked' = Version /\ cache' = cache
    /\ UNCHANGED <<reader, commits, clock, command, shown, reviews, report, ran>>

\* A request of a server, with commands that run one after the other: its
\* context is new.
BeginBatch ==
    /\ Idle
    /\ asked # Version \/ cache # Fresh
    /\ asked' = Version /\ cache' = Fresh
    /\ UNCHANGED <<reader, commits, clock, command, shown, reviews, report, ran>>

\* Mutated form of Opened: the provider the server made for the request.
MutOpened(kind) ==
    [NoCommand EXCEPT !.kind = kind, !.began = Version,
        !.pr = asked,
        !.at = IF On("github") THEN "opened" ELSE "known"]

\* The constructor of a provider asks for the pull request; the context never
\* has one, for it is looked up under a name nothing is stored under.
Opened(kind) ==
    [NoCommand EXCEPT !.kind = kind, !.began = Version, !.pr = Version,
        !.at = IF On("github") THEN "opened" ELSE "known"]

Open ==
    /\ Idle /\ asked > 0 /\ ran < reader.commands
    /\ \E kind \in Commands : command' = Opened(kind)
    /\ ran' = ran + 1
    /\ UNCHANGED <<reader, commits, clock, asked, cache, shown, reviews, report>>

\* GitHub: the commits, the last of which comments are placed on, and those
\* an incremental review is about; without a review before it is a full one.
ReadCommits ==
    /\ command.at = "opened"
    /\ command' = [command EXCEPT !.at = "known", !.known = Version,
                     !.kind = IF @ = "increment" /\ reviews = <<>> THEN "review" ELSE @,
                     !.range = IF command.kind = "increment" /\ reviews # <<>> THEN CommitRange ELSE {}]
    /\ UNCHANGED <<reader, commits, clock, asked, cache, shown, reviews, report, ran>>

\* GitHub's incremental review has the files of its commits already.
OwnFiles == command.kind = "increment" /\ Unreviewed(command.range) # {}

\* The list of files: get_files, on Gitea in the constructor and on Bitbucket
\* the statistics of the diff.
ListFiles ==
    /\ command.at = "known"
    /\ IF OwnFiles THEN command' = [command EXCEPT !.at = "listed"] /\ UNCHANGED cache
       ELSE IF Kept /\ cache.files # 0
       THEN /\ command' = [command EXCEPT !.at = "listed", !.files = cache.files, !.cached = TRUE]
            /\ UNCHANGED cache
       ELSE /\ command' = [command EXCEPT !.at = "listed", !.files = Version]
            /\ cache' = IF Kept THEN [cache EXCEPT !.files = Version] ELSE cache
    /\ UNCHANGED <<reader, commits, clock, asked, shown, reviews, report, ran>>

\* An incremental review of nothing new says so; on the other hosts, which do
\* not implement it, it fails.
NothingNew ==
    /\ command.at = "listed" /\ command.kind = "increment" /\ ~OwnFiles
    /\ command' = NoCommand
    /\ UNCHANGED <<reader, commits, clock, asked, cache, shown, reviews, report, ran>>

\* A diff with the patch of one version and the contents of another.
Diff(patched, content) ==
    [patch |-> patched, content |-> content, covers |-> 1..patched, partial |-> FALSE,
     cached |-> command.cached]

\* The patch of a file comes with the list; an incremental one is made from the
\* contents.  A diff in the context is taken as it is.
GithubDiff ==
    IF Kept /\ cache.diff # NoDiff THEN [cache.diff EXCEPT !.cached = TRUE]
    ELSE IF OwnFiles
    THEN [Diff(command.pr, command.pr) EXCEPT !.covers = command.range, !.partial = TRUE]
    ELSE Diff(command.files, command.pr)

\* The newest changes, with the contents at diff_refs.
GitlabDiff == Diff(Version, command.pr)

\* The constructor has read the contents at the head and then the newest diff.
GiteaDiff == Diff(Version, command.pr)

\* Both make the patch from the contents, at last_merge_commit and latestCommit.
AzureDiff == Diff(command.pr, command.pr)
BitbucketServerDiff == Diff(command.pr, command.pr)

\* The newest diff, with the contents the statistics link to.
BitbucketDiff == Diff(Version, command.files)

DiffRead ==
    CASE On("github") -> GithubDiff
      [] On("gitlab") -> GitlabDiff
      [] On("gitea") -> GiteaDiff
      [] On("azure") -> AzureDiff
      [] On("bitbucket_server") -> BitbucketServerDiff
      [] On("bitbucket") -> BitbucketDiff

\* get_diff_files; what is kept in the context is the diff of the first command.
ReadDiff ==
    /\ command.at = "listed"
    /\ command.kind # "increment" \/ OwnFiles
    /\ command' = [command EXCEPT !.at = "read"]
    /\ shown' = DiffRead
    /\ cache' = IF Kept THEN [cache EXCEPT !.diff = [DiffRead EXCEPT !.cached = FALSE]] ELSE cache
    /\ UNCHANGED <<reader, commits, clock, asked, reviews, report, ran>>

\* Where a comment on a line goes: GitHub's names the last commit read, Gitea's
\* one of the repository (0), GitLab's the newest diff or, when the line is not
\* in it any more, the first one; the others take the pull request as it is.
Places ==
    CASE On("github") -> {command.known}
      [] On("gitea")  -> {0}
      [] On("gitlab") -> IF shown.patch = Version THEN {Version} ELSE {Version, 1}
      [] OTHER        -> {Version}

\* The comment of a review, with another one of the same pull request.
Updated(review, diff) ==
    [review EXCEPT !.known = command.known, !.covers = @ \cup diff.covers,
                   !.cached = @ \/ diff.cached]

\* The full review is one comment, edited; an incremental one is its own.
Reviewed(diff) ==
    LET mine == [increment |-> command.kind = "increment", created |-> clock,
                 known |-> command.known, covers |-> diff.covers, cached |-> diff.cached]
        full == {k \in DOMAIN reviews : ~reviews[k].increment}
        k == Min(full)
    IN  IF command.kind = "increment" \/ full = {} THEN Append(reviews, mine)
        ELSE [reviews EXCEPT ![k] = Updated(@, diff)]

PublishResult ==
    /\ command.at = "read"
    /\ \E place \in Places :
          report' = [kind |-> command.kind, began |-> command.began, ended |-> Version,
                     asked |-> asked, placed |-> place, diff |-> shown]
    /\ IF command.kind = "improve" THEN UNCHANGED <<reviews, clock>>
       ELSE reviews' = Reviewed(shown) /\ clock' = clock + 1
    /\ command' = NoCommand /\ shown' = NoDiff
    /\ UNCHANGED <<reader, commits, asked, cache, ran>>

\* A call fails, there is nothing to say, or on Bitbucket the statistics and the
\* diff are not of the same files.
AbandonCommand ==
    /\ ~Idle
    /\ command' = NoCommand /\ shown' = NoDiff
    /\ UNCHANGED <<reader, commits, clock, asked, cache, reviews, report, ran>>

SnapshotsNext ==
    \/ PushCommit \/ BeginBatch \/ Open \/ ReadCommits \/ ListFiles \/ NothingNew
    \/ ReadDiff \/ PublishResult \/ AbandonCommand

-----------------------------------------------------------------------------

\* A command during which nothing is pushed reads, shows and comments on the
\* version it began with: the patch, the contents and the commit of a comment
\* belong together.  Not so when the context of the request had its files or
\* its diff, and not for the comments on Gitea.
OneVersion ==
    report # NoReport /\ report.began = report.ended /\ ~report.diff.cached =>
        /\ report.diff.patch = report.began /\ report.diff.content = report.began
        /\ report.placed = report.began \/ On("gitea")

\* No command works on a version older than its request, whatever the context
\* keeps from the commands before, and it shows all of it unless the first
\* diff of the request was that of an incremental review.
NotOlderThanBatch ==
    report # NoReport =>
        /\ report.diff.patch >= report.asked /\ report.diff.content >= report.asked
        /\ report.diff.partial \/ 1..report.asked \subseteq report.diff.covers

\* What a command sees of the pull request is one version of it, that of its
\* request or a newer one (git_providers/*.py: get_diff_files, get_files).
ReadsOneVersion == OneVersion /\ NotOlderThanBatch

Covered == UNION {reviews[k].covers : k \in DOMAIN reviews}

\* A commit an incremental review passes over was reviewed before, or it or a
\* later one was authored while a review that had not read it was under way, or
\* a review used the diff of an earlier command of its request.
NothingLost ==
    On("github") /\ command.kind = "increment" /\ command.at # "opened" =>
        \A k \in (1..command.known) \ command.range :
            \/ k \in Covered
            \/ \E j \in k..command.known, r \in ToSet(reviews) :
                  r.known < j /\ commits[j].authored <= r.created
            \/ \E r \in ToSet(reviews) : r.cached
=============================================================================
