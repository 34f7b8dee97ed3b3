------------------------------ MODULE PullRequest ------------------------------
(***************************************************************************)
(* A pull request as its host keeps it, and the calls by which the runs of *)
(* the tools read and change it (pr_agent/git_providers/*_provider.py).    *)
(* Every call is a step of its own, so that other runs and the users act   *)
(* in between, and any call may fail: a provider then either raises or     *)
(* logs and goes on, each in its own way.                                  *)
(***************************************************************************)
EXTENDS Integers, FiniteSets, SequencesExt

CONSTANTS
    Runs,         \* runs of tools, 1..n, which start in this order
    Settings,     \* configurations, see SettingsAssumption
    MaxFailures,  \* bound on the calls that fail
    MaxActs       \* bound on what the users do

ASSUME RunsAssumption ==
    /\ Runs \subseteq Nat /\ IsFiniteSet(Runs)
    /\ MaxFailures \in Nat /\ MaxActs \in Nat

Hosts == {"github", "gitlab", "azure", "gitea", "bitbucket", "bitbucket_server"}

\* auto: the command was not asked for in a comment.  persistent: the option
\* persistent_comment of the tools.  quiet: publish_output_no_suggestions is
\* off.  commitable: the option of the improve tool.  asComment and markers:
\* the options of the describe tool.  tools[r] is the tool of run r, of the
\* runs there are; active of them are under way at once.
ASSUME SettingsAssumption ==
    \A s \in Settings :
        /\ s.host \in Hosts
        /\ \A f \in {"auto", "persistent", "quiet", "commitable", "asComment", "markers"} :
              s[f] \in BOOLEAN
        /\ DOMAIN s.tools \subseteq Runs
        /\ \A r \in DOMAIN s.tools : s.tools[r] \in {"review", "improve", "describe"}
        /\ s.active \in Nat

VARIABLES
    setting,   \* the host and the configuration of the runs
    pr,        \* the pull request: comments (a set of notes), labels, body
    run,       \* run[r]: what a run knows, and the step it is at
    failures,
    acts

vars == <<setting, pr, run, failures, acts>>

\* The calls whose failure the client of a host logs and forgets.
GithubSwallows == {"edit", "remove", "getLabels", "putLabels"}
GitlabSwallows == {"remove", "putLabels", "description"}
AzureSwallows == {"edit", "remove", "getLabels", "putLabels", "description"}
GiteaSwallows == {"edit"}
BitbucketSwallows == {"remove", "description"}
BitbucketServerSwallows == {"remove"}

Swallows == [github |-> GithubSwallows, gitlab |-> GitlabSwallows,
             azure |-> AzureSwallows, gitea |-> GiteaSwallows,
             bitbucket |-> BitbucketSwallows,
             bitbucket_server |-> BitbucketServerSwallows]

\* is_supported("gfm_markdown"), and labels at all.
Gfm == Hosts \ {"bitbucket", "bitbucket_server"}
Labelled == Gfm

\* publish_labels only adds labels there, it never takes one away.
AddsLabels == {"azure", "gitea"}

\* get_pr_labels answers what was read when the run began.
OldLabels == {"gitlab"}

\* The comments are listed from the newest one.
NewestFirst == {"azure"}

\* publish_persistent_comment publishes a new comment every time.
NeverPersistent == {"bitbucket_server"}

-----------------------------------------------------------------------------

\* A new comment, whose place is after the others.  tables are the tables of
\* suggestions it shows, newest first; only one of the improve tool has any.
Note(id, kind, tables) ==
    [place |-> 1 + Max({0} \cup {c.place : c \in pr.comments}),
     id |-> id, by |-> id[1], kind |-> kind, tables |-> tables]

Ids == {c.id : c \in pr.comments}

\* Two kinds of comments of the improve tool begin with the same header.
Header(c) == IF c.kind \in {"table", "none"} THEN "suggestions" ELSE c.kind

WithComment(c) == [pr EXCEPT !.comments = @ \cup {c}]

WithEdit(id, c) ==
    [pr EXCEPT !.comments =
        {IF d.id = id THEN [c EXCEPT !.place = d.place] ELSE d : d \in @}]

Without(id) == [pr EXCEPT !.comments = {c \in @ : c.id # id}]

\* The labels after a run publishes L.
Labelling(L) == IF setting.host \in AddsLabels THEN pr.labels \cup L ELSE L

\* The step r takes without the host: it goes on as next.
Local(r, next) ==
    /\ run' = [run EXCEPT ![r] = next]
    /\ UNCHANGED <<setting, pr, failures, acts>>

At(r, pc) == [run[r] EXCEPT !.pc = pc]

\* A run that has ended keeps nothing of what it has read.
Done(r) == [At(r, "done") EXCEPT !.listed = {}, !.seen = {}, !.read = <<>>]

\* The call of r has no effect: it raises, and r goes on as raised, unless the
\* client swallows the failure.
Refused(r, call, next, raised) ==
    /\ run' = [run EXCEPT ![r] =
                  IF call \in Swallows[setting.host] THEN next ELSE raised]
    /\ UNCHANGED <<setting, pr, acts>>

Fails == failures < MaxFailures /\ failures' = failures + 1

\* A call of r that makes the pull request after; r goes on as next.
Call(r, call, after, next, raised) ==
    \/ /\ pr' = after
       /\ run' = [run EXCEPT ![r] = next]
       /\ UNCHANGED <<setting, failures, acts>>
    \/ Fails /\ Refused(r, call, next, raised)

\* edit_comment: the comment may have been removed meanwhile.
EditCall(r, id, c, next, raised) ==
    IF id \in Ids
    THEN Call(r, "edit", WithEdit(id, c), next, raised)
    ELSE Refused(r, "edit", next, raised) /\ UNCHANGED failures

PublishCall(r, c, next, raised) == Call(r, "publish", WithComment(c), next, raised)

\* remove_initial_comment, which raises on no host.
CleanupCall(r, next) ==
    \/ /\ pr' = Without(<<r, "temp">>)
       /\ run' = [run EXCEPT ![r] = next]
       /\ UNCHANGED <<setting, failures, acts>>
    \/ /\ Fails
       /\ run' = [run EXCEPT ![r] = next]
       /\ UNCHANGED <<setting, pr, acts>>

\* The first of some comments in the order in which the host lists them.
First(listing) ==
    CHOOSE c \in listing : \A d \in listing :
        IF setting.host \in NewestFirst THEN c.place >= d.place ELSE c.place <= d.place

\* The comments of a listing with a header.
Headed(listing, header) == {c \in listing : Header(c) = header}

-----------------------------------------------------------------------------
(* publish_persistent_comment, for the kind of comment run[r].kind           *)

\* Mutated form of Previous: the comments are not looked through.
MutNoPrevious(r) == {}

\* The comment to update, if any.
Previous(r) == Headed(run[r].listed, run[r].kind)

ListComments(r) ==
    /\ run[r].pc = "list"
    /\ IF setting.host \in NeverPersistent \/ ~setting.persistent
       THEN Local(r, At(r, "publish"))
       ELSE Call(r, "list", pr, [At(r, "update") EXCEPT !.listed = pr.comments],
                 At(r, "publish"))

\* The first comment with the header is edited.  The review announces it.
UpdatePersistent(r) ==
    /\ run[r].pc = "update"
    /\ IF Previous(r) = {}
       THEN Local(r, At(r, "publish"))
       ELSE LET c == First(Previous(r))
            IN  EditCall(r, c.id, [c EXCEPT !.by = r],
                         At(r, IF run[r].kind = "review" THEN "notice" ELSE "cleanup"),
                         At(r, "publish"))

\* A failure of the announcement is taken for a failure of the update.
AnnounceUpdate(r) ==
    /\ run[r].pc = "notice"
    /\ PublishCall(r, Note(<<r, "notice">>, "notice", <<>>), At(r, "cleanup"),
                   At(r, "publish"))

\* Nothing was updated, as far as the run knows.
PublishWhole(r) ==
    /\ run[r].pc = "publish"
    /\ PublishCall(r, Note(<<r, run[r].kind>>, run[r].kind, <<>>), At(r, "cleanup"),
                   Done(r))

Persist(r) ==
    ListComments(r) \/ UpdatePersistent(r) \/ AnnounceUpdate(r) \/ PublishWhole(r)

\* Mutated form of Cleanup: the temporary comment stays.
MutForgetsCleanup(r) == run[r].pc = "cleanup" /\ Local(r, Done(r))

\* remove_initial_comment at the end of a run.
Cleanup(r) ==
    /\ run[r].pc = "cleanup"
    /\ CleanupCall(r, Done(r))

\* "Preparing ...", published unless the command is automatic.
StartComment(r, id, kind, next, raised) ==
    IF setting.auto \/ setting.host = "bitbucket_server"
    THEN Local(r, next)
    ELSE PublishCall(r, Note(<<r, id>>, kind, <<>>), next, raised)

Active(r) == run[r].pc \notin {"idle", "done"}

\* A run is constructed: it reads the pull request.  Runs under way meanwhile
\* have met it (history).
Start(r) ==
    /\ r \in DOMAIN setting.tools
    /\ run[r].pc = "idle"
    /\ \A q \in Runs : q < r => run[q].pc # "idle"
    /\ Cardinality({q \in Runs : Active(q)}) < setting.active
    /\ run' = [q \in Runs |->
                 IF q = r
                 THEN [run[r] EXCEPT !.pc = "prepare", !.seen = pr.labels,
                                     !.read = pr.body,
                                     !.met = {p \in Runs : Active(p)}]
                 ELSE IF Active(q) THEN [run[q] EXCEPT !.met = @ \cup {r}] ELSE run[q]]
    /\ UNCHANGED <<setting, pr, failures, acts>>

-----------------------------------------------------------------------------
(* Labels, for the runs that publish run[r].labels                           *)

\* The answer of get_pr_labels(update=True) is stored; a client that swallows
\* a failure answers that there are none.
GetLabels(r, next, raised) ==
    \/ /\ run' = [run EXCEPT ![r] =
                     [next EXCEPT !.seen = IF setting.host \in OldLabels
                                           THEN run[r].seen ELSE pr.labels]]
       /\ UNCHANGED <<setting, pr, failures, acts>>
    \/ /\ setting.host \notin OldLabels
       /\ Fails
       /\ Refused(r, "getLabels", [next EXCEPT !.seen = {}], raised)

\* The labels are written as a whole if they differ from the ones read.
PutLabels(r, L, next, raised) ==
    IF L = run[r].seen
    THEN Local(r, next)
    ELSE Call(r, "putLabels", [pr EXCEPT !.labels = Labelling(L)], next, raised)
=============================================================================
