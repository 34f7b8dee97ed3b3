--------------------------------- MODULE Tools ---------------------------------
(***************************************************************************)
(* The runs of the review, improve and describe tools on one pull request, *)
(* with each other and with its users.                                     *)
(***************************************************************************)
EXTENDS ReviewRun, ImproveRun, DescribeRun

CONSTANT UserLabels   \* labels the users set, none with the name of a tool's own

ASSUME LabelsAssumption == UserLabels \cap (ReviewLabels \cup TypeLabels) = {}

\* Descriptions a pull request may be opened with.
Opened == {<<>>} \cup {<<t>> : t \in Texts} \cup {<<t, "marker">> : t \in Texts}

Init ==
    /\ setting \in Settings
    /\ pr \in [comments : {{}}, labels : {{}}, body : Opened]
    /\ setting.markers <=> "marker" \in ToSet(pr.body)
    /\ ("describe" \in ToSet(setting.tools)) \/ pr.body = <<>>
    /\ run = [r \in Runs |->
                 [tool |-> IF r \in DOMAIN setting.tools THEN setting.tools[r] ELSE "none", pc |-> "idle", kind |-> "none",
                  said |-> "none", listed |-> {}, seen |-> {}, labels |-> {},
                  read |-> <<>>, met |-> {}]]
    /\ failures = 0
    /\ acts = 0

\* A user sets or removes a label.
Relabel ==
    /\ acts < MaxActs
    /\ acts' = acts + 1
    /\ \E l \in UserLabels :
          pr' = [pr EXCEPT !.labels = IF l \in @ THEN @ \ {l} ELSE @ \cup {l}]
    /\ UNCHANGED <<setting, run, failures>>

\* The improve tool looks neither at labels nor at the description.
Users ==
    \/ ToSet(setting.tools) # {"improve"} /\ Relabel
    \/ "describe" \in ToSet(setting.tools) /\ (EditDescription \/ DeleteGenerated)

Step(r) ==
    \/ Start(r)
    \/ run[r].tool = "review" /\ ReviewStep(r)
    \/ run[r].tool = "improve" /\ ImproveStep(r)
    \/ run[r].tool = "describe" /\ DescribeStep(r)
    \/ run[r].tool # "improve" /\ (Persist(r) \/ Cleanup(r))

Next == Users \/ \E r \in Runs : Step(r)

Spec == Init /\ [][Next]_vars

-----------------------------------------------------------------------------

Ended(r) == run[r].pc = "done"

\* Of two runs, each ended before the other began.
Apart(q, r) == q \notin run[r].met /\ r \notin run[q].met

Pcs == {"idle", "prepare", "predict", "getLabels", "putLabels", "report", "list",
        "update", "notice", "publish", "cleanup", "found", "none", "inline",
        "unprogress", "single", "look", "merge", "unlist", "whole", "failed",
        "tell", "write", "done"}

\* Types; and no two comments of one identity.
TypeOK ==
    /\ setting \in Settings
    /\ \A c \in pr.comments :
          /\ c.by \in Runs /\ c.id[1] \in Runs
          /\ c.tables # <<>> <=> c.kind = "table"
          /\ \A n \in DOMAIN c.tables : c.tables[n].of \in Runs
    /\ \A c, d \in pr.comments : c.id = d.id => c = d
    /\ pr.labels \subseteq UserLabels \cup ReviewLabels \cup TypeLabels
    /\ \A r \in Runs : run[r].pc \in Pcs /\ run[r].seen \subseteq UserLabels \cup ReviewLabels \cup TypeLabels
    /\ failures \in 0..MaxFailures
    /\ acts \in 0..MaxActs

\* The comment "Preparing ..." or "Generating ..." of a run that has ended is
\* gone.  It stays only if a call failed, if the model failed in a run whose
\* handler of exceptions does not remove it, or if the run had nothing to say
\* and either had to be quiet or runs where there is no progress comment.
TemporaryRemoved ==
    \A c \in pr.comments :
        LET r == c.id[1]
        IN  Ended(r) /\ c.kind \in {"temp", "progress"} =>
               \/ failures > 0
               \/ run[r].said = "error"
               \/ run[r].said = "nothing"
                     /\ (setting.quiet \/ (run[r].tool = "improve" /\ setting.host \notin Gfm))

\* There is one persistent comment of the review and one of the describe tool,
\* unless a call failed or the two runs that published them overlapped.
OnePersistentComment ==
    setting.persistent /\ setting.host \notin NeverPersistent =>
        \A c, d \in pr.comments :
            c.kind = d.kind /\ c.kind \in {"review", "title"} /\ c.id # d.id
                => failures > 0 \/ ~Apart(c.id[1], d.id[1])

Tables == {r \in Runs : run[r].said \in {"plain", "tick"}}
Shown(r) == \E c \in pr.comments : \E n \in DOMAIN c.tables : c.tables[n].of = r

\* A table that overwrote "no suggestions" has no commit noted before it: the
\* history is not cut there, and the cut takes the table above it as well.
Uncounted ==
    IF \E r \in Runs : run[r].tool = "improve" /\ run[r].said = "nothing" THEN 1 ELSE 0

\* The suggestions of a run that met no other run stay on the pull request
\* until more than max_history_len runs have published theirs, or that many
\* where some run had none to publish, with the exception of ticks, and of a
\* host whose client swallows the failure to edit the progress comment, before
\* the old comment is removed.
SuggestionsKept ==
    [][\A r \in Runs :
          Shown(r) /\ ~Shown(r)' =>
              \/ run[r].met # {}
              \/ Cardinality({q \in Tables : q > r}) > MaxHistory - Uncounted
              \/ \E q \in Tables : run[q].said = "tick"
              \/ failures > 0 /\ "edit" \in Swallows[setting.host] /\ ~setting.auto]_vars

\* The entries of a history that it can be cut at are within max_history_len;
\* the ones with a tick, or without a commit, are not counted out.
HistoryBounded ==
    \A c \in pr.comments :
        c.tables # <<>> =>
            Cardinality({n \in 2..Len(c.tables) : Cuttable(c.tables[n])}) <= MaxHistory

\* The tables of a comment are newest first, and none is there twice.
NewestOnTop ==
    \A c \in pr.comments :
        \A m, n \in DOMAIN c.tables :
            m < n => /\ c.tables[m].of # c.tables[n].of
                     /\ c.tables[m].of > c.tables[n].of
                           \/ ~Apart(c.tables[m].of, c.tables[n].of)

\* The history of suggestions: newest on top, each table once, and bounded
\* (pr_code_suggestions.py:290-340).
HistoryInOrder == TypeOK /\ HistoryBounded /\ NewestOnTop

\* At most one label tells the effort of the review, on the hosts where labels
\* are written as a whole, however reviews and other runs interleave.
OneEffortLabel ==
    setting.host \notin AddsLabels =>
        \A a, b \in pr.labels \cap EffortLabels : a = b

\* A run takes away a label of a user only if it was not there when the run
\* read the labels, or if that call failed.
UserLabelsKept ==
    [][\A l \in UserLabels :
          l \in pr.labels /\ l \notin pr'.labels =>
              \/ acts' # acts
              \/ \E r \in Runs : run'[r] # run[r] /\ l \notin run[r].seen]_vars

\* Of runs that do not overlap the latest review decides: the labels of the
\* reviews are its own.
LabelsOfLatestReview ==
    \A r \in Runs :
        /\ run[r].tool = "review" /\ Ended(r) /\ run[r].said \in {"issues", "nothing"}
        /\ \A q \in Runs : run[q].met = {}
        /\ \A q \in Runs : q > r => run[q].tool # "review" \/ run[q].pc \in {"idle", "prepare", "predict"}
        /\ failures = 0
        /\ setting.host \in Labelled \ AddsLabels
        => pr.labels \cap ReviewLabels = run[r].labels

\* What the labels say of a review, though runs overlap: one effort, and when
\* they do not the latest review's labels alone (pr_reviewer.py:387-420).
LabelsOfReviews == OneEffortLabel /\ LabelsOfLatestReview

\* What a user wrote before the generated part of the description, and that
\* the describe tool has read, is still there after it has written, unless the
\* generated part was deleted and the text stands behind a rule.
TextsSurvive ==
    [][\A r \in Runs, t \in Texts :
          /\ run[r].pc = "write" /\ run'[r].pc # "write" /\ pr'.body # pr.body
          /\ t \in ToSet(run[r].read)
          => \/ t \in ToSet(pr'.body)
             \/ IsGenerated(run[r].read)
                /\ \/ FirstOf(run[r].read, t) > FirstOf(run[r].read, "generated")
                   \/ FirstOf(run[r].read, t) > FirstOf(run[r].read, "rule")]_vars

=============================================================================
