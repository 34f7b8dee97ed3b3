------------------------------- MODULE ReviewRun -------------------------------
(***************************************************************************)
(* A run of the review tool (pr_agent/tools/pr_reviewer.py) that is not    *)
(* incremental, from its construction to the removal of its temporary      *)
(* comment.                                                                *)
(***************************************************************************)
EXTENDS PullRequest

\* What a review may have to say with labels: an effort, a concern, or an
\* effort that cannot be read.
EffortLabels == {"Review effort 1/5", "Review effort 2/5"}
ReviewLabels == EffortLabels \cup {"Possible security concern"}
ReviewAnswers == {{"Review effort 1/5"},
                  {"Review effort 2/5", "Possible security concern"}, {}}

PrepareReview(r) ==
    /\ run[r].pc = "prepare"
    /\ StartComment(r, "temp", "temp", At(r, "predict"), Done(r))

\* The model fails, answers nothing, or answers with labels and either with
\* something to say or without.
PredictReview(r) ==
    /\ run[r].pc = "predict"
    /\ \/ Local(r, [Done(r) EXCEPT !.said = "error"])
       \/ Local(r, At(r, "cleanup"))
       \/ \E L \in ReviewAnswers, said \in {"issues", "nothing"} :
             Local(r, [At(r, "getLabels") EXCEPT !.labels = L, !.said = said,
                                                 !.kind = "review"])

\* Mutated forms of OthersLabels: only one kind of label of earlier reviews is
\* left out.
MutKeepsConcern(r) == run[r].seen \ EffortLabels
MutKeepsEffort(r) == run[r].seen \ {"Possible security concern"}

\* The labels that no review has set.
OthersLabels(r) == run[r].seen \ ReviewLabels

\* set_review_labels, where no failure ends the run.
SetReviewLabels(r) ==
    \/ /\ run[r].pc = "getLabels"
       /\ IF setting.host \in Labelled
          THEN GetLabels(r, At(r, "putLabels"), At(r, "report"))
          ELSE Local(r, At(r, "report"))
    \/ /\ run[r].pc = "putLabels"
       /\ PutLabels(r, run[r].labels \cup OthersLabels(r), At(r, "report"),
                    At(r, "report"))

\* A review with nothing to say may be kept quiet.
ReportReview(r) ==
    /\ run[r].pc = "report"
    /\ Local(r, IF setting.quiet /\ run[r].said = "nothing" THEN Done(r) ELSE At(r, "list"))

ReviewStep(r) ==
    \/ PrepareReview(r)
    \/ PredictReview(r)
    \/ SetReviewLabels(r)
    \/ ReportReview(r)
=============================================================================
