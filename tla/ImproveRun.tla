------------------------------ MODULE ImproveRun ------------------------------
(***************************************************************************)
(* A run of the improve tool (pr_agent/tools/pr_code_suggestions.py), with *)
(* its progress comment and the one comment that keeps the tables of the   *)
(* earlier runs as a history.                                              *)
(***************************************************************************)
EXTENDS PullRequest

CONSTANT MaxHistory   \* max_history_len

ASSUME HistoryAssumption == MaxHistory \in Nat \ {0}

\* A table of suggestions: the run it is of, whether the commit it is up to is
\* noted before it, and whether there is a tick in it.
Table(r, linked) == [of |-> r, linked |-> linked, tick |-> run[r].said = "tick"]

ProgressId(r) == <<r, "progress">>

\* progress_response is set.
HasProgress(r) == ~setting.auto /\ setting.host \in Gfm /\ run[r].kind = "progress"

PrepareImprove(r) ==
    /\ run[r].pc = "prepare"
    /\ IF setting.host \in Gfm
       THEN StartComment(r, "progress", "progress",
                         [At(r, "predict") EXCEPT !.kind = "progress"],
                         At(r, "failed"))
       ELSE StartComment(r, "temp", "temp", At(r, "predict"), At(r, "failed"))

PredictImprove(r) ==
    /\ run[r].pc = "predict"
    /\ \/ Local(r, At(r, "failed"))
       \/ Local(r, [At(r, "none") EXCEPT !.said = "nothing"])
       \/ \E said \in {"plain", "tick"} :
             Local(r, [At(r, "found") EXCEPT !.said = said])

\* The body is shown in the progress comment, or in a comment of its own.
Show(r, kind, tables, next, raised) ==
    IF HasProgress(r)
    THEN EditCall(r, ProgressId(r), Note(ProgressId(r), kind, tables), next, raised)
    ELSE PublishCall(r, Note(<<r, kind>>, kind, tables), next, raised)

\* publish_no_suggestions: the temporary comment of a host without gfm stays,
\* and so does the progress comment when nothing may be published.
NoSuggestions(r) ==
    /\ run[r].pc = "none"
    /\ IF setting.quiet
       THEN Local(r, Done(r))
       ELSE Show(r, "none", <<>>, Done(r), At(r, "failed"))

\* remove_initial_comment, then the table or the inline suggestions.
FoundSuggestions(r) ==
    /\ run[r].pc = "found"
    /\ CleanupCall(r, At(r, IF setting.commitable \/ setting.host \notin Gfm THEN "inline"
                            ELSE IF setting.persistent THEN "look" ELSE "single"))

\* push_inline_code_suggestions, then the progress comment is removed.
PushInline(r) ==
    \/ /\ run[r].pc = "inline"
       /\ Call(r, "inline", pr, IF HasProgress(r) THEN At(r, "unprogress") ELSE Done(r),
               At(r, "failed"))
    \/ /\ run[r].pc = "unprogress"
       /\ Call(r, "remove", Without(ProgressId(r)), Done(r), At(r, "failed"))

\* A comment with nothing but the table, when it is not persistent.
PublishSingle(r) ==
    /\ run[r].pc = "single"
    /\ Show(r, "table", <<Table(r, FALSE)>>, Done(r), At(r, "failed"))

-----------------------------------------------------------------------------
(* publish_persistent_comment_with_history                                   *)

LookForSuggestions(r) ==
    /\ run[r].pc = "look"
    /\ Call(r, "list", pr,
            [At(r, "merge") EXCEPT !.listed = Headed(pr.comments, "suggestions")],
            At(r, "whole"))

\* The entries a history can be cut at: the ones that read "Suggestions up to
\* commit", with no tick before it.
Cuttable(e) == e.linked /\ ~e.tick

\* Mutated forms of Cut: the history is cut when it is over the bound, or when
\* it is at the bound with the table that was the latest.
MutCut(history) ==
    LET at == {n \in DOMAIN history : Cuttable(history[n])}
    IN  IF Len(history) <= MaxHistory \/ at = {}
        THEN history
        ELSE SubSeq(history, 1, Max(at) - 1)
MutCutsEarly(history) ==
    LET at == {n \in DOMAIN history : Cuttable(history[n])}
    IN  IF 1 + Len(history) < MaxHistory \/ at = {}
        THEN history
        ELSE SubSeq(history, 1, Max(at) - 1)

\* A history at its bound is cut at the last such entry, if there is any.
Cut(history) ==
    LET at == {n \in DOMAIN history : Cuttable(history[n])}
    IN  IF Len(history) < MaxHistory \/ at = {}
        THEN history
        ELSE SubSeq(history, 1, Max(at) - 1)

\* Mutated forms of Merged: the table that was the latest is not kept, or stays
\* on top.
MutForgetsLatest(r, tables) == <<Table(r, TRUE)>> \o Cut(Tail(tables))
MutBelow(r, tables) == <<Head(tables), Table(r, TRUE)>> \o Cut(Tail(tables))

\* The tables of a comment with the new one on top.
Merged(r, tables) == <<Table(r, TRUE), Head(tables)>> \o Cut(Tail(tables))

\* A comment without a table is overwritten, and the search goes on.
OverwriteNone(r) ==
    /\ run[r].pc = "merge"
    /\ run[r].listed # {}
    /\ First(run[r].listed).kind = "none"
    /\ LET id == First(run[r].listed).id
           next == [run[r] EXCEPT !.listed = @ \ {First(@)}]
       IN  EditCall(r, id, [Note(id, "table", <<Table(r, FALSE)>>) EXCEPT !.by = r],
                    next, At(r, "whole"))

\* The first comment with a table: the merged tables are shown in the progress
\* comment and the old one is removed, or else it is edited in place.
MergeInto(r) ==
    /\ run[r].pc = "merge"
    /\ run[r].listed # {}
    /\ First(run[r].listed).kind = "table"
    /\ LET c == First(run[r].listed)
           id == IF HasProgress(r) THEN ProgressId(r) ELSE c.id
       IN  EditCall(r, id, [Note(id, "table", Merged(r, c.tables)) EXCEPT !.by = r],
                    IF HasProgress(r) THEN At(r, "unlist") ELSE Done(r), At(r, "whole"))

RemoveMerged(r) ==
    /\ run[r].pc = "unlist"
    /\ Call(r, "remove", Without(First(run[r].listed).id), Done(r), At(r, "whole"))

NothingToMerge(r) ==
    /\ run[r].pc = "merge"
    /\ run[r].listed = {}
    /\ Local(r, At(r, "whole"))

\* No comment was updated, or the update failed.
PublishTable(r) ==
    /\ run[r].pc = "whole"
    /\ Show(r, "table", <<Table(r, TRUE)>>, Done(r), At(r, "failed"))

-----------------------------------------------------------------------------

\* The handler of exceptions of the run.
ImproveFailed(r) ==
    \/ /\ run[r].pc = "failed"
       /\ IF HasProgress(r)
          THEN Call(r, "remove", Without(ProgressId(r)), Done(r), Done(r))
          ELSE CleanupCall(r, At(r, "tell"))
    \/ /\ run[r].pc = "tell"
       /\ PublishCall(r, Note(<<r, "failed">>, "failed", <<>>), Done(r), Done(r))

ImproveStep(r) ==
    \/ PrepareImprove(r) \/ PredictImprove(r) \/ NoSuggestions(r)
    \/ FoundSuggestions(r) \/ PushInline(r) \/ PublishSingle(r)
    \/ LookForSuggestions(r) \/ OverwriteNone(r) \/ MergeInto(r)
    \/ RemoveMerged(r) \/ NothingToMerge(r) \/ PublishTable(r)
    \/ ImproveFailed(r)
=============================================================================
