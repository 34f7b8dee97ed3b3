------------------------------ MODULE Suggestions ------------------------------
(***************************************************************************)
(* From the answers of the model to the comments on the lines of a pull    *)
(* request: pr_code_suggestions.py (_prepare_pr_code_suggestions,          *)
(* analyze_self_reflection_response, the threshold of                      *)
(* prepare_prediction_main, dual_publishing, push_inline_code_suggestions) *)
(* and publish_code_suggestions of every host.  A call to the host may     *)
(* fail, with or without its effect.  What the host refuses is external:   *)
(* a comment on lines that are not in one hunk of the diff.                *)
(***************************************************************************)
EXTENDS Lists, SequencesExt, FiniteSets, FiniteSetsExt

CONSTANTS
    Publications,  \* instances: [host, mode, answers, feedback, hunks]
    FileLength,    \* lines of the file the suggestions are about
    Near,          \* the reasonable distance to a hunk
    Threshold,     \* suggestions_score_threshold
    Dual,          \* dual_publishing_score_threshold
    MaxFailures    \* bound on the calls that fail

VARIABLES
    publication,  \* the instance, or NoPublication
    step,         \* what comes next
    kept,         \* the suggestions above the threshold
    table,        \* the suggestions of the table published, with their scores
    queue,        \* suggestions the publication under way still has to send
    rest,         \* suggestions to be published one by one afterwards
    single,       \* publishing one by one
    verified,     \* GitHub: suggestions the host accepted for a pending review
    invalid,      \* GitHub: those it refused
    posted,       \* the comments on the pull request
    failures,     \* calls that failed
    unheard       \* names of suggestions accepted by a call that failed

pushVars == <<publication, step, kept, table, queue, rest, single, verified, invalid,
              posted, failures, unheard>>

Suggestion == [name : Nat \X Nat, summary : Nat, complete : BOOLEAN,
              start : Int, end : Int, score : Int]
Publishers == {"github", "gitlab", "azure", "gitea", "bitbucket", "bitbucket_server"}

\* A suggestion has its place among the answers for a name, and every hunk is
\* in the file.
ASSUME PublicationsAssumption ==
    /\ FileLength \in Nat /\ Near \in Nat /\ Threshold \in Int /\ Dual \in Int
    /\ MaxFailures \in Nat
    /\ \A p \in Publications :
          /\ p.host \in Publishers /\ p.mode \in {"inline", "table", "dual"}
          /\ p.answers \in Seq(Seq(Suggestion))
          /\ \A j \in DOMAIN p.answers : \A i \in DOMAIN p.answers[j] :
                p.answers[j][i].name = <<j, i>>
          /\ DOMAIN p.feedback = DOMAIN p.answers
          /\ \A j \in DOMAIN p.feedback : p.feedback[j] \in {"scored", "short", "failed"}
          /\ p.hunks \in Seq([start : Nat, size : Nat])
          /\ \A k \in DOMAIN p.hunks : p.hunks[k].start + p.hunks[k].size - 1 <= FileLength

Host == publication.host
NoPublication == [host |-> "none", mode |-> "inline", answers |-> <<>>,
                  feedback |-> <<>>, hunks |-> <<>>]

-----------------------------------------------------------------------------
(* From the answers to the suggestions that are kept.                      *)

\* Mutated form of Prepared: a suggestion without code is kept.
MutPrepared(answer) ==
    Chosen(answer, {i \in DOMAIN answer :
                       \A j \in 1..(i - 1) : answer[j].summary # answer[i].summary})

\* The suggestions of one call with all their keys, the first of each summary.
Prepared(answer) ==
    Chosen(answer, {i \in DOMAIN answer :
                       /\ answer[i].complete
                       /\ \A j \in 1..(i - 1) :
                             answer[j].complete => answer[j].summary # answer[i].summary})

Unscored(s, score) == [name |-> s.name, complete |-> s.complete, start |-> 0,
                       end |-> 0, score |-> score, scored |-> FALSE, form |-> "suggestion"]

\* The feedback on a suggestion gives its lines and its score; without lines
\* it is worth nothing.
ScoredBy(s, f) == [name |-> s.name, complete |-> s.complete, start |-> f.start,
                   end |-> f.end, score |-> IF f.start < 0 \/ f.end < 0 THEN 0 ELSE f.score,
                   scored |-> TRUE, form |-> "suggestion"]

\* Mutated form of Reflected: the feedback is used whatever its length.
MutReflected(list, feedback) ==
    CASE feedback = "failed" -> [i \in DOMAIN list |-> Unscored(list[i], 7)]
      [] feedback = "short"  -> [i \in DOMAIN list |->
                                   IF i < Len(list) THEN ScoredBy(list[i], list[i + 1])
                                   ELSE Unscored(list[i], 7)]
      [] OTHER -> [i \in DOMAIN list |-> ScoredBy(list[i], list[i])]

\* The feedback comes in the order of the suggestions; one that is shorter
\* (here the first is missing) is not used and the scores remain unset, which
\* counts as 1; without any, every score is 7.
Reflected(list, feedback) ==
    CASE feedback = "failed" -> [i \in DOMAIN list |-> Unscored(list[i], 7)]
      [] feedback = "short"  -> [i \in DOMAIN list |-> Unscored(list[i], 1)]
      [] OTHER -> [i \in DOMAIN list |-> ScoredBy(list[i], list[i])]

Lowest == IF Threshold > 1 THEN Threshold ELSE 1
AboveThreshold(s) == s.score >= Lowest

\* What is kept of a call.
KeptOf(j) ==
    Those(Reflected(Prepared(publication.answers[j]), publication.feedback[j]),
          AboveThreshold)

\* Only a suggestion with its lines can be put on them.
Located(s) == s.start # 0
Parsed(list) == Those(list, Located)

-----------------------------------------------------------------------------
(* The lines of a suggestion and the hunks (validate_comments_inside_hunks). *)

\* The lines of a hunk, for the host and for the client, which takes a count
\* that the header leaves out, a count of one, for zero.
InHunk(s, h) == h.start <= s.start /\ s.end < h.start + h.size
InDiff(s) == \E h \in ToSet(publication.hunks) : InHunk(s, h)
StartsInDiff(s) == InDiff([s EXCEPT !.end = s.start])
RangeOf(h) == [start |-> h.start, end |-> h.start - 1 + IF h.size = 1 THEN 0 ELSE h.size]

\* Lines that are in a range, or begin before it or end after it but not both.
Within(s, h) == h.start <= s.start /\ s.end <= h.end
Apart(s, h) == Max({0, h.start - s.start, s.end - h.end})
Beside(s, h) == ~(s.start < h.start /\ h.end < s.end)

\* Clipped to the nearest hunk, the first of them, and no longer committable.
Clipped(s) ==
    LET hunks == [k \in DOMAIN publication.hunks |-> RangeOf(publication.hunks[k])]
        near == {k \in DOMAIN hunks : Beside(s, hunks[k]) /\ Apart(s, hunks[k]) < Near}
        best == {k \in near : \A l \in near : Apart(s, hunks[k]) <= Apart(s, hunks[l])}
        h == hunks[Min(best)]
    IN  IF (\E k \in DOMAIN hunks : Within(s, hunks[k])) \/ near = {} THEN s
        ELSE [s EXCEPT !.start = Max({s.start, h.start}), !.end = Min({s.end, h.end}),
                       !.form = "moved"]

HasLines(s) == s.start > 0 /\ s.start <= s.end

\* Mutated form of Fixed: only what is not moved to a line can be published.
MutFixed(list) == <<>>

\* _try_fix_invalid_inline_comments: on the first line only, without the code;
\* a comment this does not change is dropped.
Fixed(list) ==
    LET changed == Those(list, LAMBDA s : s.form = "suggestion" \/ s.start < s.end)
    IN  [i \in DOMAIN changed |-> [changed[i] EXCEPT !.end = changed[i].start, !.form = "oneliner"]]

-----------------------------------------------------------------------------
(* A run of the tool.                                                      *)

SuggestionsIdle ==
    /\ publication = NoPublication
    /\ step = "done" /\ single = FALSE /\ failures = 0
    /\ kept = <<>> /\ table = <<>> /\ queue = <<>> /\ rest = <<>> /\ verified = <<>>
    /\ invalid = <<>> /\ posted = <<>> /\ unheard = {}

SuggestionsInit ==
    /\ publication \in Publications
    /\ step = "predict" /\ single = FALSE /\ failures = 0
    /\ kept = <<>> /\ table = <<>> /\ queue = <<>> /\ rest = <<>> /\ verified = <<>>
    /\ invalid = <<>> /\ posted = <<>> /\ unheard = {}

\* prepare_prediction_main: the suggestions of the calls, one after the other.
Predict ==
    /\ step = "predict"
    /\ kept' = FlattenSeq([j \in DOMAIN publication.answers |-> KeptOf(j)])
    /\ step' = "publish"
    /\ UNCHANGED <<publication, table, queue, rest, single, verified, invalid, posted, failures, unheard>>

\* What a call of publish_code_suggestions sends: on GitHub what is left of
\* the suggestions after they are clipped to the hunks.
SentToGithub(list) ==
    LET clipped == [i \in DOMAIN list |-> Clipped(list[i])]
    IN  Those(clipped, HasLines)

\* Azure DevOps and both Bitbuckets: those with lines; GitLab and Gitea: all.
SentToOthers(list) ==
    IF Host \in {"azure", "bitbucket", "bitbucket_server"} THEN Those(list, HasLines) ELSE list

Sent(list) == IF Host = "github" THEN SentToGithub(list) ELSE SentToOthers(list)

\* push_inline_code_suggestions; with nothing to publish the tool says so.
Push(list) ==
    /\ step' = IF list = <<>> THEN "done" ELSE "post"
    /\ rest' = Parsed(list)
    /\ queue' = Sent(rest')

\* The table has a row for every suggestion, or is empty: one without score or
\* lines is an exception, and what is published is the empty text.
TableOf(list) ==
    IF \A s \in ToSet(list) : s.scored /\ s.complete THEN list ELSE <<>>

\* With the score 7 of a reflection that failed a suggestion is above it too.
AboveDual(s) == s.score >= Dual /\ (s.scored \/ s.score = 7)

Markdown == Host \notin {"bitbucket", "bitbucket_server"}

PublishInline ==
    /\ step = "publish"
    /\ publication.mode = "inline" \/ ~Markdown \/ kept = <<>>
    /\ Push(kept)
    /\ UNCHANGED <<publication, kept, table, single, verified, invalid, posted, failures, unheard>>

\* generate_summarized_suggestions, the persistent comment, and those with a
\* high score once more on their lines.
PublishTable ==
    /\ step = "publish"
    /\ publication.mode \in {"table", "dual"} /\ Markdown /\ kept # <<>>
    /\ table' = TableOf(kept)
    /\ IF publication.mode = "dual" THEN Push(Those(kept, AboveDual))
       ELSE step' = "done" /\ UNCHANGED <<queue, rest>>
    /\ UNCHANGED <<publication, kept, single, verified, invalid, posted, failures, unheard>>

-----------------------------------------------------------------------------
(* publish_code_suggestions, of one list or of one suggestion.             *)

\* Mutated form of Returns: what is published one by one is tried again.
MutReturns(ok) ==
    LET todo == IF ok /\ ~single THEN <<>> ELSE rest
    IN  /\ rest' = IF ~ok \/ todo = <<>> THEN todo ELSE Tail(todo)
        /\ queue' = IF todo = <<>> THEN <<>> ELSE Sent(<<Head(todo)>>)
        /\ step' = IF todo = <<>> THEN "done" ELSE "post"
        /\ single' = (todo # <<>>)

\* When a list is not published for sure, each of its suggestions is published
\* again; what becomes of those calls is not looked at.
Returns(ok) ==
    LET todo == IF ok /\ ~single THEN <<>> ELSE rest
    IN  /\ rest' = IF todo = <<>> THEN <<>> ELSE Tail(todo)
        /\ queue' = IF todo = <<>> THEN <<>> ELSE Sent(<<Head(todo)>>)
        /\ step' = IF todo = <<>> THEN "done" ELSE "post"
        /\ single' = (todo # <<>>)

Post(list) == posted' = posted \o list
Fails == failures < MaxFailures /\ failures' = failures + 1

\* A call that fails without, or after, its effect.
FailsWith(list) ==
    /\ Fails
    /\ \/ UNCHANGED <<posted, unheard>>
       \/ list # <<>> /\ Post(list) /\ unheard' = unheard \cup {s.name : s \in ToSet(list)}

Heard == UNCHANGED <<failures, unheard>>
Posting == step = "post" /\ Host # "github" /\ queue # <<>>
Untouched == UNCHANGED <<publication, kept, table, verified, invalid>>

\* The suggestion at the head of the list is done with.
GoOn == queue' = Tail(queue) /\ UNCHANGED <<step, rest, single>>

\* Whether the host takes a comment on the lines of a suggestion: in the diff
\* by its first line, or anywhere.
Accepts(s) == Host \in {"azure", "gitea"} \/ StartsInDiff(s)

PostOne ==
    /\ Posting /\ Accepts(Head(queue))
    /\ Host = "gitlab" => Head(queue).start <= FileLength
    /\ Post(<<Head(queue)>>) /\ Heard /\ GoOn /\ Untouched

\* GitLab: what is not on a line of the diff becomes a note on the file.
PostNote ==
    /\ Posting /\ Host = "gitlab" /\ ~Accepts(Head(queue)) /\ Head(queue).start <= FileLength
    /\ Post(<<[Head(queue) EXCEPT !.form = "note"]>>) /\ Heard /\ GoOn /\ Untouched

\* GitLab: the line is looked up in the file first.
BeyondTheFile ==
    /\ Posting /\ Host = "gitlab" /\ Head(queue).start > FileLength
    /\ GoOn /\ Heard /\ UNCHANGED posted /\ Untouched

\* Bitbucket: the status of the answer is not looked at.
RefusedUnseen ==
    /\ Posting /\ Host = "bitbucket" /\ ~Accepts(Head(queue))
    /\ GoOn /\ Heard /\ UNCHANGED posted /\ Untouched

\* Bitbucket Server: the rest of the list is given up.
RefusedAll ==
    /\ Posting /\ Host = "bitbucket_server" /\ ~Accepts(Head(queue))
    /\ Returns(FALSE) /\ Heard /\ UNCHANGED posted /\ Untouched

\* A call that fails costs Azure DevOps its suggestion; both Bitbuckets give
\* up the list, and Gitea the whole run.
FailOne ==
    /\ Posting /\ Host # "gitlab"
    /\ FailsWith(<<Head(queue)>>)
    /\ CASE Host = "azure" -> GoOn
         [] Host = "gitea" -> step' = "done" /\ queue' = <<>> /\ rest' = <<>> /\ UNCHANGED single
         [] OTHER -> Returns(FALSE)
    /\ Untouched

\* GitLab: when the diffs cannot be read the suggestion is lost, and when the
\* comment fails the note is tried.
FailOnGitlab ==
    /\ Posting /\ Host = "gitlab" /\ Head(queue).start <= FileLength
    /\ LET s == Head(queue)
           note == [s EXCEPT !.form = "note"]
       IN  \/ Fails /\ UNCHANGED <<posted, unheard>>
           \/ Accepts(s) /\ Fails /\ Post(<<note>>) /\ UNCHANGED unheard
           \/ Accepts(s) /\ Fails /\ Post(<<s, note>>) /\ unheard' = unheard \cup {s.name}
           \/ ~Accepts(s) /\ FailsWith(<<note>>)
    /\ GoOn /\ Untouched

\* Mutated form of ListDone: Bitbucket's success is not reported either.
MutListDone ==
    /\ step = "post" /\ Host # "github" /\ queue = <<>>
    /\ Returns(Host \notin {"gitea", "bitbucket"})
    /\ Heard /\ UNCHANGED posted /\ Untouched

\* The method of Gitea returns nothing, which is taken for a failure.
ListDone ==
    /\ step = "post" /\ Host # "github" /\ queue = <<>>
    /\ Returns(Host # "gitea")
    /\ Heard /\ UNCHANGED posted /\ Untouched

-----------------------------------------------------------------------------
(* GitHub: one review for the list, and what is done when it is refused.   *)

\* The host takes a review whose comments are all in the diff.
Review ==
    /\ step = "post" /\ Host = "github"
    /\ queue # <<>> /\ \A s \in ToSet(queue) : InDiff(s)
    /\ Post(queue) /\ Returns(TRUE) /\ Heard /\ Untouched

\* 422: each comment is verified by itself.
RefuseReview ==
    /\ step = "post" /\ Host = "github"
    /\ queue = <<>> \/ \E s \in ToSet(queue) : ~InDiff(s)
    /\ step' = "verify" /\ verified' = <<>> /\ invalid' = <<>>
    /\ Heard /\ UNCHANGED <<publication, kept, table, queue, rest, single, posted>>

FailReview ==
    /\ step = "post" /\ Host = "github"
    /\ FailsWith(IF \A s \in ToSet(queue) : InDiff(s) THEN queue ELSE <<>>)
    /\ Returns(FALSE) /\ Untouched

\* _verify_code_comment: a pending review of one comment, deleted at once.
Verify ==
    /\ step = "verify" /\ queue # <<>>
    /\ LET s == Head(queue)
       IN  \/ /\ InDiff(s) /\ verified' = Append(verified, s)
              /\ UNCHANGED <<invalid, failures>>
           \/ /\ ~InDiff(s) /\ invalid' = Append(invalid, s)
              /\ UNCHANGED <<verified, failures>>
           \/ /\ InDiff(s) /\ Fails /\ invalid' = Append(invalid, s)
              /\ UNCHANGED verified
    /\ queue' = Tail(queue)
    /\ UNCHANGED <<publication, kept, table, step, rest, single, posted, unheard>>

\* The verified comments in one review; that it fails is not noticed.
PostVerified ==
    /\ step = "verify" /\ queue = <<>>
    /\ \/ Post(verified) /\ Heard
       \/ verified # <<>> /\ FailsWith(verified)
    /\ step' = "fix" /\ queue' = Fixed(invalid) /\ verified' = <<>> /\ invalid' = <<>>
    /\ UNCHANGED <<publication, kept, table, rest, single>>

\* The others one by one, for the line they begin at; failures are logged.
PostFixed ==
    /\ step = "fix" /\ queue # <<>>
    /\ \/ /\ IF InDiff(Head(queue)) THEN Post(<<Head(queue)>>) ELSE UNCHANGED posted
          /\ Heard
       \/ InDiff(Head(queue)) /\ FailsWith(<<Head(queue)>>)
    /\ GoOn /\ Untouched

FallbackDone ==
    /\ step = "fix" /\ queue = <<>>
    /\ Returns(TRUE) /\ Heard /\ UNCHANGED posted /\ Untouched

SuggestionsNext ==
    \/ Predict \/ PublishInline \/ PublishTable
    \/ PostOne \/ PostNote \/ BeyondTheFile \/ RefusedUnseen \/ RefusedAll
    \/ FailOne \/ FailOnGitlab \/ ListDone
    \/ Review \/ RefuseReview \/ FailReview \/ Verify \/ PostVerified \/ PostFixed
    \/ FallbackDone

-----------------------------------------------------------------------------

Published == publication # NoPublication /\ step = "done"
Times(name) == Cardinality({k \in DOMAIN posted : posted[k].name = name})

\* The suggestions that belong on lines of the diff.
Wanted ==
    IF publication.mode = "inline" \/ ~Markdown THEN Parsed(kept)
    ELSE IF publication.mode = "dual" THEN Parsed(Those(kept, AboveDual)) ELSE <<>>

\* A suggestion whose first line is in the diff gets its comment on every host
\* when no call fails, wherever its last line is and whatever becomes of the
\* other suggestions of the list (the fallback and the fixes of GitHub, the
\* retry one by one of the others).  GitHub's client may move it out of all
\* lines when a hunk of the file shows one line or none of the new file.
FirstLineIsEnough ==
    Published /\ failures = 0 =>
        \A s \in ToSet(Wanted) :
            StartsInDiff(s) /\ s.start <= s.end =>
                \/ Times(s.name) > 0
                \/ Host = "github" /\ \E h \in ToSet(publication.hunks) : h.size < 2

\* No suggestion is on the pull request twice when every call that takes effect
\* is heard to (push_inline_code_suggestions:575-580).
PostedOnce == unheard = {} => \A s \in ToSet(posted) : Times(s.name) = 1

\* The same outside the known cases: Gitea's publication is repeated always,
\* that of both Bitbuckets when a call fails or is refused halfway.
PostedOnceOrKnown ==
    unheard = {} =>
        \/ Host = "gitea"
        \/ Host = "bitbucket" /\ failures > 0
        \/ Host = "bitbucket_server" /\ (failures > 0 \/ \E s \in ToSet(Wanted) : ~StartsInDiff(s))
        \/ \A s \in ToSet(posted) : Times(s.name) = 1

\* Every suggestion that can be placed is on the pull request once, whatever
\* way it took there: all at once, without the refused ones, or one by one
\* (pr_code_suggestions.py:545-590, github_provider.py:450-560).
PlacedOnce == FirstLineIsEnough /\ PostedOnceOrKnown

\* The answer and the feedback on a suggestion, by its name.
Answer(name) == publication.answers[name[1]][name[2]]

\* A suggestion is published with the score and on the lines given to it, be
\* the feedback on the others complete or not; a moved one within them.
OwnScore ==
    \A s \in ToSet(table) \cup ToSet(posted) :
        LET a == Answer(s.name)
        IN  a.score >= Lowest /\ s.score = a.score
            /\ s.start >= a.start /\ (s.form # "note" => s.end <= a.end)

\* The table shows all suggestions that are kept.  Only an answer without a
\* feedback on each of its suggestions makes the whole table empty, those of
\* the other calls included (pr_code_suggestions.py:805, :886).
TableWhole ==
    Published /\ publication.mode # "inline" /\ Markdown =>
        table = kept \/ \E j \in DOMAIN publication.feedback : publication.feedback[j] # "scored"

\* The reflection decides, for each suggestion by itself, with which score it is
\* published and whether it is in the table (pr_code_suggestions.py:416-480,
\* 795-890).
AsReflected == OwnScore /\ TableWhole

\* The publication ends, the retries included.
PublicationEnds == <>(step = "done")
=============================================================================
