------------------------------ MODULE DescribeRun ------------------------------
(***************************************************************************)
(* A run of the describe tool (pr_agent/tools/pr_description.py): it takes *)
(* the user's text out of the description it may have written itself, puts *)
(* its own text after it, and labels the pull request with its type.       *)
(*                                                                         *)
(* A description is a sequence of texts of users and of                    *)
(*   "user"       the header "### **User description**"                    *)
(*   "rule"       a line "___"                                             *)
(*   "generated"  the sections of the tool, "### **PR Type**" first        *)
(*   "marker"     a marker "pr_agent:..." of a template                    *)
(*   "answer"     what the tool put in the place of a marker               *)
(***************************************************************************)
EXTENDS PullRequest

CONSTANT Texts   \* texts of users

Written == {"user", "rule", "generated", "marker", "answer"}

ASSUME TextsAssumption == Texts \cap Written = {}

\* The labels of a type, which get_user_labels tells from others by their name.
TypeLabels == {"Bug fix", "Enhancement"}
DescribeAnswers == {{"Bug fix"}, {"Enhancement"}}

FirstOf(s, t) == IF t \in ToSet(s) THEN SelectInSeq(s, LAMBDA x : x = t) ELSE Len(s) + 1

\* The text before the first rule, without the header of the user's text.
BeforeRule(s) ==
    LET text == SubSeq(s, 1, FirstOf(s, "rule") - 1)
    IN  IF text # <<>> /\ Head(text) = "user" THEN Tail(text) ELSE text

\* The text without a rule at its end.
NoRule(s) == IF s # <<>> /\ Last(s) = "rule" THEN Front(s) ELSE s

\* _is_generated_by_pr_agent: the description begins with one of its headers.
IsGenerated(body) == body # <<>> /\ Head(body) \in {"user", "generated"}

\* Mutated form of UserDescription: what the tool wrote is all its own.
MutNoUserPart(body) == IF IsGenerated(body) THEN <<>> ELSE body

\* get_user_description: the user's part of a description.
UserDescription(body) ==
    LET start == FirstOf(body, "user")
        end == FirstOf(body, "generated")
    IN  IF ~IsGenerated(body) THEN body
        ELSE IF "user" \notin ToSet(body) THEN <<>>
        ELSE IF end <= Len(body) /\ end > start
             THEN NoRule(SubSeq(body, start + 1, end - 1))
             ELSE BeforeRule(body)

\* _prepare_pr_answer: the user's text comes first, under its header.
Answer(text) ==
    (IF text = <<>> THEN <<>> ELSE <<"user">> \o text \o <<"rule">>) \o <<"generated">>

\* _prepare_pr_answer_with_markers: the template with its markers replaced.
AnswerInMarkers(text) == [n \in DOMAIN text |-> IF text[n] = "marker" THEN "answer" ELSE text[n]]

PrepareDescribe(r) ==
    /\ run[r].pc = "prepare"
    /\ StartComment(r, "temp", "temp", At(r, "predict"), Done(r))

\* The model is not asked when markers are on and the user's text has none.
PredictDescribe(r) ==
    /\ run[r].pc = "predict"
    /\ IF setting.markers /\ "marker" \notin ToSet(UserDescription(run[r].read))
       THEN Local(r, At(r, "cleanup"))
       ELSE \/ Local(r, [Done(r) EXCEPT !.said = "error"])
            \/ Local(r, At(r, "cleanup"))
            \/ \E L \in DescribeAnswers :
                  Local(r, [At(r, "getLabels") EXCEPT !.labels = L, !.kind = "title"])

\* Mutated form of UsersLabels: no label is kept.
MutUsersLabels(r) == {}

\* get_user_labels: the labels that are not the name of a type.
UsersLabels(r) == run[r].seen \ TypeLabels

\* Where the run goes on after the labels.
AfterLabels(r) == At(r, IF setting.asComment THEN "list" ELSE "write")

\* The labels of the run and of the users, where a failure ends the run.
SetTypeLabels(r) ==
    \/ /\ run[r].pc = "getLabels"
       /\ IF setting.host \in Labelled
          THEN GetLabels(r, At(r, "putLabels"), Done(r))
          ELSE Local(r, AfterLabels(r))
    \/ /\ run[r].pc = "putLabels"
       /\ PutLabels(r, run[r].labels \cup UsersLabels(r), AfterLabels(r), Done(r))

\* publish_description, of the text the run read at its beginning.
WriteDescription(r) ==
    LET text == UserDescription(run[r].read)
        body == IF setting.markers THEN AnswerInMarkers(text) ELSE Answer(text)
    IN  /\ run[r].pc = "write"
        /\ Call(r, "description", [pr EXCEPT !.body = body],
                At(r, IF setting.auto THEN "cleanup" ELSE "tell"), Done(r))

\* "PR Description updated to latest commit".
TellDescription(r) ==
    /\ run[r].pc = "tell"
    /\ PublishCall(r, Note(<<r, "notice">>, "notice", <<>>), At(r, "cleanup"), Done(r))

DescribeStep(r) ==
    \/ PrepareDescribe(r)
    \/ PredictDescribe(r)
    \/ SetTypeLabels(r)
    \/ WriteDescription(r)
    \/ TellDescription(r)

-----------------------------------------------------------------------------
(* The users, who write the description                                      *)

\* A text is put before the description, after it, or instead of it.
EditDescription ==
    /\ acts < MaxActs
    /\ acts' = acts + 1
    /\ \E t \in Texts \ ToSet(pr.body) :
          \E body \in {<<t>> \o pr.body, Append(pr.body, t), <<t>>} :
             pr' = [pr EXCEPT !.body = body]
    /\ UNCHANGED <<setting, run, failures>>

\* What the tool wrote is deleted, its rule and its header perhaps not.
DeleteGenerated ==
    /\ acts < MaxActs
    /\ acts' = acts + 1
    /\ "generated" \in ToSet(pr.body)
    /\ pr' = [pr EXCEPT !.body = RemoveAt(@, FirstOf(@, "generated"))]
    /\ UNCHANGED <<setting, run, failures>>
=============================================================================
