------------------------------ MODULE ModelCalls ------------------------------
(***************************************************************************)
(* The calls of a request to its models: every tool that asks for an       *)
(* answer goes through the models and deployments of the settings until    *)
(* one answers, and makes its prompts again for each of them               *)
(* (retry_with_fallback_models).  A request makes some of them, one after  *)
(* the other, as the commands configured for a pull request are run.       *)
(*                                                                         *)
(* request has, besides the fields of DiffBudget,                          *)
(*   predictions  how many it makes                                       *)
(*   models     get_max_tokens of the model and of its fallbacks (0: no    *)
(*              limit is known)                                            *)
(*   fallbacks  the number of openai.fallback_deployments                  *)
(*   parallel   the prompts of a diff are sent at once                     *)
(*   reasoning  config.model_reasoning is set, to a model of its own        *)
(* The answer on each part of improve goes back to a model, to be scored:  *)
(* the reflection.  describe asks once more for the parts together.        *)
(* Deployment 1 is openai.deployment_id, deployment k + 1 the k-th of      *)
(* openai.fallback_deployments.                                            *)
(***************************************************************************)
EXTENDS DiffBudget

CONSTANT Retries        \* MODEL_RETRIES

ASSUME RetriesAssumption == Retries \in Nat \ {0}
ASSUME ModelsAssumption ==
    \A pr \in PullRequests :
        /\ pr.models \in Seq(Nat) /\ pr.models # <<>>
        /\ pr.fallbacks \in Nat /\ pr.predictions \in Nat /\ pr.reasoning \in BOOLEAN

VARIABLES number,       \* the prediction made
          pairs,        \* deployments the models are tried with
          attempt,      \* index of the pair being tried
          deployment,   \* openai.deployment_id of the request's settings
          waiting,      \* calls not answered: see Call
          answers,      \* the parts of the diff answered, for this attempt
          results,      \* of the predictions ended: the attempt answered, or 0
          sent          \* what the models were asked: see Ask

callVars == <<number, pairs, attempt, deployment, waiting, answers, results, sent>>
vars == <<request, budgetVars, callVars>>

Models == Len(request.models)

\* _get_all_deployments, from the deployment the settings hold now.
Deployments ==
    IF request.fallbacks = 0 THEN [k \in 1..Models |-> deployment]
    ELSE [k \in 1..(request.fallbacks + 1) |-> IF k = 1 THEN deployment ELSE k]

\* describe asks about parts of the diff, and then once for what they are about.
InParts == request.mode = "large" /\ (Len(chunks) > 1 \/ base # request.prompt)

\* The parts to be answered: an empty diff is not sent, but by describe in turn.
Parts == {k \in DOMAIN chunks :
             chunks[k].files # <<>> \/ (request.mode # "multi" /\ chunks[k].total > base)
                 \/ (InParts /\ ~request.parallel)}

CallsInit ==
    /\ number = 1 /\ pairs = <<>> /\ attempt = 0 /\ deployment = 1
    /\ waiting = {} /\ answers = {} /\ results = <<>> /\ sent = {}

-----------------------------------------------------------------------------

EndWith(result) ==
    /\ results' = Append(results, result)
    /\ stage' = "idle"
    /\ UNCHANGED <<number, pairs, attempt, answers>>

Begin ==
    /\ stage = "idle" /\ Len(results) < request.predictions
    /\ number' = Len(results) + 1
    /\ pairs' = Deployments
    /\ attempt' = 0 /\ answers' = {}
    /\ IF request.fallbacks # 0 /\ Len(Deployments) < Models
       THEN results' = Append(results, 0) /\ stage' = "idle"
       ELSE results' = results /\ stage' = "try"
    /\ UNCHANGED <<request, limit, base, dict, todo, total, chunk, chunks, pass, left,
                   dropped, deployment, waiting, sent>>

\* (mutants) prompts of the first model for all of them; the deployment is not
\* changed; answers of the attempt before are kept
MutPromptsKept ==
    /\ stage = "try"
    /\ attempt' = attempt + 1
    /\ deployment' = pairs[attempt']
    /\ answers' = {}
    /\ StartDiff(request.models[1])
    /\ UNCHANGED <<request, number, pairs, waiting, results, sent>>
MutDeploymentKept ==
    /\ stage = "try"
    /\ attempt' = attempt + 1
    /\ answers' = {}
    /\ StartDiff(request.models[attempt'])
    /\ UNCHANGED <<request, number, pairs, waiting, results, sent, deployment>>
MutAnswersKept ==
    /\ stage = "try"
    /\ attempt' = attempt + 1
    /\ deployment' = pairs[attempt']
    /\ StartDiff(request.models[attempt'])
    /\ UNCHANGED <<request, number, pairs, waiting, results, sent, answers>>

\* The next pair: the settings are told its deployment, the prompts are made
\* for its model.
Try ==
    /\ stage = "try"
    /\ attempt' = attempt + 1
    /\ deployment' = pairs[attempt']
    /\ answers' = {}
    /\ StartDiff(request.models[attempt'])
    /\ UNCHANGED <<request, number, pairs, waiting, results, sent>>

\* (mutant) after the last model the first is tried again
MutStartOver ==
    /\ stage' = "try"
    /\ attempt' = IF attempt = Models THEN 0 ELSE attempt
    /\ UNCHANGED <<number, pairs, answers, results>>

\* Whatever goes wrong, another model is tried.  Of the calls sent at once the
\* others go on.
Fail ==
    IF attempt = Models THEN EndWith(0)
    ELSE stage' = "try" /\ UNCHANGED <<number, pairs, attempt, answers, results>>

NoLimit ==
    /\ stage = "extend" /\ limit = 0
    /\ Fail
    /\ UNCHANGED <<request, limit, base, dict, todo, total, chunk, chunks, pass, left,
                   dropped, deployment, waiting, sent>>

Call(kind, k, tokens) == [number |-> number, attempt |-> attempt, kind |-> kind, part |-> k,
                          total |-> tokens, tries |-> 0]
PartCall(k) == Call("part", k, chunks[k].total)

\* What was said of the parts is clipped to what the model may be asked.
HeaderCall == Call("header", 0, Room)

\* The calls that follow when all parts but those in rest are answered.
NextCalls(rest) ==
    IF rest = {} THEN IF InParts THEN {HeaderCall} ELSE {}
    ELSE IF request.parallel THEN {}
    ELSE {PartCall(CHOOSE k \in rest : \A j \in rest : k <= j)}
AfterParts(rest) == IF rest = {} /\ ~InParts THEN "answered" ELSE "sending"

SendParts ==
    /\ stage = "ready"
    /\ stage' = AfterParts(Parts)
    /\ waiting' = waiting \cup NextCalls(Parts)
                   \cup (IF request.parallel THEN {PartCall(k) : k \in Parts} ELSE {})
    /\ UNCHANGED <<request, limit, base, dict, todo, total, chunk, chunks, pass, left,
                   dropped, number, pairs, attempt, deployment, answers, results, sent>>

Current(c) == stage = "sending" /\ c.number = number /\ c.attempt = attempt

\* (mutant) the reflection of a fallback is asked of the first model
MutModelOf(c) == IF c.kind # "reflection" THEN c.attempt ELSE IF request.reasoning THEN 0 ELSE 1

\* A reflection is asked of the reasoning model (0), or else of the first one,
\* which only the first fallback stands in for.
ModelOf(c) ==
    IF c.kind # "reflection" THEN c.attempt
    ELSE IF request.reasoning THEN 0
    ELSE IF c.attempt = 2 THEN 2 ELSE 1

\* chat_completion reads the deployment of the settings at every try.
Ask(c) == sent' = sent \cup {[number |-> c.number, attempt |-> c.attempt, kind |-> c.kind,
                              model |-> ModelOf(c), deployment |-> deployment,
                              total |-> c.total, current |-> Current(c)]}

\* What improve was suggested is sent back, to be scored.
Reflect(c) ==
    /\ c.kind = "part" /\ request.mode = "multi"
    /\ waiting' = (waiting \ {c}) \cup {[c EXCEPT !.kind = "reflection", !.tries = 0]}
    /\ UNCHANGED <<answers, stage>>

\* A part is done with, its suggestions scored or, if the reflection is given up,
\* given a score by default; or there were none.
PartDone(c) ==
    LET rest == Parts \ (answers \cup {c.part}) IN
    /\ c.kind # "header" /\ Current(c)
    /\ answers' = answers \cup {c.part}
    /\ waiting' = (waiting \ {c}) \cup NextCalls(rest)
    /\ stage' = AfterParts(rest)

DoneInVain(c) == ~Current(c) /\ waiting' = waiting \ {c} /\ UNCHANGED <<answers, stage>>

HeaderDone(c) ==
    /\ c.kind = "header" /\ Current(c)
    /\ waiting' = waiting \ {c}
    /\ stage' = "answered"
    /\ UNCHANGED answers

Answered(c) ==
    /\ c \in waiting
    /\ Ask(c)
    /\ Reflect(c) \/ PartDone(c) \/ DoneInVain(c) \/ HeaderDone(c)
    /\ UNCHANGED <<request, limit, base, dict, todo, total, chunk, chunks, pass, left,
                   dropped, number, pairs, attempt, deployment, results>>

\* An error of the host of the model is tried again; a rate limit, an error of
\* another kind, or an answer that cannot be read, is not.
Refused(c) ==
    /\ c \in waiting
    /\ Ask(c)
    /\ \/ /\ c.tries + 1 < Retries
          /\ waiting' = (waiting \ {c}) \cup {[c EXCEPT !.tries = @ + 1]}
          /\ UNCHANGED <<number, pairs, attempt, answers, results, stage>>
       \/ /\ waiting' = waiting \ {c}
          /\ IF Current(c) THEN Fail
             ELSE UNCHANGED <<number, pairs, attempt, answers, results, stage>>
    /\ UNCHANGED <<request, limit, base, dict, todo, total, chunk, chunks, pass, left,
                   dropped, deployment>>

Return ==
    /\ stage = "answered"
    /\ EndWith(attempt)
    /\ UNCHANGED <<request, limit, base, dict, todo, total, chunk, chunks, pass, left,
                   dropped, deployment, waiting, sent>>

Prepare == limit # 0 /\ CutDiff /\ UNCHANGED callVars

CallsNext ==
    \/ Begin \/ Try \/ NoLimit \/ Prepare \/ SendParts \/ Return
    \/ \E c \in waiting : Answered(c) \/ Refused(c)
=============================================================================
