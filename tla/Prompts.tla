-------------------------------- MODULE Prompts --------------------------------
(***************************************************************************)
(* The prompts of a request (DiffBudget, ModelCalls) and what is done to   *)
(* the patch of a file on the way into them (Hunks).  The two share        *)
(* nothing but the patch, so an instance looks at one of them.             *)
(***************************************************************************)
EXTENDS ModelCalls, Hunks

NoRequest == [mode |-> "none", prompt |-> 0, filesPrompt |-> 0, calls |-> 0, policy |-> "skip",
              langs |-> <<>>, files |-> <<>>, models |-> <<>>, fallbacks |-> 0, parallel |-> FALSE,
              predictions |-> 0, reasoning |-> FALSE]
NoChange == [hunks |-> <<>>, tail |-> 0]

PromptsIdle ==
    /\ stage = "idle" /\ limit = 0 /\ base = 0 /\ total = 0 /\ pass = 1
    /\ dict = <<>> /\ todo = <<>> /\ chunk = <<>> /\ chunks = <<>> /\ left = {} /\ dropped = {}
    /\ CallsInit
    /\ HunksInit
    /\ section => change # NoChange

PromptsInit ==
    /\ \/ request \in PullRequests /\ change = NoChange
       \/ request = NoRequest /\ change \in Changes
    /\ PromptsIdle

PromptsNext ==
    \/ request # NoRequest /\ CallsNext /\ UNCHANGED hunkVars
    \/ change # NoChange /\ HunksNext /\ UNCHANGED vars

promptVars == <<vars, hunkVars>>

-----------------------------------------------------------------------------

Cutting == stage \in {"fill", "multi", "ready", "sending", "answered"}
InChunks(name) == {k \in DOMAIN chunks : name \in Names(chunks[k].files)}
PlacesOf(f, prompts) ==
    UNION {{k} \X {j \in DOMAIN prompts[k].files : prompts[k].files[j] = f} : k \in DOMAIN prompts}
Candidates == {f \in ToSet(request.files) : f.size > 0 /\ f.core > 0}

\* The state is of the shape the code gives it.
TypeOK ==
    /\ stage \in {"idle", "try", "extend", "fill", "multi", "ready", "sending", "answered"}
    /\ \A n \in {limit, base, total, pass, attempt, number, deployment} : n \in Nat
    /\ left \cap dropped = {}
    /\ answers \subseteq DOMAIN chunks
    /\ \A c \in waiting : c.tries < Retries /\ c.number <= number
    /\ Len(results) <= request.predictions

\* What is asked of a model in an attempt was cut for it, not for the model that
\* failed before (the separators before a list of files are not counted,
\* pr_processing.py:125).  Only a reflection is asked of another model than
\* that of its attempt: of the reasoning model, or by the fallbacks after the
\* first of config.model (pr_code_suggestions.py:403-409); its diff is that of
\* the attempt, and nobody counts the suggestions added to it.
FitsItsModel ==
    \A s \in sent :
        /\ s.total <= request.models[s.attempt] - Hard + 2
        /\ s.model # s.attempt =>
              /\ s.kind = "reflection"
              /\ IF request.reasoning THEN s.model = 0 ELSE s.model = 1 /\ s.attempt > 2

\* A patch no prompt has room for.
Outsized(f) == base + f.core + f.header > limit - Soft

\* A file with a patch is shown, remaining, or was met when the prompt was full;
\* and the last happens only when the prompt without any file is over the limit
\* already, given names shorter than the two thresholds are apart
\* (pr_processing.py:293 drops such a file from the list of remaining ones too).
\* improve keeps no list: what it does not show is too large for any prompt, or
\* comes after the last file looked at.
NoFileForgotten ==
    stage = "ready" =>
        /\ \A f \in Candidates :
              \/ InChunks(f.name) # {} \/ f.name \in left \/ f.name \in dropped
              \/ request.mode = "multi" /\ (Outsized(f) \/ f \in ToSet(todo))
        /\ dropped # {} => base > limit - Hard

\* A file is in no two prompts and twice in none, unless its extension is that
\* of two languages of the repository (language_handler.py:78).
ShownOnce ==
    stage = "ready" =>
        \A f \in Candidates :
            Cardinality(PlacesOf(f, chunks))
                <= IF request.mode = "multi" \/ dict = <<>>
                   THEN Cardinality(Languages(request, f)) ELSE 1

\* A file that would have fitted in a prompt of its own is left out only when
\* all the calls of the model are used, each for some file: of describe, and of
\* improve, whose loop stops at the file the last prompt has no room for.
LeftOutForLackOfCalls ==
    stage = "ready" =>
        /\ request.mode = "large" =>
              \A f \in Candidates : f.name \in left /\ base + f.core <= limit - Soft =>
                  pass >= request.calls - 1 /\ Len(chunks) = pass
        /\ request.mode = "multi" /\ todo # <<>> =>
              /\ Len(chunks) = request.calls
              /\ chunks[Len(chunks)].total + Head(todo).core + Head(todo).header > limit - Soft

\* The prompts of one diff are as many as allowed (for describe, with one call
\* left to put them together), and none of several is empty.
CallsBounded ==
    stage = "ready" =>
        /\ request.mode = "multi" => Len(chunks) <= request.calls
        /\ request.mode = "large" => Len(chunks) <= 1 \/ Len(chunks) < request.calls
        /\ Len(chunks) > 1 =>
              \A k \in DOMAIN chunks : k > 1 \/ request.mode = "multi" => chunks[k].files # <<>>

\* However a diff is divided into prompts, each of its files is in one of them
\* or left out for a reason, and no call is left unused that a file would have
\* needed (pr_processing.py:120-320, 398-500).
DiffIsDivided ==
    TypeOK /\ NoFileForgotten /\ ShownOnce /\ LeftOutForLackOfCalls /\ CallsBounded

\* An attempt asks through the deployment of its model, the reflections of other
\* models too: but after a prediction that fell back the settings keep the
\* deployment of the fallback, which the next prediction takes for that of the
\* first model (pr_processing.py:330), and a call of an abandoned attempt,
\* tried again, reads the one set since.
OwnDeployment ==
    request.fallbacks > 0 =>
        \A s \in sent : s.current /\ s.deployment # s.attempt =>
            /\ s.attempt = 1 /\ s.number > 1
            /\ \E k \in 1..(s.number - 1) : results[k] # 1

AskedNow(kind, tokens) ==
    \E s \in sent : /\ s.current /\ s.number = number /\ s.attempt = attempt
                    /\ s.kind = kind /\ s.total = tokens

\* The answer of a prediction is that of one attempt: its model was asked about
\* every part of the diff cut for it, and by describe about them together.
OneModelPerAnswer ==
    stage = "answered" =>
        /\ Parts \subseteq answers
        /\ \A k \in Parts : AskedNow("part", chunks[k].total)
        /\ InParts => AskedNow("header", Room)

\* Whatever attempts came before, and whatever calls of theirs are still under
\* way: the model of an attempt gets prompts made for it, through the deployment
\* of its own, and the answer is made of its answers and of the reflections on
\* them (pr_processing.py:322-395).
EachCallItsModel == FitsItsModel /\ OwnDeployment /\ OneModelPerAnswer

\* Every prediction of a request ends, whatever the models answer: the passes
\* over the files, the tries of a call and the models are all bounded.
RequestEnds == <>(Len(results) = request.predictions)
=============================================================================
