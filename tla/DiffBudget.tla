------------------------------ MODULE DiffBudget ------------------------------
(***************************************************************************)
(* How the diff of a pull request is cut into prompts of bounded size      *)
(* (pr_agent/algo/pr_processing.py).                                       *)
(*                                                                         *)
(* A file is [name, ext, size, core, header, edit]: its extension, the     *)
(* tokens of its patch with lines of context (0: no patch), the tokens of  *)
(* its patch without deletions (0: nothing else), the tokens of the line   *)
(* that names it and what happened to it.  A pull request is a record      *)
(* [mode, prompt, filesPrompt, calls, policy, langs, files]:               *)
(*   mode         "single" (review, ask, ...), "large" (describe) or       *)
(*                "multi" (improve)                                        *)
(*   prompt       tokens of the tool's prompt without the diff, and        *)
(*   filesPrompt  of the prompt of describe for a part of a large diff     *)
(*   calls        pr_description.max_ai_calls, or                          *)
(*                pr_code_suggestions.max_number_of_calls                  *)
(*   policy       config.large_patch_policy                                *)
(*   langs        the sets of extensions of the languages of the           *)
(*                repository, largest language first                       *)
(***************************************************************************)
EXTENDS Integers, SequencesExt

CONSTANTS PullRequests,
          Soft, Hard,       \* OUTPUT_BUFFER_TOKENS_{SOFT,HARD}_THRESHOLD
          ListsFrom         \* tokens that must be left for the lists of files

ASSUME ThresholdsAssumption ==
    /\ Soft \in Nat /\ Hard \in Nat /\ Hard <= Soft
    /\ ListsFrom \in Nat

\* A path is in a diff once, and its line is shorter than the thresholds are
\* apart.  The prompts for a large diff, which are only in the settings of those
\* who want it, are taken to be no longer than the one for the whole.
ASSUME RequestsAssumption ==
    \A pr \in PullRequests :
        /\ pr.mode \in {"single", "large", "multi"}
        /\ pr.prompt \in Nat /\ pr.filesPrompt \in 0..pr.prompt /\ pr.calls \in Nat \ {0}
        /\ pr.langs \in Seq(ToSet(pr.langs)) /\ pr.files \in Seq(ToSet(pr.files))
        /\ \A j, k \in DOMAIN pr.files : pr.files[j].name = pr.files[k].name => j = k
        /\ \A f \in ToSet(pr.files) :
              f.size \in Nat /\ f.core \in Nat /\ f.header \in 0..(Soft - Hard)

VARIABLES request,     \* the pull request of this instance
          limit,       \* get_max_tokens of the model asked
          stage,
          base,        \* tokens of the prompt without the diff
          dict,        \* file_dict: the files with a patch, by name
          todo,        \* files the loop still has to look at
          total,       \* tokens of the prompt being filled
          chunk,       \* its files
          chunks,      \* the prompts: [files, total]
          pass,        \* iterations begun
          left,        \* names of the remaining files (improve keeps none)
          dropped      \* names of files skipped by the hard stop

budgetVars == <<limit, stage, base, dict, todo, total, chunk, chunks, pass, left, dropped>>

-----------------------------------------------------------------------------

Names(s) == {s[k].name : k \in DOMAIN s}

\* The elements of a finite set in the order R, a set of pairs (SetToSortSeq).
Enumerate(S, R) ==
    [n \in 1..Cardinality(S) |->
        CHOOSE e \in S : Cardinality({d \in S : <<d, e>> \in R}) = n - 1]

Total(w) ==
    LET sum[n \in 0..Len(w)] == IF n = 0 THEN 0 ELSE sum[n - 1] + w[n]
    IN  sum[Len(w)]

\* The languages of a file, by rank; those of no language come last.
Languages(pr, f) ==
    LET known == {k \in DOMAIN pr.langs : f.ext \in pr.langs[k]}
    IN  IF known = {} THEN {Len(pr.langs) + 1} ELSE known

\* Where the files are met, language by language: a file whose extension is one
\* of two languages is there twice.
Listed(pr) ==
    {e \in (1..(Len(pr.langs) + 1)) \X DOMAIN pr.files :
        e[1] \in Languages(pr, pr.files[e[2]]) /\ pr.files[e[2]].size > 0}

FilesInOrder(pr, S, R) ==
    LET order == Enumerate(S, R) IN [n \in DOMAIN order |-> pr.files[order[n][2]]]

AsListed(pr) ==
    {p \in Listed(pr) \X Listed(pr) :
        \/ p[1][1] < p[2][1]
        \/ p[1][1] = p[2][1] /\ p[1][2] < p[2][2]}

\* pr_generate_extended_diff: every patch, with context.
Extended(pr) == FilesInOrder(pr, Listed(pr), AsListed(pr))
Tokens(s) == Total([k \in DOMAIN s |-> s[k].size])

\* Within a language the largest first, and as they came if they are as large.
LargestFirst(pr) ==
    {p \in Listed(pr) \X Listed(pr) :
        LET size(e) == pr.files[e[2]].size
        IN  \/ p[1][1] < p[2][1]
            \/ p[1][1] = p[2][1] /\ size(p[1]) > size(p[2])
            \/ p[1][1] = p[2][1] /\ size(p[1]) = size(p[2]) /\ p[1][2] < p[2][2]}
Pruned(pr) == {e \in Listed(pr) : pr.files[e[2]].core > 0}
Sorted(pr) == FilesInOrder(pr, Pruned(pr), LargestFirst(pr))

\* (mutant) a list of patches instead of a dictionary
MutCompressed(pr) == Sorted(pr)

\* file_dict: one entry for a name, where it is met first.
Compressed(pr) ==
    LET first == {e \in Pruned(pr) : \A k \in Languages(pr, pr.files[e[2]]) : e[1] <= k}
    IN  FilesInOrder(pr, first, LargestFirst(pr))

-----------------------------------------------------------------------------

StartDiff(newLimit) ==
    /\ limit' = newLimit
    /\ stage' = "extend"
    /\ base' = request.prompt /\ total' = request.prompt
    /\ dict' = <<>> /\ todo' = <<>> /\ chunk' = <<>> /\ chunks' = <<>>
    /\ pass' = 1
    /\ left' = {} /\ dropped' = {}

Full == base + Tokens(Extended(request))

\* Under the limit the whole diff is one prompt.
FullDiff ==
    /\ stage = "extend" /\ Full + Soft < limit
    /\ chunks' = IF Extended(request) = <<>> THEN <<>>
                 ELSE <<[files |-> Extended(request), total |-> Full]>>
    /\ stage' = "ready"
    /\ UNCHANGED <<limit, base, dict, todo, total, chunk, pass, left, dropped>>

Prune ==
    /\ stage = "extend" /\ Full + Soft >= limit
    /\ IF request.mode = "multi"
       THEN stage' = "multi" /\ dict' = Sorted(request)
       ELSE stage' = "fill" /\ dict' = Compressed(request)
    /\ todo' = dict'
    /\ UNCHANGED <<limit, base, total, chunk, chunks, pass, left, dropped>>

-----------------------------------------------------------------------------
(* generate_full_patch, file by file. *)

Next1 == Head(todo)
TooLarge == total + Next1.core > limit - Soft
NoTokensLeft == total > limit - Hard

Filling == stage = "fill" /\ todo # <<>> /\ todo' = Tail(todo)

\* (mutant) the hard stop puts the file among the remaining ones as well
MutHardStop ==
    /\ Filling /\ NoTokensLeft
    /\ dropped' = dropped \cup {Next1.name}
    /\ left' = left \cup {Next1.name}
    /\ UNCHANGED <<limit, stage, base, dict, total, chunk, chunks, pass>>

HardStop ==
    /\ Filling /\ NoTokensLeft
    /\ dropped' = dropped \cup {Next1.name}
    /\ UNCHANGED <<limit, stage, base, dict, total, chunk, chunks, pass, left>>

\* (mutant) a patch that is too large is skipped and not listed
MutSkipped ==
    /\ Filling /\ ~NoTokensLeft /\ TooLarge
    /\ UNCHANGED <<limit, stage, base, dict, total, chunk, chunks, pass, left, dropped>>

LeaveForLater ==
    /\ Filling /\ ~NoTokensLeft /\ TooLarge
    /\ left' = left \cup {Next1.name}
    /\ UNCHANGED <<limit, stage, base, dict, total, chunk, chunks, pass, dropped>>

Take ==
    /\ Filling /\ ~NoTokensLeft /\ ~TooLarge
    /\ chunk' = Append(chunk, Next1)
    /\ total' = total + Next1.core + Next1.header
    /\ UNCHANGED <<limit, stage, base, dict, chunks, pass, left, dropped>>

Chunk == [files |-> chunk, total |-> total]
Closed == IF pass = 1 \/ chunk # <<>> THEN Append(chunks, Chunk) ELSE chunks
\* (mutants) one iteration less, and one more, than there are calls
MutFewer == request.mode = "large" /\ left # {} /\ pass < request.calls - 2
MutMore == request.mode = "large" /\ left # {} /\ pass < request.calls

Refill == request.mode = "large" /\ left # {} /\ pass < request.calls - 1

\* The entries of the dictionary whose names are left.
Remaining ==
    LET places == {n \in DOMAIN dict : dict[n].name \in left}
        order == Enumerate(places, {p \in places \X places : p[1] < p[2]})
    IN  [n \in DOMAIN order |-> dict[order[n]]]

\* Another pass over the remaining files, one call of the model being kept to
\* put the answers together.
NextPass ==
    /\ stage = "fill" /\ todo = <<>> /\ Refill
    /\ chunks' = Closed
    /\ pass' = pass + 1
    /\ todo' = Remaining
    /\ total' = base /\ chunk' = <<>> /\ left' = {}
    /\ UNCHANGED <<limit, stage, base, dict, dropped>>

Cut == stage = "fill" /\ todo = <<>> /\ ~Refill

\* describe cuts a large diff again, for the shorter prompt about files.
Regroup ==
    /\ Cut /\ Len(Closed) > 1 /\ base # request.filesPrompt
    /\ base' = request.filesPrompt /\ total' = request.filesPrompt
    /\ todo' = dict
    /\ chunk' = <<>> /\ chunks' = <<>> /\ pass' = 1 /\ left' = {} /\ dropped' = {}
    /\ UNCHANGED <<limit, stage, dict>>

-----------------------------------------------------------------------------
(* The names of the files that are not shown. *)

Shown == Closed[1]
Room == limit - Hard
Hidden(kinds) == {f \in ToSet(dict) : f.edit \in kinds} \ ToSet(Shown.files)
ListTokens(fs) == Total([n \in DOMAIN dict |-> IF dict[n] \in fs THEN dict[n].header ELSE 0])

\* Totals after a list that would have n tokens, clipped to the room left.
AfterList(cur, n) ==
    IF n = 0 THEN {cur}
    ELSE IF n <= Room - cur THEN {cur + n + 2}
    ELSE {cur} \cup {cur + k + 2 : k \in 1..(Room - cur)}

WithLists ==
    IF Room - Shown.total <= ListsFrom THEN {Shown.total}
    ELSE UNION {UNION {AfterList(c, ListTokens(Hidden({"deleted"}))) :
                          c \in AfterList(b, ListTokens(Hidden({"modified", "renamed"})))} :
                   b \in AfterList(Shown.total, ListTokens(Hidden({"added"})))}

\* The parts of describe are sent as they are.
Grouped == request.mode = "large" /\ (Len(Closed) > 1 \/ base # request.prompt)

Finish ==
    /\ Cut /\ ~(Len(Closed) > 1 /\ base # request.filesPrompt)
    /\ IF Grouped THEN chunks' = Closed
       ELSE \E n \in WithLists : chunks' = <<[Shown EXCEPT !.total = n]>>
    /\ stage' = "ready"
    /\ UNCHANGED <<limit, base, dict, todo, total, chunk, pass, left, dropped>>

-----------------------------------------------------------------------------
(* get_pr_multi_diffs, file by file. *)

Patch == Next1.core + Next1.header
TooLargeAlone == base + Patch > limit - Soft
CallsLeft == pass <= request.calls

Splitting == stage = "multi" /\ todo # <<>> /\ CallsLeft

SkipLarge ==
    /\ Splitting /\ TooLargeAlone
    /\ todo' = Tail(todo)
    /\ UNCHANGED <<limit, stage, base, dict, total, chunk, chunks, pass, left, dropped>>

InRoom(n) ==
    /\ total + n <= limit - Soft
    /\ chunk' = Append(chunk, Next1) /\ total' = total + n /\ todo' = Tail(todo)
    /\ UNCHANGED <<chunks, pass>>

\* (mutant) the file that begins a new prompt is not in it
MutPlace(n) ==
    \/ InRoom(n)
    \/ /\ total + n > limit - Soft
       /\ chunks' = Append(chunks, Chunk) /\ pass' = pass + 1
       /\ chunk' = <<>> /\ total' = base
       /\ todo' = IF pass' > request.calls THEN todo ELSE Tail(todo)

\* A patch of n tokens: into the prompt, or into the next if that may be begun;
\* if not, the loop ends with it still to be looked at.
Place(n) ==
    \/ InRoom(n)
    \/ /\ total + n > limit - Soft
       /\ chunks' = Append(chunks, Chunk)
       /\ pass' = pass + 1
       /\ IF pass' > request.calls THEN chunk' = <<>> /\ total' = base /\ todo' = todo
          ELSE chunk' = <<Next1>> /\ total' = base + n /\ todo' = Tail(todo)

Add ==
    /\ Splitting /\ ~TooLargeAlone
    /\ Place(Patch)
    /\ UNCHANGED <<limit, stage, base, dict, left, dropped>>

\* Clipping leaves at least a line.
Clip ==
    /\ Splitting /\ TooLargeAlone /\ request.policy = "clip"
    /\ \E n \in 1..(limit - Soft - base) : Place(n)
    /\ UNCHANGED <<limit, stage, base, dict, left, dropped>>

LastChunk ==
    /\ stage = "multi" /\ (todo = <<>> \/ ~CallsLeft)
    /\ chunks' = IF chunk = <<>> THEN chunks ELSE Append(chunks, Chunk)
    /\ stage' = "ready"
    /\ UNCHANGED <<limit, base, dict, todo, total, chunk, pass, left, dropped>>

-----------------------------------------------------------------------------

CutDiff ==
    /\ \/ FullDiff \/ Prune
       \/ HardStop \/ LeaveForLater \/ Take \/ NextPass \/ Regroup \/ Finish
       \/ SkipLarge \/ Add \/ Clip \/ LastChunk
    /\ UNCHANGED request
=============================================================================
