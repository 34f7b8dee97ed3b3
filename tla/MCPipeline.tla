------------------------------- MODULE MCPipeline -------------------------------
(* Instances of Pipeline for TLC. *)
EXTENDS Pipeline, TLC

Kind(ext, size, core, edit) == <<ext, size, core, edit>>
Named(f, k) == [name |-> k, ext |-> f[1], size |-> f[2], core |-> f[3], header |-> 1, edit |-> f[4]]

\* No patch, only deletions, small and large.
Kinds == {Kind("py", 0, 0, "renamed"), Kind("py", 3, 0, "deleted"), Kind("py", 2, 2, "modified"), Kind("h", 3, 2, "added"),
          Kind("h", 6, 5, "modified"), Kind("md", 9, 8, "added")}

Files == {<<Named(f, 1), Named(g, 2), Named(h, 3)>> : f \in Kinds, g \in Kinds, h \in Kinds}
Few == {<<Named(Kind("h", 6, 5, "modified"), 1), Named(Kind("py", 2, 2, "modified"), 2),
          Named(Kind("h", 3, 2, "added"), 3)>>,
        <<Named(Kind("py", 2, 2, "modified"), 1), Named(Kind("py", 5, 4, "modified"), 2)>>}

Two == <<{"py"}, {"h", "py"}>>

Request(mode, prompt, calls, policy, langs, files, models, fallbacks, parallel, predictions) ==
    [mode |-> mode, prompt |-> prompt, filesPrompt |-> 1, calls |-> calls,
     policy |-> policy, langs |-> langs, files |-> files, models |-> models,
     fallbacks |-> fallbacks, parallel |-> parallel,
     predictions |-> predictions, reasoning |-> FALSE]

\* The cutting of a diff: one model.
Diffs ==
    {Request("single", p, 1, "skip", Two, fs, <<p + 7>>, 0, TRUE, 1) : p \in {2, 11}, fs \in Files}
    \cup {Request("single", 8, 1, "skip", <<>>, fs, <<9>>, 0, TRUE, 1) : fs \in Files}
    \cup {Request("large", 2, l - 7, "skip", <<{"h"}>>, fs, <<l>>, 0, TRUE, 1) :
             l \in {9, 10, 11}, fs \in Files}
    \cup {Request("multi", 2, n, "skip", Two, fs, <<11>>, 0, TRUE, 1) : n \in {1, 2}, fs \in Files}
    \cup {Request("multi", 2, 2, "clip", <<>>, fs, <<9>>, 0, TRUE, 1) : fs \in Files}

\* The calls: fallbacks, of smaller limits or of none.
Calls ==
    {Request("single", 2, 3, "skip", Two, fs, models, n, FALSE, 2) :
        fs \in Few, models \in {<<13, 9>>, <<0, 11>>, <<9, 13, 8>>}, n \in {0, 1, 2}}
    \cup {Request(m, 2, 3, "skip", Two, fs, models, 1, FALSE, 2) :
        m \in {"large", "multi"}, fs \in Few, models \in {<<10, 9>>, <<9, 13>>}}
    \cup {Request("large", 2, 3, "skip", Two, fs, <<9, 9>>, 1, TRUE, 1) : fs \in Few}
    \cup {Request("multi", 2, 2, "skip", Two, fs, <<9, 9>>, 1, TRUE, 1) : fs \in Few}
    \cup {Request("multi", 2, 2, "skip", <<>>, fs, <<9, 9>>, 1, TRUE, 2) : fs \in {f \in Few : Len(f) = 2}}

\* Improve with a second fallback, and with a reasoning model.
Fallbacks ==
    {Request("multi", 2, 2, "skip", <<>>, fs, <<9, 10, 9>>, 2, FALSE, 1) : fs \in Few}
    \cup {Request("multi", 2, 2, "skip", <<>>, fs, <<9, 0, 9>>, 2, TRUE, 1) : fs \in Few}
Reasoned(requests) == {[r EXCEPT !.reasoning = TRUE] : r \in requests}

MCPullRequests == Diffs \cup Calls \cup Fallbacks \cup Reasoned({f \in Fallbacks : ~f.parallel})

-----------------------------------------------------------------------------

Repeat(x, n) == [k \in 1..n |-> x]
Least(n) == IF n < Context THEN n ELSE Context
EditsOf(removed) == {Repeat("-", d) \o Repeat("+", a) : d \in removed, a \in 0..2} \ {<<>>}
Edits == EditsOf({0, 2})
Around(n, edit, m) == Repeat("=", Least(n)) \o edit \o Repeat("=", Least(m))

\* One hunk after n lines and before m, and two with g lines between.
MCChanges ==
    {[hunks |-> <<[skip |-> n - Least(n), body |-> Around(n, e, m)]>>, tail |-> m - Least(m)] :
        n \in {0, 1, 4}, m \in {0, 1, 3, 5}, e \in EditsOf(0..2)}
    \cup
    {[hunks |-> <<[skip |-> n - Least(n), body |-> Around(n, e, Context)],
                  [skip |-> g, body |-> Around(Context, f, m)]>>, tail |-> m - Least(m)] :
        n \in {0, 1, 4}, g \in {1, 2, 4}, m \in {0, 1, 5}, e \in Edits, f \in Edits}

MCExtras == {[before |-> b, after |-> a, dynamic |-> d] :
                b \in {0, 5}, a \in {0, 1, 4, 6}, d \in {0, 8}}

-----------------------------------------------------------------------------

Reader(host, context, commands) ==
    [host |-> host, context |-> context, commands |-> commands]

MCReaders ==
    {Reader("github", TRUE, 2), Reader("github", FALSE, 3)}
    \cup {Reader(h, FALSE, 1) : h \in Hosts \ {"github"}}

-----------------------------------------------------------------------------

Suggested(summary, complete, start, end, score) ==
    [summary |-> summary, complete |-> complete, start |-> start, end |-> end, score |-> score]

\* In a hunk, on one line or two, over its end, over all of it, beside it, past
\* the end of the file; of a low score, of none, without code, without lines.
MCKinds ==
    {Suggested(1, TRUE, 3, 4, 8), Suggested(1, TRUE, 3, 3, 8), Suggested(2, TRUE, 4, 5, 8),
     Suggested(3, TRUE, 5, 5, 5), Suggested(4, TRUE, 3, 8, 8), Suggested(5, TRUE, 9, 9, 5),
     Suggested(6, TRUE, 7, 7, 0), Suggested(7, FALSE, 2, 2, 8), Suggested(8, TRUE, -1, -1, 8)}

Given(j, i, s) ==
    [name |-> <<j, i>>, summary |-> s.summary, complete |-> s.complete,
     start |-> s.start, end |-> s.end, score |-> s.score]

\* Two suggestions of one call, and one of each of two, with the feedback on
\* those of the first call.
Pairs ==
    {<<<<Given(1, 1, k), Given(1, 2, l)>>>> : k \in MCKinds, l \in MCKinds}
    \cup {<<<<Given(1, 1, k)>>, <<Given(2, 1, l)>>>> : k \in MCKinds, l \in MCKinds}

FeedbackOn(list, f) == IF Len(list) = 1 THEN <<f>> ELSE <<f, "scored">>

\* One hunk, two, and a hunk with one line of the new file or with none.
Hunk(start, size) == [start |-> start, size |-> size]
MCHunks == {<<Hunk(3, 2)>>, <<Hunk(2, 2), Hunk(5, 3)>>, <<Hunk(3, 1)>>, <<Hunk(2, 2), Hunk(4, 0)>>}

Ways ==
    {<<"github", "table">>}
    \cup {<<h, "dual">> : h \in {"github", "gitlab", "azure", "gitea"}}
    \cup {<<h, "inline">> : h \in {"github", "gitlab", "azure", "gitea", "bitbucket", "bitbucket_server"}}

Instance(host, mode, calls, f, hunks) ==
    [host |-> host, mode |-> mode, answers |-> calls,
     feedback |-> FeedbackOn(calls, f), hunks |-> hunks]

MCPublications ==
    {Instance(w[1], w[2], a, f, h) :
        w \in Ways, a \in Pairs, f \in {"scored", "short", "failed"}, h \in MCHunks}

\* The suggestions of Gitea alone, all given a score.
GiteaPublications ==
    {Instance("gitea", "inline", a, "scored", h) : a \in Pairs, h \in MCHunks}
=============================================================================
