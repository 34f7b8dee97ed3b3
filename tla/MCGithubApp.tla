----------------------------- MODULE MCGithubApp -----------------------------
(* Instances of GithubApp for TLC. *)
EXTENDS GithubApp, TLC

\* One command per webhook, or two for a push (push_commands of the default
\* configuration: /describe and /review).
MCOneCommand == [k \in AllKinds |-> 1]
MCTwoForPush == [k \in AllKinds |-> IF k = "push" THEN 2 ELSE 1]

Symmetric == Permutations(Events) \cup Permutations(PRs)

=============================================================================
