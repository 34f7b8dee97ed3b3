-------------------------------- MODULE Pipeline --------------------------------
(***************************************************************************)
(* What a tool does between the pull request and its comments: the diff is *)
(* read (Snapshots), cut into prompts and sent to the models (Prompts,     *)
(* with Hunks for the patch of one file), and the answers become comments  *)
(* on lines (Suggestions).  Each part takes from the one before only a     *)
(* value that its own instances range over, so a behaviour looks at one.   *)
(***************************************************************************)
EXTENDS Prompts, Snapshots, Suggestions

pipeVars == <<promptVars, readVars, pushVars>>

NoPrompt == request = NoRequest /\ change = NoChange /\ PromptsIdle

Init ==
    \/ PromptsInit /\ SnapshotsIdle /\ SuggestionsIdle
    \/ NoPrompt /\ SnapshotsInit /\ SuggestionsIdle
    \/ NoPrompt /\ SnapshotsIdle /\ SuggestionsInit

Next ==
    \/ PromptsNext /\ UNCHANGED <<readVars, pushVars>>
    \/ reader # NoReader /\ SnapshotsNext /\ UNCHANGED <<promptVars, pushVars>>
    \/ publication # NoPublication /\ SuggestionsNext /\ UNCHANGED <<promptVars, readVars>>

\* A call is answered or refused in the end, that of a model and that of a
\* host: each has a timeout, and the tool goes on at once.  Nobody has to push
\* commits or to give commands.
Fairness ==
    /\ WF_vars(request # NoRequest /\ CallsNext)
    /\ WF_pushVars(publication # NoPublication /\ SuggestionsNext)

Spec == Init /\ [][Next]_pipeVars /\ Fairness
=============================================================================
