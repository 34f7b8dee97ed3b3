---------------------------- MODULE RequestSettings ----------------------------
(***************************************************************************)
(* The settings a command runs with (pr_agent/config_loader.py,            *)
(* git_providers/utils.py, agent/pr_agent.py and the auto commands of the  *)
(* webhook servers).  Three layers write one settings object: the global   *)
(* settings it is copied from, the .pr_agent.toml of the repository and    *)
(* the --key=value arguments of commands.  Two settings stand for all:     *)
(* config.disable_auto_feedback and one parameter of the tools, whose      *)
(* value is represented by the layer that wrote it last.                   *)
(***************************************************************************)
EXTENDS Integers, Sequences

CONSTANTS
    Requests,     \* webhook requests
    Repos,        \* repositories they come from
    Servers,      \* the servers considered
    NumCommands,  \* length of pr_commands and of push_commands
    MaxEdits      \* bound on the edits of .pr_agent.toml files

\* The servers that give each request a copy of the settings in its context;
\* on the others all requests share those of the process.
Copying == {"github_app", "gitlab", "bitbucket", "gitea"}

ASSUME ServersAssumption ==
    Servers \subseteq Copying \cup {"azure", "bitbucket_server"}
ASSUME NumbersAssumption == NumCommands \in Nat \ {0} /\ MaxEdits \in Nat

VARIABLES
    server,    \* the server that is installed
    file,      \* file[g]: the .pr_agent.toml of repository g
    edits,     \* how often such a file has been edited
    settings,  \* settings[s]: the settings object of scope s
    cached,    \* cached[r]: context["repo_settings"]
    req,       \* req[r]: what the request asks for
    phase,     \* phase[r]: where its task is
    ran        \* ran[r]: the parameter each command of r ran with

requestVars == <<server, file, edits, settings, cached, req, phase, ran>>

\* The scope of the global settings object; other scopes are requests.
Global == "global"

Default == <<"default", "-", 0>>
FromFile(g, v) == <<"file", g, v>>
FromArgs(r, i) == <<"args", r, i>>

\* A file of version v may set either setting.
Files(g, v) == [repo : {g}, version : {v}, disables : BOOLEAN, sets : BOOLEAN]
NotFetched == [repo |-> "-", version |-> 0, disables |-> FALSE, sets |-> FALSE]

Nothing == [kind |-> "-", repo |-> "-", args |-> {}]

\* Two servers start nothing on a push.
KindsServed == IF server \in {"azure", "bitbucket_server"}
         THEN {"opened", "comment"} ELSE {"opened", "push", "comment"}

\* A request's kind, repository, and the commands that have an argument for
\* the parameter: pr_commands, push_commands or the one command of a comment.
Asked == [kind : KindsServed, repo : Repos, args : SUBSET (1..NumCommands)]

Length(r) == IF req[r].kind = "comment" THEN 1 ELSE NumCommands

\* Mutated form of Scope: the request's settings are not copied.
MutNoCopy(r) == Global

\* The object get_settings() returns while r is served.
Scope(r) == IF server \in Copying THEN r ELSE Global

RequestsInit ==
    /\ server \in Servers
    /\ file \in [Repos -> UNION {Files(g, 0) : g \in Repos}]
    /\ \A g \in Repos : file[g].repo = g
    /\ edits = 0
    /\ settings = [s \in Requests \cup {Global} |->
                     [disabled |-> FALSE, param |-> Default]]
    /\ cached = [r \in Requests |-> NotFetched]
    /\ req = [r \in Requests |-> Nothing]
    /\ phase = [r \in Requests |-> "new"]
    /\ ran = [r \in Requests |-> <<>>]

-----------------------------------------------------------------------------

\* Mutated form of RepoSettings: the file is read anew each time.
MutRefetch(r) == file[req[r].repo]

\* The repository settings apply_repo_settings finds: the ones it keeps in
\* the context of the request, read once.
RepoSettings(r) == IF cached[r] = NotFetched THEN file[req[r].repo] ELSE cached[r]

\* apply_repo_settings: every key the file has overwrites the setting.
ApplyFile(s, f) ==
    [disabled |-> s.disabled \/ f.disables,
     param    |-> IF f.sets THEN FromFile(f.repo, f.version) ELSE s.param]

\* update_settings_from_args with the arguments of command i.
ApplyArgs(s, r, i) ==
    IF i \in req[r].args THEN [s EXCEPT !.param = FromArgs(r, i)] ELSE s

\* The webhook handler: a context with a copy of the global settings; the
\* work is left to a background task.
Receive(r) ==
    /\ phase[r] = "new"
    /\ \E a \in Asked : req' = [req EXCEPT ![r] = a]
    /\ settings' = IF Scope(r) = Global THEN settings
                   ELSE [settings EXCEPT ![r] = settings[Global]]
    /\ phase' = [phase EXCEPT ![r] = "queued"]
    /\ UNCHANGED <<server, file, edits, cached, ran>>

\* Mutated form of CommandSettings: an argument is overwritten by the file.
MutFileLast(s, f, r, i) == ApplyFile(ApplyArgs(s, r, i), f)

\* The settings the agent runs a command with (_handle_request): first the
\* file, then the arguments.
CommandSettings(s, f, r, i) == ApplyArgs(ApplyFile(s, f), r, i)

\* Mutated form of AutoSettings: the arguments are taken out and forgotten.
MutArgsLost(s, f, r, i) == ApplyFile(s, f)

\* The server takes the arguments out of the command and applies them; the
\* agent then gets the bare command and applies the file.
AutoSettings(s, f, r, i) == ApplyFile(ApplyArgs(s, r, i), f)

\* Every server does so with automatic commands, that of Bitbucket Server with
\* comments too (_process_command).
TakesArguments(r) == req[r].kind # "comment" \/ server = "bitbucket_server"

RunCommand(r, i, s, f) ==
    LET t == IF TakesArguments(r) THEN AutoSettings(s, f, r, i)
             ELSE CommandSettings(s, f, r, i)
    IN  /\ settings' = [settings EXCEPT ![Scope(r)] = t]
        /\ ran' = [ran EXCEPT ![r] = Append(@, t.param)]
        /\ phase' = [phase EXCEPT ![r] = "running"]

\* Mutated form of Refused: the flag is read before the file is applied.
MutTestsFirst(r, before, after) == req[r].kind = "opened" /\ before.disabled

\* _perform_auto_commands: disable_auto_feedback is tested for pr_commands,
\* after the file is applied.
Refused(r, before, after) == req[r].kind = "opened" /\ after.disabled

\* Bitbucket Server applies the file and tests the flag before it answers the
\* webhook of an opened pull request; the others do so in the background task.
TestedFirst(r) == server = "bitbucket_server" /\ req[r].kind = "opened"

Admit(r) ==
    LET f == RepoSettings(r)
        s == ApplyFile(settings[Scope(r)], f)
    IN  /\ phase[r] = "queued" /\ TestedFirst(r)
        /\ cached' = [cached EXCEPT ![r] = f]
        /\ settings' = [settings EXCEPT ![Scope(r)] = s]
        /\ phase' = [phase EXCEPT ![r] =
                        IF Refused(r, settings[Scope(r)], s) THEN "done" ELSE "admitted"]
        /\ UNCHANGED <<server, file, edits, req, ran>>

\* The background task up to its first await in a tool: the file is applied,
\* then the first command starts.
Start(r) ==
    LET f == RepoSettings(r)
        s == ApplyFile(settings[Scope(r)], f)
        refused == phase[r] = "queued" /\ Refused(r, settings[Scope(r)], s)
    IN  /\ phase[r] = "admitted" \/ (phase[r] = "queued" /\ ~TestedFirst(r))
        /\ cached' = [cached EXCEPT ![r] = f]
        /\ \/ /\ refused
              /\ settings' = [settings EXCEPT ![Scope(r)] = s]
              /\ phase' = [phase EXCEPT ![r] = "done"]
              /\ UNCHANGED ran
           \/ ~refused /\ RunCommand(r, 1, s, f)
        /\ UNCHANGED <<server, file, edits, req>>

\* A command ends and the next one starts.
NextCommand(r) ==
    LET f == RepoSettings(r)
    IN  /\ phase[r] = "running"
        /\ Len(ran[r]) < Length(r)
        /\ cached' = [cached EXCEPT ![r] = f]
        /\ RunCommand(r, Len(ran[r]) + 1, settings[Scope(r)], f)
        /\ UNCHANGED <<server, file, edits, req>>

LastCommand(r) ==
    /\ phase[r] = "running"
    /\ Len(ran[r]) = Length(r)
    /\ phase' = [phase EXCEPT ![r] = "done"]
    /\ UNCHANGED <<server, file, edits, settings, cached, req, ran>>

\* Somebody edits the .pr_agent.toml of a repository.
Edit(g) ==
    /\ edits < MaxEdits
    /\ edits' = edits + 1
    /\ \E f \in Files(g, edits + 1) : file' = [file EXCEPT ![g] = f]
    /\ UNCHANGED <<server, settings, cached, req, phase, ran>>

RequestsNext ==
    \/ \E r \in Requests :
          Receive(r) \/ Admit(r) \/ Start(r) \/ NextCommand(r) \/ LastCommand(r)
    \/ \E g \in Repos : Edit(g)

RequestsSpec == RequestsInit /\ [][RequestsNext]_requestVars

-----------------------------------------------------------------------------

Params ==
    {Default} \cup {FromFile(g, v) : g \in Repos, v \in 0..MaxEdits}
              \cup {FromArgs(r, i) : r \in Requests, i \in 1..NumCommands}

TypeOK ==
    /\ server \in Servers
    /\ file \in [Repos -> UNION {Files(g, v) : g \in Repos, v \in 0..MaxEdits}]
    /\ edits \in 0..MaxEdits
    /\ settings \in [Requests \cup {Global} ->
                       [disabled : BOOLEAN, param : Params]]
    /\ cached \in [Requests -> {NotFetched} \cup
                     UNION {Files(g, v) : g \in Repos, v \in 0..MaxEdits}]
    /\ req \in [Requests -> Asked \cup {Nothing}]
    /\ phase \in [Requests -> {"new", "queued", "admitted", "running", "done"}]
    /\ ran \in [Requests -> UNION {[1..n -> Params] : n \in 0..NumCommands}]

\* No command runs with a parameter of another request or another repository,
\* where each request works on its own copy of the settings (github_app.py:58).
NoCrossTalk ==
    server \in Copying => \A r \in Requests : \A i \in DOMAIN ran[r] :
        LET p == ran[r][i]
        IN  /\ p[1] = "file" => p[2] = req[r].repo
            /\ p[1] = "args" => p[2] = r

\* All commands of a request see one version of the repository's file, however
\* it is edited while they run (git_providers/utils.py:19-31).
OneFilePerRequest ==
    server \in Copying => \A r \in Requests : \A i, j \in DOMAIN ran[r] :
        (ran[r][i][1] = "file" /\ ran[r][j][1] = "file") => ran[r][i] = ran[r][j]

\* The documentation has the arguments of a command override the configuration,
\* those of the automatic ones too (automations_and_usage.md:136-147).  The one
\* known divergence is an argument for a parameter that the repository's file
\* sets, given to a command from which the server takes its arguments.
FileOverrides(r) == TakesArguments(r) /\ cached[r].sets

\* An argument of a command applies to that command, and in the divergence the
\* file does: no other request's value, on any server, ever gets in between
\* (agent/pr_agent.py:54-74, github_app.py:418-421,
\* bitbucket_server_webhook.py:220-231).
ArgumentsApply ==
    \A r \in Requests : \A i \in DOMAIN ran[r] :
        i \in req[r].args =>
            ran[r][i] = IF FileOverrides(r)
                        THEN FromFile(req[r].repo, cached[r].version)
                        ELSE FromArgs(r, i)

\* Nothing runs for an opened pull request whose repository disables the
\* automatic feedback.  The documentation says as much of pushes
\* (automations_and_usage.md:89), where the flag stops nothing: a known
\* divergence (github_app.py:405-409).
FlagStopsOpenedOnly ==
    \A r \in Requests :
        /\ req[r].kind = "opened" /\ cached[r].disables => ran[r] = <<>>
        /\ req[r].kind # "opened" /\ phase[r] = "done" => Len(ran[r]) = Length(r)

\* Which layer wins on each server and for each kind of request, with the two
\* divergences from the documentation named above, and no value from elsewhere.
LayersInOrder == TypeOK /\ ArgumentsApply /\ FlagStopsOpenedOnly
=============================================================================
