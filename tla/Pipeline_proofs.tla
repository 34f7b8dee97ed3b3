---------------------------- MODULE Pipeline_proofs ----------------------------
(***************************************************************************)
(* Proofs about Pipeline: about the versions of the pull request that      *)
(* commands read (Snapshots), for any number of commits, requests and      *)
(* commands, and any hosts; then about the prompts its diff is cut into    *)
(* and the calls they are sent in (Prompts), for any files, languages,     *)
(* limits, models and deployments; then about the suggestions on their way *)
(* to the lines of the diff (Suggestions), for any answers, feedback,      *)
(* hunks, hosts and calls that fail.                                       *)
(***************************************************************************)
EXTENDS Hunks_proofs

CommitsRead == [authored : Nat, merge : BOOLEAN]

IsDiff(d) ==
    d = [patch |-> d.patch, content |-> d.content, covers |-> d.covers,
         partial |-> d.partial, cached |-> d.cached]

IsCommand(c) ==
    c = [kind |-> c.kind, at |-> c.at, began |-> c.began, pr |-> c.pr, known |-> c.known,
         range |-> c.range, files |-> c.files, cached |-> c.cached]

ReaderKnown == reader = NoReader \/ reader.host \in Hosts

\* The history of the pull request, and when the request was made.
HistoryTyped ==
    /\ commits \in Seq(CommitsRead)
    /\ clock \in Nat
    /\ asked \in 0..Version

\* A diff that is no older than the request, and shows all of it or is partial.
RecentDiff(d) ==
    /\ IsDiff(d)
    /\ d.patch \in asked..Version /\ d.content \in asked..Version
    /\ d.partial \/ 1..asked \subseteq d.covers

\* What the context keeps was read for the request.
CacheRecent ==
    /\ cache = [files |-> cache.files, diff |-> cache.diff]
    /\ cache.files = 0 \/ cache.files \in asked..Version
    /\ cache.diff = NoDiff \/ RecentDiff(cache.diff)

\* What the command has read so far was read since it began, but for what it
\* took from the context.
CommandRecent ==
    /\ IsCommand(command)
    /\ command.at \in {"idle", "opened", "known", "listed", "read"}
    /\ On("github") \/ (command.at # "opened" /\ command.range = {})
    /\ command.at # "idle" => /\ command.began \in asked..Version
                              /\ command.pr \in command.began..Version
    /\ On("github") /\ command.at \in {"known", "listed", "read"} =>
          command.known \in command.began..Version
    /\ command.at \in {"listed", "read"} /\ command.kind # "increment" =>
          /\ command.files \in asked..Version
          /\ command.cached \/ command.files >= command.began

ShownRecent ==
    command.at = "read" =>
        /\ RecentDiff(shown)
        /\ shown.cached \/ (shown.patch >= command.began /\ shown.content >= command.began)

ReportGood == OneVersion /\ NotOlderThanBatch

IInv == ReaderKnown /\ HistoryTyped /\ CacheRecent /\ CommandRecent /\ ShownRecent /\ ReportGood

LEMMA Versions == HistoryTyped => Version \in Nat /\ asked \in Nat /\ asked <= Version
  BY DEF HistoryTyped, Version

LEMMA NoDiffIsDiff == IsDiff(NoDiff)
  BY DEF IsDiff, NoDiff

LEMMA InitInv == Init => IInv
<1> SUFFICES ASSUME Init PROVE IInv
  OBVIOUS
<1>1. /\ commits = <<>> \/ commits = <<[authored |-> 0, merge |-> FALSE]>>
      /\ clock \in Nat /\ asked = 0 /\ cache = Fresh
      /\ command = NoCommand /\ report = NoReport
  BY DEF Init, SnapshotsIdle, SnapshotsInit
<1>2. HistoryTyped
  <2>1. [authored |-> 0, merge |-> FALSE] \in CommitsRead
    BY DEF CommitsRead
  <2>2. <<>> \in Seq(CommitsRead) /\ \A r \in CommitsRead : <<r>> \in Seq(CommitsRead)
    OBVIOUS
  <2>3. commits \in Seq(CommitsRead)
    BY <1>1, <2>1, <2>2, Zenon
  <2> QED
    BY <1>1, <2>3 DEF HistoryTyped, Version
<1>3. CacheRecent
  BY <1>1 DEF CacheRecent, Fresh
<1>4. CommandRecent /\ ShownRecent
  BY <1>1 DEF CommandRecent, ShownRecent, NoCommand, IsCommand
<1>5. ReportGood
  BY <1>1 DEF ReportGood, OneVersion, NotOlderThanBatch
<1>6. ReaderKnown
  BY ReadersAssumption DEF Init, SnapshotsIdle, SnapshotsInit, ReaderKnown
<1> QED
  BY <1>2, <1>3, <1>4, <1>5, <1>6 DEF IInv

-----------------------------------------------------------------------------
(* Each action keeps the invariant. *)

LEMMA StutterInv == IInv /\ UNCHANGED readVars => IInv'
<1> SUFFICES ASSUME IInv, UNCHANGED readVars PROVE IInv'
  OBVIOUS
<1>1. /\ reader' = reader /\ commits' = commits /\ clock' = clock /\ asked' = asked
      /\ cache' = cache /\ command' = command /\ shown' = shown /\ report' = report
  BY DEF readVars
<1> QED
  BY <1>1 DEF IInv, ReaderKnown, HistoryTyped, CacheRecent, CommandRecent, ShownRecent, ReportGood,
     RecentDiff, IsDiff, IsCommand, On, Version, OneVersion, NotOlderThanBatch

\* A new commit makes no version older.
LEMMA PushCommitInv == IInv /\ PushCommit => IInv'
<1> SUFFICES ASSUME IInv, PushCommit PROVE IInv'
  OBVIOUS
<1>1. /\ reader' = reader /\ asked' = asked /\ cache' = cache /\ command' = command
      /\ shown' = shown /\ report' = report /\ clock' = clock + 1
  BY DEF PushCommit
<1>2. Version \in Nat /\ asked \in 0..Version /\ clock \in Nat
  BY Versions DEF IInv, HistoryTyped
<1>3. Authored \in Nat
  <2>1. CASE commits = <<>>
    BY <2>1 DEF Authored
  <2>2. CASE commits # <<>>
    <3>1. Len(commits) \in 1..Len(commits)
      BY <2>2 DEF IInv, HistoryTyped
    <3>2. commits[Len(commits)] \in CommitsRead
      BY <3>1 DEF IInv, HistoryTyped
    <3> QED
      BY <2>2, <3>2 DEF Authored, Last, CommitsRead
  <2> QED
    BY <2>1, <2>2
<1>4. PICK t \in Authored..clock, merge \in BOOLEAN :
         commits' = Append(commits, [authored |-> t, merge |-> merge])
  BY DEF PushCommit
<1>5. t \in Nat
  BY <1>2, <1>3, <1>4
<1>6. commits' \in Seq(CommitsRead) /\ Version' = Version + 1
  <2>1. [authored |-> t, merge |-> merge] \in CommitsRead
    BY <1>5 DEF CommitsRead
  <2> QED
    BY <1>4, <2>1 DEF IInv, HistoryTyped, Version
<1>7. HistoryTyped'
  BY <1>1, <1>2, <1>6 DEF HistoryTyped
<1>8. ASSUME NEW d, RecentDiff(d) PROVE RecentDiff(d)'
  BY <1>1, <1>2, <1>6, <1>8 DEF RecentDiff
<1>9. CacheRecent'
  BY <1>1, <1>2, <1>6, <1>8 DEF IInv, CacheRecent
<1>10. CommandRecent'
  BY <1>1, <1>2, <1>6 DEF IInv, CommandRecent, On
<1>11. ShownRecent'
  BY <1>1, <1>8 DEF IInv, ShownRecent
<1>12. ReportGood'
  BY <1>1 DEF IInv, ReportGood, OneVersion, NotOlderThanBatch, On
<1> QED
  BY <1>1, <1>7, <1>9, <1>10, <1>11, <1>12 DEF IInv, ReaderKnown

LEMMA BeginBatchInv == IInv /\ BeginBatch => IInv'
<1> SUFFICES ASSUME IInv, BeginBatch PROVE IInv'
  OBVIOUS
<1>1. /\ reader' = reader /\ asked' = Version /\ cache' = Fresh /\ command' = command
      /\ shown' = shown /\ report' = report /\ clock' = clock /\ commits' = commits
      /\ command.at = "idle"
  BY DEF BeginBatch, Idle
<1>2. Version \in Nat /\ Version' = Version
  BY <1>1, Versions DEF IInv, Version
<1>3. HistoryTyped'
  BY <1>1, <1>2 DEF IInv, HistoryTyped
<1>4. CacheRecent'
  BY <1>1 DEF CacheRecent, Fresh
<1>5. CommandRecent' /\ ShownRecent'
  BY <1>1 DEF IInv, CommandRecent, ShownRecent, On
<1>6. ReportGood'
  BY <1>1 DEF IInv, ReportGood, OneVersion, NotOlderThanBatch, On
<1> QED
  BY <1>1, <1>3, <1>4, <1>5, <1>6 DEF IInv, ReaderKnown

\* What a step of a command leaves alone.
LEMMA SameRequest ==
    ASSUME IInv, UNCHANGED <<reader, commits, clock, asked>>
    PROVE  /\ ReaderKnown' /\ HistoryTyped' /\ Version' = Version
           /\ \A h : On(h)' = On(h)
           /\ \A d : RecentDiff(d) => RecentDiff(d)'
  BY DEF IInv, ReaderKnown, HistoryTyped, Version, On, RecentDiff

LEMMA ReportKept ==
    ASSUME IInv, UNCHANGED <<reader, report>>
    PROVE  ReportGood'
  BY DEF IInv, ReportGood, OneVersion, NotOlderThanBatch, On

LEMMA CacheKept ==
    ASSUME IInv, UNCHANGED <<reader, commits, clock, asked, cache>>
    PROVE  CacheRecent'
  BY SameRequest DEF IInv, CacheRecent

LEMMA OpenInv == IInv /\ Open => IInv'
<1> SUFFICES ASSUME IInv, Open PROVE IInv'
  OBVIOUS
<1>1. UNCHANGED <<reader, commits, clock, asked, cache, shown, report>>
  BY DEF Open
<1>2. PICK kind : command' = Opened(kind)
  BY DEF Open
<1>3. /\ IsCommand(command') /\ command'.began = Version /\ command'.pr = Version
      /\ command'.range = {} /\ command'.kind = kind
      /\ command'.at = IF On("github") THEN "opened" ELSE "known"
  BY <1>2 DEF Opened, NoCommand, IsCommand
<1>4. Version \in Nat /\ asked \in Nat /\ asked <= Version
  BY Versions DEF IInv
<1>5. CommandRecent'
  BY <1>1, <1>3, <1>4, SameRequest DEF CommandRecent, IsCommand
<1>6. ShownRecent'
  BY <1>3 DEF ShownRecent
<1> QED
  BY <1>1, <1>5, <1>6, SameRequest, ReportKept, CacheKept DEF IInv

LEMMA ReadCommitsInv == IInv /\ ReadCommits => IInv'
<1> SUFFICES ASSUME IInv, ReadCommits PROVE IInv'
  OBVIOUS
<1>1. /\ UNCHANGED <<reader, commits, clock, asked, cache, shown, report>>
      /\ command.at = "opened"
  BY DEF ReadCommits
<1>2. IsCommand(command)
  BY DEF IInv, CommandRecent
<1>3. /\ IsCommand(command') /\ command'.began = command.began /\ command'.pr = command.pr
      /\ command'.at = "known" /\ command'.known = Version
  BY <1>2 DEF ReadCommits, IsCommand
<1>4. On("github") /\ command.began \in asked..Version /\ command.pr \in command.began..Version
  BY <1>1 DEF IInv, CommandRecent
<1>5. Version \in Nat /\ asked \in Nat /\ asked <= Version
  BY Versions DEF IInv
<1>6. CommandRecent'
  BY <1>1, <1>3, <1>4, <1>5, SameRequest DEF CommandRecent, IsCommand
<1>7. ShownRecent'
  BY <1>3 DEF ShownRecent
<1> QED
  BY <1>1, <1>6, <1>7, SameRequest, ReportKept, CacheKept DEF IInv

LEMMA ListFilesInv == IInv /\ ListFiles => IInv'
<1> SUFFICES ASSUME IInv, ListFiles PROVE IInv'
  OBVIOUS
<1>1. /\ UNCHANGED <<reader, commits, clock, asked, shown, report>>
      /\ command.at = "known"
  BY DEF ListFiles
<1>2. IsCommand(command) /\ CacheRecent
  BY DEF IInv, CommandRecent
<1>3. /\ command.began \in asked..Version /\ command.pr \in command.began..Version
      /\ On("github") => command.known \in command.began..Version
      /\ On("github") \/ command.range = {}
  BY <1>1 DEF IInv, CommandRecent
<1>4. Version \in Nat /\ asked \in Nat /\ asked <= Version
  BY Versions DEF IInv
<1>5. /\ IsCommand(command') /\ command'.at = "listed" /\ command'.began = command.began
      /\ command'.pr = command.pr /\ command'.known = command.known
      /\ command'.range = command.range /\ command'.kind = command.kind
  BY <1>2 DEF ListFiles, IsCommand
<1>6. \/ command.kind = "increment"
      \/ cache.files # 0 /\ command'.files = cache.files /\ command'.cached
      \/ command'.files = Version
  BY <1>2 DEF ListFiles, IsCommand, OwnFiles
<1>7. command.kind # "increment" => /\ command'.files \in asked..Version
                                    /\ command'.cached \/ command'.files >= command.began
  BY <1>2, <1>3, <1>4, <1>6 DEF CacheRecent
<1>8. CommandRecent'
  BY <1>1, <1>3, <1>4, <1>5, <1>7, SameRequest DEF CommandRecent, IsCommand
<1>9. CacheRecent'
  <2>1. cache' = cache \/ cache' = [cache EXCEPT !.files = Version]
    BY DEF ListFiles
  <2>2. /\ cache' = [files |-> cache'.files, diff |-> cache'.diff] /\ cache'.diff = cache.diff
        /\ cache'.files = cache.files \/ cache'.files = Version
    BY <1>2, <2>1 DEF CacheRecent
  <2> QED
    BY <1>1, <1>2, <1>4, <2>2, SameRequest DEF CacheRecent
<1>10. ShownRecent'
  BY <1>5 DEF ShownRecent
<1> QED
  BY <1>1, <1>8, <1>9, <1>10, SameRequest, ReportKept DEF IInv

\* A command that ends without a result: nothing new, or a failure.
LEMMA EndedInv ==
    ASSUME IInv, command' = NoCommand, UNCHANGED <<reader, commits, clock, asked, cache, report>>
    PROVE  IInv'
<1>1. CommandRecent' /\ ShownRecent'
  BY DEF CommandRecent, ShownRecent, NoCommand, IsCommand
<1> QED
  BY <1>1, SameRequest, ReportKept, CacheKept DEF IInv

\* The diff each provider reads.
LEMMA DiffReadRecent ==
    ASSUME IInv, reader # NoReader, command.at = "listed", command.kind # "increment" \/ OwnFiles
    PROVE  /\ RecentDiff(DiffRead)
           /\ DiffRead.cached \/ (/\ DiffRead.patch >= command.began
                                  /\ DiffRead.content >= command.began)
<1>1. /\ command.began \in asked..Version /\ command.pr \in command.began..Version
      /\ On("github") \/ command.range = {}
      /\ command.kind # "increment" => /\ command.files \in asked..Version
                                       /\ command.cached \/ command.files >= command.began
      /\ CacheRecent
  BY DEF IInv, CommandRecent
<1>2. Version \in Nat /\ asked \in Nat /\ asked <= Version
  BY Versions DEF IInv
<1>3. ASSUME NEW p \in asked..Version, NEW c \in asked..Version
      PROVE  /\ RecentDiff(Diff(p, c)) /\ Diff(p, c).cached = command.cached
             /\ Diff(p, c).patch = p /\ Diff(p, c).content = c
  <2>1. 1..asked \subseteq 1..p
    BY <1>2
  <2> QED
    BY <2>1 DEF Diff, RecentDiff, IsDiff
<1>4. command.pr \in asked..Version /\ Version \in asked..Version
      /\ command.pr >= command.began /\ Version >= command.began
  BY <1>1, <1>2
<1>5. ~On("github") => ~OwnFiles
  BY <1>1 DEF OwnFiles, Unreviewed
<1>6. CASE On("github")
  <2>1. DiffRead = GithubDiff
    BY <1>6 DEF DiffRead, On
  <2>2. CASE Kept /\ cache.diff # NoDiff
    <3>1. RecentDiff(cache.diff) /\ GithubDiff = [cache.diff EXCEPT !.cached = TRUE]
      BY <1>1, <2>2 DEF GithubDiff, CacheRecent
    <3> QED
      BY <2>1, <3>1 DEF RecentDiff, IsDiff
  <2>3. CASE ~(Kept /\ cache.diff # NoDiff) /\ OwnFiles
    <3>1. GithubDiff = [Diff(command.pr, command.pr) EXCEPT !.covers = command.range, !.partial = TRUE]
      BY <2>3 DEF GithubDiff
    <3>2. RecentDiff(Diff(command.pr, command.pr))
      BY <1>3, <1>4
    <3> QED
      BY <1>1, <1>2, <1>4, <2>1, <3>1, <3>2 DEF Diff, RecentDiff, IsDiff
  <2>4. CASE ~(Kept /\ cache.diff # NoDiff) /\ ~OwnFiles
    <3>1. DiffRead = Diff(command.files, command.pr)
      BY <2>1, <2>4 DEF GithubDiff
    <3> QED
      BY <1>1, <1>3, <1>4, <2>4, <3>1
  <2> QED
    BY <2>2, <2>3, <2>4
<1>7. CASE ~On("github")
  <2>1. command.kind # "increment"
    BY <1>5, <1>7
  <2>2. \/ DiffRead = Diff(Version, command.pr) \/ DiffRead = Diff(command.pr, command.pr)
        \/ DiffRead = Diff(Version, command.files)
    <3>1. reader.host \in Hosts \ {"github"}
      BY <1>7 DEF IInv, ReaderKnown, On
    <3> QED
      BY <3>1 DEF DiffRead, On, Hosts, GitlabDiff, GiteaDiff, AzureDiff, BitbucketServerDiff,
         BitbucketDiff
  <2> QED
    BY <1>1, <1>3, <1>4, <2>1, <2>2
<1> QED
  BY <1>6, <1>7

LEMMA ReadDiffInv == IInv /\ reader # NoReader /\ ReadDiff => IInv'
<1> SUFFICES ASSUME IInv, reader # NoReader, ReadDiff PROVE IInv'
  OBVIOUS
<1>1. /\ UNCHANGED <<reader, commits, clock, asked, report>>
      /\ command.at = "listed" /\ shown' = DiffRead
      /\ command.kind # "increment" \/ OwnFiles
  BY DEF ReadDiff
<1>2. IsCommand(command) /\ CacheRecent
  BY DEF IInv, CommandRecent
<1>3. /\ IsCommand(command') /\ command'.at = "read" /\ command'.began = command.began
      /\ command'.pr = command.pr /\ command'.known = command.known
      /\ command'.range = command.range /\ command'.kind = command.kind
      /\ command'.files = command.files /\ command'.cached = command.cached
  BY <1>2 DEF ReadDiff, IsCommand
<1>4. CommandRecent'
  BY <1>1, <1>3, SameRequest DEF IInv, CommandRecent
<1>5. /\ RecentDiff(DiffRead)
      /\ DiffRead.cached \/ (DiffRead.patch >= command.began /\ DiffRead.content >= command.began)
  BY <1>1, DiffReadRecent
<1>6. ShownRecent'
  BY <1>1, <1>3, <1>5, SameRequest DEF ShownRecent
<1>7. CacheRecent'
  <2>1. RecentDiff([DiffRead EXCEPT !.cached = FALSE])
    <3>1. ASSUME NEW d, NEW e, RecentDiff(d), e = [d EXCEPT !.cached = FALSE]
          PROVE  RecentDiff(e)
      BY <3>1 DEF RecentDiff, IsDiff
    <3> QED
      BY <1>5, <3>1
  <2>2. cache' = cache \/ cache' = [cache EXCEPT !.diff = [DiffRead EXCEPT !.cached = FALSE]]
    BY DEF ReadDiff
  <2>3. /\ cache' = [files |-> cache'.files, diff |-> cache'.diff] /\ cache'.files = cache.files
        /\ cache'.diff = cache.diff \/ cache'.diff = [DiffRead EXCEPT !.cached = FALSE]
    BY <1>2, <2>2 DEF CacheRecent
  <2> QED
    BY <1>1, <1>2, <2>1, <2>3, SameRequest DEF CacheRecent
<1> QED
  BY <1>1, <1>4, <1>6, <1>7, SameRequest, ReportKept DEF IInv

LEMMA PublishResultInv == IInv /\ PublishResult => IInv'
<1> SUFFICES ASSUME IInv, PublishResult PROVE IInv'
  OBVIOUS
<1>1. /\ UNCHANGED <<reader, commits, asked, cache>>
      /\ command.at = "read" /\ command' = NoCommand
      /\ clock' = clock \/ clock' = clock + 1
  BY DEF PublishResult
<1>2. PICK place \in Places :
         report' = [kind |-> command.kind, began |-> command.began, ended |-> Version,
                    asked |-> asked, placed |-> place, diff |-> shown]
  BY DEF PublishResult
<1>3. RecentDiff(shown)
  BY <1>1 DEF IInv, ShownRecent
<1>4. NotOlderThanBatch'
  BY <1>2, <1>3 DEF NotOlderThanBatch, RecentDiff
<1>5. OneVersion'
  <2>1. SUFFICES ASSUME command.began = Version, ~shown.cached
                 PROVE  /\ shown.patch = Version /\ shown.content = Version
                        /\ place = Version \/ On("gitea")
    BY <1>1, <1>2 DEF OneVersion, On
  <2>2. Version \in Nat /\ asked \in Nat
    BY Versions DEF IInv
  <2>3. shown.patch = Version /\ shown.content = Version
    BY <1>1, <1>3, <2>1, <2>2 DEF IInv, ShownRecent, RecentDiff
  <2>4. On("github") => command.known = Version
    BY <1>1, <2>1, <2>2 DEF IInv, CommandRecent
  <2>5. place = Version \/ On("gitea")
    BY <2>3, <2>4, <1>2 DEF Places, On
  <2> QED
    BY <2>3, <2>5
<1>6. CommandRecent' /\ ShownRecent'
  BY <1>1 DEF CommandRecent, ShownRecent, NoCommand, IsCommand
<1>7. HistoryTyped' /\ Version' = Version /\ \A d : RecentDiff(d) => RecentDiff(d)'
  BY <1>1 DEF IInv, HistoryTyped, Version, RecentDiff
<1>8. CacheRecent'
  BY <1>1, <1>7 DEF IInv, CacheRecent
<1> QED
  BY <1>1, <1>4, <1>5, <1>6, <1>7, <1>8 DEF IInv, ReaderKnown, ReportGood

LEMMA NextInv == IInv /\ [Next]_pipeVars => IInv'
<1> SUFFICES ASSUME IInv, [Next]_pipeVars PROVE IInv'
  OBVIOUS
<1>1. CASE UNCHANGED readVars
  BY <1>1, StutterInv
<1>2. CASE reader # NoReader /\ SnapshotsNext
  <2>1. CASE PushCommit
    BY <2>1, PushCommitInv
  <2>2. CASE BeginBatch
    BY <2>2, BeginBatchInv
  <2>3. CASE Open
    BY <2>3, OpenInv
  <2>4. CASE ReadCommits
    BY <2>4, ReadCommitsInv
  <2>5. CASE ListFiles
    BY <2>5, ListFilesInv
  <2>6. CASE NothingNew
    BY <2>6, EndedInv DEF NothingNew
  <2>7. CASE ReadDiff
    BY <1>2, <2>7, ReadDiffInv
  <2>8. CASE PublishResult
    BY <2>8, PublishResultInv
  <2>9. CASE AbandonCommand
    BY <2>9, EndedInv DEF AbandonCommand
  <2> QED
    BY <1>2, <2>1, <2>2, <2>3, <2>4, <2>5, <2>6, <2>7, <2>8, <2>9 DEF SnapshotsNext
<1> QED
  BY <1>1, <1>2 DEF Next, pipeVars

LEMMA Inductive == Spec => []IInv
<1> QED
  BY InitInv, NextInv, PTL DEF Spec

\* Whatever the host, however many commits are pushed between the calls of a
\* command and whatever the context of a request keeps from the commands
\* before: no command shows less than the version its request was made for, a
\* partial diff of an incremental review apart; and a command during which
\* nothing is pushed and which takes nothing from the context reads the patch
\* and the contents of one version and places its comments on it, Gitea's
\* comments apart (git_providers/*.py: get_diff_files and get_files).
THEOREM VersionsAgree == Spec => []ReadsOneVersion
<1>1. IInv => ReadsOneVersion
  BY DEF IInv, ReportGood, ReadsOneVersion
<1> QED
  BY <1>1, Inductive, PTL
-----------------------------------------------------------------------------
(* What a diff shows of the files, and what an incremental review passes    *)
(* over.                                                                    *)

ReviewRecord == [increment : BOOLEAN, created : Nat, known : Nat, covers : SUBSET Nat, cached : BOOLEAN]

IsShown(d) == d.covers \subseteq Nat /\ d.cached \in BOOLEAN

CommandTyped == command.known \in Nat /\ command.range \subseteq Nat /\ command.cached \in BOOLEAN

ReadTyped ==
    /\ reader \in Readers \cup {NoReader}
    /\ reviews \in Seq(ReviewRecord)
    /\ CommandTyped
    /\ command.at = "idle" => command.kind = "none"
    /\ IsShown(shown) /\ IsShown(cache.diff)

\* Commit k may be passed over by who has read the commits up to v: what
\* NothingLost asks of it.
Passed(k, v) ==
    \/ k \in Covered
    \/ \E j \in k..v, r \in ToSet(reviews) : r.known < j /\ commits[j].authored <= r.created
    \/ \E r \in ToSet(reviews) : r.cached

\* Of the commits that a review has read, each was covered by it or by another,
\* or may be passed over.
ReviewsAccount ==
    On("github") =>
        \A r \in ToSet(reviews) : r.known <= Version /\ \A k \in 1..r.known : Passed(k, r.known)

\* The command under way will account for the commits it has read.
CommandAccounts ==
    On("github") =>
        /\ command.at \in {"known", "listed", "read"} /\ command.kind = "increment" =>
              \A k \in (1..command.known) \ command.range : Passed(k, command.known)
        /\ command.at \in {"listed", "read"} /\ command.kind # "increment" =>
              command.cached \/ command.files >= command.known
        /\ command.at = "read" =>
              shown.cached \/ (IF command.kind = "increment" THEN command.range
                               ELSE 1..command.known) \subseteq shown.covers

Accounted == ReadTyped /\ ReviewsAccount /\ CommandAccounts

\* A commit passed over stays one, when commits come and reviews grow.
LEMMA PassedKept ==
    ASSUME NEW v \in Nat, NEW k \in 1..v, Passed(k, v),
           \A j \in 1..v : commits'[j] = commits[j],
           \A i \in DOMAIN reviews : \E n \in DOMAIN reviews' :
              /\ reviews[i].covers \subseteq reviews'[n].covers
              /\ reviews[i].cached => reviews'[n].cached
              /\ reviews'[n].created = reviews[i].created
              /\ reviews'[n].known = reviews[i].known
    PROVE  Passed(k, v)'
<1>1. CASE k \in Covered
  BY <1>1 DEF Covered, Passed
<1>2. CASE \E j \in k..v, r \in ToSet(reviews) : r.known < j /\ commits[j].authored <= r.created
  <2>1. PICK j \in k..v, i \in DOMAIN reviews :
           reviews[i].known < j /\ commits[j].authored <= reviews[i].created
    BY <1>2 DEF ToSet
  <2>2. PICK n \in DOMAIN reviews' : reviews'[n].created = reviews[i].created
                                     /\ reviews'[n].known = reviews[i].known
    OBVIOUS
  <2>3. j \in 1..v
    BY <2>1
  <2>4. reviews'[n] \in ToSet(reviews') /\ reviews'[n].known < j
        /\ commits'[j].authored <= reviews'[n].created
    BY <2>1, <2>2, <2>3 DEF ToSet
  <2> QED
    BY <2>1, <2>4 DEF Passed
<1>3. CASE \E r \in ToSet(reviews) : r.cached
  BY <1>3 DEF ToSet, Passed
<1> QED
  BY <1>1, <1>2, <1>3 DEF Passed

LEMMA PassedUp ==
    ASSUME NEW v \in Nat, NEW w \in Nat, v <= w, NEW k \in Nat, Passed(k, v)
    PROVE  Passed(k, w)
<1>1. k..v \subseteq k..w
  OBVIOUS
<1> QED
  BY <1>1 DEF Passed

\* Where commits come and nothing else of it changes, reviews account.
LEMMA ReviewsKept ==
    ASSUME ReadTyped, ReviewsAccount, UNCHANGED <<reader, reviews>>, Version \in Nat,
           Version' \in Nat, Version <= Version', \A j \in 1..Version : commits'[j] = commits[j]
    PROVE  ReviewsAccount'
<1> SUFFICES ASSUME On("github"), NEW r \in ToSet(reviews)
             PROVE  r.known <= Version' /\ \A k \in 1..r.known : Passed(k, r.known)'
  BY DEF ReviewsAccount, On
<1>1. r.known \in Nat /\ r.known <= Version
  <2>1. r \in ReviewRecord
    BY DEF ReadTyped, ToSet
  <2> QED
    BY <2>1 DEF ReviewsAccount, ReviewRecord
<1>2. ASSUME NEW k \in 1..r.known PROVE Passed(k, r.known)'
  <2>1. Passed(k, r.known)
    BY DEF ReviewsAccount
  <2> QED
    BY <1>1, <2>1, PassedKept
<1> QED
  BY <1>1, <1>2

LEMMA CommandKept ==
    ASSUME IInv, ReadTyped, CommandAccounts, UNCHANGED <<reader, reviews, command, shown>>,
           \A j \in 1..Version : commits'[j] = commits[j]
    PROVE  CommandAccounts'
<1> SUFFICES ASSUME On("github") PROVE CommandAccounts'
  BY DEF CommandAccounts, On
<1>1. command.known \in Nat /\ Version \in Nat
  BY Versions DEF IInv, ReadTyped, CommandTyped
<1>2. ASSUME command.at \in {"known", "listed", "read"}, command.kind = "increment",
             NEW k \in (1..command.known) \ command.range
      PROVE  Passed(k, command.known)'
  <2>1. command.known <= Version
    BY <1>2, Versions DEF IInv, CommandRecent, HistoryTyped
  <2>2. Passed(k, command.known)
    BY <1>2 DEF CommandAccounts
  <2> QED
    BY <1>1, <2>1, <2>2, PassedKept
<1>3. /\ command.at \in {"listed", "read"} /\ command.kind # "increment" =>
            command.cached \/ command.files >= command.known
      /\ command.at = "read" =>
            shown.cached \/ (IF command.kind = "increment" THEN command.range
                             ELSE 1..command.known) \subseteq shown.covers
  BY DEF CommandAccounts
<1> QED
  BY <1>2, <1>3 DEF CommandAccounts, On

-----------------------------------------------------------------------------
(* Each action keeps account.                                               *)

LEMMA AccountedInit == Init => Accounted
<1> SUFFICES ASSUME Init PROVE Accounted
  OBVIOUS
<1>1. /\ reader = NoReader \/ reader \in Readers
      /\ cache = Fresh /\ command = NoCommand /\ shown = NoDiff /\ reviews = <<>>
  BY DEF Init, SnapshotsIdle, SnapshotsInit
<1>2. ReadTyped
  <2>1. IsShown(NoDiff) /\ cache.diff = NoDiff
    BY <1>1 DEF NoDiff, IsShown, Fresh
  <2>2. command.known = 0 /\ command.range = {} /\ command.cached = FALSE /\ command.kind = "none"
    BY <1>1 DEF NoCommand
  <2>3. reviews \in Seq(ReviewRecord)
    BY <1>1
  <2>4. CommandTyped
    <3>1. command.cached \in BOOLEAN
      BY <2>2
    <3> QED
      BY <2>2, <3>1 DEF CommandTyped
  <2>5. IsShown(shown) /\ IsShown(cache.diff)
    BY <1>1, <2>1
  <2>6. reader \in Readers \cup {NoReader}
    BY <1>1
  <2> QED
    BY <2>2, <2>3, <2>4, <2>5, <2>6 DEF ReadTyped
<1>3. ReviewsAccount
  BY <1>1 DEF ReviewsAccount, ToSet
<1>4. CommandAccounts
  BY <1>1 DEF CommandAccounts, NoCommand
<1> QED
  BY <1>2, <1>3, <1>4 DEF Accounted

\* Of the steps that touch neither the reviews nor the command.
LEMMA AccountedKept ==
    ASSUME IInv, Accounted, UNCHANGED <<reader, reviews, command, shown>>,
           cache' = cache \/ cache' = Fresh, Version' \in Nat, Version <= Version',
           \A j \in 1..Version : commits'[j] = commits[j]
    PROVE  Accounted'
<1>1. Version \in Nat
  BY Versions DEF IInv
<1>2. IsShown(NoDiff)'
  BY DEF IsShown, NoDiff
<1>3. ReadTyped'
  <2>1. IsShown(shown)' /\ IsShown(cache.diff)'
    BY <1>2 DEF Accounted, ReadTyped, Fresh, IsShown
  <2> QED
    BY <2>1 DEF Accounted, ReadTyped, CommandTyped
<1> QED
  BY <1>1, <1>3, ReviewsKept, CommandKept DEF Accounted

LEMMA AccountedPush == IInv /\ Accounted /\ PushCommit => Accounted'
<1> SUFFICES ASSUME IInv, Accounted, PushCommit PROVE Accounted'
  OBVIOUS
<1>1. PICK c : commits' = Append(commits, c) /\ c.authored = c.authored
  BY DEF PushCommit
<1>2. commits \in Seq(CommitsRead)
  BY DEF IInv, HistoryTyped
<1>3. Version' \in Nat /\ Version <= Version' /\ \A j \in 1..Version : commits'[j] = commits[j]
  <2>1. commits \in Seq(CommitsRead \cup {c})
    BY <1>2
  <2> QED
    BY <1>1, <2>1 DEF Version
<1> QED
  BY <1>3, AccountedKept DEF PushCommit

\* What a step of a command leaves alone.
LEMMA SameReviews ==
    ASSUME IInv, Accounted, UNCHANGED <<reader, commits, reviews>>
    PROVE  /\ ReviewsAccount' /\ reader' \in Readers \cup {NoReader} /\ reviews' \in Seq(ReviewRecord)
           /\ \A d : IsShown(d) => IsShown(d)'
           /\ \A v \in Nat : \A k \in 1..v : Passed(k, v) => Passed(k, v)'
<1>1. Version \in Nat /\ Version' = Version
  BY Versions DEF IInv, Version
<1>2. ReviewsAccount'
  BY <1>1, ReviewsKept DEF Accounted
<1>3. ASSUME NEW v \in Nat, NEW k \in 1..v, Passed(k, v) PROVE Passed(k, v)'
  BY <1>3, PassedKept
<1> QED
  BY <1>2, <1>3 DEF Accounted, ReadTyped, IsShown

LEMMA AccountedOpen == IInv /\ Accounted /\ Open => Accounted'
<1> SUFFICES ASSUME IInv, Accounted, Open PROVE Accounted'
  OBVIOUS
<1>1. UNCHANGED <<reader, commits, reviews, cache, shown>>
  BY DEF Open
<1>2. PICK kind : command' = Opened(kind)
  BY DEF Open
<1>3. /\ command'.known = 0 /\ command'.range = {} /\ command'.cached = FALSE
      /\ command'.at = IF On("github") THEN "opened" ELSE "known"
  BY <1>2 DEF Opened, NoCommand
<1>4. ReadTyped'
  <2>1. CommandTyped' /\ command'.at # "idle"
    <3>1. command'.cached \in BOOLEAN
      BY <1>3
    <3> QED
      BY <1>3, <3>1 DEF CommandTyped
  <2>2. IsShown(shown)' /\ IsShown(cache.diff)'
    <3>1. IsShown(shown) /\ IsShown(cache.diff) /\ UNCHANGED <<reader, shown, cache>>
      BY <1>1 DEF Accounted, ReadTyped
    <3> QED
      BY <3>1 DEF IsShown
  <2> QED
    BY <1>1, <2>1, <2>2, SameReviews DEF ReadTyped
<1>5. CommandAccounts'
  BY <1>1, <1>3 DEF CommandAccounts, On
<1> QED
  BY <1>1, <1>4, <1>5, SameReviews DEF Accounted

LEMMA AccountedEnds ==
    ASSUME IInv, Accounted, UNCHANGED <<reader, commits, reviews, cache>>,
           command' = NoCommand, shown' = shown \/ shown' = NoDiff
    PROVE  Accounted'
<1>1. /\ command'.known = 0 /\ command'.range = {} /\ command'.cached = FALSE
      /\ command'.at = "idle" /\ command'.kind = "none"
  BY DEF NoCommand
<1>2. IsShown(NoDiff)'
  BY DEF IsShown, NoDiff
<1>3. ReadTyped'
  <2>1. CommandTyped'
    <3>1. command'.cached \in BOOLEAN
      BY <1>1
    <3> QED
      BY <1>1, <3>1 DEF CommandTyped
  <2>2. IsShown(shown)' /\ IsShown(cache.diff)'
    BY <1>2 DEF Accounted, ReadTyped, IsShown
  <2> QED
    BY <1>1, <2>1, <2>2, SameReviews DEF ReadTyped
<1>4. CommandAccounts'
  BY <1>1 DEF CommandAccounts
<1> QED
  BY <1>3, <1>4, SameReviews DEF Accounted

\* The commits that the incremental review finds: of those before, some later
\* one was authored before the last review was created.
LEMMA RangeAccounts ==
    ASSUME IInv, Accounted, On("github"), reviews # <<>>, NEW k \in (1..Version) \ CommitRange
    PROVE  Passed(k, Version)
<1>1. Version \in Nat /\ commits \in Seq(CommitsRead) /\ Version = Len(commits)
  BY Versions DEF IInv, HistoryTyped, Version
<1>2. PICK r : r = Last(reviews) /\ r \in ToSet(reviews) /\ r \in ReviewRecord
  <2>1. Len(reviews) \in DOMAIN reviews
    BY DEF Accounted, ReadTyped
  <2>2. Last(reviews) = reviews[Len(reviews)] /\ reviews[Len(reviews)] \in ReviewRecord
    BY <2>1 DEF Accounted, ReadTyped, Last
  <2> QED
    BY <2>1, <2>2 DEF ToSet
<1>3. PICK j \in k..Version : ~(commits[j].authored > r.created)
  BY <1>2 DEF CommitRange
<1>4. commits[j].authored \in Nat /\ r.created \in Nat /\ r.known \in Nat
  <2>1. commits[j] \in CommitsRead
    BY <1>1, <1>3
  <2> QED
    BY <1>2, <2>1 DEF CommitsRead, ReviewRecord
<1>5. CASE r.known < j
  BY <1>2, <1>3, <1>4, <1>5 DEF Passed
<1>6. CASE ~(r.known < j)
  <2>1. k \in 1..r.known /\ r.known <= Version
    BY <1>1, <1>2, <1>3, <1>4, <1>6 DEF Accounted, ReviewsAccount
  <2>2. Passed(k, r.known)
    BY <1>2, <2>1 DEF Accounted, ReviewsAccount
  <2> QED
    BY <1>1, <1>4, <2>1, <2>2, PassedUp
<1> QED
  BY <1>5, <1>6

LEMMA AccountedReadCommits == IInv /\ Accounted /\ ReadCommits => Accounted'
<1> SUFFICES ASSUME IInv, Accounted, ReadCommits PROVE Accounted'
  OBVIOUS
<1>1. /\ UNCHANGED <<reader, commits, reviews, cache, shown>> /\ command.at = "opened"
      /\ IsCommand(command) /\ On("github") /\ Version \in Nat /\ Version' = Version
  BY Versions DEF ReadCommits, IInv, CommandRecent, Version
<1>2. /\ command'.at = "known" /\ command'.known = Version /\ command'.cached = command.cached
      /\ command'.kind = "increment" => reviews # <<>> /\ command'.range = CommitRange
      /\ command'.range \in {{}, CommitRange}
  BY <1>1 DEF ReadCommits, IsCommand
<1>3. ReadTyped'
  <2>1. CommitRange \subseteq Nat
    BY <1>1 DEF CommitRange
  <2> QED
    BY <1>1, <1>2, <2>1, SameReviews DEF Accounted, ReadTyped, CommandTyped
<1>4. CommandAccounts'
  <2>1. ASSUME command'.kind = "increment", NEW k \in (1..command'.known) \ command'.range
        PROVE  Passed(k, command.known)'
    BY <1>1, <1>2, <2>1, RangeAccounts, SameReviews
  <2> QED
    BY <1>2, <2>1 DEF CommandAccounts
<1> QED
  BY <1>1, <1>3, <1>4, SameReviews DEF Accounted

LEMMA AccountedListFiles == IInv /\ Accounted /\ ListFiles => Accounted'
<1> SUFFICES ASSUME IInv, Accounted, ListFiles PROVE Accounted'
  OBVIOUS
<1>1. /\ UNCHANGED <<reader, commits, reviews, shown>> /\ command.at = "known"
      /\ IsCommand(command) /\ Version \in Nat /\ CacheRecent
  BY Versions DEF ListFiles, IInv, CommandRecent
<1>2. /\ command'.at = "listed" /\ command'.known = command.known /\ command'.range = command.range
      /\ command'.kind = command.kind
      /\ \/ command.kind = "increment" /\ command'.cached = command.cached
         \/ command'.cached = TRUE
         \/ command'.files = Version /\ command'.cached = command.cached
  BY <1>1 DEF ListFiles, IsCommand, OwnFiles
<1>3. cache'.diff = cache.diff
  BY <1>1 DEF ListFiles, CacheRecent
<1>4. ReadTyped'
  BY <1>1, <1>2, <1>3, SameReviews DEF Accounted, ReadTyped, CommandTyped
<1>5. CommandAccounts'
  <2> SUFFICES ASSUME On("github") PROVE CommandAccounts'
    BY <1>1 DEF CommandAccounts, On
  <2>1. command.known \in Nat /\ command.known <= Version
    BY <1>1, Versions DEF IInv, CommandRecent, HistoryTyped
  <2>2. ASSUME command'.kind = "increment", NEW k \in (1..command'.known) \ command'.range
        PROVE  Passed(k, command.known)'
    <3>1. Passed(k, command.known)
      BY <1>1, <1>2, <2>2 DEF Accounted, CommandAccounts
    <3> QED
      BY <1>1, <1>2, <2>1, <2>2, <3>1, SameReviews
  <2> QED
    BY <1>1, <1>2, <2>1, <2>2 DEF CommandAccounts
<1> QED
  BY <1>1, <1>4, <1>5, SameReviews DEF Accounted

LEMMA DiffReadShown ==
    ASSUME IInv, Accounted, reader # NoReader, command.at = "listed",
           command.kind # "increment" \/ OwnFiles
    PROVE  /\ IsShown(DiffRead)
           /\ On("github") => DiffRead.cached
                 \/ (IF command.kind = "increment" THEN command.range
                     ELSE 1..command.known) \subseteq DiffRead.covers
<1>1. /\ Version \in Nat /\ command.pr \in Nat
      /\ command.kind # "increment" => command.files \in Nat
      /\ On("github") \/ command.range = {}
      /\ command.range \subseteq Nat /\ command.known \in Nat
      /\ IsShown(cache.diff)
  <2>1. Version \in Nat /\ asked \in Nat
    BY Versions DEF IInv
  <2>2. command.began \in asked..Version /\ command.pr \in command.began..Version
    BY DEF IInv, CommandRecent
  <2> QED
    BY <2>1, <2>2 DEF IInv, CommandRecent, Accounted, ReadTyped, CommandTyped
<1>2. command.cached \in BOOLEAN
  BY DEF Accounted, ReadTyped, CommandTyped
<1>3. ASSUME NEW p \in Nat, NEW c
      PROVE  /\ IsShown(Diff(p, c)) /\ Diff(p, c).covers = 1..p
             /\ Diff(p, c).cached = command.cached
  BY <1>2 DEF Diff, IsShown
<1>4. CASE On("github")
  <2>1. DiffRead = GithubDiff
    BY <1>4 DEF DiffRead, On
  <2>2. CASE Kept /\ cache.diff # NoDiff
    <3>1. DiffRead = [cache.diff EXCEPT !.cached = TRUE] /\ IsDiff(cache.diff)
      BY <2>1, <2>2 DEF GithubDiff, IInv, CacheRecent, RecentDiff
    <3>2. DiffRead.cached = TRUE /\ DiffRead.covers = cache.diff.covers
      BY <3>1 DEF IsDiff
    <3> QED
      BY <1>1, <3>2 DEF IsShown
  <2>3. CASE ~(Kept /\ cache.diff # NoDiff) /\ OwnFiles
    <3>1. DiffRead = [Diff(command.pr, command.pr) EXCEPT !.covers = command.range, !.partial = TRUE]
      BY <2>1, <2>3 DEF GithubDiff
    <3>2. DiffRead.covers = command.range /\ DiffRead.cached = command.cached
      BY <3>1 DEF Diff
    <3>3. command.kind = "increment"
      BY <2>3 DEF OwnFiles
    <3>4. IsShown(DiffRead)
      BY <1>1, <1>2, <3>2 DEF IsShown
    <3> QED
      BY <3>2, <3>3, <3>4
  <2>4. CASE ~(Kept /\ cache.diff # NoDiff) /\ ~OwnFiles
    <3>1. DiffRead = Diff(command.files, command.pr) /\ command.kind # "increment"
      BY <2>1, <2>4 DEF GithubDiff
    <3>2. command.cached \/ command.files >= command.known
      BY <1>4, <3>1 DEF Accounted, CommandAccounts
    <3>3. command.cached \/ 1..command.known \subseteq 1..command.files
      BY <1>1, <3>1, <3>2
    <3> QED
      BY <1>1, <1>3, <3>1, <3>3
  <2> QED
    BY <2>2, <2>3, <2>4
<1>5. CASE ~On("github")
  <2>1. command.kind # "increment"
    BY <1>1, <1>5 DEF OwnFiles, Unreviewed
  <2>2. \/ DiffRead = Diff(Version, command.pr) \/ DiffRead = Diff(command.pr, command.pr)
        \/ DiffRead = Diff(Version, command.files)
    <3>1. reader.host \in Hosts \ {"github"}
      BY <1>5 DEF IInv, ReaderKnown, On
    <3> QED
      BY <3>1 DEF DiffRead, On, Hosts, GitlabDiff, GiteaDiff, AzureDiff, BitbucketServerDiff,
         BitbucketDiff
  <2> QED
    BY <1>1, <1>3, <1>5, <2>2
<1> QED
  BY <1>4, <1>5

LEMMA AccountedReadDiff == IInv /\ Accounted /\ reader # NoReader /\ ReadDiff => Accounted'
<1> SUFFICES ASSUME IInv, Accounted, reader # NoReader, ReadDiff PROVE Accounted'
  OBVIOUS
<1>1. /\ UNCHANGED <<reader, commits, reviews>> /\ command.at = "listed" /\ shown' = DiffRead
      /\ command.kind # "increment" \/ OwnFiles
      /\ IsCommand(command) /\ cache = [files |-> cache.files, diff |-> cache.diff]
  BY DEF ReadDiff, IInv, CommandRecent, CacheRecent
<1>2. /\ command'.at = "read" /\ command'.known = command.known /\ command'.range = command.range
      /\ command'.kind = command.kind /\ command'.files = command.files
      /\ command'.cached = command.cached
  BY <1>1 DEF ReadDiff, IsCommand
<1>3. IsShown(DiffRead) /\ IsDiff(DiffRead)
  BY <1>1, DiffReadShown, DiffReadRecent DEF RecentDiff
<1>4. IsShown(shown)' /\ IsShown(cache.diff)'
  <2>1. \/ cache'.diff = cache.diff
        \/ cache'.diff = [DiffRead EXCEPT !.cached = FALSE]
    BY <1>1 DEF ReadDiff
  <2>2. IsShown([DiffRead EXCEPT !.cached = FALSE])
    <3>1. PICK d : d = [DiffRead EXCEPT !.cached = FALSE]
      OBVIOUS
    <3>2. d.cached = FALSE /\ d.covers = DiffRead.covers
      BY <1>3, <3>1 DEF IsDiff
    <3>3. IsShown(d)
      BY <1>3, <3>2 DEF IsShown
    <3> QED
      BY <3>1, <3>3
  <2>3. IsShown(cache'.diff) /\ IsShown(shown')
    BY <1>1, <1>3, <2>1, <2>2 DEF Accounted, ReadTyped
  <2> QED
    BY <1>1, <2>3 DEF IsShown
<1>5. ReadTyped'
  <2>1. CommandTyped'
    BY <1>2 DEF Accounted, ReadTyped, CommandTyped
  <2> QED
    BY <1>1, <1>2, <1>4, <2>1, SameReviews DEF ReadTyped
<1>6. CommandAccounts'
  <2> SUFFICES ASSUME On("github") PROVE CommandAccounts'
    BY <1>1 DEF CommandAccounts, On
  <2>1. command.known \in Nat
    BY DEF Accounted, ReadTyped, CommandTyped
  <2>2. ASSUME command'.kind = "increment", NEW k \in (1..command'.known) \ command'.range
        PROVE  Passed(k, command.known)'
    <3>1. Passed(k, command.known)
      BY <1>1, <1>2, <2>2 DEF Accounted, CommandAccounts
    <3> QED
      BY <1>1, <1>2, <2>1, <2>2, <3>1, SameReviews
  <2>3. command'.kind # "increment" => command'.cached \/ command'.files >= command'.known
    BY <1>1, <1>2 DEF Accounted, CommandAccounts
  <2>4. shown'.cached \/ (IF command'.kind = "increment" THEN command'.range
                           ELSE 1..command'.known) \subseteq shown'.covers
    BY <1>1, <1>2, DiffReadShown
  <2> QED
    BY <1>2, <2>2, <2>3, <2>4 DEF CommandAccounts
<1> QED
  BY <1>1, <1>5, <1>6, SameReviews DEF Accounted

\* A review that is published accounts for what it has read.
LEMMA ReviewedAccounts ==
    ASSUME IInv, Accounted, command.at = "read", reviews' = Reviewed(shown),
           UNCHANGED <<reader, commits>>, clock \in Nat
    PROVE  reviews' \in Seq(ReviewRecord) /\ ReviewsAccount'
<1>0. PICK read : read = command.known
  OBVIOUS
<1> DEFINE mine == [increment |-> command.kind = "increment", created |-> clock,
                    known |-> read, covers |-> shown.covers, cached |-> shown.cached]
<1>1. /\ reviews \in Seq(ReviewRecord) /\ shown.covers \subseteq Nat /\ shown.cached \in BOOLEAN
      /\ read \in Nat /\ Version \in Nat /\ Version' = Version
  BY <1>0, Versions DEF Accounted, ReadTyped, CommandTyped, IsShown, IInv, Version
<1>2. PICK m : \/ reviews' = Append(reviews, mine)
               \/ /\ command.kind # "increment"
                  /\ reviews' = [reviews EXCEPT ![m] = Updated(reviews[m], shown)]
  BY <1>0 DEF Reviewed
<1>3. mine \in ReviewRecord
  <2>1. (command.kind = "increment") \in BOOLEAN
    OBVIOUS
  <2> QED
    BY <1>1, <2>1 DEF ReviewRecord
<1>4. On("github") =>
         /\ read <= Version
         /\ command.kind = "increment" =>
               \A k \in (1..read) \ command.range : Passed(k, read)
         /\ shown.cached \/ (IF command.kind = "increment" THEN command.range
                             ELSE 1..read) \subseteq shown.covers
  BY <1>0, <1>1, Versions DEF IInv, CommandRecent, HistoryTyped, Accounted, CommandAccounts
<1>5. CASE reviews' = Append(reviews, mine)
  <2>1. /\ reviews' \in Seq(ReviewRecord) /\ DOMAIN reviews' = DOMAIN reviews \cup {Len(reviews) + 1}
        /\ \A i \in DOMAIN reviews : reviews'[i] = reviews[i]
        /\ reviews'[Len(reviews) + 1] = mine
    BY <1>1, <1>3, <1>5
  <2>2. ToSet(reviews') = ToSet(reviews) \cup {mine}
    BY <2>1 DEF ToSet
  <2>3. ASSUME NEW v \in Nat, NEW k \in 1..v, Passed(k, v) PROVE Passed(k, v)'
    <3>1. \A i \in DOMAIN reviews : i \in DOMAIN reviews' /\ reviews'[i] = reviews[i]
      BY <2>1
    <3>2. \A i \in DOMAIN reviews : \E n \in DOMAIN reviews' :
             /\ reviews[i].covers \subseteq reviews'[n].covers
             /\ reviews[i].cached => reviews'[n].cached
             /\ reviews'[n].created = reviews[i].created
             /\ reviews'[n].known = reviews[i].known
      BY <3>1
    <3> QED
      BY <2>3, <3>2, PassedKept
  <2>4. ASSUME On("github"), NEW k \in 1..read PROVE Passed(k, read)'
    <3>1. CASE shown.cached
      <4>1. mine \in ToSet(reviews') /\ mine.cached
        BY <2>2, <3>1
      <4> QED
        BY <4>1 DEF Passed
    <3>2. CASE k \in shown.covers
      <4>1. Len(reviews) + 1 \in DOMAIN reviews' /\ k \in reviews'[Len(reviews) + 1].covers
        BY <2>1, <3>2
      <4> QED
        BY <4>1 DEF Passed, Covered
    <3>3. CASE ~shown.cached /\ k \notin shown.covers
      <4>1. Passed(k, read)
        BY <1>4, <2>4, <3>3
      <4> QED
        BY <1>1, <2>3, <4>1
    <3> QED
      BY <3>1, <3>2, <3>3
  <2>5. ASSUME On("github"), NEW r \in ToSet(reviews)
        PROVE  r.known <= Version /\ \A k \in 1..r.known : Passed(k, r.known)'
    <3>1. r.known \in Nat
      <4>1. r \in ReviewRecord
        BY <1>1 DEF ToSet
      <4> QED
        BY <4>1 DEF ReviewRecord
    <3> QED
      BY <2>3, <2>5, <3>1 DEF Accounted, ReviewsAccount
  <2>6. ASSUME On("github"), NEW r \in ToSet(reviews')
        PROVE  r.known <= Version /\ \A k \in 1..r.known : Passed(k, r.known)'
    <3>1. CASE r = mine
      <4>1. r.known = read
        BY <3>1
      <4> QED
        BY <1>4, <2>4, <2>6, <4>1
    <3> QED
      BY <2>2, <2>5, <2>6, <3>1
  <2>7. ReviewsAccount'
    BY <1>1, <2>6 DEF ReviewsAccount, On
  <2> QED
    BY <2>1, <2>7
<1>6. CASE command.kind # "increment" /\ m \in DOMAIN reviews
           /\ reviews' = [reviews EXCEPT ![m] = Updated(reviews[m], shown)]
  <2>1. reviews[m] \in ReviewRecord
    BY <1>1, <1>6
  <2>2. PICK r : /\ r = Updated(reviews[m], shown)
                 /\ reviews' = [reviews EXCEPT ![m] = r]
    BY <1>6
  <2>3. /\ r.known = read /\ r.covers = reviews[m].covers \cup shown.covers
        /\ r.created = reviews[m].created /\ r.increment = reviews[m].increment
        /\ r = [increment |-> r.increment, created |-> r.created, known |-> r.known,
                covers |-> r.covers, cached |-> r.cached]
    BY <1>0, <2>1, <2>2 DEF ReviewRecord, Updated
  <2>4. r.cached = (reviews[m].cached \/ shown.cached)
    BY <2>1, <2>2 DEF ReviewRecord, Updated
  <2>5. r.cached \in BOOLEAN
    BY <2>4
  <2>6. r \in ReviewRecord
    BY <1>1, <2>1, <2>3, <2>5 DEF ReviewRecord
  <2>7. /\ reviews' \in Seq(ReviewRecord) /\ DOMAIN reviews' = DOMAIN reviews
        /\ reviews'[m] = r /\ \A i \in DOMAIN reviews : i # m => reviews'[i] = reviews[i]
    BY <1>1, <1>6, <2>2, <2>6
  <2>8. ASSUME On("github"), ~shown.cached, NEW k \in 1..read, NEW v PROVE Passed(k, v)'
    <3>1. m \in DOMAIN reviews' /\ k \in reviews'[m].covers
      BY <1>4, <1>6, <2>3, <2>7, <2>8
    <3> QED
      BY <3>1 DEF Passed, Covered
  <2>9. ASSUME On("github"), shown.cached, NEW k, NEW v PROVE Passed(k, v)'
    <3>1. reviews'[m] \in ToSet(reviews') /\ reviews'[m].cached
      BY <1>6, <2>4, <2>7, <2>9 DEF ToSet
    <3> QED
      BY <3>1 DEF Passed
  <2>10. ASSUME On("github"), NEW v \in Nat, NEW k \in 1..v, Passed(k, v) PROVE Passed(k, v)'
    <3>1. CASE k \in Covered
      <4>1. PICK i \in DOMAIN reviews : k \in reviews[i].covers
        BY <3>1 DEF Covered
      <4>2. i \in DOMAIN reviews' /\ k \in reviews'[i].covers
        BY <2>3, <2>7, <4>1
      <4> QED
        BY <4>2 DEF Passed, Covered
    <3>2. CASE \E q \in ToSet(reviews) : q.cached
      <4>1. PICK i \in DOMAIN reviews : reviews[i].cached
        BY <3>2 DEF ToSet
      <4>2. i \in DOMAIN reviews' /\ reviews'[i].cached
        BY <2>4, <2>7, <4>1
      <4> QED
        BY <4>2 DEF Passed, ToSet
    <3>3. CASE \E j \in k..v, q \in ToSet(reviews) : q.known < j /\ commits[j].authored <= q.created
      <4>1. PICK j \in k..v, i \in DOMAIN reviews :
               reviews[i].known < j /\ commits[j].authored <= reviews[i].created
        BY <3>3 DEF ToSet
      <4>2. CASE i # m \/ read < j
        <5>1. reviews'[i].known < j /\ commits'[j].authored <= reviews'[i].created
          BY <2>3, <2>7, <4>1, <4>2
        <5>2. reviews'[i] \in ToSet(reviews')
          BY <2>7 DEF ToSet
        <5> QED
          BY <4>1, <5>1, <5>2 DEF Passed
      <4>3. CASE ~(read < j)
        <5>1. k \in 1..read
          BY <1>1, <4>1, <4>3
        <5> QED
          BY <2>8, <2>9, <2>10, <5>1
      <4> QED
        BY <4>2, <4>3
    <3> QED
      BY <2>10, <3>1, <3>2, <3>3 DEF Passed
  <2>11. ASSUME On("github"), NEW i \in DOMAIN reviews', NEW q, q = reviews'[i]
         PROVE  q.known <= Version /\ \A k \in 1..q.known : Passed(k, q.known)'
    <3>1. CASE i = m
      <4>1. q.known = read
        BY <2>3, <2>7, <2>11, <3>1
      <4> QED
        BY <1>4, <2>8, <2>9, <2>11, <4>1
    <3>2. CASE i # m
      <4>1. q \in ToSet(reviews) /\ q \in ReviewRecord
        BY <1>1, <2>7, <2>11, <3>2 DEF ToSet
      <4>2. q.known \in Nat
        BY <4>1 DEF ReviewRecord
      <4> QED
        BY <2>10, <2>11, <4>1, <4>2 DEF Accounted, ReviewsAccount
    <3> QED
      BY <3>1, <3>2
  <2>12. ReviewsAccount'
    <3> SUFFICES ASSUME On("github"), NEW q \in ToSet(reviews')
                 PROVE  q.known <= Version /\ \A k \in 1..q.known : Passed(k, q.known)'
      BY <1>1 DEF ReviewsAccount, On
    <3> QED
      BY <2>11 DEF ToSet
  <2> QED
    BY <2>7, <2>12
<1>7. CASE reviews' = reviews
  BY <1>1, <1>7, SameReviews
<1> QED
  <2>1. m \notin DOMAIN reviews => \A x : [reviews EXCEPT ![m] = x] = reviews
    BY <1>1
  <2> QED
    BY <1>2, <1>5, <1>6, <1>7, <2>1

LEMMA AccountedPublish == IInv /\ Accounted /\ PublishResult => Accounted'
<1> SUFFICES ASSUME IInv, Accounted, PublishResult PROVE Accounted'
  OBVIOUS
<1>1. /\ UNCHANGED <<reader, commits, cache>> /\ command.at = "read"
      /\ command' = NoCommand /\ shown' = NoDiff /\ clock \in Nat
      /\ reviews' = reviews \/ reviews' = Reviewed(shown)
  BY DEF PublishResult, IInv, HistoryTyped
<1>2. reviews' \in Seq(ReviewRecord) /\ ReviewsAccount'
  BY <1>1, SameReviews, ReviewedAccounts
<1>3. command'.at = "idle" /\ command'.kind = "none"
  BY <1>1 DEF NoCommand
<1>4. ReadTyped'
  <2>1. CommandTyped'
    <3>1. command'.cached = FALSE
      BY <1>1 DEF NoCommand
    <3>2. command'.cached \in BOOLEAN
      BY <3>1
    <3> QED
      BY <1>1, <3>2 DEF NoCommand, CommandTyped
  <2>2. IsShown(NoDiff)'
    BY DEF IsShown, NoDiff
  <2>3. IsShown(shown)' /\ IsShown(cache.diff)'
    BY <1>1, <2>2 DEF Accounted, ReadTyped, IsShown
  <2> QED
    BY <1>1, <1>2, <1>3, <2>1, <2>3 DEF Accounted, ReadTyped
<1>5. CommandAccounts'
  BY <1>3 DEF CommandAccounts
<1> QED
  BY <1>2, <1>4, <1>5 DEF Accounted

LEMMA AccountedNext == IInv /\ Accounted /\ [Next]_pipeVars => Accounted'
<1> SUFFICES ASSUME IInv, Accounted, [Next]_pipeVars PROVE Accounted'
  OBVIOUS
<1>1. CASE UNCHANGED readVars
  <2>1. /\ UNCHANGED <<reader, reviews, command, shown, cache, commits>>
        /\ Version' = Version /\ Version \in Nat
    BY <1>1, Versions DEF readVars, Version, IInv
  <2> QED
    BY <2>1, AccountedKept
<1>2. CASE reader # NoReader /\ SnapshotsNext
  <2>1. CASE PushCommit
    BY <2>1, AccountedPush
  <2>2. CASE BeginBatch
    <3>1. Version' = Version /\ Version \in Nat
      BY <2>2, Versions DEF BeginBatch, Version, IInv
    <3> QED
      BY <2>2, <3>1, AccountedKept DEF BeginBatch
  <2>3. CASE Open
    BY <2>3, AccountedOpen
  <2>4. CASE ReadCommits
    BY <2>4, AccountedReadCommits
  <2>5. CASE ListFiles
    BY <2>5, AccountedListFiles
  <2>6. CASE NothingNew
    BY <2>6, AccountedEnds DEF NothingNew
  <2>7. CASE ReadDiff
    BY <1>2, <2>7, AccountedReadDiff
  <2>8. CASE PublishResult
    BY <2>8, AccountedPublish
  <2>9. CASE AbandonCommand
    BY <2>9, AccountedEnds DEF AbandonCommand
  <2> QED
    BY <1>2, <2>1, <2>2, <2>3, <2>4, <2>5, <2>6, <2>7, <2>8, <2>9 DEF SnapshotsNext
<1> QED
  BY <1>1, <1>2 DEF Next, pipeVars

LEMMA AccountedAlways == Spec => []Accounted
  BY Inductive, AccountedInit, AccountedNext, PTL DEF Spec

\* However the commits come in between the calls of the reviews, whatever the
\* clocks of their authors say: an incremental review passes over no commit
\* that was neither reviewed before, nor authored, it or a later one, while a
\* review that had not read it was under way; but where a review used the diff
\* of an earlier command of its request (github_provider.py:152-180).
THEOREM NoCommitLost == Spec => []NothingLost
<1>1. IInv /\ Accounted => NothingLost
  <2> SUFFICES ASSUME IInv, Accounted, On("github"), command.kind = "increment",
                      command.at # "opened", NEW k \in (1..command.known) \ command.range
               PROVE  Passed(k, command.known)
    BY DEF NothingLost, Passed
  <2> QED
    BY DEF Accounted, ReadTyped, CommandAccounts, IInv, CommandRecent
<1> QED
  BY <1>1, Inductive, AccountedAlways, PTL

-----------------------------------------------------------------------------
(* Orders, selections and sums.                                            *)

LEMMA FirstNumbers ==
    ASSUME NEW n \in Nat
    PROVE  IsFiniteSet(1..n) /\ Cardinality(1..n) = n
<1>1. 1 \in Int /\ n \in Int
  OBVIOUS
<1>2. IsFiniteSet(1..n) /\ Cardinality(1..n) = IF 1 > n THEN 0 ELSE n - 1 + 1
  BY <1>1, FS_Interval
<1> QED
  BY <1>2

LEMMA SequenceIs ==
    ASSUME NEW S, NEW n \in Nat, NEW s \in [1..n -> S]
    PROVE  s \in Seq(S) /\ Len(s) = n
  OBVIOUS

TotalOrder(S, R) ==
    /\ \A d \in S : <<d, d>> \notin R
    /\ \A d, e, f \in S : <<d, e>> \in R /\ <<e, f>> \in R => <<d, f>> \in R
    /\ \A d, e \in S : d = e \/ <<d, e>> \in R \/ <<e, d>> \in R

\* What Enumerate gives: every element, at one place.
LEMMA EnumerateIs ==
    ASSUME NEW S, IsFiniteSet(S), NEW R, TotalOrder(S, R)
    PROVE  LET o == Enumerate(S, R)
           IN  /\ Cardinality(S) \in Nat
               /\ o \in [1..Cardinality(S) -> S]
               /\ \A m, n \in 1..Cardinality(S) : o[m] = o[n] => m = n
               /\ \A e \in S : \E n \in 1..Cardinality(S) : o[n] = e
<1> DEFINE size == Cardinality(S)
           Below(e) == {d \in S : <<d, e>> \in R}
           rank == [e \in S |-> Cardinality(Below(e))]
           ranks == 0..(size - 1)
<1>1. size \in Nat
  BY FS_CardinalityType
<1>2. ASSUME NEW e \in S
      PROVE  /\ IsFiniteSet(Below(e)) /\ Cardinality(Below(e)) \in Nat
             /\ Cardinality(Below(e)) < size
  <2>1. Below(e) \subseteq S /\ Below(e) # S
    BY DEF TotalOrder
  <2>2. IsFiniteSet(Below(e)) /\ Cardinality(Below(e)) <= size /\ Cardinality(Below(e)) # size
    BY <2>1, FS_Subset
  <2>3. Cardinality(Below(e)) \in Nat
    BY <2>2, FS_CardinalityType
  <2> QED
    BY <1>1, <2>2, <2>3
<1>3. ASSUME NEW d \in S, NEW e \in S, <<d, e>> \in R
      PROVE  Cardinality(Below(d)) < Cardinality(Below(e))
  <2>1. Below(d) \subseteq Below(e) /\ d \in Below(e) /\ d \notin Below(d)
    BY <1>3 DEF TotalOrder
  <2>2. IsFiniteSet(Below(e)) /\ Cardinality(Below(d)) \in Nat /\ Cardinality(Below(e)) \in Nat
    BY <1>2
  <2>3. /\ Cardinality(Below(d)) <= Cardinality(Below(e))
        /\ Cardinality(Below(d)) # Cardinality(Below(e))
    BY <2>1, <2>2, FS_Subset
  <2> HIDE DEF Below
  <2> QED
    BY <2>2, <2>3
<1>4. \A d, e \in S : rank[d] = rank[e] => d = e
  <2> SUFFICES ASSUME NEW d \in S, NEW e \in S, d # e PROVE rank[d] # rank[e]
    OBVIOUS
  <2>1. Cardinality(Below(d)) \in Nat /\ Cardinality(Below(e)) \in Nat
    BY <1>2
  <2>2. Cardinality(Below(d)) < Cardinality(Below(e)) \/ Cardinality(Below(e)) < Cardinality(Below(d))
    <3>1. <<d, e>> \in R \/ <<e, d>> \in R
      BY DEF TotalOrder
    <3> HIDE DEF Below
    <3> QED
      BY <1>3, <3>1
  <2> HIDE DEF Below
  <2> QED
    BY <2>1, <2>2
<1>5. rank \in [S -> ranks]
  <2>1. \A e \in S : Cardinality(Below(e)) \in ranks
    BY <1>1, <1>2
  <2> QED
    BY <2>1
<1>6. IsFiniteSet(ranks) /\ Cardinality(ranks) = size
  <2>1. 0 \in Int /\ size - 1 \in Int /\ size \in Nat
    BY <1>1
  <2>2. IsFiniteSet(0..(size - 1))
        /\ Cardinality(0..(size - 1)) = IF 0 > size - 1 THEN 0 ELSE size - 1 - 0 + 1
    <3> HIDE DEF size
    <3> QED
      BY <2>1, FS_Interval
  <2> HIDE DEF size
  <2> QED
    BY <2>1, <2>2
<1>7. \A k \in ranks : \E e \in S : rank[e] = k
  <2> HIDE DEF rank, ranks, size
  <2>1. rank \in Injection(S, ranks)
    BY <1>4, <1>5 DEF Injection, IsInjective
  <2>2. rank \in Surjection(S, ranks)
    BY <1>6, <2>1, FS_Injection DEF size
  <2> QED
    BY <2>2 DEF Surjection
<1> DEFINE pick(n) == CHOOSE f \in S : Cardinality({d \in S : <<d, f>> \in R}) = n - 1
           o == Enumerate(S, R)
<1>8. ASSUME NEW n \in 1..size PROVE o[n] \in S /\ rank[o[n]] = n - 1
  <2>1. n - 1 \in ranks
    BY <1>1
  <2>2. PICK e \in S : rank[e] = n - 1
    BY <1>7, <2>1
  <2>3. \E f \in S : Cardinality({d \in S : <<d, f>> \in R}) = n - 1
    BY <2>2
  <2>4. o[n] = CHOOSE f \in S : Cardinality({d \in S : <<d, f>> \in R}) = n - 1
    BY DEF Enumerate
  <2>5. o[n] \in S /\ Cardinality({d \in S : <<d, o[n]>> \in R}) = n - 1
    BY <2>3, <2>4
  <2> QED
    BY <2>5
<1>9. o \in [1..size -> S]
  <2>1. o = [n \in 1..size |-> pick(n)]
    BY DEF Enumerate
  <2> HIDE DEF o, pick, size
  <2>2. \A n \in 1..size : pick(n) \in S
    BY <1>8, <2>1
  <2> QED
    BY <2>1, <2>2
<1> HIDE DEF o, rank
<1>10. \A m, n \in 1..size : o[m] = o[n] => m = n
  BY <1>1, <1>8
<1>11. ASSUME NEW e \in S PROVE \E n \in 1..size : o[n] = e
  <2>1. rank[e] \in ranks
    BY <1>5
  <2>2. rank[e] + 1 \in 1..size
    BY <1>1, <2>1
  <2>3. rank[o[rank[e] + 1]] = rank[e] /\ o[rank[e] + 1] \in S
    BY <1>1, <1>8, <2>1, <2>2
  <2> QED
    BY <1>4, <2>2, <2>3
<1> QED
  BY <1>1, <1>9, <1>10, <1>11 DEF o

\* Totals of natural numbers are natural numbers.
LEMMA TotalIs ==
    ASSUME NEW w \in Seq(Nat)
    PROVE  Total(w) \in Nat
<1> DEFINE Sums(f, m) == f = [n \in 0..m |-> IF n = 0 THEN 0 ELSE f[n - 1] + w[n]]
           sum == CHOOSE f : Sums(f, Len(w))
           T == {m \in 0..Len(w) : ~\E f \in [0..m -> Nat] : Sums(f, m)}
<1>1. Len(w) \in Nat /\ \A n \in 1..Len(w) : w[n] \in Nat
  OBVIOUS
<1>2. T = {}
  <2> SUFFICES ASSUME T # {} PROVE FALSE
    OBVIOUS
  <2>1. T \subseteq Nat
    BY <1>1
  <2>2. PICK m \in T : \A j \in T : m <= j
    <3> HIDE DEF T
    <3> QED
      BY <2>1, Least
  <2>3. CASE m = 0
    <3> DEFINE f == [n \in 0..0 |-> 0]
    <3>1. f \in [0..0 -> Nat] /\ Sums(f, 0)
      OBVIOUS
    <3> QED
      BY <2>2, <2>3, <3>1
  <2>4. CASE m # 0
    <3>0. m \in 0..Len(w)
      BY <2>2
    <3>1. m - 1 \in 0..Len(w) /\ m \in 1..Len(w) /\ m - 1 \notin T
      <4> HIDE DEF T
      <4> QED
        BY <1>1, <2>2, <2>4, <3>0
    <3>2. PICK f \in [0..(m - 1) -> Nat] : Sums(f, m - 1)
      BY <3>1
    <3> DEFINE g == [n \in 0..m |-> IF n = m THEN f[m - 1] + w[m] ELSE f[n]]
    <3>3. g \in [0..m -> Nat]
      <4>1. \A n \in 0..m : n # m => n \in 0..(m - 1)
        BY <1>1, <3>1
      <4>2. w[m] \in Nat /\ f[m - 1] \in Nat
        BY <1>1, <3>1
      <4>3. \A n \in 0..m : (IF n = m THEN f[m - 1] + w[m] ELSE f[n]) \in Nat
        BY <4>1, <4>2
      <4> QED
        BY <4>3
    <3>4. \A n \in 0..m : g[n] = IF n = 0 THEN 0 ELSE g[n - 1] + w[n]
      <4> TAKE n \in 0..m
      <4>1. CASE n = m
        <5>1. m \in Nat /\ m # 0 /\ m - 1 \in 0..m /\ m \in 0..m /\ m - 1 # m
          BY <1>1, <3>1
        <5>2. g[m] = f[m - 1] + w[m] /\ g[m - 1] = f[m - 1]
          BY <5>1
        <5> HIDE DEF g
        <5> QED
          BY <4>1, <5>1, <5>2
      <4>2. CASE n # m
        <5>1. n \in 0..(m - 1) /\ n - 1 # m /\ (n # 0 => n - 1 \in 0..m)
          BY <1>1, <3>1, <4>2
        <5>2. f[n] = IF n = 0 THEN 0 ELSE f[n - 1] + w[n]
          BY <3>2, <5>1
        <5>3. g[n] = f[n] /\ (n # 0 => g[n - 1] = f[n - 1])
          BY <4>2, <5>1
        <5> HIDE DEF g
        <5> QED
          BY <5>2, <5>3
      <4> QED
        BY <4>1, <4>2
    <3>5. Sums(g, m)
      <4> HIDE DEF g
      <4> QED
        BY <3>3, <3>4
    <3> HIDE DEF Sums
    <3> QED
      BY <2>2, <3>3, <3>5
  <2> QED
    BY <2>3, <2>4
<1>3. \E f \in [0..Len(w) -> Nat] : Sums(f, Len(w))
  BY <1>1, <1>2
<1>4. Sums(sum, Len(w))
  <2> HIDE DEF Sums
  <2> QED
    BY <1>3
<1>5. Total(w) = sum[Len(w)]
  BY DEF Total
<1> DEFINE U == {n \in 0..Len(w) : sum[n] \notin Nat}
<1>6. U = {}
  <2> HIDE DEF sum
  <2> SUFFICES ASSUME U # {} PROVE FALSE
    OBVIOUS
  <2>1. U \subseteq Nat
    BY <1>1
  <2>2. PICK n \in U : \A j \in U : n <= j
    <3> HIDE DEF U
    <3> QED
      BY <2>1, Least
  <2>3. sum[n] = IF n = 0 THEN 0 ELSE sum[n - 1] + w[n]
    BY <1>4
  <2>4. n # 0 /\ n - 1 \in 0..Len(w) /\ n - 1 \notin U /\ w[n] \in Nat
    BY <1>1, <2>2, <2>3
  <2> QED
    BY <2>2, <2>3, <2>4
<1> QED
  BY <1>1, <1>5, <1>6

-----------------------------------------------------------------------------
(* The files of a request in order.                                        *)

WellFormed(pr) ==
    /\ pr.mode \in {"single", "large", "multi"}
    /\ pr.prompt \in Nat /\ pr.filesPrompt \in 0..pr.prompt /\ pr.calls \in Nat \ {0}
    /\ pr.langs \in Seq(ToSet(pr.langs)) /\ pr.files \in Seq(ToSet(pr.files))
    /\ \A j, k \in DOMAIN pr.files : pr.files[j].name = pr.files[k].name => j = k
    /\ \A f \in ToSet(pr.files) :
          f.size \in Nat /\ f.core \in Nat /\ f.header \in 0..(Soft - Hard)

LEMMA ListedIs ==
    ASSUME NEW pr, WellFormed(pr)
    PROVE  /\ IsFiniteSet(Listed(pr)) /\ DOMAIN pr.files = 1..Len(pr.files)
           /\ Len(pr.langs) \in Nat /\ Len(pr.files) \in Nat
           /\ \A e \in Listed(pr) :
                 /\ e = <<e[1], e[2]>>
                 /\ e[1] \in 1..(Len(pr.langs) + 1) /\ e[2] \in DOMAIN pr.files
                 /\ e[1] \in Languages(pr, pr.files[e[2]])
                 /\ pr.files[e[2]] \in ToSet(pr.files) /\ pr.files[e[2]].size \in Nat
<1>1. /\ DOMAIN pr.files = 1..Len(pr.files)
      /\ Len(pr.langs) \in Nat /\ Len(pr.files) \in Nat
  BY DEF WellFormed
<1>2. \A e \in Listed(pr) :
         /\ e = <<e[1], e[2]>>
         /\ e[1] \in 1..(Len(pr.langs) + 1) /\ e[2] \in DOMAIN pr.files
         /\ e[1] \in Languages(pr, pr.files[e[2]])
         /\ pr.files[e[2]] \in ToSet(pr.files)
  BY DEF Listed, ToSet
<1>3. \A e \in Listed(pr) : pr.files[e[2]].size \in Nat
  BY <1>2 DEF WellFormed
<1>4. IsFiniteSet((1..(Len(pr.langs) + 1)) \X DOMAIN pr.files)
  <2> DEFINE ranks == 1..(Len(pr.langs) + 1)
             places == DOMAIN pr.files
  <2>1. IsFiniteSet(ranks)
    <3>1. Len(pr.langs) + 1 \in Nat
      BY <1>1
    <3> QED
      BY <3>1, FirstNumbers
  <2>2. IsFiniteSet(places)
    BY <1>1, FirstNumbers
  <2> HIDE DEF ranks, places
  <2>3. IsFiniteSet(ranks \X places)
    BY <2>1, <2>2, FS_Product
  <2> QED
    BY <2>3 DEF ranks, places
<1>5. IsFiniteSet(Listed(pr))
  BY <1>4, FS_Subset DEF Listed
<1> QED
  BY <1>1, <1>2, <1>3, <1>5

LEMMA FilesAre ==
    ASSUME NEW pr, WellFormed(pr), NEW S \in SUBSET Listed(pr), NEW R, TotalOrder(S, R)
    PROVE  LET s == FilesInOrder(pr, S, R)
           IN  /\ s \in Seq(ToSet(pr.files)) /\ Len(s) = Cardinality(S)
               /\ \E o \in [1..Len(s) -> S] :
                     /\ \A m, n \in 1..Len(s) : o[m] = o[n] => m = n
                     /\ \A e \in S : \E n \in 1..Len(s) : o[n] = e
                     /\ \A n \in 1..Len(s) : s[n] = pr.files[o[n][2]]
<1> DEFINE o == Enumerate(S, R)
           s == FilesInOrder(pr, S, R)
           size == Cardinality(S)
<1>1. IsFiniteSet(S)
  BY ListedIs, FS_Subset
<1>2. /\ size \in Nat /\ o \in [1..size -> S]
      /\ \A m, n \in 1..size : o[m] = o[n] => m = n
      /\ \A e \in S : \E n \in 1..size : o[n] = e
  BY <1>1, EnumerateIs
<1>3. s = [n \in DOMAIN o |-> pr.files[o[n][2]]]
  BY DEF FilesInOrder
<1> HIDE DEF o, s
<1>4. \A n \in 1..size : pr.files[o[n][2]] \in ToSet(pr.files)
  BY <1>2, ListedIs
<1>5. s \in [1..size -> ToSet(pr.files)]
  BY <1>2, <1>3, <1>4
<1>6. s \in Seq(ToSet(pr.files)) /\ Len(s) = size
  BY <1>2, <1>5, SequenceIs
<1>7. \A n \in 1..Len(s) : s[n] = pr.files[o[n][2]]
  BY <1>2, <1>3, <1>6
<1> HIDE DEF size
<1>8. \E f \in [1..Len(s) -> S] :
         /\ \A m, n \in 1..Len(s) : f[m] = f[n] => m = n
         /\ \A e \in S : \E n \in 1..Len(s) : f[n] = e
         /\ \A n \in 1..Len(s) : s[n] = pr.files[f[n][2]]
  BY <1>2, <1>6, <1>7
<1>9. s \in Seq(ToSet(pr.files)) /\ Len(s) = Cardinality(S)
  BY <1>6 DEF size
<1> QED
  BY <1>8, <1>9 DEF s

LEMMA Members ==
    ASSUME NEW S, NEW s \in Seq(S)
    PROVE  DOMAIN s = 1..Len(s) /\ Len(s) \in Nat /\ \A n \in 1..Len(s) : s[n] \in S
  OBVIOUS

LEMMA LanguagesAre ==
    ASSUME NEW pr, WellFormed(pr), NEW f
    PROVE  /\ Languages(pr, f) \subseteq 1..(Len(pr.langs) + 1)
           /\ Languages(pr, f) # {} /\ IsFiniteSet(Languages(pr, f))
           /\ \E k \in Languages(pr, f) : \A j \in Languages(pr, f) : k <= j
<1>1. Len(pr.langs) \in Nat /\ DOMAIN pr.langs = 1..Len(pr.langs)
  <2>1. pr.langs \in Seq(ToSet(pr.langs))
    BY DEF WellFormed
  <2> QED
    BY <2>1, Members
<1> DEFINE known == {k \in DOMAIN pr.langs : f.ext \in pr.langs[k]}
<1>2. Languages(pr, f) \subseteq 1..(Len(pr.langs) + 1) /\ Languages(pr, f) # {}
  <2>1. known \subseteq 1..(Len(pr.langs) + 1)
    BY <1>1
  <2>2. Len(pr.langs) + 1 \in 1..(Len(pr.langs) + 1)
    BY <1>1
  <2>3. Languages(pr, f) = IF known = {} THEN {Len(pr.langs) + 1} ELSE known
    BY DEF Languages
  <2> HIDE DEF known
  <2> QED
    BY <2>1, <2>2, <2>3
<1> HIDE DEF known
<1>3. IsFiniteSet(1..(Len(pr.langs) + 1))
  <2>1. Len(pr.langs) + 1 \in Nat
    BY <1>1
  <2> QED
    BY <2>1, FirstNumbers
<1>4. IsFiniteSet(Languages(pr, f))
  BY <1>2, <1>3, FS_Subset
<1>5. \E k \in Languages(pr, f) : \A j \in Languages(pr, f) : k <= j
  <2>1. Languages(pr, f) \subseteq Nat
    BY <1>1, <1>2
  <2> QED
    BY <1>2, <2>1, Least
<1> QED
  BY <1>2, <1>4, <1>5

LEMMA LargestFirstOrders ==
    ASSUME NEW pr, WellFormed(pr), NEW S \in SUBSET Listed(pr)
    PROVE  TotalOrder(S, LargestFirst(pr))
<1> DEFINE size(e) == pr.files[e[2]].size
           Before(d, e) ==
               \/ d[1] < e[1]
               \/ d[1] = e[1] /\ size(d) > size(e)
               \/ d[1] = e[1] /\ size(d) = size(e) /\ d[2] < e[2]
<1>1. \A d, e \in Listed(pr) : <<d, e>> \in LargestFirst(pr) <=> Before(d, e)
  BY DEF LargestFirst
<1>2. \A e \in S : /\ e[1] \in Nat /\ e[2] \in Nat /\ size(e) \in Nat /\ e = <<e[1], e[2]>>
  BY ListedIs
<1> HIDE DEF size
<1>3. \A d \in S : ~Before(d, d)
  BY <1>2
<1>4. \A d, e, f \in S : Before(d, e) /\ Before(e, f) => Before(d, f)
  BY <1>2
<1>5. \A d, e \in S : d = e \/ Before(d, e) \/ Before(e, d)
  BY <1>2
<1> HIDE DEF Before
<1> QED
  BY <1>1, <1>3, <1>4, <1>5 DEF TotalOrder

\* Where a file is in an order of places, and how often.
Occurs(s, f) == {n \in 1..Len(s) : s[n] = f}

LEMMA TimesListed ==
    ASSUME NEW pr, WellFormed(pr), NEW f \in ToSet(pr.files), NEW s, Len(s) \in Nat,
           NEW o \in [1..Len(s) -> Listed(pr)],
           \A i, j \in 1..Len(s) : o[i] = o[j] => i = j,
           \A n \in 1..Len(s) : s[n] = pr.files[o[n][2]]
    PROVE  /\ IsFiniteSet(Occurs(s, f))
           /\ Cardinality(Occurs(s, f)) <= Cardinality(Languages(pr, f))
<1> DEFINE T == Occurs(s, f)
           w == [n \in T |-> o[n][1]]
<1>1. \A n \in T : /\ n \in 1..Len(s)
                   /\ o[n] = <<o[n][1], o[n][2]>> /\ o[n][2] \in DOMAIN pr.files
                   /\ o[n][1] \in Languages(pr, f) /\ pr.files[o[n][2]] = f
  BY ListedIs DEF Occurs
<1>2. \A i, j \in T : o[i][1] = o[j][1] => i = j
  <2> TAKE i \in T, j \in T
  <2>1. /\ o[i][2] \in DOMAIN pr.files /\ pr.files[o[i][2]] = f
        /\ o[j][2] \in DOMAIN pr.files /\ pr.files[o[j][2]] = f
    BY <1>1
  <2>2. \A a, b \in DOMAIN pr.files : pr.files[a].name = pr.files[b].name => a = b
    BY DEF WellFormed
  <2>3. o[i][2] = o[j][2]
    BY <2>1, <2>2
  <2> QED
    BY <1>1, <2>3
<1>3. w \in Injection(T, Languages(pr, f))
  <2>1. w \in [T -> Languages(pr, f)]
    BY <1>1
  <2>2. \A i, j \in T : w[i] = w[j] => i = j
    BY <1>2
  <2> HIDE DEF w
  <2> QED
    BY <2>1, <2>2 DEF Injection, IsInjective
<1> HIDE DEF w, T
<1>4. IsFiniteSet(T) /\ Cardinality(T) <= Cardinality(Languages(pr, f))
  BY <1>3, LanguagesAre, FS_Injection
<1> QED
  BY <1>4 DEF T

LEMMA SortedIs ==
    ASSUME NEW pr, WellFormed(pr)
    PROVE  LET s == Sorted(pr)
           IN  /\ s \in Seq(ToSet(pr.files)) /\ Len(s) \in Nat
               /\ \A f \in ToSet(pr.files) :
                     /\ IsFiniteSet(Occurs(s, f))
                     /\ Cardinality(Occurs(s, f)) <= Cardinality(Languages(pr, f))
                     /\ f.size > 0 /\ f.core > 0 => \E n \in 1..Len(s) : s[n] = f
<1> DEFINE S == Pruned(pr)
           s == FilesInOrder(pr, S, LargestFirst(pr))
<1>1. s = Sorted(pr)
  BY DEF Sorted
<1>2. S \in SUBSET Listed(pr)
  BY DEF Pruned
<1>3. TotalOrder(S, LargestFirst(pr))
  BY <1>2, LargestFirstOrders
<1>4. /\ s \in Seq(ToSet(pr.files))
      /\ \E o \in [1..Len(s) -> S] :
            /\ \A m, n \in 1..Len(s) : o[m] = o[n] => m = n
            /\ \A e \in S : \E n \in 1..Len(s) : o[n] = e
            /\ \A n \in 1..Len(s) : s[n] = pr.files[o[n][2]]
  <2> HIDE DEF S, s
  <2>1. LET t == FilesInOrder(pr, S, LargestFirst(pr))
        IN  /\ t \in Seq(ToSet(pr.files)) /\ Len(t) = Cardinality(S)
            /\ \E o \in [1..Len(t) -> S] :
                  /\ \A m, n \in 1..Len(t) : o[m] = o[n] => m = n
                  /\ \A e \in S : \E n \in 1..Len(t) : o[n] = e
                  /\ \A n \in 1..Len(t) : t[n] = pr.files[o[n][2]]
    BY <1>2, <1>3, FilesAre
  <2> QED
    BY <2>1 DEF s
<1> HIDE DEF s
<1>5. PICK o \in [1..Len(s) -> Listed(pr)] :
            /\ \A m, n \in 1..Len(s) : o[m] = o[n] => m = n
            /\ \A e \in S : \E n \in 1..Len(s) : o[n] = e
            /\ \A n \in 1..Len(s) : s[n] = pr.files[o[n][2]]
  <2> HIDE DEF S
  <2> QED
    BY <1>2, <1>4
<1>6. Len(s) \in Nat
  BY <1>4
<1>7. \A f \in ToSet(pr.files) :
         /\ IsFiniteSet(Occurs(s, f))
         /\ Cardinality(Occurs(s, f)) <= Cardinality(Languages(pr, f))
  <2> TAKE f \in ToSet(pr.files)
  <2> QED
    BY <1>5, <1>6, TimesListed
<1>8. ASSUME NEW f \in ToSet(pr.files), f.size > 0, f.core > 0
      PROVE  \E n \in 1..Len(s) : s[n] = f
  <2>1. PICK j \in DOMAIN pr.files : pr.files[j] = f
    BY DEF ToSet
  <2>2. PICK k : k \in Languages(pr, f)
    BY LanguagesAre
  <2>3. <<k, j>> \in S
    BY <1>8, <2>1, <2>2, LanguagesAre DEF Listed, Pruned
  <2>4. PICK n \in 1..Len(s) : o[n] = <<k, j>>
    BY <1>5, <2>3
  <2> QED
    BY <1>5, <2>1, <2>4
<1> QED
  BY <1>1, <1>4, <1>6, <1>7, <1>8

\* No name twice.
Once(s) == \A i, j \in DOMAIN s : s[i].name = s[j].name => i = j

LEMMA CompressedIs ==
    ASSUME NEW pr, WellFormed(pr)
    PROVE  LET s == Compressed(pr)
           IN  /\ s \in Seq(ToSet(pr.files)) /\ Once(s)
               /\ \A f \in ToSet(pr.files) : f.size > 0 /\ f.core > 0 => f.name \in Names(s)
<1> DEFINE S == {e \in Pruned(pr) : \A k \in Languages(pr, pr.files[e[2]]) : e[1] <= k}
           s == FilesInOrder(pr, S, LargestFirst(pr))
<1>1. s = Compressed(pr)
  BY DEF Compressed
<1>2. S \in SUBSET Listed(pr)
  BY DEF Pruned
<1>3. TotalOrder(S, LargestFirst(pr))
  BY <1>2, LargestFirstOrders
<1>4. /\ s \in Seq(ToSet(pr.files))
      /\ \E o \in [1..Len(s) -> S] :
            /\ \A m, n \in 1..Len(s) : o[m] = o[n] => m = n
            /\ \A e \in S : \E n \in 1..Len(s) : o[n] = e
            /\ \A n \in 1..Len(s) : s[n] = pr.files[o[n][2]]
  <2> HIDE DEF S, s
  <2>1. LET t == FilesInOrder(pr, S, LargestFirst(pr))
        IN  /\ t \in Seq(ToSet(pr.files)) /\ Len(t) = Cardinality(S)
            /\ \E o \in [1..Len(t) -> S] :
                  /\ \A m, n \in 1..Len(t) : o[m] = o[n] => m = n
                  /\ \A e \in S : \E n \in 1..Len(t) : o[n] = e
                  /\ \A n \in 1..Len(t) : t[n] = pr.files[o[n][2]]
    BY <1>2, <1>3, FilesAre
  <2> QED
    BY <2>1 DEF s
<1> HIDE DEF s
<1>5. PICK o \in [1..Len(s) -> S] :
            /\ \A m, n \in 1..Len(s) : o[m] = o[n] => m = n
            /\ \A e \in S : \E n \in 1..Len(s) : o[n] = e
            /\ \A n \in 1..Len(s) : s[n] = pr.files[o[n][2]]
  BY <1>4
<1>6. DOMAIN s = 1..Len(s)
  BY <1>4
<1>7. Once(s)
  <2> SUFFICES ASSUME NEW i \in 1..Len(s), NEW j \in 1..Len(s), s[i].name = s[j].name PROVE i = j
    BY <1>6 DEF Once
  <2>1. \A n \in {i, j} :
           /\ o[n] = <<o[n][1], o[n][2]>> /\ o[n][2] \in DOMAIN pr.files
           /\ s[n] = pr.files[o[n][2]] /\ o[n][1] \in 1..(Len(pr.langs) + 1)
           /\ o[n][1] \in Languages(pr, s[n])
           /\ \A k \in Languages(pr, s[n]) : o[n][1] <= k
    BY <1>2, <1>5, ListedIs
  <2>2. o[i][2] = o[j][2]
    BY <2>1 DEF WellFormed
  <2>3. o[i][1] <= o[j][1] /\ o[j][1] <= o[i][1]
    BY <2>1, <2>2
  <2>4. o[i][1] = o[j][1]
    BY <2>1, <2>3, ListedIs
  <2> QED
    BY <1>5, <2>1, <2>2, <2>4
<1>8. ASSUME NEW f \in ToSet(pr.files), f.size > 0, f.core > 0 PROVE f.name \in Names(s)
  <2>1. PICK j \in DOMAIN pr.files : pr.files[j] = f
    BY DEF ToSet
  <2>2. PICK k \in Languages(pr, f) : \A l \in Languages(pr, f) : k <= l
    BY LanguagesAre
  <2>3. <<k, j>> \in S
    BY <1>8, <2>1, <2>2, LanguagesAre DEF Listed, Pruned
  <2>4. PICK n \in 1..Len(s) : o[n] = <<k, j>>
    BY <1>5, <2>3
  <2>5. s[n] = f
    BY <1>5, <2>1, <2>4
  <2> QED
    BY <1>6, <2>5 DEF Names
<1> QED
  BY <1>1, <1>4, <1>7, <1>8

LEMMA AsListedOrders ==
    ASSUME NEW pr, WellFormed(pr), NEW S \in SUBSET Listed(pr)
    PROVE  TotalOrder(S, AsListed(pr))
<1> DEFINE Before(d, e) ==
               \/ d[1] < e[1]
               \/ d[1] = e[1] /\ d[2] < e[2]
<1>1. \A d, e \in Listed(pr) : <<d, e>> \in AsListed(pr) <=> Before(d, e)
  BY DEF AsListed
<1>2. \A e \in S : e[1] \in Nat /\ e[2] \in Nat /\ e = <<e[1], e[2]>>
  BY ListedIs
<1>3. \A d \in S : ~Before(d, d)
  BY <1>2
<1>4. \A d, e, f \in S : Before(d, e) /\ Before(e, f) => Before(d, f)
  BY <1>2
<1>5. \A d, e \in S : d = e \/ Before(d, e) \/ Before(e, d)
  BY <1>2
<1> HIDE DEF Before
<1> QED
  BY <1>1, <1>3, <1>4, <1>5 DEF TotalOrder

LEMMA ExtendedIs ==
    ASSUME NEW pr, WellFormed(pr)
    PROVE  LET s == Extended(pr)
           IN  /\ s \in Seq(ToSet(pr.files)) /\ Len(s) \in Nat
               /\ \A f \in ToSet(pr.files) :
                     /\ IsFiniteSet(Occurs(s, f))
                     /\ Cardinality(Occurs(s, f)) <= Cardinality(Languages(pr, f))
                     /\ f.size > 0 => f.name \in Names(s)
<1> DEFINE S == Listed(pr)
           s == FilesInOrder(pr, S, AsListed(pr))
<1>1. s = Extended(pr)
  BY DEF Extended
<1>2. S \in SUBSET Listed(pr)
  OBVIOUS
<1>3. TotalOrder(S, AsListed(pr))
  BY AsListedOrders
<1> HIDE DEF s
<1>4. /\ s \in Seq(ToSet(pr.files))
      /\ \E o \in [1..Len(s) -> S] :
            /\ \A m, n \in 1..Len(s) : o[m] = o[n] => m = n
            /\ \A e \in S : \E n \in 1..Len(s) : o[n] = e
            /\ \A n \in 1..Len(s) : s[n] = pr.files[o[n][2]]
  <2>1. LET t == FilesInOrder(pr, S, AsListed(pr))
        IN  /\ t \in Seq(ToSet(pr.files)) /\ Len(t) = Cardinality(S)
            /\ \E o \in [1..Len(t) -> S] :
                  /\ \A m, n \in 1..Len(t) : o[m] = o[n] => m = n
                  /\ \A e \in S : \E n \in 1..Len(t) : o[n] = e
                  /\ \A n \in 1..Len(t) : t[n] = pr.files[o[n][2]]
    BY <1>2, <1>3, FilesAre
  <2> QED
    BY <2>1 DEF s
<1>5. PICK o \in [1..Len(s) -> Listed(pr)] :
            /\ \A m, n \in 1..Len(s) : o[m] = o[n] => m = n
            /\ \A e \in Listed(pr) : \E n \in 1..Len(s) : o[n] = e
            /\ \A n \in 1..Len(s) : s[n] = pr.files[o[n][2]]
  BY <1>4
<1>6. DOMAIN s = 1..Len(s) /\ Len(s) \in Nat
  BY <1>4
<1>7. \A f \in ToSet(pr.files) :
         /\ IsFiniteSet(Occurs(s, f))
         /\ Cardinality(Occurs(s, f)) <= Cardinality(Languages(pr, f))
  <2> TAKE f \in ToSet(pr.files)
  <2> QED
    BY <1>5, <1>6, TimesListed
<1>8. ASSUME NEW f \in ToSet(pr.files), f.size > 0 PROVE f.name \in Names(s)
  <2>1. PICK j \in DOMAIN pr.files : pr.files[j] = f
    BY DEF ToSet
  <2>2. PICK k \in Languages(pr, f) : TRUE
    BY LanguagesAre
  <2>3. <<k, j>> \in Listed(pr)
    BY <1>8, <2>1, <2>2, LanguagesAre DEF Listed
  <2>4. PICK n \in 1..Len(s) : o[n] = <<k, j>>
    BY <1>5, <2>3
  <2>5. s[n] = f
    BY <1>5, <2>1, <2>4
  <2> QED
    BY <1>6, <2>5 DEF Names
<1> QED
  BY <1>1, <1>4, <1>6, <1>7, <1>8

LEMMA TokensAre ==
    ASSUME NEW pr, WellFormed(pr), NEW s \in Seq(ToSet(pr.files))
    PROVE  Tokens(s) \in Nat
<1> DEFINE w == [k \in DOMAIN s |-> s[k].size]
<1>1. \A k \in DOMAIN s : s[k].size \in Nat
  <2>1. \A k \in DOMAIN s : s[k] \in ToSet(pr.files)
    OBVIOUS
  <2> QED
    BY <2>1 DEF WellFormed
<1>2. w \in Seq(Nat)
  <2>1. DOMAIN s = 1..Len(s) /\ Len(s) \in Nat
    OBVIOUS
  <2> QED
    BY <1>1, <2>1
<1> HIDE DEF w
<1>3. Total(w) \in Nat
  BY <1>2, TotalIs
<1> QED
  BY <1>3 DEF Tokens, w

LEMMA ListTokensAre ==
    ASSUME NEW pr, WellFormed(pr), dict \in Seq(ToSet(pr.files)), NEW fs
    PROVE  ListTokens(fs) \in Nat
<1> DEFINE w == [n \in DOMAIN dict |-> IF dict[n] \in fs THEN dict[n].header ELSE 0]
<1>1. \A n \in DOMAIN dict : dict[n].header \in Nat
  <2>1. \A n \in DOMAIN dict : dict[n] \in ToSet(pr.files)
    OBVIOUS
  <2>2. \A n \in DOMAIN dict : dict[n].header \in 0..(Soft - Hard)
    BY <2>1 DEF WellFormed
  <2> QED
    BY <2>2, ThresholdsAssumption
<1>2. w \in Seq(Nat)
  <2>1. DOMAIN dict = 1..Len(dict) /\ Len(dict) \in Nat
    OBVIOUS
  <2> QED
    BY <1>1, <2>1
<1> HIDE DEF w
<1>3. Total(w) \in Nat
  BY <1>2, TotalIs
<1> QED
  BY <1>3 DEF ListTokens, w

-----------------------------------------------------------------------------
(* The prompts so far, place by place.                                     *)

Prompt(S) == [files : Seq(S), total : Nat]
Spots(ps) == {p \in Nat \X Nat : p[1] \in DOMAIN ps /\ p[2] \in DOMAIN ps[p[1]].files}
FileAt(ps, p) == ps[p[1]].files[p[2]]
NamesShown(ps) == {FileAt(ps, p).name : p \in Spots(ps)}

\* The second list of prompts shows what the first does, or one file more.
ShowsTheSame(ps, qs) ==
    Spots(qs) = Spots(ps) /\ \A p \in Spots(ps) : FileAt(qs, p) = FileAt(ps, p)
ShowsAlso(ps, qs, f) ==
    \E q : /\ q \notin Spots(ps) /\ Spots(qs) = Spots(ps) \cup {q} /\ FileAt(qs, q) = f
           /\ \A p \in Spots(ps) : FileAt(qs, p) = FileAt(ps, p)

LEMMA PlaceIs ==
    ASSUME NEW S, NEW ps \in Seq(Prompt(S)), NEW p
    PROVE  p \in Spots(ps) <=>
              /\ p \in Nat \X Nat /\ p[1] \in 1..Len(ps)
              /\ p[2] \in 1..Len(ps[p[1]].files)
<1>1. \A k \in 1..Len(ps) : ps[k].files \in Seq(S)
  <2> TAKE k \in 1..Len(ps)
  <2>1. ps[k] \in Prompt(S)
    OBVIOUS
  <2> QED
    BY <2>1 DEF Prompt
<1>2. \A k \in 1..Len(ps) : /\ DOMAIN ps[k].files = 1..Len(ps[k].files)
                            /\ Len(ps[k].files) \in Nat
  BY <1>1
<1>3. DOMAIN ps = 1..Len(ps)
  OBVIOUS
<1>4. p \in Spots(ps) <=> /\ p \in Nat \X Nat
                            /\ p[1] \in DOMAIN ps /\ p[2] \in DOMAIN ps[p[1]].files
  BY DEF Spots
<1> QED
  BY <1>2, <1>3, <1>4

LEMMA Prompted ==
    ASSUME NEW S, NEW ps \in Seq(Prompt(S)), NEW c \in Seq(S), NEW t \in Nat
    PROVE  LET qs == Append(ps, [files |-> c, total |-> t])
           IN  /\ qs \in Seq(Prompt(S)) /\ Len(qs) = Len(ps) + 1 /\ Len(ps) \in Nat
               /\ \A k \in 1..Len(ps) : qs[k] = ps[k]
               /\ qs[Len(ps) + 1] = [files |-> c, total |-> t]
<1>1. [files |-> c, total |-> t] \in Prompt(S)
  BY DEF Prompt
<1> HIDE DEF Prompt
<1> QED
  BY <1>1

\* A prompt without files adds nothing.
LEMMA Closing ==
    ASSUME NEW S, NEW ps \in Seq(Prompt(S)), NEW t \in Nat
    PROVE  ShowsTheSame(ps, Append(ps, [files |-> <<>>, total |-> t]))
<1> DEFINE none == <<>>
           qs == Append(ps, [files |-> none, total |-> t])
<1>0. none \in Seq(S)
  OBVIOUS
<1> HIDE DEF none
<1>1. /\ qs \in Seq(Prompt(S)) /\ Len(qs) = Len(ps) + 1 /\ Len(ps) \in Nat
      /\ \A k \in 1..Len(ps) : qs[k] = ps[k]
      /\ qs[Len(ps) + 1] = [files |-> none, total |-> t]
  BY <1>0, Prompted
<1> HIDE DEF qs
<1>2. Len(qs[Len(ps) + 1].files) = 0
  BY <1>1 DEF none
<1>3. \A p : p \in Spots(qs) <=> p \in Spots(ps)
  <2> TAKE p
  <2>1. p \in Spots(qs) <=> /\ p \in Nat \X Nat /\ p[1] \in 1..Len(qs)
                             /\ p[2] \in 1..Len(qs[p[1]].files)
    BY <1>1, PlaceIs
  <2>2. p \in Spots(ps) <=> /\ p \in Nat \X Nat /\ p[1] \in 1..Len(ps)
                             /\ p[2] \in 1..Len(ps[p[1]].files)
    BY PlaceIs
  <2>3. p[1] \in 1..Len(qs) <=> p[1] \in 1..Len(ps) \/ p[1] = Len(ps) + 1
    BY <1>1
  <2>4. p[1] = Len(ps) + 1 => p[2] \notin 1..Len(qs[p[1]].files)
    BY <1>2
  <2>5. p[1] \in 1..Len(ps) => qs[p[1]] = ps[p[1]]
    BY <1>1
  <2> QED
    BY <2>1, <2>2, <2>3, <2>4, <2>5
<1>4. \A p \in Spots(ps) : FileAt(qs, p) = FileAt(ps, p)
  BY <1>1, PlaceIs DEF FileAt
<1> QED
  BY <1>3, <1>4 DEF ShowsTheSame, qs, none

LEMMA Growing ==
    ASSUME NEW S, NEW ps \in Seq(Prompt(S)), NEW c \in Seq(S), NEW f \in S,
           NEW t \in Nat, NEW u \in Nat
    PROVE  ShowsAlso(Append(ps, [files |-> c, total |-> t]),
                     Append(ps, [files |-> Append(c, f), total |-> u]), f)
<1> DEFINE qs == Append(ps, [files |-> c, total |-> t])
           d == Append(c, f)
           rs == Append(ps, [files |-> d, total |-> u])
           q == <<Len(ps) + 1, Len(c) + 1>>
<1>1. d \in Seq(S) /\ Len(d) = Len(c) + 1 /\ Len(c) \in Nat /\ d[Len(c) + 1] = f
      /\ \A i \in 1..Len(c) : d[i] = c[i]
  OBVIOUS
<1> HIDE DEF d
<1>2. /\ qs \in Seq(Prompt(S)) /\ Len(qs) = Len(ps) + 1 /\ Len(ps) \in Nat
      /\ \A k \in 1..Len(ps) : qs[k] = ps[k]
      /\ qs[Len(ps) + 1] = [files |-> c, total |-> t]
  BY Prompted
<1>3. /\ rs \in Seq(Prompt(S)) /\ Len(rs) = Len(ps) + 1
      /\ \A k \in 1..Len(ps) : rs[k] = ps[k]
      /\ rs[Len(ps) + 1] = [files |-> d, total |-> u]
  BY <1>1, Prompted
<1> HIDE DEF qs, rs
<1>4. qs[Len(ps) + 1].files = c /\ rs[Len(ps) + 1].files = d
  BY <1>2, <1>3
<1>5. \A p : p[1] \in 1..Len(qs) <=> p[1] \in 1..Len(ps) \/ p[1] = Len(ps) + 1
  BY <1>2
<1>6. ASSUME NEW p PROVE p \in Spots(rs) <=> p \in Spots(qs) \/ p = q
  <2>1. p \in Spots(qs) <=> /\ p \in Nat \X Nat /\ p[1] \in 1..Len(qs)
                             /\ p[2] \in 1..Len(qs[p[1]].files)
    BY <1>2, PlaceIs
  <2>2. p \in Spots(rs) <=> /\ p \in Nat \X Nat /\ p[1] \in 1..Len(qs)
                             /\ p[2] \in 1..Len(rs[p[1]].files)
    BY <1>2, <1>3, PlaceIs
  <2>3. p = q <=> p \in Nat \X Nat /\ p[1] = Len(ps) + 1 /\ p[2] = Len(c) + 1
    BY <1>1, <1>2
  <2> HIDE DEF q
  <2>4. CASE p[1] = Len(ps) + 1
    <3>1. p[2] \in 1..Len(d) <=> p[2] \in 1..Len(c) \/ p[2] = Len(c) + 1
      BY <1>1
    <3> QED
      BY <1>4, <1>5, <2>1, <2>2, <2>3, <2>4, <3>1
  <2>5. CASE p[1] \in 1..Len(ps)
    <3>1. qs[p[1]] = rs[p[1]] /\ p[1] # Len(ps) + 1
      BY <1>2, <1>3, <2>5
    <3> QED
      BY <2>1, <2>2, <2>3, <3>1
  <2> QED
    BY <1>5, <2>1, <2>2, <2>3, <2>4, <2>5
<1>7. q \notin Spots(qs)
  <2>1. q[1] = Len(ps) + 1 /\ q[2] = Len(c) + 1
    OBVIOUS
  <2>2. q[2] \notin 1..Len(qs[q[1]].files)
    BY <1>1, <1>4, <2>1
  <2> QED
    BY <1>2, <2>2, PlaceIs
<1>8. FileAt(rs, q) = f
  BY <1>1, <1>4 DEF FileAt
<1>9. ASSUME NEW p \in Spots(qs) PROVE FileAt(rs, p) = FileAt(qs, p)
  <2>1. p[1] \in 1..Len(qs) /\ p[2] \in 1..Len(qs[p[1]].files)
    BY <1>2, PlaceIs
  <2>2. CASE p[1] = Len(ps) + 1
    <3>1. p[2] \in 1..Len(c) /\ FileAt(qs, p) = c[p[2]] /\ FileAt(rs, p) = d[p[2]]
      BY <1>4, <2>1, <2>2 DEF FileAt
    <3> QED
      BY <1>1, <3>1
  <2>3. CASE p[1] \in 1..Len(ps)
    BY <1>2, <1>3, <2>3 DEF FileAt
  <2> QED
    BY <1>5, <2>1, <2>2, <2>3
<1>10. Spots(rs) = Spots(qs) \cup {q}
  BY <1>6
<1> HIDE DEF q
<1>11. ShowsAlso(qs, rs, f)
  BY <1>7, <1>8, <1>9, <1>10 DEF ShowsAlso
<1> QED
  BY <1>11 DEF qs, rs, d

LEMMA NamesThen ==
    ASSUME NEW ps, NEW qs, NEW f
    PROVE  /\ ShowsTheSame(ps, qs) => NamesShown(qs) = NamesShown(ps)
           /\ ShowsAlso(ps, qs, f) => NamesShown(qs) = NamesShown(ps) \cup {f.name}
<1>1. ASSUME ShowsTheSame(ps, qs) PROVE NamesShown(qs) = NamesShown(ps)
  BY <1>1 DEF ShowsTheSame, NamesShown
<1>2. ASSUME ShowsAlso(ps, qs, f) PROVE NamesShown(qs) = NamesShown(ps) \cup {f.name}
  <2>1. PICK q : /\ Spots(qs) = Spots(ps) \cup {q} /\ FileAt(qs, q) = f
                 /\ \A p \in Spots(ps) : FileAt(qs, p) = FileAt(ps, p)
    BY <1>2 DEF ShowsAlso
  <2>2. \A x : x \in NamesShown(qs) <=> \E p \in Spots(qs) : x = FileAt(qs, p).name
    BY DEF NamesShown
  <2>3. \A x : x \in NamesShown(ps) <=> \E p \in Spots(ps) : x = FileAt(ps, p).name
    BY DEF NamesShown
  <2> QED
    BY <2>1, <2>2, <2>3
<1> QED
  BY <1>1, <1>2

\* The places of a file.
Hits(f, ps) == {p \in Spots(ps) : FileAt(ps, p) = f}

LEMMA PlacesAre ==
    ASSUME NEW S, NEW ps \in Seq(Prompt(S)), NEW f
    PROVE  PlacesOf(f, ps) = Hits(f, ps)
<1>1. \A k \in DOMAIN ps : DOMAIN ps[k].files \subseteq Nat
  <2> TAKE k \in DOMAIN ps
  <2>1. ps[k] \in Prompt(S)
    OBVIOUS
  <2>2. ps[k].files \in Seq(S)
    BY <2>1 DEF Prompt
  <2> QED
    BY <2>2
<1>2. DOMAIN ps \subseteq Nat
  OBVIOUS
<1> DEFINE At(k) == {j \in DOMAIN ps[k].files : ps[k].files[j] = f}
<1>3. \A p : p \in PlacesOf(f, ps) <=> \E k \in DOMAIN ps : p \in {k} \X At(k)
  BY DEF PlacesOf
<1>4. \A p : p \in Hits(f, ps) <=>
               /\ p \in Nat \X Nat /\ p[1] \in DOMAIN ps
               /\ p[2] \in DOMAIN ps[p[1]].files /\ ps[p[1]].files[p[2]] = f
  BY DEF Hits, Spots, FileAt
<1>5. \A k \in DOMAIN ps : \A p : p \in {k} \X At(k) <=>
               /\ p \in Nat \X Nat /\ p[1] = k
               /\ p[2] \in DOMAIN ps[k].files /\ ps[k].files[p[2]] = f
  <2> TAKE k \in DOMAIN ps
  <2> TAKE p
  <2> DEFINE A == At(k)
  <2>1. A \subseteq Nat /\ k \in Nat
    BY <1>1, <1>2
  <2>2. \A j : j \in A <=> j \in DOMAIN ps[k].files /\ ps[k].files[j] = f
    OBVIOUS
  <2> HIDE DEF A
  <2>3. p \in {k} \X A <=> p \in Nat \X Nat /\ p[1] = k /\ p[2] \in A
    BY <2>1
  <2> QED
    BY <2>2, <2>3 DEF A
<1> HIDE DEF At
<1>6. \A p : p \in PlacesOf(f, ps) <=> p \in Hits(f, ps)
  BY <1>3, <1>4, <1>5
<1> QED
  BY <1>6

LEMMA HitsThen ==
    ASSUME NEW ps, NEW qs, NEW g, NEW f, IsFiniteSet(Hits(f, ps))
    PROVE  /\ Cardinality(Hits(f, ps)) \in Nat
           /\ ShowsTheSame(ps, qs) => Hits(f, qs) = Hits(f, ps)
           /\ ShowsAlso(ps, qs, g) =>
                 /\ IsFiniteSet(Hits(f, qs)) /\ Cardinality(Hits(f, qs)) \in Nat
                 /\ g # f => Hits(f, qs) = Hits(f, ps)
                 /\ Cardinality(Hits(f, qs)) <= Cardinality(Hits(f, ps)) + 1
<1>1. Cardinality(Hits(f, ps)) \in Nat
  BY FS_CardinalityType
<1>2. ASSUME ShowsTheSame(ps, qs) PROVE Hits(f, qs) = Hits(f, ps)
  BY <1>2 DEF ShowsTheSame, Hits
<1>3. ASSUME ShowsAlso(ps, qs, g)
      PROVE  /\ IsFiniteSet(Hits(f, qs)) /\ Cardinality(Hits(f, qs)) \in Nat
             /\ g # f => Hits(f, qs) = Hits(f, ps)
             /\ Cardinality(Hits(f, qs)) <= Cardinality(Hits(f, ps)) + 1
  <2>1. PICK q : /\ q \notin Spots(ps)
                 /\ Spots(qs) = Spots(ps) \cup {q} /\ FileAt(qs, q) = g
                 /\ \A p \in Spots(ps) : FileAt(qs, p) = FileAt(ps, p)
    BY <1>3 DEF ShowsAlso
  <2>2. CASE g = f
    <3>1. Hits(f, qs) = Hits(f, ps) \cup {q}
      BY <2>1, <2>2 DEF Hits
    <3>2. q \notin Hits(f, ps)
      BY <2>1 DEF Hits
    <3>3. /\ IsFiniteSet(Hits(f, ps) \cup {q})
          /\ Cardinality(Hits(f, ps) \cup {q}) = Cardinality(Hits(f, ps)) + 1
      BY <3>2, FS_AddElement
    <3> QED
      BY <1>1, <2>2, <3>1, <3>3
  <2>3. CASE g # f
    <3>1. Hits(f, qs) = Hits(f, ps)
      BY <2>1, <2>3 DEF Hits
    <3> QED
      BY <1>1, <3>1
  <2> QED
    BY <2>2, <2>3
<1> QED
  BY <1>1, <1>2, <1>3

\* Occurrences among the first n of a sequence.
Upto(s, n, f) == {m \in 1..n : s[m] = f}

LEMMA UptoIs ==
    ASSUME NEW s, NEW n \in Nat, NEW f
    PROVE  /\ IsFiniteSet(Upto(s, n, f)) /\ Cardinality(Upto(s, n, f)) \in Nat
           /\ s[n + 1] = f => Cardinality(Upto(s, n + 1, f)) = Cardinality(Upto(s, n, f)) + 1
           /\ s[n + 1] # f => Upto(s, n + 1, f) = Upto(s, n, f)
<1>1. IsFiniteSet(Upto(s, n, f))
  <2>1. IsFiniteSet(1..n)
    BY FirstNumbers
  <2>2. Upto(s, n, f) \subseteq 1..n
    BY DEF Upto
  <2> QED
    BY <2>1, <2>2, FS_Subset
<1>2. Cardinality(Upto(s, n, f)) \in Nat
  BY <1>1, FS_CardinalityType
<1>3. ASSUME s[n + 1] = f
      PROVE  Cardinality(Upto(s, n + 1, f)) = Cardinality(Upto(s, n, f)) + 1
  <2>1. Upto(s, n + 1, f) = Upto(s, n, f) \cup {n + 1} /\ n + 1 \notin Upto(s, n, f)
    BY <1>3 DEF Upto
  <2> QED
    BY <1>1, <2>1, FS_AddElement
<1>4. ASSUME s[n + 1] # f PROVE Upto(s, n + 1, f) = Upto(s, n, f)
  BY <1>4 DEF Upto
<1> QED
  BY <1>1, <1>2, <1>3, <1>4

\* The files looked at again are those of the dictionary whose names are left.
LEMMA RemainingIs ==
    ASSUME NEW S, dict \in Seq(S), Once(dict)
    PROVE  /\ Remaining \in Seq(S) /\ Once(Remaining)
           /\ Names(Remaining) = Names(dict) \cap left
<1> DEFINE places == {n \in DOMAIN dict : dict[n].name \in left}
           R == {p \in places \X places : p[1] < p[2]}
           order == Enumerate(places, R)
           r == [n \in DOMAIN order |-> dict[order[n]]]
           size == Cardinality(places)
<1>1. r = Remaining
  BY DEF Remaining
<1>2. DOMAIN dict = 1..Len(dict) /\ Len(dict) \in Nat /\ \A n \in DOMAIN dict : dict[n] \in S
  OBVIOUS
<1>3. places \subseteq DOMAIN dict /\ places \subseteq Nat
  BY <1>2
<1>4. IsFiniteSet(places)
  <2>1. IsFiniteSet(1..Len(dict))
    BY <1>2, FirstNumbers
  <2> QED
    BY <1>2, <1>3, <2>1, FS_Subset
<1>5. TotalOrder(places, R)
  <2> HIDE DEF places
  <2>1. \A d, e \in places : <<d, e>> \in R <=> d < e
    OBVIOUS
  <2> HIDE DEF R
  <2> QED
    BY <1>3, <2>1 DEF TotalOrder
<1>6. /\ size \in Nat /\ order \in [1..size -> places]
      /\ \A m, n \in 1..size : order[m] = order[n] => m = n
      /\ \A e \in places : \E n \in 1..size : order[n] = e
  <2> HIDE DEF places, R
  <2> QED
    BY <1>4, <1>5, EnumerateIs
<1> HIDE DEF order, size
<1>7. r \in [1..size -> S]
  <2>1. \A n \in 1..size : order[n] \in places
    BY <1>6
  <2>2. \A n \in 1..size : dict[order[n]] \in S
    BY <1>2, <1>3, <2>1
  <2> QED
    BY <1>6, <2>2
<1>8. \A n \in 1..size : r[n] = dict[order[n]] /\ order[n] \in places
  BY <1>6
<1> HIDE DEF r
<1>9. r \in Seq(S) /\ DOMAIN r = 1..size
  BY <1>6, <1>7
<1>10. Once(r)
  <2> SUFFICES ASSUME NEW i \in 1..size, NEW j \in 1..size, r[i].name = r[j].name PROVE i = j
    BY <1>9 DEF Once
  <2>1. order[i] \in DOMAIN dict /\ order[j] \in DOMAIN dict
    BY <1>3, <1>8
  <2>2. order[i] = order[j]
    BY <1>8, <2>1 DEF Once
  <2> QED
    BY <1>6, <2>2
<1>11. ASSUME NEW x PROVE x \in Names(r) <=> x \in Names(dict) /\ x \in left
  <2>1. x \in Names(r) <=> \E n \in 1..size : x = r[n].name
    BY <1>9 DEF Names
  <2>2. x \in Names(dict) /\ x \in left <=> \E e \in places : x = dict[e].name
    BY DEF Names
  <2> HIDE DEF places
  <2>3. (\E n \in 1..size : x = r[n].name) => \E e \in places : x = dict[e].name
    BY <1>8
  <2>4. (\E e \in places : x = dict[e].name) => \E n \in 1..size : x = r[n].name
    BY <1>6, <1>8
  <2> QED
    BY <2>1, <2>2, <2>3, <2>4
<1> QED
  BY <1>1, <1>9, <1>10, <1>11

-----------------------------------------------------------------------------
(* The invariant of a diff being cut.                                      *)

FilesOf == ToSet(request.files)
SoFar == Append(chunks, Chunk)
Unfit(f) == base + f.core > limit - Soft

DiffTyped ==
    /\ request \in PullRequests \cup {NoRequest}
    /\ stage \in {"idle", "try", "extend", "fill", "multi", "ready", "sending", "answered"}
    /\ limit \in Nat /\ base \in Nat /\ total \in Nat /\ pass \in Nat \ {0}
    /\ dict \in Seq(FilesOf) /\ todo \in Seq(FilesOf) /\ chunk \in Seq(FilesOf)
    /\ chunks \in Seq(Prompt(FilesOf))
    /\ left \cap dropped = {}

AtStart ==
    stage = "extend" =>
        /\ base = request.prompt /\ total = base /\ pass = 1
        /\ dict = <<>> /\ todo = <<>> /\ chunk = <<>> /\ chunks = <<>>
        /\ left = {} /\ dropped = {}

\* Every name of the dictionary is in one place.
Divided ==
    /\ Once(dict) /\ Once(todo)
    /\ \A p, q \in Spots(SoFar) : FileAt(SoFar, p).name = FileAt(SoFar, q).name => p = q
    /\ NamesShown(SoFar) \cap (Names(todo) \cup left \cup dropped) = {}
    /\ Names(todo) \cap (left \cup dropped) = {}
    /\ Names(dict) = Names(todo) \cup left \cup dropped \cup NamesShown(SoFar)

FillSizes ==
    /\ base \in {request.prompt, request.filesPrompt}
    /\ base # request.prompt => base <= limit - Hard
    /\ dropped # {} => base > limit - Hard
    /\ base <= total
    /\ chunk = <<>> => total = base
    /\ chunk # <<>> => total <= limit - Hard
    /\ left # {} \/ pass > 1 => base <= limit - Hard
    /\ \A k \in DOMAIN chunks :
          /\ chunks[k].files = <<>> => k = 1 /\ chunks[k].total = base
          /\ chunks[k].files # <<>> => chunks[k].total <= limit - Hard

\* Only the first pass may fill nothing, or the last; then all that remains is
\* too large for any.
FillPasses ==
    /\ Len(chunks) <= pass - 1
    /\ pass > 1 => request.mode = "large" /\ Len(chunks) >= 1 /\ pass <= request.calls - 1
    /\ chunk = <<>> => \A f \in FilesOf : f.name \in left => Unfit(f)
    /\ Len(chunks) < pass - 1 => \A f \in FilesOf : f.name \in left \cup Names(todo) => Unfit(f)

FillGood ==
    stage = "fill" =>
        /\ request.mode # "multi" /\ dict = Compressed(request)
        /\ Divided /\ FillSizes /\ FillPasses

\* A file met is in a prompt or too large for any; how often it is in the
\* prompts: at most as often as it was met.
MultiMet ==
    /\ Len(todo) <= Len(dict)
    /\ \A i \in 1..Len(todo) : todo[i] = dict[Len(dict) - Len(todo) + i]
    /\ \A i \in 1..(Len(dict) - Len(todo)) :
          dict[i].name \in NamesShown(SoFar) \/ Outsized(dict[i])
    /\ \A f \in FilesOf :
          /\ IsFiniteSet(Hits(f, SoFar))
          /\ Cardinality(Hits(f, SoFar)) <= Cardinality(Upto(dict, Len(dict) - Len(todo), f))

NoRoomLeft ==
    todo # <<>> /\ chunks # <<>> /\ chunks[Len(chunks)].total + Patch > limit - Soft

MultiSizes ==
    /\ chunk = <<>> => total = base
    /\ chunk # <<>> => total <= limit - Soft /\ pass <= request.calls
    /\ \A k \in DOMAIN chunks : chunks[k].files # <<>> /\ chunks[k].total <= limit - Soft
    /\ Len(chunks) = pass - 1 /\ pass <= request.calls + 1
    /\ pass > request.calls => NoRoomLeft

MultiGood ==
    stage = "multi" =>
        /\ request.mode = "multi" /\ dict = Sorted(request) /\ dropped = {}
        /\ MultiMet /\ MultiSizes

Fits ==
    stage \in {"ready", "sending", "answered"} =>
        \A k \in Parts : chunks[k].total <= limit - Hard + 2

Ready == NoFileForgotten /\ ShownOnce /\ LeftOutForLackOfCalls /\ CallsBounded

DiffInvariant == DiffTyped /\ AtStart /\ FillGood /\ MultiGood /\ Fits /\ Ready

-----------------------------------------------------------------------------

LEMMA RequestIs ==
    ASSUME request \in PullRequests
    PROVE  WellFormed(request)
  BY RequestsAssumption DEF WellFormed

\* A step that leaves the diff alone, while it is cut, after that, or between
\* two diffs.
LEMMA Quiet ==
    ASSUME DiffInvariant,
           UNCHANGED <<request, limit, base, dict, todo, total, chunk, chunks, pass, left,
                       dropped>>,
           \/ stage' \in {"idle", "try"}
           \/ stage' = stage
           \/ stage \in {"ready", "sending"} /\ stage' \in {"sending", "answered"}
    PROVE  DiffInvariant'
<1>1. DiffTyped'
  BY DEF DiffInvariant, DiffTyped, FilesOf
<1>2. AtStart'
  BY DEF DiffInvariant, AtStart
<1>3. FillGood'
  <2>1. CASE stage' = "fill"
    <3>1. stage = "fill"
      BY <2>1
    <3>2. Divided' = Divided /\ FillSizes' = FillSizes /\ FillPasses' = FillPasses
      BY DEF Divided, FillSizes, FillPasses, SoFar, Chunk, FilesOf, Unfit
    <3> QED
      BY <3>1, <3>2 DEF DiffInvariant, FillGood
  <2> QED
    BY <2>1 DEF FillGood
<1>4. MultiGood'
  <2>1. CASE stage' = "multi"
    <3>1. stage = "multi"
      BY <2>1
    <3>2. MultiMet' = MultiMet /\ MultiSizes' = MultiSizes
      BY DEF MultiMet, MultiSizes, NoRoomLeft, Patch, Next1, Outsized, SoFar, Chunk, FilesOf
    <3> QED
      BY <3>1, <3>2 DEF DiffInvariant, MultiGood
  <2> QED
    BY <2>1 DEF MultiGood
<1>5. Fits'
  <2>1. Parts' = Parts
    BY DEF Parts, InParts
  <2>2. stage' \in {"ready", "sending", "answered"} => stage \in {"ready", "sending", "answered"}
    OBVIOUS
  <2> QED
    BY <2>1, <2>2 DEF DiffInvariant, Fits
<1>6. Ready'
  <2>1. stage' = "ready" => stage = "ready"
    OBVIOUS
  <2>2. Candidates' = Candidates
    BY DEF Candidates
  <2>3. NoFileForgotten'
    <3>1. \A x : InChunks(x)' = InChunks(x)
      BY DEF InChunks
    <3> QED
      BY <2>1, <2>2, <3>1 DEF DiffInvariant, Ready, NoFileForgotten, InChunks, Outsized
  <2>4. ShownOnce'
    BY <2>1, <2>2 DEF DiffInvariant, Ready, ShownOnce
  <2>5. LeftOutForLackOfCalls'
    BY <2>1, <2>2 DEF DiffInvariant, Ready, LeftOutForLackOfCalls
  <2>6. CallsBounded'
    BY <2>1 DEF DiffInvariant, Ready, CallsBounded
  <2> QED
    BY <2>3, <2>4, <2>5, <2>6 DEF Ready
<1> QED
  BY <1>1, <1>2, <1>3, <1>4, <1>5, <1>6 DEF DiffInvariant

\* A diff begun again.
LEMMA Started ==
    ASSUME DiffInvariant, request \in PullRequests, NEW n \in Nat, StartDiff(n),
           UNCHANGED request
    PROVE  DiffInvariant'
<1> USE DEF StartDiff
<1>1. request.prompt \in Nat
  BY RequestIs DEF WellFormed
<1>2. DiffTyped'
  <2>1. <<>> \in Seq(FilesOf) /\ <<>> \in Seq(Prompt(FilesOf))
    OBVIOUS
  <2> QED
    BY <1>1, <2>1 DEF DiffInvariant, DiffTyped, FilesOf
<1>3. AtStart' /\ FillGood' /\ MultiGood' /\ Fits'
  BY DEF AtStart, FillGood, MultiGood, Fits
<1>4. Ready'
  BY DEF Ready, NoFileForgotten, ShownOnce, LeftOutForLackOfCalls, CallsBounded
<1> QED
  BY <1>2, <1>3, <1>4 DEF DiffInvariant

\* What every step of the loop leaves to show.
LEMMA NotYet ==
    ASSUME stage' \notin {"ready", "sending", "answered"}
    PROVE  Fits' /\ Ready'
  BY DEF Fits, Ready, NoFileForgotten, ShownOnce, LeftOutForLackOfCalls, CallsBounded

\* One prompt: a file is in it as often as among its files.
LEMMA OnePrompt ==
    ASSUME NEW S, NEW s \in Seq(S), NEW t \in Nat
    PROVE  LET ps == <<[files |-> s, total |-> t]>>
           IN  /\ ps \in Seq(Prompt(S)) /\ Len(ps) = 1 /\ DOMAIN ps = {1}
               /\ ps[1].files = s /\ ps[1].total = t
               /\ \A f : IsFiniteSet(Occurs(s, f)) =>
                     /\ Cardinality(PlacesOf(f, ps)) \in Nat
                     /\ Cardinality(PlacesOf(f, ps)) <= Cardinality(Occurs(s, f))
<1> DEFINE ps == <<[files |-> s, total |-> t]>>
<1>1. /\ ps \in Seq(Prompt(S)) /\ Len(ps) = 1 /\ DOMAIN ps = {1}
      /\ ps[1].files = s /\ ps[1].total = t
  <2>1. [files |-> s, total |-> t] \in Prompt(S)
    BY DEF Prompt
  <2> HIDE DEF Prompt
  <2> QED
    BY <2>1
<1> HIDE DEF ps
<1>2. ASSUME NEW f, IsFiniteSet(Occurs(s, f))
      PROVE  /\ Cardinality(PlacesOf(f, ps)) \in Nat
             /\ Cardinality(PlacesOf(f, ps)) <= Cardinality(Occurs(s, f))
  <2> DEFINE H == Hits(f, ps)
             w == [p \in H |-> p[2]]
  <2>1. \A p \in H : p \in Nat \X Nat /\ p[1] = 1 /\ p[2] \in Occurs(s, f)
    <3> TAKE p \in H
    <3>1. p \in Spots(ps) /\ FileAt(ps, p) = f
      BY DEF Hits
    <3>2. p \in Nat \X Nat /\ p[1] \in 1..Len(ps) /\ p[2] \in 1..Len(ps[p[1]].files)
      BY <1>1, <3>1, PlaceIs
    <3>3. p[1] = 1
      BY <1>1, <3>2
    <3> QED
      BY <1>1, <3>1, <3>2, <3>3 DEF FileAt, Occurs
  <2>2. \A p, q \in H : p[2] = q[2] => p = q
    BY <2>1
  <2>3. w \in Injection(H, Occurs(s, f))
    <3>1. w \in [H -> Occurs(s, f)]
      BY <2>1
    <3>2. \A p, q \in H : w[p] = w[q] => p = q
      BY <2>2
    <3> HIDE DEF w
    <3> QED
      BY <3>1, <3>2 DEF Injection, IsInjective
  <2> HIDE DEF w, H
  <2>4. IsFiniteSet(H) /\ Cardinality(H) <= Cardinality(Occurs(s, f))
    BY <1>2, <2>3, FS_Injection
  <2>6. Cardinality(H) \in Nat
    BY <2>4, FS_CardinalityType
  <2>5. PlacesOf(f, ps) = H
    BY <1>1, PlacesAre DEF H
  <2> QED
    BY <2>4, <2>5, <2>6
<1> QED
  BY <1>1, <1>2 DEF ps

LEMMA NoPrompt0 ==
    ASSUME NEW f
    PROVE  Cardinality(PlacesOf(f, <<>>)) = 0
<1>1. PlacesOf(f, <<>>) = {}
  BY DEF PlacesOf
<1> QED
  BY <1>1, FS_EmptySet

LEMMA FullDiffStep ==
    ASSUME DiffInvariant, request \in PullRequests, FullDiff, UNCHANGED request
    PROVE  DiffInvariant'
<1> DEFINE s == Extended(request)
<1>1. WellFormed(request)
  BY RequestIs
<1>2. /\ s \in Seq(FilesOf) /\ Len(s) \in Nat
      /\ \A f \in FilesOf :
            /\ IsFiniteSet(Occurs(s, f))
            /\ Cardinality(Occurs(s, f)) <= Cardinality(Languages(request, f))
            /\ f.size > 0 => f.name \in Names(s)
  BY <1>1, ExtendedIs DEF FilesOf
<1>3. /\ stage = "extend" /\ stage' = "ready" /\ Full + Soft < limit
      /\ UNCHANGED <<request, limit, base, dict, todo, total, chunk, pass, left, dropped>>
      /\ chunks' = IF s = <<>> THEN <<>> ELSE <<[files |-> s, total |-> Full]>>
  BY DEF FullDiff
<1>4. /\ base = request.prompt /\ dict = <<>> /\ left = {} /\ dropped = {} /\ pass = 1
  BY <1>3 DEF DiffInvariant, AtStart
<1>5. Full \in Nat /\ limit \in Nat /\ Soft \in Nat /\ Hard \in Nat /\ Hard <= Soft
  <2>1. Tokens(s) \in Nat
    BY <1>1, <1>2, TokensAre DEF FilesOf
  <2> QED
    BY <1>1, <2>1, ThresholdsAssumption DEF DiffInvariant, DiffTyped, Full
<1>6. /\ chunks' \in Seq(Prompt(FilesOf)) /\ Len(chunks') <= 1 /\ DOMAIN chunks' \subseteq {1}
      /\ \A k \in DOMAIN chunks' : chunks'[k].files = s /\ chunks'[k].total = Full
      /\ s # <<>> => 1 \in DOMAIN chunks'
      /\ \A f \in FilesOf : Cardinality(PlacesOf(f, chunks')) <= Cardinality(Languages(request, f))
  <2>1. CASE s = <<>>
    <3>1. chunks' = <<>>
      BY <1>3, <2>1
    <3>2. \A f \in FilesOf : 0 <= Cardinality(Languages(request, f))
      <4> TAKE f \in FilesOf
      <4>1. Cardinality(Languages(request, f)) \in Nat
        BY <1>1, LanguagesAre, FS_CardinalityType
      <4> QED
        BY <4>1
    <3>3. \A f \in FilesOf : Cardinality(PlacesOf(f, chunks')) = 0
      BY <3>1, NoPrompt0
    <3>4. chunks' \in Seq(Prompt(FilesOf)) /\ Len(chunks') = 0 /\ DOMAIN chunks' = {}
      BY <3>1
    <3> QED
      BY <2>1, <3>2, <3>3, <3>4
  <2>2. CASE s # <<>>
    <3> HIDE DEF s
    <3>1. chunks' = <<[files |-> s, total |-> Full]>>
      BY <1>3, <2>2
    <3>2. /\ chunks' \in Seq(Prompt(FilesOf)) /\ Len(chunks') = 1 /\ DOMAIN chunks' = {1}
          /\ chunks'[1].files = s /\ chunks'[1].total = Full
          /\ \A f : IsFiniteSet(Occurs(s, f)) =>
                /\ Cardinality(PlacesOf(f, chunks')) \in Nat
                /\ Cardinality(PlacesOf(f, chunks')) <= Cardinality(Occurs(s, f))
      BY <1>2, <1>5, <3>1, OnePrompt
    <3>3. ASSUME NEW f \in FilesOf
          PROVE  Cardinality(PlacesOf(f, chunks')) <= Cardinality(Languages(request, f))
      <4>1. PlacesOf(f, chunks') = Hits(f, chunks')
        BY <3>2, PlacesAre
      <4>2. Cardinality(Occurs(s, f)) \in Nat /\ Cardinality(Languages(request, f)) \in Nat
        BY <1>1, <1>2, LanguagesAre, FS_CardinalityType
      <4>3. /\ Cardinality(PlacesOf(f, chunks')) \in Nat
            /\ Cardinality(PlacesOf(f, chunks')) <= Cardinality(Occurs(s, f))
        BY <1>2, <3>2
      <4> QED
        BY <1>2, <4>2, <4>3
    <3> QED
      BY <2>2, <3>2, <3>3
  <2> QED
    BY <2>1, <2>2
<1> HIDE DEF s
<1>7. DiffTyped'
  BY <1>3, <1>6 DEF DiffInvariant, DiffTyped, FilesOf
<1>8. AtStart' /\ FillGood' /\ MultiGood'
  BY <1>3 DEF AtStart, FillGood, MultiGood
<1>9. Fits'
  <2>1. \A k \in DOMAIN chunks' : chunks'[k].total <= limit - Hard + 2
    BY <1>3, <1>5, <1>6
  <2>2. \A k \in Parts' : k \in DOMAIN chunks'
    BY DEF Parts
  <2> QED
    BY <1>3, <2>1, <2>2 DEF Fits
<1>10. NoFileForgotten'
  <2>1. ASSUME NEW f \in Candidates' PROVE InChunks(f.name)' # {}
    <3>1. f \in FilesOf /\ f.size > 0
      BY <1>3 DEF Candidates, FilesOf
    <3>2. f.name \in Names(s)
      BY <1>2, <3>1
    <3>3. s # <<>>
      BY <3>2 DEF Names
    <3>4. 1 \in DOMAIN chunks' /\ f.name \in Names(chunks'[1].files)
      BY <1>6, <3>2, <3>3
    <3> QED
      BY <3>4 DEF InChunks
  <2> QED
    BY <1>3, <1>4, <2>1 DEF NoFileForgotten
<1>11. ShownOnce'
  <2>1. Candidates' \subseteq FilesOf /\ dict' = <<>> /\ request' = request
    BY <1>3, <1>4 DEF Candidates, FilesOf
  <2> QED
    BY <1>6, <2>1 DEF ShownOnce
<1>12. LeftOutForLackOfCalls' /\ CallsBounded'
  <2>2. todo = <<>>
    BY <1>3 DEF DiffInvariant, AtStart
  <2>1. Len(chunks') <= request.calls /\ ~(Len(chunks') > 1) /\ Len(chunks') \in Nat
    BY <1>1, <1>6 DEF WellFormed
  <2> QED
    BY <1>3, <1>4, <1>6, <2>1, <2>2 DEF LeftOutForLackOfCalls, CallsBounded
<1> QED
  BY <1>7, <1>8, <1>9, <1>10, <1>11, <1>12 DEF DiffInvariant, Ready

LEMMA NothingShown ==
    ASSUME NEW t \in Nat
    PROVE  LET ps == Append(<<>>, [files |-> <<>>, total |-> t])
           IN  Spots(ps) = {} /\ NamesShown(ps) = {} /\ \A f : Hits(f, ps) = {}
<1> DEFINE zero == <<>>
           ps == Append(zero, [files |-> <<>>, total |-> t])
<1>1. zero \in Seq(Prompt({})) /\ DOMAIN zero = {}
  OBVIOUS
<1> HIDE DEF zero
<1>2. ShowsTheSame(zero, ps)
  BY <1>1, Closing
<1>3. Spots(zero) = {}
  BY <1>1 DEF Spots
<1> HIDE DEF ps
<1>4. Spots(ps) = {}
  BY <1>2, <1>3 DEF ShowsTheSame
<1>5. NamesShown(ps) = {} /\ \A f : Hits(f, ps) = {}
  BY <1>4 DEF NamesShown, Hits
<1> QED
  BY <1>4, <1>5 DEF ps, zero

LEMMA PruneStep ==
    ASSUME DiffInvariant, request \in PullRequests, Prune, UNCHANGED request
    PROVE  DiffInvariant'
<1>1. WellFormed(request)
  BY RequestIs
<1>2. /\ stage = "extend"
      /\ UNCHANGED <<request, limit, base, total, chunk, chunks, pass, left, dropped>>
      /\ todo' = dict'
      /\ IF request.mode = "multi" THEN stage' = "multi" /\ dict' = Sorted(request)
         ELSE stage' = "fill" /\ dict' = Compressed(request)
  BY DEF Prune
<1>3. /\ base \in Nat /\ base = request.prompt /\ total = base /\ pass = 1
      /\ chunk = <<>> /\ chunks = <<>> /\ left = {} /\ dropped = {}
      /\ FilesOf = ToSet(request.files) /\ FilesOf' = FilesOf
  BY <1>2 DEF DiffInvariant, DiffTyped, AtStart, FilesOf
<1>4. /\ dict' \in Seq(FilesOf) /\ Len(dict') \in Nat
      /\ stage' = "fill" => Once(dict')
  <2>1. /\ Sorted(request) \in Seq(FilesOf) /\ Compressed(request) \in Seq(FilesOf)
        /\ Once(Compressed(request))
    BY <1>1, <1>3, SortedIs, CompressedIs
  <2> QED
    BY <1>2, <2>1
<1>5. DiffTyped'
  BY <1>2, <1>3, <1>4 DEF DiffInvariant, DiffTyped
<1>6. AtStart'
  BY <1>2 DEF AtStart
<1>7. SoFar' = Append(<<>>, [files |-> <<>>, total |-> base])
  BY <1>2, <1>3 DEF SoFar, Chunk
<1>8. Spots(SoFar') = {} /\ NamesShown(SoFar') = {} /\ \A f : Hits(f, SoFar') = {}
  BY <1>3, <1>7, NothingShown
<1>9. FillGood'
  <2>1. CASE stage' = "fill"
    <3>1. request.mode # "multi" /\ dict' = Compressed(request')
      BY <1>2, <2>1
    <3>2. Divided'
      BY <1>2, <1>3, <1>4, <1>8, <2>1 DEF Divided
    <3>3. FillSizes'
      BY <1>2, <1>3 DEF FillSizes
    <3>4. FillPasses'
      BY <1>2, <1>3 DEF FillPasses
    <3> QED
      BY <1>2, <3>1, <3>2, <3>3, <3>4 DEF FillGood
  <2> QED
    BY <2>1 DEF FillGood
<1>10. MultiGood'
  <2>1. CASE stage' = "multi"
    <3>1. request.mode = "multi" /\ dict' = Sorted(request')
      BY <1>2, <2>1
    <3>2. MultiMet'
      <4>1. Len(todo') <= Len(dict') /\ Len(dict') - Len(todo') = 0
        BY <1>2, <1>4
      <4>2. \A i \in 1..Len(todo') : todo'[i] = dict'[Len(dict') - Len(todo') + i]
        BY <1>2, <1>4
      <4>3. ASSUME NEW f
            PROVE  /\ IsFiniteSet(Hits(f, SoFar'))
                   /\ Cardinality(Hits(f, SoFar')) <= Cardinality(Upto(dict', 0, f))
        <5>1. IsFiniteSet(Hits(f, SoFar')) /\ Cardinality(Hits(f, SoFar')) = 0
          BY <1>8, FS_EmptySet
        <5>2. Cardinality(Upto(dict', 0, f)) \in Nat
          BY UptoIs
        <5> QED
          BY <5>1, <5>2
      <4> QED
        BY <4>1, <4>2, <4>3 DEF MultiMet
    <3>3. MultiSizes'
      <4>1. request.calls \in Nat \ {0}
        BY <1>1 DEF WellFormed
      <4> QED
        BY <1>2, <1>3, <4>1 DEF MultiSizes
    <3> QED
      BY <1>2, <1>3, <3>1, <3>2, <3>3 DEF MultiGood
  <2> QED
    BY <2>1 DEF MultiGood
<1>11. stage' \notin {"ready", "sending", "answered"}
  BY <1>2
<1> QED
  BY <1>5, <1>6, <1>9, <1>10, <1>11, NotYet DEF DiffInvariant

-----------------------------------------------------------------------------
(* generate_full_patch.                                                    *)

LEMMA HeadIs ==
    ASSUME NEW S, NEW s \in Seq(S), s # <<>>
    PROVE  /\ Head(s) \in S /\ Tail(s) \in Seq(S) /\ Head(s) = s[1] /\ Len(s) \in Nat \ {0}
           /\ Len(Tail(s)) = Len(s) - 1 /\ \A i \in 1..(Len(s) - 1) : Tail(s)[i] = s[i + 1]
           /\ Names(s) = Names(Tail(s)) \cup {Head(s).name}
           /\ Once(s) => Once(Tail(s)) /\ Head(s).name \notin Names(Tail(s))
<1> DEFINE t == Tail(s)
<1>1. /\ Head(s) \in S /\ t \in Seq(S) /\ Head(s) = s[1] /\ Len(s) \in Nat \ {0}
      /\ Len(t) = Len(s) - 1 /\ \A i \in 1..(Len(s) - 1) : t[i] = s[i + 1]
      /\ DOMAIN s = 1..Len(s) /\ DOMAIN t = 1..(Len(s) - 1)
  OBVIOUS
<1> HIDE DEF t
<1>2. ASSUME NEW x PROVE x \in Names(s) <=> x \in Names(t) \/ x = s[1].name
  <2>1. x \in Names(s) <=> \E i \in 1..Len(s) : x = s[i].name
    BY <1>1 DEF Names
  <2>2. x \in Names(t) <=> \E i \in 1..(Len(s) - 1) : x = t[i].name
    BY <1>1 DEF Names
  <2>3. ASSUME NEW i \in 1..Len(s), x = s[i].name PROVE x \in Names(t) \/ x = s[1].name
    <3>1. CASE i = 1
      BY <2>3, <3>1
    <3>2. CASE i # 1
      <4>1. i - 1 \in 1..(Len(s) - 1) /\ t[i - 1] = s[i]
        BY <1>1, <3>2
      <4> QED
        BY <2>2, <2>3, <4>1
    <3> QED
      BY <3>1, <3>2
  <2>4. ASSUME NEW i \in 1..(Len(s) - 1), x = t[i].name PROVE x \in Names(s)
    <3>1. i + 1 \in 1..Len(s) /\ t[i] = s[i + 1]
      BY <1>1
    <3> QED
      BY <2>1, <2>4, <3>1
  <2>5. 1 \in 1..Len(s)
    BY <1>1
  <2> QED
    BY <2>1, <2>2, <2>3, <2>4, <2>5
<1>3. ASSUME Once(s) PROVE Once(t) /\ s[1].name \notin Names(t)
  <2>1. \A i, j \in 1..Len(s) : s[i].name = s[j].name => i = j
    BY <1>1, <1>3 DEF Once
  <2>2. \A i \in 1..(Len(s) - 1) : i + 1 \in 1..Len(s) /\ i + 1 # 1 /\ t[i] = s[i + 1]
    BY <1>1
  <2>3. 1 \in 1..Len(s)
    BY <1>1
  <2>4. Once(t)
    <3> SUFFICES ASSUME NEW i \in 1..(Len(s) - 1), NEW j \in 1..(Len(s) - 1),
                        t[i].name = t[j].name
                 PROVE  i = j
      BY <1>1 DEF Once
    <3>1. i + 1 = j + 1
      BY <2>1, <2>2
    <3> QED
      BY <3>1
  <2>5. \A i \in 1..(Len(s) - 1) : t[i].name # s[1].name
    BY <2>1, <2>2, <2>3
  <2> QED
    BY <1>1, <2>4, <2>5 DEF Names
<1> QED
  BY <1>1, <1>2, <1>3 DEF t

LEMMA UniqueNames ==
    ASSUME request \in PullRequests
    PROVE  \A f, g \in FilesOf : f.name = g.name => f = g
  BY RequestIs DEF WellFormed, FilesOf, ToSet

LEMMA FillingIs ==
    ASSUME DiffInvariant, request \in PullRequests, Filling, UNCHANGED request,
           UNCHANGED <<limit, stage, base, dict, pass, chunks>>
    PROVE  /\ stage = "fill" /\ stage' = "fill" /\ request.mode # "multi"
           /\ dict = Compressed(request) /\ Divided /\ FillSizes /\ FillPasses
           /\ FilesOf' = FilesOf /\ Next1 \in FilesOf
           /\ Next1.core \in Nat /\ Next1.header \in 0..(Soft - Hard)
           /\ todo' \in Seq(FilesOf) /\ Once(todo') /\ Next1.name \notin Names(todo')
           /\ Names(todo) = Names(todo') \cup {Next1.name}
           /\ limit \in Nat /\ base \in Nat /\ total \in Nat /\ pass \in Nat
           /\ chunk \in Seq(FilesOf) /\ chunks \in Seq(Prompt(FilesOf)) /\ Len(chunks) \in Nat
           /\ AtStart' /\ MultiGood' /\ Fits' /\ Ready'
<1>1. stage = "fill" /\ todo # <<>> /\ todo' = Tail(todo)
  BY DEF Filling
<1>2. /\ limit \in Nat /\ base \in Nat /\ total \in Nat /\ pass \in Nat
      /\ todo \in Seq(FilesOf) /\ chunk \in Seq(FilesOf) /\ chunks \in Seq(Prompt(FilesOf))
  BY DEF DiffInvariant, DiffTyped
<1>3. /\ request.mode # "multi" /\ dict = Compressed(request)
      /\ Divided /\ FillSizes /\ FillPasses
  BY <1>1 DEF DiffInvariant, FillGood
<1>4. Once(todo)
  BY <1>3 DEF Divided
<1>5. /\ Next1 \in FilesOf /\ todo' \in Seq(FilesOf)
      /\ Names(todo) = Names(todo') \cup {Next1.name}
      /\ Once(todo') /\ Next1.name \notin Names(todo')
  BY <1>1, <1>2, <1>4, HeadIs DEF Next1
<1>6. Next1.core \in Nat /\ Next1.header \in 0..(Soft - Hard)
  BY <1>5, RequestIs DEF WellFormed, FilesOf
<1>7. stage' = "fill" /\ FilesOf' = FilesOf
  BY <1>1 DEF FilesOf
<1>8. AtStart' /\ MultiGood'
  BY <1>7 DEF AtStart, MultiGood
<1>9. Fits' /\ Ready'
  BY <1>7, NotYet
<1>10. Len(chunks) \in Nat
  BY <1>2
<1> QED
  BY <1>1, <1>2, <1>3, <1>5, <1>6, <1>7, <1>8, <1>9, <1>10

LEMMA HardStopStep ==
    ASSUME DiffInvariant, request \in PullRequests, HardStop, UNCHANGED request
    PROVE  DiffInvariant'
<1>1. /\ Filling /\ total > limit - Hard /\ dropped' = dropped \cup {Next1.name}
      /\ UNCHANGED <<limit, stage, base, dict, total, chunk, chunks, pass, left>>
  BY DEF HardStop, NoTokensLeft
<1>2. /\ stage = "fill" /\ stage' = "fill" /\ request.mode # "multi"
      /\ dict = Compressed(request) /\ Divided /\ FillSizes /\ FillPasses
      /\ FilesOf' = FilesOf /\ Next1 \in FilesOf
      /\ todo' \in Seq(FilesOf) /\ Once(todo') /\ Next1.name \notin Names(todo')
      /\ Names(todo) = Names(todo') \cup {Next1.name}
      /\ AtStart' /\ MultiGood' /\ Fits' /\ Ready'
  BY <1>1, FillingIs
<1>3. SoFar' = SoFar
  BY <1>1 DEF SoFar, Chunk
<1>4. Divided'
  <2>1. Spots(SoFar') = Spots(SoFar) /\ NamesShown(SoFar') = NamesShown(SoFar)
    BY <1>3
  <2>2. /\ Once(dict') /\ Once(todo')
        /\ \A p, q \in Spots(SoFar') : FileAt(SoFar', p).name = FileAt(SoFar', q).name => p = q
    BY <1>1, <1>2, <1>3 DEF Divided
  <2>3. /\ NamesShown(SoFar) \cap (Names(todo) \cup left \cup dropped) = {}
        /\ Names(todo) \cap (left \cup dropped) = {}
        /\ Names(dict) = Names(todo) \cup left \cup dropped \cup NamesShown(SoFar)
    BY <1>2 DEF Divided
  <2> QED
    BY <1>1, <1>2, <2>1, <2>2, <2>3 DEF Divided
<1>5. DiffTyped'
  <2>1. Next1.name \notin left
    BY <1>2 DEF Divided
  <2> QED
    BY <1>1, <1>2, <2>1 DEF DiffInvariant, DiffTyped
<1>6. FillSizes'
  <2>1. base > limit - Hard
    <3>1. chunk = <<>> \/ total <= limit - Hard
      BY <1>2 DEF FillSizes
    <3>2. ~(total <= limit - Hard)
      BY <1>1, ThresholdsAssumption DEF DiffInvariant, DiffTyped
    <3> QED
      BY <1>1, <1>2, <3>1, <3>2 DEF FillSizes
  <2> QED
    BY <1>1, <1>2, <2>1 DEF FillSizes
<1>7. FillPasses'
  <2>1. Names(todo') \subseteq Names(todo)
    BY <1>2
  <2> QED
    BY <1>1, <1>2, <2>1 DEF FillPasses, Unfit
<1>8. FillGood'
  BY <1>1, <1>2, <1>4, <1>6, <1>7 DEF FillGood
<1> QED
  BY <1>2, <1>5, <1>8 DEF DiffInvariant

LEMMA LeaveForLaterStep ==
    ASSUME DiffInvariant, request \in PullRequests, LeaveForLater, UNCHANGED request
    PROVE  DiffInvariant'
<1>1. /\ Filling /\ ~(total > limit - Hard) /\ total + Next1.core > limit - Soft
      /\ left' = left \cup {Next1.name}
      /\ UNCHANGED <<limit, stage, base, dict, total, chunk, chunks, pass, dropped>>
  BY DEF LeaveForLater, NoTokensLeft, TooLarge
<1>2. /\ stage = "fill" /\ stage' = "fill" /\ request.mode # "multi"
      /\ dict = Compressed(request) /\ Divided /\ FillSizes /\ FillPasses
      /\ FilesOf' = FilesOf /\ Next1 \in FilesOf /\ Next1.core \in Nat
      /\ todo' \in Seq(FilesOf) /\ Once(todo') /\ Next1.name \notin Names(todo')
      /\ Names(todo) = Names(todo') \cup {Next1.name}
      /\ limit \in Nat /\ base \in Nat /\ total \in Nat
      /\ AtStart' /\ MultiGood' /\ Fits' /\ Ready'
  BY <1>1, FillingIs
<1>3. SoFar' = SoFar
  BY <1>1 DEF SoFar, Chunk
<1>4. Divided'
  <2>1. Spots(SoFar') = Spots(SoFar) /\ NamesShown(SoFar') = NamesShown(SoFar)
    BY <1>3
  <2>2. /\ Once(dict') /\ Once(todo')
        /\ \A p, q \in Spots(SoFar') : FileAt(SoFar', p).name = FileAt(SoFar', q).name => p = q
    BY <1>1, <1>2, <1>3 DEF Divided
  <2>3. /\ NamesShown(SoFar) \cap (Names(todo) \cup left \cup dropped) = {}
        /\ Names(todo) \cap (left \cup dropped) = {}
        /\ Names(dict) = Names(todo) \cup left \cup dropped \cup NamesShown(SoFar)
    BY <1>2 DEF Divided
  <2> QED
    BY <1>1, <1>2, <2>1, <2>2, <2>3 DEF Divided
<1>5. DiffTyped'
  <2>1. Next1.name \notin dropped
    BY <1>2 DEF Divided
  <2> QED
    BY <1>1, <1>2, <2>1 DEF DiffInvariant, DiffTyped
<1>6. FillSizes'
  <2>1. base <= limit - Hard
    BY <1>1, <1>2, ThresholdsAssumption DEF FillSizes
  <2> QED
    BY <1>1, <1>2, <2>1 DEF FillSizes
<1>7. FillPasses'
  <2>1. ASSUME chunk = <<>>, NEW f \in FilesOf, f.name \in left' PROVE Unfit(f)
    <3>1. CASE f.name \in left
      BY <1>2, <2>1, <3>1 DEF FillPasses
    <3>2. CASE f.name = Next1.name
      <4>1. f = Next1
        BY <1>2, <3>2, UniqueNames
      <4>2. total = base
        BY <1>2, <2>1 DEF FillSizes
      <4> QED
        BY <1>1, <4>1, <4>2 DEF Unfit
    <3> QED
      BY <1>1, <2>1, <3>1, <3>2
  <2>2. left' \cup Names(todo') = left \cup Names(todo)
    BY <1>1, <1>2
  <2>3. \A f : Unfit(f)' = Unfit(f)
    BY <1>1 DEF Unfit
  <2> QED
    BY <1>1, <1>2, <2>1, <2>2, <2>3 DEF FillPasses, Unfit
<1>8. FillGood'
  BY <1>1, <1>2, <1>4, <1>6, <1>7 DEF FillGood
<1> QED
  BY <1>2, <1>5, <1>8 DEF DiffInvariant

LEMMA TakeStep ==
    ASSUME DiffInvariant, request \in PullRequests, Take, UNCHANGED request
    PROVE  DiffInvariant'
<1>1. /\ Filling /\ ~(total > limit - Hard) /\ ~(total + Next1.core > limit - Soft)
      /\ chunk' = Append(chunk, Next1) /\ total' = total + Next1.core + Next1.header
      /\ UNCHANGED <<limit, stage, base, dict, chunks, pass, left, dropped>>
  BY DEF Take, NoTokensLeft, TooLarge
<1>2. /\ stage = "fill" /\ stage' = "fill" /\ request.mode # "multi"
      /\ dict = Compressed(request) /\ Divided /\ FillSizes /\ FillPasses
      /\ FilesOf' = FilesOf /\ Next1 \in FilesOf
      /\ Next1.core \in Nat /\ Next1.header \in 0..(Soft - Hard)
      /\ todo' \in Seq(FilesOf) /\ Once(todo') /\ Next1.name \notin Names(todo')
      /\ Names(todo) = Names(todo') \cup {Next1.name}
      /\ limit \in Nat /\ base \in Nat /\ total \in Nat
      /\ chunk \in Seq(FilesOf) /\ chunks \in Seq(Prompt(FilesOf))
      /\ AtStart' /\ MultiGood' /\ Fits' /\ Ready'
  BY <1>1, FillingIs
<1>3. /\ total' \in Nat /\ base <= total' /\ total' <= limit - Hard
      /\ chunk' \in Seq(FilesOf) /\ chunk' # <<>>
  <2>1. base <= total
    BY <1>2 DEF FillSizes
  <2> DEFINE core == Next1.core
             header == Next1.header
  <2>2. /\ core \in Nat /\ header \in Nat /\ header <= Soft - Hard
        /\ limit \in Nat /\ base \in Nat /\ total \in Nat /\ Soft \in Nat /\ Hard \in Nat
    BY <1>2, ThresholdsAssumption
  <2>3. total' = total + core + header /\ ~(total + core > limit - Soft)
    BY <1>1
  <2> HIDE DEF core, header
  <2>4. total' \in Nat /\ base <= total'
    BY <2>1, <2>2, <2>3
  <2>5. total + core <= limit - Soft
    BY <2>2, <2>3
  <2>6. total' <= limit - Hard
    BY <2>2, <2>3, <2>5
  <2>7. chunk' \in Seq(FilesOf) /\ chunk' # <<>>
    BY <1>1, <1>2
  <2> QED
    BY <2>4, <2>6, <2>7
<1>4. ShowsAlso(SoFar, SoFar', Next1)
  <2>1. SoFar' = Append(chunks, [files |-> Append(chunk, Next1), total |-> total'])
    BY <1>1 DEF SoFar, Chunk
  <2>2. SoFar = Append(chunks, [files |-> chunk, total |-> total])
    BY DEF SoFar, Chunk
  <2> QED
    BY <1>2, <1>3, <2>1, <2>2, Growing
<1>5. Divided'
  <2>1. /\ NamesShown(SoFar) \cap (Names(todo) \cup left \cup dropped) = {}
        /\ Names(todo) \cap (left \cup dropped) = {}
        /\ Names(dict) = Names(todo) \cup left \cup dropped \cup NamesShown(SoFar)
        /\ \A p, q \in Spots(SoFar) : FileAt(SoFar, p).name = FileAt(SoFar, q).name => p = q
        /\ Once(dict)
    BY <1>2 DEF Divided
  <2>2. NamesShown(SoFar') = NamesShown(SoFar) \cup {Next1.name}
    BY <1>4, NamesThen
  <2>3. \A p \in Spots(SoFar) : FileAt(SoFar, p).name # Next1.name
    BY <1>2, <2>1 DEF NamesShown
  <2>4. \A p, q \in Spots(SoFar') : FileAt(SoFar', p).name = FileAt(SoFar', q).name => p = q
    <3>1. PICK r : /\ Spots(SoFar') = Spots(SoFar) \cup {r} /\ FileAt(SoFar', r) = Next1
                   /\ \A p \in Spots(SoFar) : FileAt(SoFar', p) = FileAt(SoFar, p)
      BY <1>4 DEF ShowsAlso
    <3> QED
      BY <2>1, <2>3, <3>1
  <2> QED
    BY <1>1, <1>2, <2>1, <2>2, <2>4 DEF Divided
<1>6. DiffTyped'
  BY <1>1, <1>2, <1>3 DEF DiffInvariant, DiffTyped
<1>7. FillSizes'
  BY <1>1, <1>2, <1>3 DEF FillSizes
<1>8. FillPasses'
  <2>1. Names(todo') \subseteq Names(todo)
    BY <1>2
  <2> QED
    BY <1>1, <1>2, <1>3, <2>1 DEF FillPasses, Unfit
<1>9. FillGood'
  BY <1>1, <1>2, <1>5, <1>7, <1>8 DEF FillGood
<1> QED
  BY <1>2, <1>6, <1>9 DEF DiffInvariant

LEMMA ClosedIs ==
    ASSUME DiffInvariant, stage = "fill"
    PROVE  /\ Closed \in Seq(Prompt(FilesOf)) /\ Len(Closed) \in Nat \ {0}
           /\ DOMAIN Closed = 1..Len(Closed) /\ ShowsTheSame(Closed, SoFar)
           /\ Len(Closed) <= pass
           /\ Len(Closed) < pass => \A f \in FilesOf : f.name \in left => Unfit(f)
           /\ \A k \in DOMAIN Closed :
                 /\ Closed[k].files = <<>> => k = 1 /\ Closed[k].total = base
                 /\ Closed[k].files # <<>> => Closed[k].total <= limit - Hard
<1>1. /\ limit \in Nat /\ base \in Nat /\ total \in Nat /\ pass \in Nat \ {0}
      /\ chunk \in Seq(FilesOf) /\ chunks \in Seq(Prompt(FilesOf))
  BY DEF DiffInvariant, DiffTyped
<1>2. FillSizes /\ FillPasses
  BY DEF DiffInvariant, FillGood
<1>3. /\ SoFar \in Seq(Prompt(FilesOf)) /\ Len(SoFar) = Len(chunks) + 1 /\ Len(chunks) \in Nat
      /\ \A k \in 1..Len(chunks) : SoFar[k] = chunks[k]
      /\ SoFar[Len(chunks) + 1] = [files |-> chunk, total |-> total]
  BY <1>1, Prompted DEF SoFar, Chunk
<1>4. CASE pass = 1 \/ chunk # <<>>
  <2>1. Closed = SoFar
    BY <1>4 DEF Closed, SoFar
  <2>2. ShowsTheSame(Closed, SoFar)
    BY <2>1 DEF ShowsTheSame
  <2>3. Len(Closed) <= pass /\ Len(Closed) \in Nat \ {0}
    BY <1>1, <1>2, <1>3, <2>1 DEF FillPasses
  <2>4. Len(Closed) < pass => \A f \in FilesOf : f.name \in left => Unfit(f)
    <3>1. Len(Closed) < pass => Len(chunks) < pass - 1
      BY <1>1, <1>3, <2>1
    <3> QED
      BY <1>2, <3>1 DEF FillPasses
  <2>5. ASSUME NEW k \in DOMAIN Closed
        PROVE  /\ Closed[k].files = <<>> => k = 1 /\ Closed[k].total = base
               /\ Closed[k].files # <<>> => Closed[k].total <= limit - Hard
    <3>1. k \in 1..(Len(chunks) + 1)
      BY <1>3, <2>1
    <3>2. CASE k = Len(chunks) + 1
      <4>1. Closed[k].files = chunk /\ Closed[k].total = total
        BY <1>3, <2>1, <3>2
      <4>2. chunk = <<>> => k = 1
        BY <1>1, <1>2, <1>3, <1>4, <3>2 DEF FillPasses
      <4> QED
        BY <1>2, <4>1, <4>2 DEF FillSizes
    <3>3. CASE k # Len(chunks) + 1
      <4>1. k \in 1..Len(chunks)
        BY <1>3, <3>1, <3>3
      <4>2. k \in DOMAIN chunks /\ Closed[k] = chunks[k]
        BY <1>1, <1>3, <2>1, <4>1
      <4> QED
        BY <1>2, <4>2 DEF FillSizes
    <3> QED
      BY <3>2, <3>3
  <2>6. Closed \in Seq(Prompt(FilesOf)) /\ DOMAIN Closed = 1..Len(Closed)
    BY <1>3, <2>1
  <2> QED
    BY <2>2, <2>3, <2>4, <2>5, <2>6
<1>5. CASE ~(pass = 1 \/ chunk # <<>>)
  <2>1. Closed = chunks /\ chunk = <<>> /\ pass > 1
    BY <1>1, <1>5 DEF Closed
  <2>2. ShowsTheSame(Closed, SoFar)
    <3>1. SoFar = Append(chunks, [files |-> <<>>, total |-> total])
      BY <2>1 DEF SoFar, Chunk
    <3> QED
      BY <1>1, <2>1, <3>1, Closing
  <2>3. Len(Closed) <= pass /\ Len(Closed) \in Nat \ {0}
    BY <1>1, <1>2, <1>3, <2>1 DEF FillPasses
  <2>4. \A f \in FilesOf : f.name \in left => Unfit(f)
    BY <1>2, <2>1 DEF FillPasses
  <2>5. \A k \in DOMAIN Closed :
           /\ Closed[k].files = <<>> => k = 1 /\ Closed[k].total = base
           /\ Closed[k].files # <<>> => Closed[k].total <= limit - Hard
    BY <1>2, <2>1 DEF FillSizes
  <2>6. Closed \in Seq(Prompt(FilesOf)) /\ DOMAIN Closed = 1..Len(Closed)
    BY <1>1, <2>1
  <2> QED
    BY <2>2, <2>3, <2>4, <2>5, <2>6
<1> QED
  BY <1>4, <1>5

LEMMA NextPassStep ==
    ASSUME DiffInvariant, request \in PullRequests, NextPass, UNCHANGED request
    PROVE  DiffInvariant'
<1>1. /\ stage = "fill" /\ todo = <<>> /\ request.mode = "large" /\ left # {}
      /\ pass < request.calls - 1
      /\ chunks' = Closed /\ pass' = pass + 1 /\ todo' = Remaining
      /\ total' = base /\ chunk' = <<>> /\ left' = {}
      /\ UNCHANGED <<limit, stage, base, dict, dropped>>
  BY DEF NextPass, Refill
<1>2. /\ limit \in Nat /\ base \in Nat /\ pass \in Nat \ {0} /\ dict \in Seq(FilesOf)
      /\ FilesOf' = FilesOf /\ request.calls \in Nat
  BY RequestIs DEF DiffInvariant, DiffTyped, FilesOf, WellFormed
<1>3. dict = Compressed(request) /\ Divided /\ FillSizes /\ FillPasses
  BY <1>1 DEF DiffInvariant, FillGood
<1>4. /\ chunks' \in Seq(Prompt(FilesOf)) /\ Len(chunks') \in Nat \ {0}
      /\ ShowsTheSame(chunks', SoFar) /\ Len(chunks') <= pass
      /\ Len(chunks') < pass => \A f \in FilesOf : f.name \in left => Unfit(f)
      /\ \A k \in DOMAIN chunks' :
            /\ chunks'[k].files = <<>> => k = 1 /\ chunks'[k].total = base
            /\ chunks'[k].files # <<>> => chunks'[k].total <= limit - Hard
  BY <1>1, ClosedIs
<1>5. /\ Once(dict) /\ Names(todo) = {}
      /\ \A p, q \in Spots(SoFar) : FileAt(SoFar, p).name = FileAt(SoFar, q).name => p = q
      /\ NamesShown(SoFar) \cap (left \cup dropped) = {}
      /\ Names(dict) = left \cup dropped \cup NamesShown(SoFar)
      /\ left \cap dropped = {}
  <2>1. Names(todo) = {}
    BY <1>1 DEF Names
  <2> QED
    BY <1>3, <2>1 DEF Divided, DiffInvariant, DiffTyped
<1>6. todo' \in Seq(FilesOf) /\ Once(todo') /\ Names(todo') = left
  <2>1. /\ todo' \in Seq(FilesOf) /\ Once(todo')
        /\ Names(todo') = Names(dict) \cap left
    BY <1>1, <1>2, <1>5, RemainingIs
  <2> QED
    BY <1>5, <2>1
<1>7. /\ Spots(SoFar') = Spots(SoFar) /\ NamesShown(SoFar') = NamesShown(SoFar)
      /\ \A p \in Spots(SoFar) : FileAt(SoFar', p) = FileAt(SoFar, p)
  <2>1. SoFar' = Append(chunks', [files |-> <<>>, total |-> base])
    BY <1>1 DEF SoFar, Chunk
  <2>2. ShowsTheSame(chunks', SoFar')
    BY <1>2, <1>4, <2>1, Closing
  <2>3. NamesShown(SoFar') = NamesShown(chunks') /\ NamesShown(SoFar) = NamesShown(chunks')
    BY <1>4, <2>2, NamesThen
  <2> QED
    BY <1>4, <2>2, <2>3 DEF ShowsTheSame
<1>8. Divided'
  <2>1. Once(dict') /\ Once(todo')
    BY <1>1, <1>5, <1>6
  <2>2. \A p, q \in Spots(SoFar') : FileAt(SoFar', p).name = FileAt(SoFar', q).name => p = q
    BY <1>5, <1>7
  <2> QED
    BY <1>1, <1>5, <1>6, <1>7, <2>1, <2>2 DEF Divided
<1>9. DiffTyped'
  <2>1. <<>> \in Seq(FilesOf)
    OBVIOUS
  <2> QED
    BY <1>1, <1>2, <1>4, <1>6, <2>1 DEF DiffInvariant, DiffTyped
<1>10. FillSizes'
  BY <1>1, <1>2, <1>3, <1>4 DEF FillSizes
<1>11. FillPasses'
  <2>1. Len(chunks') < pass' - 1 => \A f \in FilesOf : f.name \in Names(todo') => Unfit(f)
    BY <1>1, <1>2, <1>4, <1>6
  <2> QED
    BY <1>1, <1>2, <1>4, <2>1 DEF FillPasses, Unfit
<1>12. FillGood' /\ AtStart' /\ MultiGood' /\ Fits' /\ Ready'
  <2>1. FillGood'
    BY <1>1, <1>3, <1>8, <1>10, <1>11 DEF FillGood
  <2> QED
    BY <1>1, <2>1, NotYet DEF AtStart, MultiGood
<1> QED
  BY <1>9, <1>12 DEF DiffInvariant

LEMMA RegroupStep ==
    ASSUME DiffInvariant, request \in PullRequests, Regroup, UNCHANGED request
    PROVE  DiffInvariant'
<1>1. /\ stage = "fill" /\ Len(Closed) > 1 /\ base # request.filesPrompt /\ todo' = dict
      /\ base' = request.filesPrompt /\ total' = request.filesPrompt
      /\ chunk' = <<>> /\ chunks' = <<>> /\ pass' = 1 /\ left' = {} /\ dropped' = {}
      /\ UNCHANGED <<limit, stage, dict>>
  BY DEF Regroup, Cut
<1>2. /\ request.prompt \in Nat /\ request.filesPrompt \in 0..request.prompt
      /\ request.filesPrompt \in Nat /\ FilesOf' = FilesOf
      /\ limit \in Nat /\ dict \in Seq(FilesOf)
  BY RequestIs DEF DiffInvariant, DiffTyped, FilesOf, WellFormed
<1>3. request.mode # "multi" /\ dict = Compressed(request) /\ Once(dict)
  BY <1>1 DEF DiffInvariant, FillGood, Divided
<1>4. Spots(SoFar') = {} /\ NamesShown(SoFar') = {}
  <2>1. SoFar' = Append(<<>>, [files |-> <<>>, total |-> request.filesPrompt])
    BY <1>1 DEF SoFar, Chunk
  <2> QED
    BY <1>2, <2>1, NothingShown
<1>5. Divided'
  BY <1>1, <1>3, <1>4 DEF Divided
<1>6. DiffTyped'
  <2>1. <<>> \in Seq(FilesOf) /\ <<>> \in Seq(Prompt(FilesOf))
    OBVIOUS
  <2> QED
    BY <1>1, <1>2, <2>1 DEF DiffInvariant, DiffTyped
<1>7. FillSizes' /\ FillPasses'
  <2>1. FillSizes /\ pass \in Nat /\ base \in Nat /\ Hard \in Nat
    BY <1>1, ThresholdsAssumption DEF DiffInvariant, DiffTyped, FillGood
  <2>2. pass > 1
    BY <1>1, <2>1, ClosedIs
  <2>3. base = request.prompt /\ base <= limit - Hard
    BY <1>1, <2>1, <2>2 DEF FillSizes
  <2>4. request.filesPrompt <= limit - Hard
    BY <1>2, <2>1, <2>3
  <2> QED
    BY <1>1, <1>2, <2>4 DEF FillSizes, FillPasses
<1>8. FillGood' /\ AtStart' /\ MultiGood' /\ Fits' /\ Ready'
  <2>1. FillGood'
    BY <1>1, <1>3, <1>5, <1>7 DEF FillGood
  <2> QED
    BY <1>1, <2>1, NotYet DEF AtStart, MultiGood
<1> QED
  BY <1>6, <1>8 DEF DiffInvariant

\* The lists of the files not shown fill the room there is, and no more.
LEMMA AfterListIs ==
    ASSUME NEW cur \in Nat, NEW n \in Nat, Room \in Int, NEW m \in AfterList(cur, n)
    PROVE  m \in Nat /\ (m = cur \/ m <= Room + 2)
<1>1. CASE n = 0
  BY <1>1 DEF AfterList
<1>2. CASE n # 0 /\ n <= Room - cur
  <2>1. m = cur + n + 2
    BY <1>2 DEF AfterList
  <2> QED
    BY <1>2, <2>1
<1>3. CASE n # 0 /\ ~(n <= Room - cur)
  <2>1. m = cur \/ \E k \in 1..(Room - cur) : m = cur + k + 2
    BY <1>3 DEF AfterList
  <2> QED
    BY <2>1
<1> QED
  BY <1>1, <1>2, <1>3

LEMMA WithListsIs ==
    ASSUME Shown.total \in Nat, Room \in Int, \A fs : ListTokens(fs) \in Nat,
           NEW n \in WithLists
    PROVE  n \in Nat /\ (n = Shown.total \/ n <= Room + 2)
<1> DEFINE T(kinds) == ListTokens(Hidden(kinds))
           A == T({"added"})
           M == T({"modified", "renamed"})
           D == T({"deleted"})
<1>1. A \in Nat /\ M \in Nat /\ D \in Nat
  OBVIOUS
<1> HIDE DEF A, M, D
<1>2. CASE Room - Shown.total <= ListsFrom
  BY <1>2 DEF WithLists
<1>3. CASE ~(Room - Shown.total <= ListsFrom)
  <2>1. n \in UNION {UNION {AfterList(c, D) : c \in AfterList(b, M)} :
                        b \in AfterList(Shown.total, A)}
    BY <1>3 DEF WithLists, A, M, D
  <2>2. PICK b \in AfterList(Shown.total, A) : n \in UNION {AfterList(c, D) : c \in AfterList(b, M)}
    BY <2>1
  <2>3. PICK c \in AfterList(b, M) : n \in AfterList(c, D)
    BY <2>2
  <2>4. b \in Nat /\ (b = Shown.total \/ b <= Room + 2)
    BY <1>1, AfterListIs
  <2>5. c \in Nat /\ (c = b \/ c <= Room + 2)
    BY <1>1, <2>4, AfterListIs
  <2>6. n \in Nat /\ (n = c \/ n <= Room + 2)
    BY <1>1, <2>3, <2>5, AfterListIs
  <2> QED
    BY <2>4, <2>5, <2>6
<1> QED
  BY <1>2, <1>3

LEMMA AtMostOne ==
    ASSUME NEW S, \A p, q \in S : p = q
    PROVE  IsFiniteSet(S) /\ Cardinality(S) \in Nat /\ Cardinality(S) <= 1
<1>1. CASE S = {}
  BY <1>1, FS_EmptySet
<1>2. CASE S # {}
  <2>1. PICK p \in S : S = {p}
    BY <1>2
  <2> QED
    BY <2>1, FS_Singleton
<1> QED
  BY <1>1, <1>2

\* What Finish makes of the prompts: the same files, and one total that may
\* have grown by the lists.
LEMMA FinishIs ==
    ASSUME DiffInvariant, request \in PullRequests, Finish, UNCHANGED request
    PROVE  /\ chunks' \in Seq(Prompt(FilesOf)) /\ Len(chunks') = Len(Closed)
           /\ DOMAIN chunks' = 1..Len(Closed)
           /\ \A k \in DOMAIN chunks' : chunks'[k].files = Closed[k].files
           /\ \/ chunks' = Closed
              \/ /\ Len(Closed) = 1
                 /\ \/ chunks'[1].total = Closed[1].total
                    \/ chunks'[1].total <= limit - Hard + 2
<1>1. stage = "fill" /\ ~(Len(Closed) > 1 /\ base # request.filesPrompt)
      /\ IF Grouped THEN chunks' = Closed
         ELSE \E n \in WithLists : chunks' = <<[Shown EXCEPT !.total = n]>>
  BY DEF Finish, Cut
<1>2. /\ Closed \in Seq(Prompt(FilesOf)) /\ Len(Closed) \in Nat \ {0}
      /\ DOMAIN Closed = 1..Len(Closed) /\ Len(Closed) <= pass
  BY <1>1, ClosedIs
<1>3. CASE Grouped
  BY <1>1, <1>2, <1>3
<1>4. CASE ~Grouped
  <2>1. Len(Closed) = 1
    <3>1. FillPasses /\ request.mode \in {"single", "large", "multi"} /\ pass \in Nat \ {0}
      BY <1>1, RequestIs DEF DiffInvariant, DiffTyped, FillGood, WellFormed
    <3>2. request.mode # "large" => pass = 1
      BY <3>1 DEF FillPasses
    <3>3. request.mode = "large" => ~(Len(Closed) > 1)
      BY <1>4 DEF Grouped
    <3> QED
      BY <1>2, <3>1, <3>2, <3>3
  <2>2. Shown \in Prompt(FilesOf)
    BY <1>2, <2>1 DEF Shown
  <2>3. Shown.files \in Seq(FilesOf) /\ Shown.total \in Nat
        /\ Shown = [files |-> Shown.files, total |-> Shown.total]
    BY <2>2 DEF Prompt
  <2>4. PICK n \in WithLists : chunks' = <<[Shown EXCEPT !.total = n]>>
    BY <1>1, <1>4
  <2>5. n \in Nat /\ (n = Shown.total \/ n <= limit - Hard + 2)
    <3>1. Room \in Int /\ Room = limit - Hard
      BY ThresholdsAssumption DEF Room, DiffInvariant, DiffTyped
    <3>2. dict \in Seq(ToSet(request.files))
      BY DEF DiffInvariant, DiffTyped, FilesOf
    <3>3. \A fs : ListTokens(fs) \in Nat
      BY <3>2, RequestIs, ListTokensAre
    <3>4. n \in Nat /\ (n = Shown.total \/ n <= Room + 2)
      BY <2>3, <3>1, <3>3, WithListsIs
    <3> QED
      BY <3>1, <3>4
  <2>6. [Shown EXCEPT !.total = n] = [files |-> Shown.files, total |-> n]
    BY <2>3
  <2>7. chunks' = <<[files |-> Shown.files, total |-> n]>>
    BY <2>4, <2>6
  <2>8. /\ chunks' \in Seq(Prompt(FilesOf)) /\ Len(chunks') = 1 /\ DOMAIN chunks' = {1}
        /\ chunks'[1].files = Shown.files /\ chunks'[1].total = n
    BY <2>3, <2>5, <2>7, OnePrompt
  <2>9. DOMAIN chunks' = 1..Len(Closed)
    BY <2>1, <2>8
  <2>10. \A k \in DOMAIN chunks' : chunks'[k].files = Closed[k].files
    BY <2>8 DEF Shown
  <2>11. n = Closed[1].total \/ n <= limit - Hard + 2
    BY <2>5 DEF Shown
  <2> QED
    BY <2>1, <2>8, <2>9, <2>10, <2>11
<1> QED
  BY <1>3, <1>4

LEMMA FinishStep ==
    ASSUME DiffInvariant, request \in PullRequests, Finish, UNCHANGED request
    PROVE  DiffInvariant'
<1>1. /\ stage = "fill" /\ todo = <<>> /\ ~Refill /\ stage' = "ready"
      /\ UNCHANGED <<request, limit, base, dict, todo, total, chunk, pass, left, dropped>>
  BY DEF Finish, Cut
<1>2. /\ limit \in Nat /\ base \in Nat /\ pass \in Nat \ {0}
      /\ request.calls \in Nat \ {0} /\ FilesOf' = FilesOf /\ WellFormed(request)
      /\ Hard \in Nat
  BY <1>1, RequestIs, ThresholdsAssumption DEF DiffInvariant, DiffTyped, FilesOf, WellFormed
<1>3. /\ request.mode # "multi" /\ dict = Compressed(request)
      /\ Divided /\ FillSizes /\ FillPasses
  BY <1>1 DEF DiffInvariant, FillGood
<1>4. /\ Closed \in Seq(Prompt(FilesOf)) /\ Len(Closed) \in Nat \ {0}
      /\ DOMAIN Closed = 1..Len(Closed) /\ ShowsTheSame(Closed, SoFar)
      /\ Len(Closed) <= pass
      /\ Len(Closed) < pass => \A f \in FilesOf : f.name \in left => Unfit(f)
      /\ \A k \in DOMAIN Closed :
            /\ Closed[k].files = <<>> => k = 1 /\ Closed[k].total = base
            /\ Closed[k].files # <<>> => Closed[k].total <= limit - Hard
  BY <1>1, ClosedIs
<1>5. /\ chunks' \in Seq(Prompt(FilesOf)) /\ Len(chunks') = Len(Closed)
      /\ DOMAIN chunks' = 1..Len(Closed)
      /\ \A k \in DOMAIN chunks' : chunks'[k].files = Closed[k].files
      /\ \/ chunks' = Closed
         \/ /\ Len(Closed) = 1
            /\ \/ chunks'[1].total = Closed[1].total
               \/ chunks'[1].total <= limit - Hard + 2
  BY FinishIs
<1>6. DiffTyped'
  BY <1>1, <1>2, <1>5 DEF DiffInvariant, DiffTyped
<1>7. AtStart' /\ FillGood' /\ MultiGood'
  BY <1>1 DEF AtStart, FillGood, MultiGood
<1>8. Fits'
  <2> SUFFICES ASSUME NEW k \in Parts' PROVE chunks'[k].total <= limit - Hard + 2
    BY <1>1 DEF Fits
  <2>1. /\ k \in DOMAIN chunks' /\ k \in DOMAIN Closed
        /\ \/ chunks'[k].files # <<>> \/ chunks'[k].total > base
           \/ Len(chunks') > 1 \/ base # request.prompt
    BY <1>1, <1>4, <1>5 DEF Parts, InParts
  <2>2. \/ chunks'[k].total = Closed[k].total
        \/ chunks'[k].total <= limit - Hard + 2
    <3>1. Len(Closed) = 1 => k = 1
      BY <1>4, <2>1
    <3> QED
      BY <1>5, <2>1, <3>1
  <2>3. ASSUME chunks'[k].total = Closed[k].total PROVE chunks'[k].total <= limit - Hard + 2
    <3>1. CASE Closed[k].files # <<>>
      <4>1. Closed[k].total <= limit - Hard
        BY <1>4, <2>1, <3>1
      <4>2. Closed[k].total \in Nat
        <5>1. Closed[k] \in Prompt(FilesOf)
          BY <1>4, <2>1
        <5> QED
          BY <5>1 DEF Prompt
      <4> QED
        BY <1>2, <2>3, <4>1, <4>2
    <3>2. CASE Closed[k].files = <<>>
      <4>1. Closed[k].total = base /\ chunks'[k].files = <<>>
        BY <1>4, <1>5, <2>1, <3>2
      <4>2. Len(chunks') > 1 \/ base # request.prompt
        BY <1>2, <2>1, <2>3, <4>1
      <4>3. pass > 1 \/ base # request.prompt
        BY <1>2, <1>4, <1>5, <4>2
      <4>4. base <= limit - Hard
        BY <1>3, <4>3 DEF FillSizes
      <4> QED
        BY <1>2, <2>3, <4>1, <4>4
    <3> QED
      BY <3>1, <3>2
  <2> QED
    BY <2>2, <2>3
<1>9. ShowsTheSame(chunks', SoFar)
  <2>1. Spots(chunks') = Spots(Closed)
    <3>1. ASSUME NEW p PROVE p \in Spots(chunks') <=> p \in Spots(Closed)
      <4>1. p \in Spots(chunks') <=> /\ p \in Nat \X Nat /\ p[1] \in 1..Len(Closed)
                                     /\ p[2] \in 1..Len(chunks'[p[1]].files)
        BY <1>5, PlaceIs
      <4>2. p \in Spots(Closed) <=> /\ p \in Nat \X Nat /\ p[1] \in 1..Len(Closed)
                                    /\ p[2] \in 1..Len(Closed[p[1]].files)
        BY <1>4, PlaceIs
      <4>3. p[1] \in 1..Len(Closed) => chunks'[p[1]].files = Closed[p[1]].files
        BY <1>5
      <4> QED
        BY <4>1, <4>2, <4>3
    <3> QED
      BY <3>1
  <2>2. \A p \in Spots(Closed) : FileAt(chunks', p) = FileAt(Closed, p)
    <3> TAKE p \in Spots(Closed)
    <3>1. p[1] \in 1..Len(Closed)
      BY <1>4, PlaceIs
    <3> QED
      BY <1>5, <3>1 DEF FileAt
  <2> QED
    BY <1>4, <2>1, <2>2 DEF ShowsTheSame
<1>10. NoFileForgotten'
  <2>1. dropped' # {} => base' > limit' - Hard
    BY <1>1, <1>3 DEF FillSizes
  <2>2. ASSUME NEW f \in Candidates'
        PROVE  InChunks(f.name)' # {} \/ f.name \in left' \/ f.name \in dropped'
    <3>1. f \in ToSet(request.files) /\ f.size > 0 /\ f.core > 0
      BY <1>1 DEF Candidates
    <3>2. f.name \in Names(dict)
      BY <1>2, <1>3, <3>1, CompressedIs
    <3>3. f.name \in left \cup dropped \cup NamesShown(SoFar)
      <4>1. Names(todo) = {}
        BY <1>1 DEF Names
      <4> QED
        BY <1>3, <3>2, <4>1 DEF Divided
    <3>4. ASSUME f.name \in NamesShown(SoFar) PROVE InChunks(f.name)' # {}
      <4>1. f.name \in NamesShown(chunks')
        BY <1>9, <3>4, NamesThen
      <4>2. PICK p \in Spots(chunks') : FileAt(chunks', p).name = f.name
        BY <4>1 DEF NamesShown
      <4>3. p[1] \in DOMAIN chunks' /\ p[2] \in DOMAIN chunks'[p[1]].files
        BY DEF Spots
      <4>4. f.name \in Names(chunks'[p[1]].files)
        BY <4>2, <4>3 DEF Names, FileAt
      <4> QED
        BY <4>3, <4>4 DEF InChunks
    <3> QED
      BY <1>1, <3>3, <3>4
  <2> QED
    BY <2>1, <2>2 DEF NoFileForgotten
<1>11. ShownOnce'
  <2>1. ASSUME NEW f
        PROVE  /\ Cardinality(PlacesOf(f, chunks')) \in Nat
               /\ Cardinality(PlacesOf(f, chunks')) <= 1
    <3>1. PlacesOf(f, chunks') = Hits(f, chunks')
      BY <1>5, PlacesAre
    <3>2. \A p, q \in Hits(f, chunks') : p = q
      <4> TAKE p \in Hits(f, chunks'), q \in Hits(f, chunks')
      <4>1. /\ p \in Spots(chunks') /\ q \in Spots(chunks')
            /\ FileAt(chunks', p) = FileAt(chunks', q)
        BY DEF Hits
      <4>2. /\ p \in Spots(SoFar) /\ q \in Spots(SoFar)
            /\ FileAt(SoFar, p) = FileAt(SoFar, q)
        BY <1>9, <4>1 DEF ShowsTheSame
      <4> QED
        BY <1>3, <4>2 DEF Divided
    <3> QED
      BY <3>1, <3>2, AtMostOne
  <2>2. ASSUME NEW f PROVE 1 <= Cardinality(Languages(request, f))
    <3>1. IsFiniteSet(Languages(request, f)) /\ Languages(request, f) # {}
      BY <1>2, LanguagesAre
    <3>2. Cardinality(Languages(request, f)) \in Nat /\ Cardinality(Languages(request, f)) # 0
      BY <3>1, FS_CardinalityType, FS_EmptySet
    <3> QED
      BY <3>2
  <2>3. ASSUME NEW f PROVE Cardinality(PlacesOf(f, chunks')) <= Cardinality(Languages(request, f))
    <3>1. Cardinality(Languages(request, f)) \in Nat
      BY <1>2, LanguagesAre, FS_CardinalityType
    <3> QED
      BY <2>1, <2>2, <3>1
  <2> QED
    BY <1>1, <2>1, <2>3 DEF ShownOnce
<1>12. LeftOutForLackOfCalls'
  <2> SUFFICES ASSUME request.mode = "large", NEW f \in Candidates', f.name \in left,
                      base + f.core <= limit - Soft
               PROVE  pass >= request.calls - 1 /\ Len(chunks') = pass
    BY <1>1, <1>3 DEF LeftOutForLackOfCalls
  <2>1. f \in FilesOf /\ f.core \in Nat
    BY <1>1, <1>2 DEF Candidates, FilesOf, WellFormed
  <2>2. ~Unfit(f)
    BY <1>2, <2>1, ThresholdsAssumption DEF Unfit
  <2>3. Len(Closed) = pass
    <3>1. (Len(Closed) < pass) => Unfit(f)
      BY <1>4, <2>1
    <3>2. ~(Len(Closed) < pass)
      BY <2>2, <3>1
    <3>3. Len(Closed) \in Nat /\ Len(Closed) <= pass
      BY <1>4
    <3> QED
      BY <1>2, <3>2, <3>3
  <2>4. ~(pass < request.calls - 1)
    BY <1>1 DEF Refill
  <2> QED
    BY <1>2, <1>5, <2>3, <2>4
<1>13. CallsBounded'
  <2>1. request.mode = "large" => Len(chunks') <= 1 \/ Len(chunks') < request.calls
    BY <1>2, <1>3, <1>4, <1>5 DEF FillPasses
  <2>2. \A k \in DOMAIN chunks' : k > 1 => chunks'[k].files # <<>>
    BY <1>4, <1>5
  <2> QED
    BY <1>1, <1>3, <2>1, <2>2 DEF CallsBounded
<1> QED
  BY <1>6, <1>7, <1>8, <1>10, <1>11, <1>12, <1>13 DEF DiffInvariant, Ready

-----------------------------------------------------------------------------
(* get_pr_multi_diffs.                                                     *)

LEMMA MetOneMore ==
    ASSUME MultiMet, todo # <<>>, todo' = Tail(todo), dict' = dict, FilesOf' = FilesOf,
           dict \in Seq(FilesOf), todo \in Seq(FilesOf),
           UNCHANGED <<base, limit>>,
           \/ ShowsTheSame(SoFar, SoFar') /\ Outsized(Next1)
           \/ ShowsAlso(SoFar, SoFar', Next1)
    PROVE  MultiMet'
<1> DEFINE n == Len(dict) - Len(todo)
<1>1. /\ Next1 = todo[1] /\ Len(todo) \in Nat \ {0} /\ Len(todo') = Len(todo) - 1
      /\ \A i \in 1..(Len(todo) - 1) : todo'[i] = todo[i + 1]
  BY HeadIs DEF Next1
<1>2. /\ Len(dict) \in Nat /\ Len(todo) <= Len(dict)
      /\ \A i \in 1..Len(todo) : todo[i] = dict[n + i]
  BY DEF MultiMet
<1>3. n \in Nat /\ Len(dict') - Len(todo') = n + 1 /\ Len(todo') <= Len(dict')
  BY <1>1, <1>2
<1> HIDE DEF n
<1>4. Next1 = dict[n + 1]
  BY <1>1, <1>2
<1>5. ASSUME NEW i \in 1..Len(todo') PROVE todo'[i] = dict'[(n + 1) + i]
  <2>1. i \in 1..(Len(todo) - 1) /\ i + 1 \in 1..Len(todo) /\ (n + 1) + i = n + (i + 1)
    BY <1>1, <1>3
  <2>2. todo'[i] = todo[i + 1] /\ todo[i + 1] = dict[n + (i + 1)]
    BY <1>1, <1>2, <2>1
  <2> QED
    BY <2>1, <2>2
<1>6. ASSUME NEW i \in 1..(n + 1) PROVE dict[i].name \in NamesShown(SoFar') \/ Outsized(dict[i])
  <2>1. NamesShown(SoFar) \subseteq NamesShown(SoFar')
    <3>1. /\ ShowsTheSame(SoFar, SoFar') => NamesShown(SoFar') = NamesShown(SoFar)
          /\ ShowsAlso(SoFar, SoFar', Next1) => NamesShown(SoFar') = NamesShown(SoFar) \cup {Next1.name}
      BY NamesThen
    <3> QED
      BY <3>1
  <2>2. CASE i = n + 1
    <3>1. ShowsAlso(SoFar, SoFar', Next1) => Next1.name \in NamesShown(SoFar')
      BY NamesThen
    <3> QED
      BY <1>4, <2>2, <3>1
  <2>3. CASE i # n + 1
    <3>1. i \in 1..n
      BY <1>3, <2>3
    <3>2. dict[i].name \in NamesShown(SoFar) \/ Outsized(dict[i])
      BY <3>1 DEF MultiMet, n
    <3> QED
      BY <2>1, <3>2
  <2> QED
    BY <2>2, <2>3
<1>7. ASSUME NEW f \in FilesOf
      PROVE  /\ IsFiniteSet(Hits(f, SoFar'))
             /\ Cardinality(Hits(f, SoFar')) <= Cardinality(Upto(dict', n + 1, f))
  <2>1. IsFiniteSet(Hits(f, SoFar)) /\ Cardinality(Hits(f, SoFar)) <= Cardinality(Upto(dict, n, f))
    BY DEF MultiMet, n
  <2>2. /\ Cardinality(Upto(dict, n, f)) \in Nat
        /\ Next1 = f => Cardinality(Upto(dict, n + 1, f)) = Cardinality(Upto(dict, n, f)) + 1
        /\ Next1 # f => Upto(dict, n + 1, f) = Upto(dict, n, f)
    BY <1>3, <1>4, UptoIs
  <2>3. Cardinality(Hits(f, SoFar)) \in Nat
    BY <2>1, HitsThen
  <2>4. CASE ShowsTheSame(SoFar, SoFar')
    <3>1. Hits(f, SoFar') = Hits(f, SoFar)
      BY <2>1, <2>4, HitsThen
    <3> QED
      BY <2>1, <2>2, <2>3, <3>1
  <2>5. CASE ShowsAlso(SoFar, SoFar', Next1)
    <3>1. /\ IsFiniteSet(Hits(f, SoFar')) /\ Cardinality(Hits(f, SoFar')) \in Nat
          /\ Next1 # f => Hits(f, SoFar') = Hits(f, SoFar)
          /\ Cardinality(Hits(f, SoFar')) <= Cardinality(Hits(f, SoFar)) + 1
      BY <2>1, <2>5, HitsThen
    <3>2. CASE Next1 = f
      BY <2>1, <2>2, <2>3, <3>1, <3>2
    <3>3. CASE Next1 # f
      BY <2>1, <2>2, <3>1, <3>3
    <3> QED
      BY <3>2, <3>3
  <2> QED
    BY <2>4, <2>5
<1> QED
  BY <1>3, <1>5, <1>6, <1>7 DEF MultiMet, Outsized

\* The loop ends with a file still to be looked at.
LEMMA MetStill ==
    ASSUME MultiMet, UNCHANGED <<todo, dict, base, limit>>, FilesOf' = FilesOf,
           ShowsTheSame(SoFar, SoFar')
    PROVE  MultiMet'
<1>1. NamesShown(SoFar') = NamesShown(SoFar)
  BY NamesThen
<1>2. \A f : Hits(f, SoFar') = Hits(f, SoFar)
  BY DEF ShowsTheSame, Hits
<1> QED
  BY <1>1, <1>2 DEF MultiMet, Outsized

LEMMA SplittingIs ==
    ASSUME DiffInvariant, request \in PullRequests, Splitting, UNCHANGED request,
           UNCHANGED <<limit, stage, base, dict, dropped>>
    PROVE  /\ stage = "multi" /\ stage' = "multi" /\ request.mode = "multi"
           /\ dict = Sorted(request) /\ dropped = {} /\ MultiMet /\ MultiSizes
           /\ todo # <<>> /\ Tail(todo) \in Seq(FilesOf)
           /\ FilesOf' = FilesOf /\ Next1 \in FilesOf
           /\ Next1.core \in Nat /\ Next1.header \in Nat
           /\ dict \in Seq(FilesOf) /\ todo \in Seq(FilesOf)
           /\ limit \in Nat /\ base \in Nat /\ total \in Nat /\ pass \in Nat \ {0}
           /\ chunk \in Seq(FilesOf) /\ chunks \in Seq(Prompt(FilesOf)) /\ Len(chunks) \in Nat
           /\ Soft \in Nat /\ request.calls \in Nat /\ pass <= request.calls
           /\ AtStart' /\ FillGood' /\ Fits' /\ Ready'
<1>1. stage = "multi" /\ todo # <<>> /\ pass <= request.calls
  BY DEF Splitting, CallsLeft
<1>2. /\ limit \in Nat /\ base \in Nat /\ total \in Nat /\ pass \in Nat \ {0}
      /\ dict \in Seq(FilesOf) /\ todo \in Seq(FilesOf) /\ chunk \in Seq(FilesOf)
      /\ chunks \in Seq(Prompt(FilesOf))
  BY DEF DiffInvariant, DiffTyped
<1>3. /\ request.mode = "multi" /\ dict = Sorted(request) /\ dropped = {}
      /\ MultiMet /\ MultiSizes
  BY <1>1 DEF DiffInvariant, MultiGood
<1>4. Next1 \in FilesOf /\ Tail(todo) \in Seq(FilesOf)
  BY <1>1, <1>2, HeadIs DEF Next1
<1>5. Next1.core \in Nat /\ Next1.header \in 0..(Soft - Hard) /\ request.calls \in Nat
  BY <1>4, RequestIs DEF WellFormed, FilesOf
<1>6. Next1.header \in Nat /\ Soft \in Nat
  BY <1>5, ThresholdsAssumption
<1>7. stage' = "multi" /\ FilesOf' = FilesOf
  BY <1>1 DEF FilesOf
<1>8. AtStart' /\ FillGood' /\ Fits' /\ Ready'
  BY <1>7, NotYet DEF AtStart, FillGood
<1>9. Len(chunks) \in Nat
  BY <1>2
<1> QED
  BY <1>1, <1>2, <1>3, <1>4, <1>5, <1>6, <1>7, <1>8, <1>9

LEMMA SkipLargeStep ==
    ASSUME DiffInvariant, request \in PullRequests, SkipLarge, UNCHANGED request
    PROVE  DiffInvariant'
<1>1. /\ Splitting /\ base + Patch > limit - Soft /\ todo' = Tail(todo)
      /\ UNCHANGED <<limit, stage, base, dict, total, chunk, chunks, pass, left, dropped>>
  BY DEF SkipLarge, TooLargeAlone
<1>2. /\ stage = "multi" /\ stage' = "multi" /\ request.mode = "multi"
      /\ dict = Sorted(request) /\ dropped = {} /\ MultiMet /\ MultiSizes
      /\ todo # <<>> /\ todo' \in Seq(FilesOf) /\ FilesOf' = FilesOf
      /\ Next1.core \in Nat /\ Next1.header \in Nat /\ base \in Nat
      /\ pass \in Nat /\ request.calls \in Nat /\ pass <= request.calls
      /\ dict \in Seq(FilesOf) /\ todo \in Seq(FilesOf)
      /\ AtStart' /\ FillGood' /\ Fits' /\ Ready'
  BY <1>1, SplittingIs
<1>3. ShowsTheSame(SoFar, SoFar')
  BY <1>1 DEF SoFar, Chunk, ShowsTheSame
<1>4. MultiMet'
  <2>1. Outsized(Next1)
    BY <1>1, <1>2 DEF Outsized, Patch
  <2> QED
    BY <1>1, <1>2, <1>3, <2>1, MetOneMore
<1>5. MultiSizes'
  BY <1>1, <1>2 DEF MultiSizes
<1>6. DiffTyped'
  BY <1>1, <1>2 DEF DiffInvariant, DiffTyped
<1>7. MultiGood'
  BY <1>1, <1>2, <1>4, <1>5 DEF MultiGood
<1> QED
  BY <1>2, <1>6, <1>7 DEF DiffInvariant

LEMMA PlaceStep ==
    ASSUME DiffInvariant, request \in PullRequests, NEW n \in Nat, base + n <= limit - Soft, n <= Patch,
           Splitting, Place(n), UNCHANGED <<request, limit, stage, base, dict, left, dropped>>
    PROVE  DiffInvariant'
<1>1. /\ stage = "multi" /\ stage' = "multi" /\ request.mode = "multi"
      /\ dict = Sorted(request) /\ dropped = {} /\ MultiMet /\ MultiSizes
      /\ todo # <<>> /\ Tail(todo) \in Seq(FilesOf)
      /\ FilesOf' = FilesOf /\ Next1 \in FilesOf
      /\ Next1.core \in Nat /\ Next1.header \in Nat
      /\ dict \in Seq(FilesOf) /\ todo \in Seq(FilesOf)
      /\ limit \in Nat /\ base \in Nat /\ total \in Nat /\ pass \in Nat \ {0}
      /\ chunk \in Seq(FilesOf) /\ chunks \in Seq(Prompt(FilesOf)) /\ Len(chunks) \in Nat
      /\ Soft \in Nat /\ request.calls \in Nat /\ pass <= request.calls
      /\ AtStart' /\ FillGood' /\ Fits' /\ Ready'
  BY SplittingIs
<1>2. SoFar = Append(chunks, [files |-> chunk, total |-> total])
  BY DEF SoFar, Chunk
<1>3. ASSUME total + n <= limit - Soft
      PROVE  /\ chunk' \in Seq(FilesOf) /\ total' \in Nat /\ pass' \in Nat \ {0}
             /\ chunks' \in Seq(Prompt(FilesOf)) /\ MultiSizes'
             /\ \/ todo' = todo /\ ShowsTheSame(SoFar, SoFar')
                \/ todo' = Tail(todo) /\ ShowsAlso(SoFar, SoFar', Next1)
  <2>1. /\ chunk' = Append(chunk, Next1) /\ total' = total + n /\ todo' = Tail(todo)
        /\ UNCHANGED <<chunks, pass>>
    <3>1. ~(total + n > limit - Soft)
      BY <1>1, <1>3
    <3> QED
      BY <3>1 DEF Place, InRoom
  <2>2. SoFar' = Append(chunks, [files |-> Append(chunk, Next1), total |-> total'])
    BY <2>1 DEF SoFar, Chunk
  <2>3. chunk' \in Seq(FilesOf) /\ total' \in Nat /\ chunk' # <<>>
    <3>1. chunk' \in Seq(FilesOf) /\ Len(chunk') = Len(chunk) + 1 /\ Len(chunk) \in Nat
      BY <1>1, <2>1
    <3>2. total' \in Nat
      BY <1>1, <2>1
    <3> QED
      BY <3>1, <3>2
  <2>4. ShowsAlso(SoFar, SoFar', Next1)
    BY <1>1, <1>2, <2>2, <2>3, Growing
  <2>5. MultiSizes'
    <3>1. pass' <= request.calls /\ ~(pass' > request.calls)
      BY <1>1, <2>1
    <3> QED
      BY <1>1, <1>3, <2>1, <2>3, <3>1 DEF MultiSizes
  <2> QED
    BY <1>1, <2>1, <2>3, <2>4, <2>5
<1>4. ASSUME ~(total + n <= limit - Soft)
      PROVE  /\ chunk' \in Seq(FilesOf) /\ total' \in Nat /\ pass' \in Nat \ {0}
             /\ chunks' \in Seq(Prompt(FilesOf)) /\ MultiSizes'
             /\ \/ todo' = todo /\ ShowsTheSame(SoFar, SoFar')
                \/ todo' = Tail(todo) /\ ShowsAlso(SoFar, SoFar', Next1)
  <2>1. /\ chunks' = SoFar /\ pass' = pass + 1
        /\ IF pass' > request.calls THEN chunk' = <<>> /\ total' = base /\ todo' = todo
           ELSE chunk' = <<Next1>> /\ total' = base + n /\ todo' = Tail(todo)
    BY <1>4 DEF Place, InRoom, SoFar
  <2>2. /\ SoFar \in Seq(Prompt(FilesOf)) /\ Len(SoFar) = Len(chunks) + 1
        /\ \A k \in 1..Len(chunks) : SoFar[k] = chunks[k]
        /\ SoFar[Len(chunks) + 1] = [files |-> chunk, total |-> total]
    BY <1>1, <1>2, Prompted
  <2>3. chunk # <<>> /\ total <= limit - Soft
    BY <1>1, <1>4 DEF MultiSizes
  <2>4. \A k \in DOMAIN chunks' : chunks'[k].files # <<>> /\ chunks'[k].total <= limit - Soft
    <3> TAKE k \in DOMAIN chunks'
    <3>1. k \in 1..Len(chunks) \/ k = Len(chunks) + 1
      BY <1>1, <2>1, <2>2
    <3>2. CASE k \in 1..Len(chunks)
      <4>1. k \in DOMAIN chunks
        BY <1>1, <3>2
      <4>2. chunks'[k] = chunks[k]
        BY <2>1, <2>2, <3>2
      <4> QED
        BY <1>1, <4>1, <4>2 DEF MultiSizes
    <3>3. CASE k = Len(chunks) + 1
      <4>1. chunks'[k] = [files |-> chunk, total |-> total]
        BY <2>1, <2>2, <3>3
      <4>2. chunks'[k].files = chunk /\ chunks'[k].total = total
        BY <4>1
      <4> QED
        BY <2>3, <4>2
    <3> QED
      BY <3>1, <3>2, <3>3
  <2>5. Len(chunks') = pass' - 1 /\ pass' <= request.calls + 1 /\ pass' \in Nat \ {0}
    BY <1>1, <2>1, <2>2 DEF MultiSizes
  <2>6. CASE pass' > request.calls
    <3>1. chunk' = <<>> /\ total' = base /\ todo' = todo
      BY <2>1, <2>6
    <3>2. SoFar' = Append(SoFar, [files |-> <<>>, total |-> base])
      BY <2>1, <3>1 DEF SoFar, Chunk
    <3>3. ShowsTheSame(SoFar, SoFar')
      BY <1>1, <2>2, <3>2, Closing
    <3>4. chunk' \in Seq(FilesOf)
      BY <3>1
    <3>6. NoRoomLeft'
      <4>1. Len(chunks') = Len(chunks) + 1 /\ chunks' # <<>>
        BY <1>1, <2>1, <2>2
      <4>2. chunks'[Len(chunks')].total = total
        BY <2>1, <2>2, <4>1
      <4>3. Patch' = Patch /\ Patch \in Nat
        BY <1>1, <3>1 DEF Patch, Next1
      <4>4. total + Patch > limit - Soft
        BY <1>1, <1>4, <4>3
      <4> QED
        BY <1>1, <3>1, <4>1, <4>2, <4>3, <4>4 DEF NoRoomLeft
    <3>5. MultiSizes'
      BY <1>1, <2>4, <2>5, <3>1, <3>6 DEF MultiSizes
    <3> QED
      BY <1>1, <2>1, <2>2, <2>5, <3>1, <3>3, <3>4, <3>5
  <2>7. CASE ~(pass' > request.calls)
    <3> DEFINE none == <<>>
               mid == Append(SoFar, [files |-> none, total |-> base])
    <3>1. chunk' = <<Next1>> /\ total' = base + n /\ todo' = Tail(todo)
      BY <2>1, <2>7
    <3>2. none \in Seq(FilesOf) /\ Append(none, Next1) = <<Next1>>
      BY <1>1
    <3>3. ShowsTheSame(SoFar, mid)
      BY <1>1, <2>2, Closing
    <3>4. SoFar' = Append(SoFar, [files |-> Append(none, Next1), total |-> base + n])
      BY <2>1, <3>1, <3>2 DEF SoFar, Chunk
    <3> HIDE DEF none
    <3>5. base + n \in Nat
      BY <1>1
    <3>6. ShowsAlso(mid, SoFar', Next1)
      BY <1>1, <2>2, <3>2, <3>4, <3>5, Growing
    <3> HIDE DEF mid
    <3>7. ShowsAlso(SoFar, SoFar', Next1)
      BY <3>3, <3>6 DEF ShowsAlso, ShowsTheSame
    <3>8. chunk' \in Seq(FilesOf) /\ chunk' # <<>>
      BY <1>1, <3>1
    <3>9. pass' <= request.calls /\ total' <= limit - Soft
      BY <1>1, <2>5, <2>7, <3>1
    <3>10. MultiSizes'
      BY <1>1, <2>4, <2>5, <3>8, <3>9 DEF MultiSizes
    <3> QED
      BY <1>1, <2>1, <2>2, <2>5, <3>1, <3>5, <3>7, <3>8, <3>10
  <2> QED
    BY <2>6, <2>7
<1>5. /\ chunk' \in Seq(FilesOf) /\ total' \in Nat /\ pass' \in Nat \ {0}
      /\ chunks' \in Seq(Prompt(FilesOf)) /\ MultiSizes'
      /\ \/ todo' = todo /\ ShowsTheSame(SoFar, SoFar')
         \/ todo' = Tail(todo) /\ ShowsAlso(SoFar, SoFar', Next1)
  BY <1>3, <1>4
<1>6. MultiMet'
  BY <1>1, <1>5, MetOneMore, MetStill
<1>7. DiffTyped'
  BY <1>1, <1>5 DEF DiffInvariant, DiffTyped
<1>8. MultiGood'
  BY <1>1, <1>5, <1>6 DEF MultiGood
<1> QED
  BY <1>1, <1>7, <1>8 DEF DiffInvariant

LEMMA AddStep ==
    ASSUME DiffInvariant, request \in PullRequests, Add, UNCHANGED request
    PROVE  DiffInvariant'
<1>1. /\ Splitting /\ ~(base + Patch > limit - Soft) /\ Place(Patch)
      /\ UNCHANGED <<limit, stage, base, dict, left, dropped>>
  BY DEF Add, TooLargeAlone
<1>2. Patch \in Nat /\ base + Patch <= limit - Soft /\ Patch <= Patch
  <2>1. /\ Next1.core \in Nat /\ Next1.header \in Nat /\ limit \in Nat /\ base \in Nat
        /\ Soft \in Nat
    BY <1>1, SplittingIs
  <2> QED
    BY <1>1, <2>1 DEF Patch
<1> QED
  BY <1>1, <1>2, PlaceStep

LEMMA ClipStep ==
    ASSUME DiffInvariant, request \in PullRequests, Clip, UNCHANGED request
    PROVE  DiffInvariant'
<1>1. /\ Splitting /\ base + Patch > limit - Soft
      /\ UNCHANGED <<limit, stage, base, dict, left, dropped>>
      /\ \E n \in 1..(limit - Soft - base) : Place(n)
  BY DEF Clip, TooLargeAlone
<1>2. PICK n \in 1..(limit - Soft - base) : Place(n)
  BY <1>1
<1>3. n \in Nat /\ base + n <= limit - Soft /\ n <= Patch
  <2>1. /\ limit \in Nat /\ base \in Nat /\ Soft \in Nat
        /\ Next1.core \in Nat /\ Next1.header \in Nat
    BY <1>1, SplittingIs
  <2> QED
    BY <1>1, <2>1 DEF Patch
<1> QED
  BY <1>1, <1>2, <1>3, PlaceStep

LEMMA LastChunkStep ==
    ASSUME DiffInvariant, request \in PullRequests, LastChunk, UNCHANGED request
    PROVE  DiffInvariant'
<1>1. /\ stage = "multi" /\ stage' = "ready"
      /\ chunks' = IF chunk = <<>> THEN chunks ELSE SoFar
      /\ UNCHANGED <<request, limit, base, dict, todo, total, chunk, pass, left, dropped>>
  BY DEF LastChunk, SoFar
<1>2. /\ limit \in Nat /\ base \in Nat /\ total \in Nat /\ pass \in Nat \ {0}
      /\ dict \in Seq(FilesOf) /\ todo \in Seq(FilesOf) /\ chunk \in Seq(FilesOf)
      /\ chunks \in Seq(Prompt(FilesOf)) /\ FilesOf' = FilesOf
      /\ WellFormed(request) /\ request.calls \in Nat
      /\ Hard \in Nat /\ Soft \in Nat /\ Hard <= Soft
  BY <1>1, RequestIs, ThresholdsAssumption DEF DiffInvariant, DiffTyped, FilesOf, WellFormed
<1>3. /\ request.mode = "multi" /\ dict = Sorted(request)
      /\ MultiMet /\ MultiSizes
  BY <1>1 DEF DiffInvariant, MultiGood
<1>4. /\ SoFar \in Seq(Prompt(FilesOf)) /\ Len(SoFar) = Len(chunks) + 1 /\ Len(chunks) \in Nat
      /\ \A k \in 1..Len(chunks) : SoFar[k] = chunks[k]
      /\ SoFar[Len(chunks) + 1] = [files |-> chunk, total |-> total]
  BY <1>2, Prompted DEF SoFar, Chunk
<1>5. /\ chunks' \in Seq(Prompt(FilesOf)) /\ ShowsTheSame(chunks', SoFar)
      /\ Len(chunks') <= request.calls
      /\ \A k \in DOMAIN chunks' : chunks'[k].files # <<>> /\ chunks'[k].total <= limit - Soft
  <2>1. CASE chunk = <<>>
    <3>1. chunks' = chunks /\ SoFar = Append(chunks, [files |-> <<>>, total |-> total])
      BY <1>1, <2>1 DEF SoFar, Chunk
    <3>2. ShowsTheSame(chunks', SoFar)
      BY <1>2, <3>1, Closing
    <3> QED
      BY <1>2, <1>3, <3>1, <3>2 DEF MultiSizes
  <2>2. CASE chunk # <<>>
    <3>1. chunks' = SoFar
      BY <1>1, <2>2
    <3>2. ShowsTheSame(chunks', SoFar)
      BY <3>1 DEF ShowsTheSame
    <3>3. ASSUME NEW k \in DOMAIN chunks'
          PROVE  chunks'[k].files # <<>> /\ chunks'[k].total <= limit - Soft
      <4>1. k \in 1..Len(chunks) \/ k = Len(chunks) + 1
        BY <1>4, <3>1
      <4>2. CASE k \in 1..Len(chunks)
        <5>1. k \in DOMAIN chunks /\ chunks'[k] = chunks[k]
          BY <1>2, <1>4, <3>1, <4>2
        <5> QED
          BY <1>3, <5>1 DEF MultiSizes
      <4>3. CASE k = Len(chunks) + 1
        BY <1>3, <1>4, <2>2, <3>1, <4>3 DEF MultiSizes
      <4> QED
        BY <4>1, <4>2, <4>3
    <3>4. Len(chunks') <= request.calls
      BY <1>2, <1>3, <1>4, <2>2, <3>1 DEF MultiSizes
    <3> QED
      BY <1>4, <3>1, <3>2, <3>3, <3>4
  <2> QED
    BY <2>1, <2>2
<1>6. DiffTyped'
  BY <1>1, <1>2, <1>5 DEF DiffInvariant, DiffTyped
<1>7. AtStart' /\ FillGood' /\ MultiGood'
  BY <1>1 DEF AtStart, FillGood, MultiGood
<1>8. Fits'
  <2> SUFFICES ASSUME NEW k \in Parts' PROVE chunks'[k].total <= limit - Hard + 2
    BY <1>1 DEF Fits
  <2>1. k \in DOMAIN chunks'
    BY DEF Parts
  <2>2. chunks'[k].total <= limit - Soft /\ chunks'[k].total \in Nat
    <3>1. chunks'[k] \in Prompt(FilesOf)
      BY <1>5, <2>1
    <3>2. chunks'[k].total \in Nat
      BY <3>1 DEF Prompt
    <3> QED
      BY <1>5, <2>1, <3>2
  <2> QED
    BY <1>2, <2>2
<1>9. ShownOnce'
  <2>1. ASSUME NEW f \in FilesOf
        PROVE  Cardinality(PlacesOf(f, chunks')) <= Cardinality(Languages(request, f))
    <3> DEFINE n == Len(dict) - Len(todo)
    <3>1. n \in Nat /\ n <= Len(dict) /\ Len(dict) \in Nat
      BY <1>2, <1>3 DEF MultiMet
    <3>2. /\ IsFiniteSet(Hits(f, SoFar))
          /\ Cardinality(Hits(f, SoFar)) <= Cardinality(Upto(dict, n, f))
      BY <1>3 DEF MultiMet
    <3> HIDE DEF n
    <3>3. PlacesOf(f, chunks') = Hits(f, SoFar)
      <4>1. PlacesOf(f, chunks') = Hits(f, chunks')
        BY <1>5, PlacesAre
      <4>2. Hits(f, SoFar) = Hits(f, chunks')
        BY <1>5 DEF ShowsTheSame, Hits
      <4> QED
        BY <4>1, <4>2
    <3>4. /\ IsFiniteSet(Occurs(dict, f))
          /\ Cardinality(Occurs(dict, f)) <= Cardinality(Languages(request, f))
      BY <1>2, <1>3, SortedIs DEF FilesOf
    <3>5. Upto(dict, n, f) \subseteq Occurs(dict, f)
      BY <3>1 DEF Upto, Occurs
    <3>6. /\ Cardinality(Upto(dict, n, f)) <= Cardinality(Occurs(dict, f))
          /\ Cardinality(Upto(dict, n, f)) \in Nat /\ Cardinality(Occurs(dict, f)) \in Nat
      BY <3>1, <3>4, <3>5, FS_Subset, FS_CardinalityType, UptoIs
    <3>7. Cardinality(Hits(f, SoFar)) \in Nat /\ Cardinality(Languages(request, f)) \in Nat
      BY <1>2, <3>2, FS_CardinalityType, LanguagesAre
    <3> QED
      BY <3>2, <3>3, <3>4, <3>6, <3>7
  <2>2. Candidates' \subseteq FilesOf
    BY <1>1 DEF Candidates, FilesOf
  <2> QED
    BY <1>1, <1>3, <2>1, <2>2 DEF ShownOnce
<1>10. NoFileForgotten'
  <2>1. dropped' = {}
    BY <1>1 DEF DiffInvariant, MultiGood
  <2>2. ASSUME NEW f \in Candidates'
        PROVE  InChunks(f.name)' # {} \/ Outsized(f) \/ f \in ToSet(todo')
    <3>1. f \in ToSet(request.files) /\ f.size > 0 /\ f.core > 0
      BY <1>1 DEF Candidates
    <3>2. PICK n \in 1..Len(dict) : dict[n] = f
      BY <1>2, <1>3, <3>1, SortedIs
    <3> DEFINE m == Len(dict) - Len(todo)
    <3>3. m \in Nat /\ Len(dict) \in Nat /\ Len(todo) \in Nat
      BY <1>2, <1>3 DEF MultiMet
    <3>4. CASE n \in 1..m
      <4>1. f.name \in NamesShown(SoFar) \/ Outsized(f)
        BY <1>3, <3>2, <3>4 DEF MultiMet
      <4>2. ASSUME f.name \in NamesShown(SoFar) PROVE InChunks(f.name)' # {}
        <5>1. f.name \in NamesShown(chunks')
          BY <1>5, <4>2, NamesThen
        <5>2. PICK p \in Spots(chunks') : FileAt(chunks', p).name = f.name
          BY <5>1 DEF NamesShown
        <5>3. p[1] \in DOMAIN chunks' /\ p[2] \in DOMAIN chunks'[p[1]].files
          BY DEF Spots
        <5>4. f.name \in Names(chunks'[p[1]].files)
          BY <5>2, <5>3 DEF Names, FileAt
        <5> QED
          BY <5>3, <5>4 DEF InChunks
      <4> QED
        BY <4>1, <4>2
    <3>5. CASE n \notin 1..m
      <4>1. n - m \in 1..Len(todo) /\ n = m + (n - m)
        BY <3>2, <3>3, <3>5
      <4> HIDE DEF m
      <4>2. todo[n - m] = dict[m + (n - m)]
        BY <1>3, <4>1 DEF MultiMet, m
      <4>3. n - m \in DOMAIN todo /\ todo[n - m] = f
        BY <1>2, <3>2, <4>1, <4>2
      <4> QED
        BY <1>1, <4>3 DEF ToSet
    <3> QED
      BY <3>4, <3>5
  <2> QED
    BY <1>1, <1>3, <2>1, <2>2 DEF NoFileForgotten, Outsized
<1>12. LeftOutForLackOfCalls'
  <2> SUFFICES ASSUME todo # <<>>
               PROVE  /\ Len(chunks') = request.calls
                      /\ chunks'[Len(chunks')].total + Head(todo).core + Head(todo).header
                           > limit - Soft
    BY <1>1, <1>3 DEF LeftOutForLackOfCalls
  <2>1. pass > request.calls
    BY <1>2 DEF LastChunk, CallsLeft
  <2>2. chunk = <<>> /\ NoRoomLeft /\ Len(chunks) = pass - 1 /\ pass <= request.calls + 1
    BY <1>2, <1>3, <2>1 DEF MultiSizes
  <2>3. chunks' = chunks /\ Len(chunks) = request.calls
    BY <1>1, <1>2, <2>1, <2>2
  <2>4. chunks[Len(chunks)].total + Patch > limit - Soft
    BY <2>2 DEF NoRoomLeft
  <2>5. chunks[Len(chunks)].total \in Nat
    <3>1. chunks # <<>>
      BY <2>2 DEF NoRoomLeft
    <3>2. chunks[Len(chunks)] \in Prompt(FilesOf)
      BY <1>2, <3>1
    <3> QED
      BY <3>2 DEF Prompt
  <2>6. Head(todo).core \in Nat /\ Head(todo).header \in Int
    <3>1. Head(todo) \in FilesOf
      BY <1>2, HeadIs
    <3> QED
      BY <1>2, <3>1 DEF WellFormed, FilesOf
  <2> QED
    BY <2>3, <2>4, <2>5, <2>6 DEF Patch, Next1
<1>11. CallsBounded'
  BY <1>1, <1>3, <1>5 DEF CallsBounded
<1> QED
  BY <1>6, <1>7, <1>8, <1>9, <1>10, <1>11, <1>12 DEF DiffInvariant, Ready

LEMMA CutDiffStep ==
    ASSUME DiffInvariant, request \in PullRequests, CutDiff
    PROVE  DiffInvariant'
<1>1. UNCHANGED request
  BY DEF CutDiff
<1>2. CASE FullDiff
  BY <1>1, <1>2, FullDiffStep
<1>3. CASE Prune
  BY <1>1, <1>3, PruneStep
<1>4. CASE HardStop
  BY <1>1, <1>4, HardStopStep
<1>5. CASE LeaveForLater
  BY <1>1, <1>5, LeaveForLaterStep
<1>6. CASE Take
  BY <1>1, <1>6, TakeStep
<1>7. CASE NextPass
  BY <1>1, <1>7, NextPassStep
<1>8. CASE Regroup
  BY <1>1, <1>8, RegroupStep
<1>9. CASE Finish
  BY <1>1, <1>9, FinishStep
<1>10. CASE SkipLarge
  BY <1>1, <1>10, SkipLargeStep
<1>11. CASE Add
  BY <1>1, <1>11, AddStep
<1>12. CASE Clip
  BY <1>1, <1>12, ClipStep
<1>13. CASE LastChunk
  BY <1>1, <1>13, LastChunkStep
<1> QED
  BY <1>2, <1>3, <1>4, <1>5, <1>6, <1>7, <1>8, <1>9, <1>10, <1>11, <1>12, <1>13 DEF CutDiff

-----------------------------------------------------------------------------
(* The invariant of the calls.                                             *)

Preparing == {"extend", "fill", "multi", "ready"}

CallsTyped ==
    /\ number \in Nat \ {0} /\ attempt \in Nat /\ deployment \in Nat /\ pairs \in Seq(Nat)
    /\ results \in Seq(Nat) /\ Len(results) <= request.predictions
    /\ answers \subseteq DOMAIN chunks
    /\ stage \in Preparing => answers = {}
    /\ stage = "idle" => number \in {Len(results), Len(results) + 1}
    /\ stage # "idle" => /\ number = Len(results) + 1 /\ number <= request.predictions
                         /\ Len(pairs) >= Models
    /\ stage = "try" => attempt < Models
    /\ stage \notin {"idle", "try"} => attempt \in 1..Models /\ limit = request.models[attempt]

CallRecords == [number : Nat, attempt : Nat, kind : {"part", "reflection", "header"},
                part : Nat, total : Int, tries : 0..(Retries - 1)]

\* A part and its reflection have the prompt of the part, which was asked before
\* the reflection is; the parts are answered before they are put together.
PromptMade(c) ==
    /\ c.kind # "header" => c.part \in DOMAIN chunks /\ c.total = chunks[c.part].total
    /\ c.kind = "reflection" => AskedNow("part", c.total)
    /\ c.kind = "header" => InParts /\ c.total = Room /\ Parts \subseteq answers

\* A call not answered yet is of a prediction ended, of an attempt abandoned,
\* or of the attempt under way, and then for a prompt that was made for it.
CallGood(c) ==
    /\ c \in CallRecords
    /\ c.attempt \in 1..Models
    /\ \/ c.number \in 1..Len(results)
       \/ stage # "idle" /\ c.number = number /\ c.attempt <= attempt
    /\ c.total <= request.models[c.attempt] - Hard + 2
    /\ c.number = number /\ c.attempt = attempt =>
          /\ stage \notin Preparing
          /\ stage = "sending" => PromptMade(c)
CallsGood == \A c \in waiting : CallGood(c)

FellBack == \E k \in 1..Len(results) : results[k] # 1

\* The settings hold the deployment of the attempt; that of the first is of
\* another model only after a prediction that fell back.
DeploymentsGood ==
    request.fallbacks > 0 =>
        /\ stage # "idle" =>
              /\ \A k \in 1..Models : k > 1 => pairs[k] = k
              /\ pairs[1] = 1 \/ FellBack
        /\ stage \notin {"idle", "try"} \/ (stage = "try" /\ attempt > 0) => deployment = pairs[attempt]
        /\ stage = "idle" => deployment = 1 \/ FellBack
        /\ stage = "try" /\ attempt = 0 => deployment = pairs[1]

SentGood ==
    /\ \A s \in sent : s.number \in 1..(Len(results) + 1) /\ s.attempt \in 1..Models
    /\ stage \in {"sending", "answered"} => \A k \in answers : AskedNow("part", chunks[k].total)

CallsInvariant == CallsTyped /\ CallsGood /\ DeploymentsGood /\ SentGood /\ EachCallItsModel

LEMMA ModelsAre ==
    ASSUME request \in PullRequests
    PROVE  /\ Models \in Nat \ {0} /\ request.fallbacks \in Nat /\ request.predictions \in Nat
           /\ \A k \in 1..Models : request.models[k] \in Nat
<1>1. /\ request.models \in Seq(Nat) /\ request.models # <<>>
      /\ request.fallbacks \in Nat /\ request.predictions \in Nat
  BY ModelsAssumption
<1>2. Len(request.models) \in Nat \ {0} /\ \A k \in 1..Len(request.models) : request.models[k] \in Nat
  BY <1>1
<1> QED
  BY <1>1, <1>2 DEF Models

LEMMA PartsAre ==
    ASSUME DiffInvariant
    PROVE  Parts \subseteq DOMAIN chunks /\ DOMAIN chunks \subseteq Nat
           /\ \A k \in DOMAIN chunks : chunks[k].total \in Nat
<1>1. chunks \in Seq(Prompt(FilesOf))
  BY DEF DiffInvariant, DiffTyped
<1>2. DOMAIN chunks \subseteq Nat /\ \A k \in DOMAIN chunks : chunks[k] \in Prompt(FilesOf)
  BY <1>1
<1>3. \A k \in DOMAIN chunks : chunks[k].total \in Nat
  BY <1>2 DEF Prompt
<1> QED
  BY <1>2, <1>3 DEF Parts, InParts

LEMMA PartsStay ==
    ASSUME UNCHANGED <<request, limit, base, chunks>>
    PROVE  Models' = Models /\ Parts' = Parts /\ InParts' = InParts /\ Room' = Room
  BY DEF Models, Parts, InParts, Room

\* What was asked in an attempt stays asked.
LEMMA AskedStill ==
    ASSUME sent \subseteq sent', UNCHANGED <<number, attempt>>,
           NEW kind, NEW tokens, AskedNow(kind, tokens)
    PROVE  AskedNow(kind, tokens)'
  BY DEF AskedNow

LEMMA PromptMadeStill ==
    ASSUME sent \subseteq sent', answers \subseteq answers',
           UNCHANGED <<request, limit, base, chunks, number, attempt>>,
           NEW c, PromptMade(c)
    PROVE  PromptMade(c)'
<1>1. Parts' = Parts /\ InParts' = InParts /\ Room' = Room
  BY PartsStay
<1>2. c.kind = "reflection" => AskedNow("part", c.total)'
  BY AskedStill DEF PromptMade
<1> QED
  BY <1>1, <1>2 DEF PromptMade

\* What was asked stays right when a prediction ends and another call is made.
LEMMA Asked ==
    ASSUME CallsInvariant, request \in PullRequests, UNCHANGED request,
           results' = results \/ \E r \in Nat : results' = Append(results, r),
           sent' = sent \/ \E c \in waiting : Ask(c)
    PROVE  /\ FitsItsModel' /\ OwnDeployment'
           /\ \A s \in sent' : s.number \in 1..(Len(results') + 1) /\ s.attempt \in 1..Models'
<1>1. /\ results \in Seq(Nat) /\ Len(results) \in Nat /\ number \in Nat /\ attempt \in Nat
      /\ stage # "idle" => number = Len(results) + 1
  BY DEF CallsInvariant, CallsTyped
<1>2. /\ Len(results') \in Nat /\ Len(results) <= Len(results')
      /\ \A k \in 1..Len(results) : results'[k] = results[k]
  <2>1. CASE results' = results
    BY <1>1, <2>1
  <2>2. CASE \E r \in Nat : results' = Append(results, r)
    <3>1. PICK r \in Nat : results' = Append(results, r)
      BY <2>2
    <3>2. Len(results') = Len(results) + 1
      BY <1>1, <3>1
    <3>3. \A k \in 1..Len(results) : results'[k] = results[k]
      BY <1>1, <3>1
    <3> QED
      BY <1>1, <3>2, <3>3
  <2> QED
    BY <2>1, <2>2
<1>3. Models' = Models
  BY DEF Models
<1>4. ASSUME NEW s \in sent'
      PROVE  /\ s.number \in 1..(Len(results) + 1) /\ s.attempt \in 1..Models
             /\ s.total <= request.models[s.attempt] - Hard + 2
             /\ s.model # s.attempt =>
                   /\ s.kind = "reflection"
                   /\ IF request.reasoning THEN s.model = 0 ELSE s.model = 1 /\ s.attempt > 2
             /\ request.fallbacks > 0 /\ s.current /\ s.deployment # s.attempt =>
                   /\ s.attempt = 1 /\ s.number > 1
                   /\ \E k \in 1..(s.number - 1) : results[k] # 1
  <2>1. CASE s \in sent
    BY <2>1 DEF CallsInvariant, SentGood, EachCallItsModel, FitsItsModel, OwnDeployment
  <2>2. CASE s \notin sent
    <3>1. PICK c \in waiting : Ask(c)
      BY <2>2
    <3>2. s = [number |-> c.number, attempt |-> c.attempt, kind |-> c.kind, model |-> ModelOf(c),
               deployment |-> deployment, total |-> c.total, current |-> Current(c)]
      BY <2>2, <3>1 DEF Ask
    <3>3. CallGood(c)
      BY DEF CallsInvariant, CallsGood
    <3>4. /\ s.number = c.number /\ s.attempt = c.attempt /\ s.total = c.total
          /\ s.kind = c.kind /\ s.model = ModelOf(c) /\ s.deployment = deployment
      BY <3>2
    <3>5. c.number \in 1..(Len(results) + 1) /\ c.attempt \in 1..Models
          /\ c.total <= request.models[c.attempt] - Hard + 2
      BY <1>1, <3>3 DEF CallGood
    <3>7. c.attempt \in Nat /\ c.attempt > 0
      BY <1>1, <3>3, <3>5 DEF CallGood, CallRecords
    <3>8. s.model # s.attempt =>
             /\ s.kind = "reflection"
             /\ IF request.reasoning THEN s.model = 0 ELSE s.model = 1 /\ s.attempt > 2
      BY <3>4, <3>7 DEF ModelOf
    <3>6. ASSUME request.fallbacks > 0, s.current, s.deployment # s.attempt
          PROVE  /\ s.attempt = 1 /\ s.number > 1
                 /\ \E k \in 1..(s.number - 1) : results[k] # 1
      <4>1. Current(c)
        BY <3>2, <3>6, Zenon
      <4>2. stage = "sending" /\ c.number = number /\ c.attempt = attempt
        BY <4>1 DEF Current
      <4>3. /\ deployment = pairs[attempt] /\ (pairs[1] = 1 \/ FellBack)
            /\ \A k \in 1..Models : k > 1 => pairs[k] = k
        BY <3>6, <4>2 DEF CallsInvariant, DeploymentsGood
      <4>4. attempt = 1
        BY <3>4, <3>5, <3>6, <4>2, <4>3
      <4>5. FellBack /\ number - 1 = Len(results)
        BY <1>1, <3>4, <3>6, <4>2, <4>3, <4>4
      <4>6. PICK k \in 1..Len(results) : results[k] # 1
        BY <4>5 DEF FellBack
      <4> QED
        BY <1>1, <3>4, <4>2, <4>4, <4>5, <4>6
    <3> QED
      BY <3>4, <3>5, <3>6, <3>8
  <2> QED
    BY <2>1, <2>2
<1>5. FitsItsModel'
  BY <1>4 DEF FitsItsModel
<1>6. OwnDeployment'
  <2> SUFFICES ASSUME request.fallbacks > 0, NEW s \in sent', s.current, s.deployment # s.attempt
               PROVE  /\ s.attempt = 1 /\ s.number > 1
                      /\ \E k \in 1..(s.number - 1) : results'[k] # 1
    BY DEF OwnDeployment
  <2>1. /\ s.attempt = 1 /\ s.number > 1 /\ s.number \in 1..(Len(results) + 1)
        /\ \E k \in 1..(s.number - 1) : results[k] # 1
    BY <1>4
  <2>2. PICK k \in 1..(s.number - 1) : results[k] # 1
    BY <2>1
  <2>3. k \in 1..Len(results)
    BY <1>1, <2>1
  <2> QED
    BY <1>2, <2>1, <2>2, <2>3
<1>7. \A s \in sent' : s.number \in 1..(Len(results') + 1) /\ s.attempt \in 1..Models'
  BY <1>1, <1>2, <1>3, <1>4
<1> QED
  BY <1>5, <1>6, <1>7

\* A prediction ends.
LEMMA Ended ==
    ASSUME DiffInvariant, CallsInvariant, request \in PullRequests, stage \notin {"idle", "try"},
           NEW r \in {0, attempt}, EndWith(r),
           UNCHANGED <<request, limit, chunks, deployment>>, waiting' \subseteq waiting
    PROVE  CallsTyped' /\ CallsGood' /\ DeploymentsGood'
<1>1. /\ number \in Nat \ {0} /\ attempt \in 1..Models /\ results \in Seq(Nat)
      /\ number = Len(results) + 1 /\ number <= request.predictions /\ Len(results) \in Nat
      /\ Models' = Models /\ Models \in Nat /\ attempt \in Nat
  <2>1. Models \in Nat
    BY ModelsAre
  <2> QED
    BY <2>1 DEF CallsInvariant, CallsTyped, Models
<1>2. /\ results' = Append(results, r) /\ stage' = "idle"
      /\ UNCHANGED <<number, pairs, attempt, answers>>
  BY DEF EndWith
<1>3. /\ results' \in Seq(Nat) /\ Len(results') = Len(results) + 1
      /\ \A k \in 1..Len(results) : results'[k] = results[k]
      /\ results'[Len(results) + 1] = r
  BY <1>1, <1>2
<1>4. CallsTyped'
  <2>1. Len(results') <= request'.predictions
    BY <1>1, <1>3
  <2>2. stage' = "idle" => number' <= Len(results') + 1
    BY <1>1, <1>2, <1>3
  <2> QED
    BY <1>1, <1>2, <1>3, <2>1, <2>2 DEF CallsInvariant, CallsTyped, Preparing
<1>5. CallsGood'
  <2> SUFFICES ASSUME NEW c \in waiting' PROVE CallGood(c)'
    BY DEF CallsGood
  <2>1. CallGood(c)
    BY DEF CallsInvariant, CallsGood
  <2>2. c.number \in 1..Len(results')
    BY <1>1, <1>3, <2>1 DEF CallGood
  <2> QED
    BY <1>1, <1>2, <2>1, <2>2 DEF CallGood, Preparing
<1>6. DeploymentsGood'
  <2> SUFFICES ASSUME request.fallbacks > 0 PROVE deployment = 1 \/ FellBack'
    BY <1>2 DEF DeploymentsGood
  <2>1. /\ deployment = pairs[attempt] /\ (pairs[1] = 1 \/ FellBack)
    BY DEF CallsInvariant, DeploymentsGood
  <2>2. FellBack => FellBack'
    <3>1. 1..Len(results) \subseteq 1..Len(results')
      BY <1>1, <1>3
    <3> QED
      BY <1>3, <3>1 DEF FellBack
  <2>3. CASE attempt = 1
    BY <2>1, <2>2, <2>3
  <2>4. CASE attempt # 1
    <3>1. results'[Len(results')] # 1 /\ Len(results') \in 1..Len(results')
      BY <1>1, <1>3, <2>4
    <3> QED
      BY <3>1 DEF FellBack
  <2> QED
    BY <2>3, <2>4
<1> QED
  BY <1>4, <1>5, <1>6

\* An attempt fails and another is made.
LEMMA Retried ==
    ASSUME DiffInvariant, CallsInvariant, request \in PullRequests, stage \notin {"idle", "try"},
           attempt # Models, stage' = "try",
           UNCHANGED <<request, limit, chunks, deployment, number, pairs, attempt, answers, results>>,
           waiting' \subseteq waiting
    PROVE  CallsTyped' /\ CallsGood' /\ DeploymentsGood'
<1>1. /\ attempt \in 1..Models /\ Models' = Models /\ Models \in Nat /\ attempt < Models
      /\ stage # "idle"
  <2>1. Models \in Nat
    BY ModelsAre
  <2> QED
    BY <2>1 DEF CallsInvariant, CallsTyped, Models
<1>2. CallsTyped'
  BY <1>1 DEF CallsInvariant, CallsTyped, Preparing
<1>3. CallsGood'
  <2> SUFFICES ASSUME NEW c \in waiting' PROVE CallGood(c)'
    BY DEF CallsGood
  <2>1. CallGood(c)
    BY DEF CallsInvariant, CallsGood
  <2> QED
    BY <1>1, <2>1 DEF CallGood, Preparing
<1>4. DeploymentsGood'
  BY <1>1 DEF CallsInvariant, DeploymentsGood, FellBack
<1> QED
  BY <1>2, <1>3, <1>4

LEMMA Failed ==
    ASSUME DiffInvariant, CallsInvariant, request \in PullRequests, stage \notin {"idle", "try"},
           Fail, UNCHANGED <<request, limit, chunks, deployment>>, waiting' \subseteq waiting
    PROVE  /\ CallsTyped' /\ CallsGood' /\ DeploymentsGood'
           /\ stage' \in {"idle", "try"}
           /\ results' = results \/ \E r \in Nat : results' = Append(results, r)
<1>1. CASE attempt = Models
  <2>1. EndWith(0)
    BY <1>1 DEF Fail
  <2>2. CallsTyped' /\ CallsGood' /\ DeploymentsGood'
    BY <2>1, Ended
  <2>3. stage' = "idle" /\ results' = Append(results, 0)
    BY <2>1 DEF EndWith
  <2> QED
    BY <2>2, <2>3
<1>2. CASE attempt # Models
  <2>1. stage' = "try" /\ UNCHANGED <<number, pairs, attempt, answers, results>>
    BY <1>2 DEF Fail
  <2>2. CallsTyped' /\ CallsGood' /\ DeploymentsGood'
    BY <1>2, <2>1, Retried
  <2> QED
    BY <2>1, <2>2
<1> QED
  BY <1>1, <1>2

LEMMA NotSending ==
    ASSUME stage' \notin {"sending", "answered"},
           /\ FitsItsModel' /\ OwnDeployment'
           /\ \A s \in sent' : s.number \in 1..(Len(results') + 1) /\ s.attempt \in 1..Models'
    PROVE  SentGood' /\ EachCallItsModel'
  BY DEF SentGood, EachCallItsModel, OneModelPerAnswer

LEMMA BeginStep ==
    ASSUME DiffInvariant, CallsInvariant, request \in PullRequests, Begin
    PROVE  DiffInvariant' /\ CallsInvariant'
<1>1. /\ stage = "idle" /\ Len(results) < request.predictions
      /\ number' = Len(results) + 1 /\ pairs' = Deployments /\ attempt' = 0 /\ answers' = {}
      /\ UNCHANGED <<request, limit, base, dict, todo, total, chunk, chunks, pass, left,
                     dropped, deployment, waiting, sent>>
      /\ \/ /\ request.fallbacks # 0 /\ Len(Deployments) < Models
            /\ results' = Append(results, 0) /\ stage' = "idle"
         \/ /\ ~(request.fallbacks # 0 /\ Len(Deployments) < Models)
            /\ results' = results /\ stage' = "try"
  BY DEF Begin
<1>2. /\ Models \in Nat \ {0} /\ request.fallbacks \in Nat /\ request.predictions \in Nat
      /\ Models' = Models
  BY <1>1, ModelsAre DEF Models
<1>3. results \in Seq(Nat) /\ Len(results) \in Nat /\ deployment \in Nat
  BY DEF CallsInvariant, CallsTyped
<1>4. /\ pairs' \in Seq(Nat)
      /\ request.fallbacks = 0 => Len(pairs') = Models
      /\ request.fallbacks # 0 =>
            /\ Len(pairs') = request.fallbacks + 1 /\ pairs'[1] = deployment
            /\ \A k \in 1..Len(pairs') : k > 1 => pairs'[k] = k
  <2>1. CASE request.fallbacks = 0
    <3>1. pairs' = [k \in 1..Models |-> deployment]
      BY <1>1, <2>1 DEF Deployments
    <3> QED
      BY <1>2, <1>3, <2>1, <3>1
  <2>2. CASE request.fallbacks # 0
    <3> DEFINE p == [k \in 1..(request.fallbacks + 1) |-> IF k = 1 THEN deployment ELSE k]
    <3>1. pairs' = p
      BY <1>1, <2>2 DEF Deployments
    <3>2. \A k \in 1..(request.fallbacks + 1) :
             p[k] \in Nat /\ (k = 1 => p[k] = deployment) /\ (k > 1 => p[k] = k)
      BY <1>2, <1>3
    <3>3. p \in [1..(request.fallbacks + 1) -> Nat]
      BY <1>2, <1>3
    <3> HIDE DEF p
    <3>4. p \in Seq(Nat) /\ Len(p) = request.fallbacks + 1
      BY <1>2, <3>3
    <3>5. 1 \in 1..(request.fallbacks + 1)
      BY <1>2
    <3> QED
      BY <2>2, <3>1, <3>2, <3>4, <3>5
  <2> QED
    BY <2>1, <2>2
<1>5. /\ results' \in Seq(Nat) /\ Len(results') \in Nat
      /\ Len(results) <= Len(results') /\ Len(results') <= request.predictions
      /\ stage' = "idle" => Len(results') = Len(results) + 1 /\ results'[Len(results) + 1] = 0
      /\ stage' = "try" => results' = results
  <2>1. CASE results' = Append(results, 0) /\ stage' = "idle"
    <3>1. /\ results' \in Seq(Nat) /\ Len(results') = Len(results) + 1
          /\ results'[Len(results) + 1] = 0
      BY <1>3, <2>1
    <3> QED
      BY <1>1, <1>2, <1>3, <2>1, <3>1
  <2>2. CASE results' = results /\ stage' = "try"
    BY <1>1, <1>2, <1>3, <2>2
  <2> QED
    BY <1>1, <2>1, <2>2
<1>6. results' = results \/ \E r \in Nat : results' = Append(results, r)
  BY <1>1
<1>7. CallsTyped'
  <2>1. number' \in Nat \ {0} /\ number' <= request.predictions
    BY <1>1, <1>2, <1>3
  <2>2. stage' = "idle" => number' <= Len(results') + 1
    BY <1>1, <1>3, <1>5
  <2>3. stage' = "try" =>
           /\ number' = Len(results') + 1 /\ Len(pairs') >= Models /\ attempt' < Models
    BY <1>1, <1>2, <1>4, <1>5
  <2>4. stage' \in {"idle", "try"}
    BY <1>1
  <2> QED
    BY <1>1, <1>2, <1>3, <1>4, <1>5, <2>1, <2>2, <2>3, <2>4 DEF CallsTyped, Preparing
<1>8. CallsGood'
  <2> SUFFICES ASSUME NEW c \in waiting' PROVE CallGood(c)'
    BY DEF CallsGood
  <2>1. CallGood(c)
    BY <1>1 DEF CallsInvariant, CallsGood
  <2>2. c.number \in 1..Len(results)
    BY <1>1, <2>1 DEF CallGood
  <2>3. c.number \in 1..Len(results') /\ c.number # number'
    BY <1>1, <1>3, <1>5, <2>2
  <2> QED
    BY <1>1, <1>2, <2>1, <2>3 DEF CallGood
<1>9. DeploymentsGood'
  <2> SUFFICES ASSUME request.fallbacks > 0
               PROVE  /\ stage' = "idle" => FellBack'
                      /\ stage' # "idle" =>
                            /\ \A k \in 1..Models : k > 1 => pairs'[k] = k
                            /\ pairs'[1] = 1 \/ FellBack'
                            /\ deployment = pairs'[1]
    BY <1>1, <1>2 DEF DeploymentsGood
  <2>1. ASSUME stage' = "idle" PROVE FellBack'
    <3>1. Len(results) + 1 \in 1..Len(results') /\ results'[Len(results) + 1] # 1
      BY <1>3, <1>5, <2>1
    <3> QED
      BY <3>1 DEF FellBack
  <2>2. ASSUME stage' # "idle"
        PROVE  /\ \A k \in 1..Models : k > 1 => pairs'[k] = k
               /\ pairs'[1] = 1 \/ FellBack'
               /\ deployment = pairs'[1]
    <3>1. request.fallbacks # 0
      BY <1>2
    <3>2. Len(pairs') >= Models /\ Len(pairs') \in Nat
      BY <1>1, <1>2, <1>4, <2>2, <3>1
    <3>3. \A k \in 1..Models : k > 1 => pairs'[k] = k
      BY <1>2, <1>4, <3>1, <3>2
    <3>4. deployment = 1 \/ FellBack
      BY <1>1 DEF CallsInvariant, DeploymentsGood
    <3>5. FellBack' = FellBack
      BY <1>1, <2>2 DEF FellBack
    <3> QED
      BY <1>4, <3>1, <3>3, <3>4, <3>5
  <2> QED
    BY <2>1, <2>2
<1>10. SentGood' /\ EachCallItsModel'
  BY <1>1, <1>6, Asked, NotSending
<1>11. DiffInvariant'
  BY <1>1, Quiet
<1> QED
  BY <1>7, <1>8, <1>9, <1>10, <1>11 DEF CallsInvariant

LEMMA TryStep ==
    ASSUME DiffInvariant, CallsInvariant, request \in PullRequests, Try
    PROVE  DiffInvariant' /\ CallsInvariant'
<1>1. /\ stage = "try" /\ attempt' = attempt + 1 /\ deployment' = pairs[attempt'] /\ answers' = {}
      /\ StartDiff(request.models[attempt'])
      /\ UNCHANGED <<request, number, pairs, waiting, results, sent>>
  BY DEF Try
<1>2. /\ Models \in Nat \ {0} /\ Models' = Models
      /\ \A k \in 1..Models : request.models[k] \in Nat
  BY <1>1, ModelsAre DEF Models
<1>3. /\ attempt' \in 1..Models /\ attempt \in Nat /\ pairs \in Seq(Nat) /\ Len(pairs) >= Models
      /\ number = Len(results) + 1 /\ number <= request.predictions /\ Len(results) \in Nat
  BY <1>1, <1>2 DEF CallsInvariant, CallsTyped
<1>4. stage' = "extend" /\ limit' = request.models[attempt'] /\ chunks' = <<>>
  BY <1>1 DEF StartDiff
<1>5. limit' \in Nat /\ pairs[attempt'] \in Nat
  BY <1>2, <1>3, <1>4
<1>6. CallsTyped'
  BY <1>1, <1>2, <1>3, <1>4, <1>5 DEF CallsInvariant, CallsTyped
<1>7. CallsGood'
  <2> SUFFICES ASSUME NEW c \in waiting' PROVE CallGood(c)'
    BY DEF CallsGood
  <2>1. CallGood(c)
    BY <1>1 DEF CallsInvariant, CallsGood
  <2>2. /\ \/ c.number \in 1..Len(results) /\ c.number # number
           \/ c.number = number /\ c.attempt <= attempt' /\ c.attempt # attempt'
    <3>1. c.attempt \in Nat /\ c.number \in Nat
      BY <2>1 DEF CallGood, CallRecords
    <3>2. c.number \in 1..Len(results) \/ (c.number = number /\ c.attempt <= attempt)
      BY <2>1 DEF CallGood
    <3>3. attempt' = attempt + 1 /\ number = Len(results) + 1
      BY <1>1, <1>3
    <3> QED
      BY <1>3, <3>1, <3>2, <3>3
  <2> QED
    BY <1>1, <1>2, <1>4, <2>1, <2>2 DEF CallGood
<1>8. DeploymentsGood'
  BY <1>1, <1>2, <1>3, <1>4 DEF CallsInvariant, DeploymentsGood, FellBack
<1>9. SentGood' /\ EachCallItsModel'
  <2>1. stage' \notin {"sending", "answered"}
    BY <1>4
  <2> QED
    BY <1>1, <2>1, Asked, NotSending
<1>10. DiffInvariant'
  BY <1>1, <1>4, <1>5, Started
<1> QED
  BY <1>6, <1>7, <1>8, <1>9, <1>10 DEF CallsInvariant

LEMMA NoLimitStep ==
    ASSUME DiffInvariant, CallsInvariant, request \in PullRequests, NoLimit
    PROVE  DiffInvariant' /\ CallsInvariant'
<1>1. /\ stage = "extend" /\ Fail
      /\ UNCHANGED <<request, limit, base, dict, todo, total, chunk, chunks, pass, left,
                     dropped, deployment, waiting, sent>>
  BY DEF NoLimit
<1>2. /\ CallsTyped' /\ CallsGood' /\ DeploymentsGood'
      /\ stage' \in {"idle", "try"}
      /\ results' = results \/ \E r \in Nat : results' = Append(results, r)
  BY <1>1, Failed
<1>3. SentGood' /\ EachCallItsModel'
  BY <1>1, <1>2, Asked, NotSending
<1>4. DiffInvariant'
  BY <1>1, <1>2, Quiet
<1> QED
  BY <1>2, <1>3, <1>4 DEF CallsInvariant

LEMMA ReturnStep ==
    ASSUME DiffInvariant, CallsInvariant, request \in PullRequests, Return
    PROVE  DiffInvariant' /\ CallsInvariant'
<1>1. /\ stage = "answered" /\ EndWith(attempt)
      /\ UNCHANGED <<request, limit, base, dict, todo, total, chunk, chunks, pass, left,
                     dropped, deployment, waiting, sent>>
  BY DEF Return
<1>2. stage' = "idle" /\ results' = Append(results, attempt) /\ attempt \in Nat
  BY <1>1 DEF EndWith, CallsInvariant, CallsTyped
<1>3. CallsTyped' /\ CallsGood' /\ DeploymentsGood'
  BY <1>1, Ended
<1>4. SentGood' /\ EachCallItsModel'
  BY <1>1, <1>2, Asked, NotSending
<1>5. DiffInvariant'
  BY <1>1, <1>2, Quiet
<1> QED
  BY <1>3, <1>4, <1>5 DEF CallsInvariant

\* A step of the loop over the files: nothing is under way for this attempt.
LEMMA PrepareStep ==
    ASSUME DiffInvariant, CallsInvariant, request \in PullRequests, Prepare
    PROVE  DiffInvariant' /\ CallsInvariant'
<1>1. CutDiff /\ UNCHANGED callVars /\ UNCHANGED request
  BY DEF Prepare, CutDiff
<1>2. UNCHANGED <<number, pairs, attempt, deployment, waiting, answers, results, sent>>
  BY <1>1 DEF callVars
<1>3. stage \in Preparing /\ stage' \in Preparing /\ limit' = limit
  BY <1>1 DEF CutDiff, FullDiff, Prune, HardStop, LeaveForLater, Take, NextPass, Regroup, Finish,
              SkipLarge, Add, Clip, LastChunk, Filling, Splitting, Cut, Preparing
<1>4. /\ stage \notin {"idle", "try", "sending", "answered"}
      /\ stage' \notin {"idle", "try", "sending", "answered"}
  BY <1>3 DEF Preparing
<1>5. answers = {} /\ Models' = Models
  BY <1>1, <1>3 DEF CallsInvariant, CallsTyped, Models
<1>6. CallsTyped'
  BY <1>1, <1>2, <1>3, <1>4, <1>5 DEF CallsInvariant, CallsTyped
<1>7. CallsGood'
  <2> SUFFICES ASSUME NEW c \in waiting' PROVE CallGood(c)'
    BY DEF CallsGood
  <2>1. CallGood(c)
    BY <1>2 DEF CallsInvariant, CallsGood
  <2>2. ~(c.number = number /\ c.attempt = attempt)
    BY <1>3, <2>1 DEF CallGood
  <2> QED
    BY <1>1, <1>2, <1>4, <1>5, <2>1, <2>2 DEF CallGood
<1>8. DeploymentsGood'
  BY <1>1, <1>2, <1>4, <1>5 DEF CallsInvariant, DeploymentsGood, FellBack
<1>9. SentGood' /\ EachCallItsModel'
  BY <1>1, <1>2, <1>4, Asked, NotSending
<1>10. DiffInvariant'
  BY <1>1, CutDiffStep
<1> QED
  BY <1>6, <1>7, <1>8, <1>9, <1>10 DEF CallsInvariant

\* A call for a part of the diff cut for this attempt, or to put the parts together.
LEMMA CallIsGood ==
    ASSUME DiffInvariant, CallsInvariant, request \in PullRequests,
           stage \in {"ready", "sending"}, stage' \in {"sending", "answered"},
           UNCHANGED <<request, limit, base, chunks, number, attempt, results>>,
           NEW c,
           \/ \E k \in Parts : c = PartCall(k)
           \/ c = HeaderCall /\ InParts /\ Parts \subseteq answers'
    PROVE  CallGood(c)'
<1>1. Models' = Models /\ Parts' = Parts /\ InParts' = InParts /\ Room' = Room
  BY PartsStay
<1>2. /\ number \in Nat /\ attempt \in 1..Models /\ limit = request.models[attempt]
      /\ attempt \in Nat
  BY DEF CallsInvariant, CallsTyped, Preparing
<1>3. 0 \in 0..(Retries - 1)
  BY RetriesAssumption
<1>4. stage' \notin Preparing /\ stage' # "idle" /\ stage \notin {"idle", "try"}
  BY DEF Preparing
<1>5. /\ c \in CallRecords /\ c.number = number /\ c.attempt = attempt
      /\ c.total <= limit - Hard + 2
      /\ PromptMade(c)'
  <2>1. ASSUME NEW k \in Parts, c = PartCall(k)
        PROVE  /\ c \in CallRecords /\ c.number = number /\ c.attempt = attempt
               /\ c.total <= limit - Hard + 2
               /\ PromptMade(c)'
    <3>1. k \in DOMAIN chunks /\ k \in Nat /\ chunks[k].total \in Nat
      BY PartsAre
    <3>2. c = [number |-> number, attempt |-> attempt, kind |-> "part", part |-> k,
               total |-> chunks[k].total, tries |-> 0]
      BY <2>1 DEF PartCall, Call
    <3>3. /\ c.number = number /\ c.attempt = attempt /\ c.kind = "part" /\ c.part = k
          /\ c.total = chunks[k].total
      BY <3>2
    <3>4. c \in CallRecords
      BY <1>2, <1>3, <3>1, <3>2 DEF CallRecords
    <3>5. c.total <= limit - Hard + 2
      BY <3>1, <3>3 DEF DiffInvariant, Fits
    <3>6. PromptMade(c)'
      BY <3>1, <3>3 DEF PromptMade
    <3> QED
      BY <3>3, <3>4, <3>5, <3>6
  <2>2. ASSUME c = HeaderCall, InParts, Parts \subseteq answers'
        PROVE  /\ c \in CallRecords /\ c.number = number /\ c.attempt = attempt
               /\ c.total <= limit - Hard + 2
               /\ PromptMade(c)'
    <3>1. limit \in Nat /\ Hard \in Nat
      BY ThresholdsAssumption DEF DiffInvariant, DiffTyped
    <3>2. Room \in Int /\ Room <= limit - Hard + 2
      BY <3>1 DEF Room
    <3>3. c = [number |-> number, attempt |-> attempt, kind |-> "header", part |-> 0,
               total |-> Room, tries |-> 0]
      BY <2>2 DEF HeaderCall, Call
    <3>4. /\ c.number = number /\ c.attempt = attempt /\ c.kind = "header" /\ c.total = Room
      BY <3>3
    <3>5. c \in CallRecords
      BY <1>2, <1>3, <3>2, <3>3 DEF CallRecords
    <3>6. PromptMade(c)'
      BY <1>1, <2>2, <3>4 DEF PromptMade
    <3> QED
      BY <3>2, <3>4, <3>5, <3>6
  <2> QED
    BY <2>1, <2>2
<1> QED
  BY <1>1, <1>2, <1>4, <1>5 DEF CallGood

LEMMA LowestIn ==
    ASSUME NEW T, T \subseteq Nat, T # {}
    PROVE  (CHOOSE k \in T : \A j \in T : k <= j) \in T
<1>1. \E k \in T : \A j \in T : k <= j
  BY Least
<1> QED
  BY <1>1, Zenon

\* The calls that follow are for parts not answered, or put the parts together.
LEMMA NextCallsAre ==
    ASSUME DiffInvariant, NEW unanswered, unanswered \subseteq Parts, NEW c \in NextCalls(unanswered)
    PROVE  \/ \E k \in Parts : c = PartCall(k)
           \/ c = HeaderCall /\ InParts /\ unanswered = {}
<1>1. CASE unanswered = {}
  BY <1>1 DEF NextCalls
<1>2. CASE unanswered # {}
  <2>1. unanswered \subseteq Nat
    BY PartsAre
  <2>2. (CHOOSE k \in unanswered : \A j \in unanswered : k <= j) \in unanswered
    BY <1>2, <2>1, LowestIn, Zenon
  <2>3. c = PartCall(CHOOSE k \in unanswered : \A j \in unanswered : k <= j)
    BY <1>2 DEF NextCalls
  <2> QED
    BY <2>2, <2>3
<1> QED
  BY <1>1, <1>2

LEMMA SendPartsStep ==
    ASSUME DiffInvariant, CallsInvariant, request \in PullRequests, SendParts
    PROVE  DiffInvariant' /\ CallsInvariant'
<1>1. /\ stage = "ready" /\ stage' = AfterParts(Parts)
      /\ UNCHANGED <<request, limit, base, dict, todo, total, chunk, chunks, pass, left, dropped,
                     number, pairs, attempt, deployment, answers, results, sent>>
      /\ waiting' = waiting \cup NextCalls(Parts)
                     \cup (IF request.parallel THEN {PartCall(k) : k \in Parts} ELSE {})
  BY DEF SendParts
<1>2. \A c \in waiting' :
         \/ c \in waiting
         \/ \E k \in Parts : c = PartCall(k)
         \/ c = HeaderCall /\ InParts /\ Parts = {}
  <2> SUFFICES ASSUME NEW c \in waiting', c \notin waiting
               PROVE  \/ \E k \in Parts : c = PartCall(k)
                      \/ c = HeaderCall /\ InParts /\ Parts = {}
    OBVIOUS
  <2>1. CASE c \in NextCalls(Parts)
    BY <2>1, NextCallsAre
  <2>2. CASE c \notin NextCalls(Parts)
    BY <1>1, <2>2
  <2> QED
    BY <2>1, <2>2
<1>3. /\ stage' \in {"sending", "answered"} /\ answers = {}
      /\ stage \in Preparing /\ stage' \notin Preparing
  BY <1>1 DEF CallsInvariant, CallsTyped, Preparing, AfterParts
<1>4. Models' = Models /\ Parts' = Parts /\ InParts' = InParts
  BY <1>1, PartsStay
<1>5. CallsTyped'
  BY <1>1, <1>3, <1>4 DEF CallsInvariant, CallsTyped
<1>6. CallsGood'
  <2> SUFFICES ASSUME NEW c \in waiting' PROVE CallGood(c)'
    BY DEF CallsGood
  <2>1. CASE c \in waiting
    <3>1. CallGood(c)
      BY <2>1 DEF CallsInvariant, CallsGood
    <3>2. ~(c.number = number /\ c.attempt = attempt)
      BY <1>3, <3>1 DEF CallGood
    <3> QED
      BY <1>1, <1>3, <1>4, <3>1, <3>2 DEF CallGood
  <2>2. CASE c \notin waiting
    BY <1>1, <1>2, <1>3, <2>2, CallIsGood
  <2> QED
    BY <2>1, <2>2
<1>7. DeploymentsGood'
  BY <1>1, <1>3, <1>4 DEF CallsInvariant, DeploymentsGood, FellBack
<1>8. /\ FitsItsModel' /\ OwnDeployment'
      /\ \A s \in sent' : s.number \in 1..(Len(results') + 1) /\ s.attempt \in 1..Models'
  BY <1>1, Asked
<1>9. SentGood'
  BY <1>1, <1>3, <1>8 DEF SentGood
<1>10. OneModelPerAnswer'
  BY <1>1, <1>4 DEF OneModelPerAnswer, AfterParts
<1>11. DiffInvariant'
  BY <1>1, <1>3, Quiet
<1> QED
  BY <1>5, <1>6, <1>7, <1>8, <1>9, <1>10, <1>11 DEF CallsInvariant, EachCallItsModel

\* What is asked is kept.
LEMMA SentGrows ==
    ASSUME NEW c, Ask(c), UNCHANGED <<number, attempt>>
    PROVE  /\ sent \subseteq sent'
           /\ Current(c) => AskedNow(c.kind, c.total)'
<1> DEFINE s == [number |-> c.number, attempt |-> c.attempt, kind |-> c.kind, model |-> ModelOf(c),
                 deployment |-> deployment, total |-> c.total, current |-> Current(c)]
<1>1. sent' = sent \cup {s}
  BY DEF Ask
<1>2. /\ s.number = c.number /\ s.attempt = c.attempt /\ s.kind = c.kind /\ s.total = c.total
  OBVIOUS
<1>3. Current(c) => s.current
  BY Zenon
<1> HIDE DEF s
<1>4. Current(c) => c.number = number' /\ c.attempt = attempt'
  BY DEF Current
<1> QED
  BY <1>1, <1>2, <1>3, <1>4 DEF AskedNow

\* What is common to the ways an answer, or a refusal to be tried again, is taken.
LEMMA AskedAndKept ==
    ASSUME DiffInvariant, CallsInvariant, request \in PullRequests,
           NEW c \in waiting, Ask(c),
           UNCHANGED <<request, limit, base, dict, todo, total, chunk, chunks, pass, left,
                       dropped, number, pairs, attempt, deployment, results>>
    PROVE  /\ Models' = Models /\ Parts' = Parts /\ InParts' = InParts /\ Room' = Room
           /\ FitsItsModel' /\ OwnDeployment'
           /\ \A s \in sent' : s.number \in 1..(Len(results') + 1) /\ s.attempt \in 1..Models'
           /\ sent \subseteq sent'
           /\ stage' = stage => DiffInvariant' /\ DeploymentsGood'
<1>1. Models' = Models /\ Parts' = Parts /\ InParts' = InParts /\ Room' = Room
  BY PartsStay
<1>2. /\ FitsItsModel' /\ OwnDeployment'
      /\ \A s \in sent' : s.number \in 1..(Len(results') + 1) /\ s.attempt \in 1..Models'
  BY Asked
<1>3. sent \subseteq sent'
  BY SentGrows
<1>4. stage' = stage => DiffInvariant' /\ DeploymentsGood'
  BY <1>1, Quiet DEF CallsInvariant, DeploymentsGood, FellBack
<1> QED
  BY <1>1, <1>2, <1>3, <1>4

\* Nothing changes but the calls not answered.
LEMMA SameAnswers ==
    ASSUME DiffInvariant, CallsInvariant, request \in PullRequests,
           NEW c \in waiting, Ask(c),
           UNCHANGED <<request, limit, base, dict, todo, total, chunk, chunks, pass, left,
                       dropped, number, pairs, attempt, deployment, results, answers, stage>>,
           \A d \in waiting' : d \in waiting \/ CallGood(d)'
    PROVE  DiffInvariant' /\ CallsInvariant'
<1>1. /\ Models' = Models /\ Parts' = Parts /\ InParts' = InParts /\ Room' = Room
      /\ FitsItsModel' /\ OwnDeployment'
      /\ \A s \in sent' : s.number \in 1..(Len(results') + 1) /\ s.attempt \in 1..Models'
      /\ sent \subseteq sent' /\ DiffInvariant' /\ DeploymentsGood'
  BY AskedAndKept
<1>2. CallsTyped'
  BY <1>1 DEF CallsInvariant, CallsTyped
<1>3. CallsGood'
  <2> SUFFICES ASSUME NEW d \in waiting, d \in waiting' PROVE CallGood(d)'
    BY DEF CallsGood
  <2>1. CallGood(d)
    BY DEF CallsInvariant, CallsGood
  <2>2. PromptMade(d) => PromptMade(d)'
    BY <1>1, PromptMadeStill
  <2> QED
    BY <1>1, <2>1, <2>2 DEF CallGood
<1>4. \A k \in DOMAIN chunks : AskedNow("part", chunks[k].total) => AskedNow("part", chunks[k].total)'
  BY <1>1 DEF AskedNow
<1>5. AskedNow("header", Room) => AskedNow("header", Room)'
  BY <1>1 DEF AskedNow
<1>6. answers \subseteq DOMAIN chunks /\ Parts \subseteq DOMAIN chunks
  BY PartsAre DEF CallsInvariant, CallsTyped
<1>7. SentGood'
  BY <1>1, <1>4, <1>6 DEF CallsInvariant, SentGood
<1>8. OneModelPerAnswer'
  BY <1>1, <1>4, <1>5, <1>6 DEF CallsInvariant, EachCallItsModel, OneModelPerAnswer
<1> QED
  BY <1>1, <1>2, <1>3, <1>7, <1>8 DEF CallsInvariant, EachCallItsModel

\* The answer on a part goes back to be scored.
LEMMA ReflectStep ==
    ASSUME DiffInvariant, CallsInvariant, request \in PullRequests,
           NEW c \in waiting, Answered(c), Reflect(c)
    PROVE  DiffInvariant' /\ CallsInvariant'
<1> DEFINE r == [c EXCEPT !.kind = "reflection", !.tries = 0]
<1>1. /\ Ask(c)
      /\ UNCHANGED <<request, limit, base, dict, todo, total, chunk, chunks, pass, left,
                     dropped, number, pairs, attempt, deployment, results, answers, stage>>
      /\ c.kind = "part" /\ waiting' = (waiting \ {c}) \cup {r}
  BY DEF Answered, Reflect
<1>2. CallGood(c) /\ c \in CallRecords
  BY DEF CallsInvariant, CallsGood, CallGood
<1>3. r \in CallRecords
  <2>1. 0 \in 0..(Retries - 1)
    BY RetriesAssumption
  <2> DEFINE e == [c EXCEPT !.kind = "reflection"]
  <2>2. e \in CallRecords
    BY <1>2 DEF CallRecords
  <2>3. r = [e EXCEPT !.tries = 0]
    OBVIOUS
  <2> HIDE DEF e
  <2>4. [e EXCEPT !.tries = 0] \in CallRecords
    BY <2>1, <2>2 DEF CallRecords
  <2> QED
    BY <2>3, <2>4
<1>4. /\ r.number = c.number /\ r.attempt = c.attempt /\ r.part = c.part /\ r.total = c.total
      /\ r.kind = "reflection"
  BY <1>2 DEF CallRecords
<1> HIDE DEF r
<1>5. Models' = Models
  BY <1>1, PartsStay
<1>6. ASSUME c.number = number, c.attempt = attempt, stage = "sending"
      PROVE  PromptMade(r)'
  <2>1. Current(c)
    BY <1>6 DEF Current
  <2>2. AskedNow(c.kind, c.total)'
    BY <1>1, <2>1, SentGrows
  <2>3. PromptMade(c)
    BY <1>2, <1>6 DEF CallGood
  <2> QED
    BY <1>1, <1>4, <2>2, <2>3 DEF PromptMade
<1>7. CallGood(r)'
  BY <1>1, <1>2, <1>3, <1>4, <1>5, <1>6 DEF CallGood
<1> QED
  BY <1>1, <1>7, SameAnswers

\* A part is done with.
LEMMA PartDoneStep ==
    ASSUME DiffInvariant, CallsInvariant, request \in PullRequests,
           NEW c \in waiting, Answered(c), PartDone(c)
    PROVE  DiffInvariant' /\ CallsInvariant'
<1> DEFINE unanswered == Parts \ (answers \cup {c.part})
<1>1. /\ Ask(c)
      /\ UNCHANGED <<request, limit, base, dict, todo, total, chunk, chunks, pass, left,
                     dropped, number, pairs, attempt, deployment, results>>
      /\ c.kind # "header" /\ Current(c)
      /\ answers' = answers \cup {c.part}
      /\ waiting' = (waiting \ {c}) \cup NextCalls(unanswered)
      /\ stage' = AfterParts(unanswered)
  BY DEF Answered, PartDone
<1>2. unanswered \subseteq Parts /\ (unanswered = {} => Parts \subseteq answers')
  BY <1>1
<1> HIDE DEF unanswered
<1>3. CallGood(c) /\ c.kind \in {"part", "reflection", "header"}
  BY DEF CallsInvariant, CallsGood, CallGood, CallRecords
<1>4. /\ stage = "sending" /\ c.number = number /\ c.attempt = attempt
      /\ stage' \in {"sending", "answered"}
  BY <1>1 DEF Current, AfterParts
<1>5. /\ Models' = Models /\ Parts' = Parts /\ InParts' = InParts /\ Room' = Room
      /\ FitsItsModel' /\ OwnDeployment'
      /\ \A s \in sent' : s.number \in 1..(Len(results') + 1) /\ s.attempt \in 1..Models'
      /\ sent \subseteq sent'
  BY <1>1, AskedAndKept
<1>6. PromptMade(c) /\ c.part \in DOMAIN chunks /\ c.total = chunks[c.part].total
  BY <1>1, <1>3, <1>4 DEF CallGood, PromptMade
<1>7. AskedNow("part", c.total)'
  <2>1. CASE c.kind = "part"
    BY <1>1, <2>1, SentGrows
  <2>2. CASE c.kind = "reflection"
    BY <1>1, <1>5, <1>6, <2>2, AskedStill DEF PromptMade
  <2> QED
    BY <1>1, <1>3, <2>1, <2>2
<1>8. CallsTyped'
  BY <1>1, <1>4, <1>5, <1>6 DEF CallsInvariant, CallsTyped, Preparing
<1>9. DeploymentsGood'
  BY <1>1, <1>4, <1>5 DEF CallsInvariant, DeploymentsGood, FellBack
<1>10. CallsGood'
  <2> SUFFICES ASSUME NEW d \in waiting' PROVE CallGood(d)'
    BY DEF CallsGood
  <2>1. CASE d \in waiting
    <3>1. CallGood(d)
      BY <2>1 DEF CallsInvariant, CallsGood
    <3>2. PromptMade(d) => PromptMade(d)'
      BY <1>1, <1>5, PromptMadeStill
    <3> QED
      BY <1>1, <1>4, <1>5, <3>1, <3>2 DEF CallGood, Preparing
  <2>2. CASE d \in NextCalls(unanswered)
    <3>1. \/ \E k \in Parts : d = PartCall(k)
          \/ d = HeaderCall /\ InParts /\ Parts \subseteq answers'
      BY <1>2, <2>2, NextCallsAre
    <3> QED
      BY <1>1, <1>4, <3>1, CallIsGood
  <2> QED
    BY <1>1, <2>1, <2>2
<1>11. \A k \in answers' : AskedNow("part", chunks[k].total)'
  <2> TAKE k \in answers'
  <2>1. CASE k \in answers
    <3>1. AskedNow("part", chunks[k].total)
      BY <1>4, <2>1 DEF CallsInvariant, SentGood
    <3> QED
      BY <1>1, <1>5, <3>1 DEF AskedNow
  <2>2. CASE k = c.part
    BY <1>1, <1>6, <1>7, <2>2 DEF AskedNow
  <2> QED
    BY <1>1, <2>1, <2>2
<1>12. SentGood'
  BY <1>5, <1>11 DEF SentGood
<1>13. OneModelPerAnswer'
  <2> SUFFICES ASSUME stage' = "answered"
               PROVE  /\ Parts \subseteq answers' /\ ~InParts
                      /\ \A k \in Parts : AskedNow("part", chunks[k].total)'
    BY <1>5 DEF OneModelPerAnswer
  <2>1. unanswered = {} /\ ~InParts
    BY <1>1 DEF AfterParts
  <2> QED
    BY <1>2, <1>11, <2>1
<1>14. DiffInvariant'
  BY <1>1, <1>4, Quiet
<1> QED
  BY <1>5, <1>8, <1>9, <1>10, <1>12, <1>13, <1>14 DEF CallsInvariant, EachCallItsModel

\* The parts are put together.
LEMMA HeaderDoneStep ==
    ASSUME DiffInvariant, CallsInvariant, request \in PullRequests,
           NEW c \in waiting, Answered(c), HeaderDone(c)
    PROVE  DiffInvariant' /\ CallsInvariant'
<1>1. /\ Ask(c)
      /\ UNCHANGED <<request, limit, base, dict, todo, total, chunk, chunks, pass, left,
                     dropped, number, pairs, attempt, deployment, results, answers>>
      /\ c.kind = "header" /\ Current(c)
      /\ waiting' = waiting \ {c} /\ stage' = "answered"
  BY DEF Answered, HeaderDone
<1>2. CallGood(c)
  BY DEF CallsInvariant, CallsGood
<1>3. stage = "sending" /\ c.number = number /\ c.attempt = attempt
  BY <1>1 DEF Current
<1>4. c.total = Room /\ Parts \subseteq answers
  BY <1>1, <1>2, <1>3 DEF CallGood, PromptMade
<1>5. /\ Models' = Models /\ Parts' = Parts /\ InParts' = InParts /\ Room' = Room
      /\ FitsItsModel' /\ OwnDeployment'
      /\ \A s \in sent' : s.number \in 1..(Len(results') + 1) /\ s.attempt \in 1..Models'
      /\ sent \subseteq sent'
  BY <1>1, AskedAndKept
<1>6. CallsTyped'
  BY <1>1, <1>3, <1>5 DEF CallsInvariant, CallsTyped, Preparing
<1>7. DeploymentsGood'
  BY <1>1, <1>3, <1>5 DEF CallsInvariant, DeploymentsGood, FellBack
<1>8. CallsGood'
  <2> SUFFICES ASSUME NEW d \in waiting' PROVE CallGood(d)'
    BY DEF CallsGood
  <2>1. CallGood(d)
    BY <1>1 DEF CallsInvariant, CallsGood
  <2> QED
    BY <1>1, <1>3, <1>5, <2>1 DEF CallGood, Preparing
<1>9. \A k \in answers : AskedNow("part", chunks[k].total)'
  BY <1>1, <1>3, <1>5 DEF CallsInvariant, SentGood, AskedNow
<1>10. AskedNow("header", Room)'
  BY <1>1, <1>4, <1>5, SentGrows DEF AskedNow
<1>11. SentGood'
  BY <1>1, <1>5, <1>9 DEF SentGood
<1>12. OneModelPerAnswer'
  BY <1>1, <1>4, <1>5, <1>9, <1>10 DEF OneModelPerAnswer
<1>13. DiffInvariant'
  BY <1>1, <1>3, Quiet
<1> QED
  BY <1>5, <1>6, <1>7, <1>8, <1>11, <1>12, <1>13 DEF CallsInvariant, EachCallItsModel

LEMMA AnsweredStep ==
    ASSUME DiffInvariant, CallsInvariant, request \in PullRequests,
           NEW c \in waiting, Answered(c)
    PROVE  DiffInvariant' /\ CallsInvariant'
<1>1. CASE DoneInVain(c)
  <2>1. /\ Ask(c) /\ waiting' = waiting \ {c}
        /\ UNCHANGED <<request, limit, base, dict, todo, total, chunk, chunks, pass, left,
                       dropped, number, pairs, attempt, deployment, results, answers, stage>>
    BY <1>1 DEF Answered, DoneInVain
  <2> QED
    BY <2>1, SameAnswers
<1>2. Reflect(c) \/ PartDone(c) \/ DoneInVain(c) \/ HeaderDone(c)
  BY DEF Answered
<1> QED
  BY <1>1, <1>2, ReflectStep, PartDoneStep, HeaderDoneStep

LEMMA RefusedStep ==
    ASSUME DiffInvariant, CallsInvariant, request \in PullRequests,
           NEW c \in waiting, Refused(c)
    PROVE  DiffInvariant' /\ CallsInvariant'
<1>1. /\ Ask(c)
      /\ UNCHANGED <<request, limit, base, dict, todo, total, chunk, chunks, pass, left,
                     dropped, deployment>>
  BY DEF Refused
<1>2. CallGood(c) /\ c \in CallRecords
  BY DEF CallsInvariant, CallsGood, CallGood
<1>3. ASSUME Current(c), waiting' = waiting \ {c}, Fail
      PROVE  DiffInvariant' /\ CallsInvariant'
  <2>1. stage \notin {"idle", "try"}
    BY <1>3 DEF Current
  <2>2. /\ CallsTyped' /\ CallsGood' /\ DeploymentsGood'
        /\ stage' \in {"idle", "try"}
        /\ results' = results \/ \E r \in Nat : results' = Append(results, r)
    BY <1>1, <1>3, <2>1, Failed
  <2>3. SentGood' /\ EachCallItsModel'
    BY <1>1, <2>2, Asked, NotSending
  <2>4. DiffInvariant'
    BY <1>1, <2>2, Quiet
  <2> QED
    BY <2>2, <2>3, <2>4 DEF CallsInvariant
<1>4. ASSUME UNCHANGED <<number, pairs, attempt, answers, results, stage>>,
             c.tries + 1 < Retries,
             waiting' = (waiting \ {c}) \cup {[c EXCEPT !.tries = @ + 1]}
      PROVE  DiffInvariant' /\ CallsInvariant'
  <2> DEFINE d == [c EXCEPT !.tries = @ + 1]
  <2>1. c.tries + 1 \in 0..(Retries - 1)
    BY <1>2, <1>4, RetriesAssumption DEF CallRecords
  <2>2. d \in CallRecords
    BY <1>2, <2>1 DEF CallRecords
  <2>3. /\ d.number = c.number /\ d.attempt = c.attempt /\ d.part = c.part /\ d.total = c.total
        /\ d.kind = c.kind
    BY <1>2 DEF CallRecords
  <2> HIDE DEF d
  <2>4. sent \subseteq sent' /\ Models' = Models
    BY <1>1, <1>4, SentGrows, PartsStay
  <2>5. PromptMade(c) => PromptMade(d)'
    <3>1. PromptMade(c) => PromptMade(c)'
      BY <1>1, <1>4, <2>4, PromptMadeStill
    <3> QED
      BY <2>3, <3>1 DEF PromptMade
  <2>6. CallGood(d)'
    BY <1>1, <1>2, <1>4, <2>2, <2>3, <2>4, <2>5 DEF CallGood
  <2>7. \A e \in waiting' : e \in waiting \/ CallGood(e)'
    BY <1>4, <2>6 DEF d
  <2> QED
    BY <1>1, <1>4, <2>7, SameAnswers
<1>5. ASSUME UNCHANGED <<number, pairs, attempt, answers, results, stage>>,
             waiting' = waiting \ {c}
      PROVE  DiffInvariant' /\ CallsInvariant'
  BY <1>1, <1>5, SameAnswers
<1>6. \/ /\ c.tries + 1 < Retries
         /\ waiting' = (waiting \ {c}) \cup {[c EXCEPT !.tries = @ + 1]}
         /\ UNCHANGED <<number, pairs, attempt, answers, results, stage>>
      \/ Current(c) /\ waiting' = waiting \ {c} /\ Fail
      \/ waiting' = waiting \ {c} /\ UNCHANGED <<number, pairs, attempt, answers, results, stage>>
  <2>1. CASE Current(c)
    BY <2>1 DEF Refused
  <2>2. CASE ~Current(c)
    BY <2>2 DEF Refused
  <2> QED
    BY <2>1, <2>2
<1> QED
  BY <1>3, <1>4, <1>5, <1>6

LEMMA CallsStep ==
    ASSUME DiffInvariant, CallsInvariant, request \in PullRequests, CallsNext
    PROVE  DiffInvariant' /\ CallsInvariant'
<1>1. CASE Begin
  BY <1>1, BeginStep
<1>2. CASE Try
  BY <1>2, TryStep
<1>3. CASE NoLimit
  BY <1>3, NoLimitStep
<1>4. CASE Prepare
  BY <1>4, PrepareStep
<1>5. CASE SendParts
  BY <1>5, SendPartsStep
<1>6. CASE Return
  BY <1>6, ReturnStep
<1>7. CASE \E c \in waiting : Answered(c) \/ Refused(c)
  BY <1>7, AnsweredStep, RefusedStep
<1> QED
  BY <1>1, <1>2, <1>3, <1>4, <1>5, <1>6, <1>7 DEF CallsNext

-----------------------------------------------------------------------------
(* The invariant holds throughout, and says what the diffs and calls do.   *)

LEMMA PromptsIdleInv ==
    ASSUME request \in PullRequests \cup {NoRequest}, PromptsIdle
    PROVE  DiffInvariant /\ CallsInvariant
<1> USE DEF PromptsIdle, CallsInit
<1>1. request.predictions \in Nat
  <2>1. CASE request \in PullRequests
    BY <2>1, ModelsAssumption
  <2>2. CASE request = NoRequest
    BY <2>2 DEF NoRequest
  <2> QED
    BY <2>1, <2>2
<1>2. DiffTyped
  <2>1. <<>> \in Seq(FilesOf) /\ <<>> \in Seq(Prompt(FilesOf))
    OBVIOUS
  <2> QED
    BY <2>1 DEF DiffTyped
<1>3. AtStart /\ FillGood /\ MultiGood /\ Fits
  BY DEF AtStart, FillGood, MultiGood, Fits
<1>4. Ready
  BY DEF Ready, NoFileForgotten, ShownOnce, LeftOutForLackOfCalls, CallsBounded
<1>5. CallsTyped
  <2>1. <<>> \in Seq(Nat) /\ Len(<<>>) = 0
    OBVIOUS
  <2> QED
    BY <1>1, <2>1 DEF CallsTyped, Preparing
<1>6. CallsGood /\ DeploymentsGood /\ SentGood
  BY DEF CallsGood, DeploymentsGood, SentGood
<1>7. EachCallItsModel
  BY DEF EachCallItsModel, FitsItsModel, OwnDeployment, OneModelPerAnswer
<1> QED
  BY <1>2, <1>3, <1>4, <1>5, <1>6, <1>7 DEF DiffInvariant, CallsInvariant

LEMMA PromptsInitInv == Init => DiffInvariant /\ CallsInvariant
<1> SUFFICES ASSUME Init PROVE DiffInvariant /\ CallsInvariant
  OBVIOUS
<1>1. request \in PullRequests \cup {NoRequest} /\ PromptsIdle
  BY DEF Init, PromptsInit, NoPrompt
<1> QED
  BY <1>1, PromptsIdleInv

\* A step of another part.
LEMMA PromptsStutter ==
    ASSUME DiffInvariant, CallsInvariant, UNCHANGED vars
    PROVE  DiffInvariant' /\ CallsInvariant'
<1>1. /\ UNCHANGED <<request, limit, base, dict, todo, total, chunk, chunks, pass, left, dropped>>
      /\ UNCHANGED <<stage, number, pairs, attempt, deployment, waiting, answers, results, sent>>
  BY DEF vars, budgetVars, callVars
<1>2. DiffInvariant'
  BY <1>1, Quiet
<1>3. Models' = Models /\ Parts' = Parts /\ InParts' = InParts /\ Room' = Room
  BY <1>1, PartsStay
<1>4. CallsTyped'
  BY <1>1, <1>3 DEF CallsInvariant, CallsTyped
<1>5. CallsGood'
  <2> SUFFICES ASSUME NEW c \in waiting' PROVE CallGood(c)'
    BY DEF CallsGood
  <2>1. CallGood(c)
    BY <1>1 DEF CallsInvariant, CallsGood
  <2> QED
    BY <1>1, <1>3, <2>1 DEF CallGood, PromptMade, AskedNow
<1>6. DeploymentsGood' /\ SentGood'
  BY <1>1, <1>3 DEF CallsInvariant, DeploymentsGood, FellBack, SentGood, AskedNow
<1>7. EachCallItsModel'
  BY <1>1, <1>3 DEF CallsInvariant, EachCallItsModel, FitsItsModel, OwnDeployment,
                    OneModelPerAnswer, AskedNow
<1> QED
  BY <1>2, <1>4, <1>5, <1>6, <1>7 DEF CallsInvariant

LEMMA PromptsStep ==
    DiffInvariant /\ CallsInvariant /\ [Next]_pipeVars => DiffInvariant' /\ CallsInvariant'
<1> SUFFICES ASSUME DiffInvariant, CallsInvariant, [Next]_pipeVars
             PROVE  DiffInvariant' /\ CallsInvariant'
  OBVIOUS
<1>1. CASE request # NoRequest /\ CallsNext
  <2>1. request \in PullRequests
    BY <1>1 DEF DiffInvariant, DiffTyped
  <2> QED
    BY <1>1, <2>1, CallsStep
<1>2. CASE UNCHANGED vars
  BY <1>2, PromptsStutter
<1>3. (request # NoRequest /\ CallsNext) \/ UNCHANGED vars
  BY DEF Next, PromptsNext, pipeVars, promptVars
<1> QED
  BY <1>1, <1>2, <1>3

LEMMA PromptsAlways == Spec => [](DiffInvariant /\ CallsInvariant)
  BY PromptsInitInv, PromptsStep, PTL DEF Spec

\* However the files of a pull request are cut into prompts, for any files,
\* languages, limits and numbers of calls: each file with a patch is in one
\* prompt, or listed as left out, or by improve, which keeps no list, too large
\* for any prompt or behind the file its loop stopped at; what is left out would
\* not have fitted or there was no call left for it; the prompts are no more than
\* the calls allowed (pr_processing.py:120-320, 398-500).
THEOREM DiffsAreDivided == Spec => []DiffIsDivided
<1>1. DiffInvariant /\ CallsInvariant => DiffIsDivided
  <2> SUFFICES ASSUME DiffInvariant, CallsInvariant PROVE DiffIsDivided
    OBVIOUS
  <2>1. /\ stage \in {"idle", "try", "extend", "fill", "multi", "ready", "sending", "answered"}
        /\ left \cap dropped = {}
        /\ limit \in Nat /\ base \in Nat /\ total \in Nat /\ pass \in Nat
    BY DEF DiffInvariant, DiffTyped
  <2>2. /\ attempt \in Nat /\ number \in Nat /\ deployment \in Nat
        /\ answers \subseteq DOMAIN chunks /\ Len(results) <= request.predictions
        /\ Len(results) \in Nat /\ number \in {Len(results), Len(results) + 1}
        /\ stage # "idle" => number = Len(results) + 1
    BY DEF CallsInvariant, CallsTyped
  <2>3. \A c \in waiting : c.tries < Retries /\ c.number <= number
    <3> SUFFICES ASSUME NEW c \in waiting PROVE c.tries < Retries /\ c.number <= number
      OBVIOUS
    <3>1. CallGood(c)
      BY DEF CallsInvariant, CallsGood
    <3>2. c.tries \in 0..(Retries - 1) /\ (c.number \in 1..Len(results) \/ c.number = number)
      BY <3>1 DEF CallGood, CallRecords
    <3> QED
      BY <2>2, <3>2, RetriesAssumption
  <2>4. TypeOK
    BY <2>1, <2>2, <2>3 DEF TypeOK
  <2> QED
    BY <2>4 DEF DiffIsDivided, DiffInvariant, Ready
<1> QED
  BY <1>1, PromptsAlways, PTL

\* Whatever models refused before, and whatever calls of theirs are still under
\* way, for any models, deployments and predictions: an attempt asks its model,
\* and only for reflections the one they are asked of instead, with prompts cut
\* for its own limit, through its own deployment but after a fallback, and an
\* answer is made of one attempt's (pr_processing.py:322-395).
THEOREM CallsAreTheirModels == Spec => []EachCallItsModel
<1>1. DiffInvariant /\ CallsInvariant => EachCallItsModel
  BY DEF CallsInvariant
<1> QED
  BY <1>1, PromptsAlways, PTL

-----------------------------------------------------------------------------
(* Selections from lists, and lists put together.                          *)

\* A list takes each of the places of another once.
Takes(c, list, places) ==
    \E at \in [DOMAIN c -> places] :
        /\ \A k \in DOMAIN c : c[k] = list[at[k]]
        /\ \A k, l \in DOMAIN c : at[k] = at[l] => k = l
        /\ \A i \in places : \E k \in DOMAIN c : at[k] = i

LEMMA TakesBoth ==
    ASSUME NEW S, NEW c \in Seq(S), NEW d \in Seq(S), NEW list, NEW I, NEW J,
           I \cap J = {}, Takes(c, list, I), Takes(d, list, J)
    PROVE  Takes(c \o d, list, I \cup J)
<1>1. PICK at \in [DOMAIN c -> I] :
          /\ \A k \in DOMAIN c : c[k] = list[at[k]]
          /\ \A k, l \in DOMAIN c : at[k] = at[l] => k = l
          /\ \A i \in I : \E k \in DOMAIN c : at[k] = i
  BY DEF Takes
<1>2. PICK on \in [DOMAIN d -> J] :
          /\ \A k \in DOMAIN d : d[k] = list[on[k]]
          /\ \A k, l \in DOMAIN d : on[k] = on[l] => k = l
          /\ \A i \in J : \E k \in DOMAIN d : on[k] = i
  BY DEF Takes
<1> DEFINE m == Len(c)
           n == Len(d)
           D == 1..(m + n)
           whole == c \o d
           both == [k \in D |-> IF k <= m THEN at[k] ELSE on[k - m]]
<1>3. m \in Nat /\ n \in Nat /\ DOMAIN c = 1..m /\ DOMAIN d = 1..n
  OBVIOUS
<1>4. /\ DOMAIN whole = D
      /\ \A k \in 1..m : whole[k] = c[k]
      /\ \A k \in (m + 1)..(m + n) : whole[k] = d[k - m]
  OBVIOUS
<1> HIDE DEF m, n, whole
<1>5. /\ \A k \in D : k \in 1..m \/ k \in (m + 1)..(m + n)
      /\ \A k \in (m + 1)..(m + n) : k \in D /\ ~(k <= m) /\ k \in Int /\ k - m \in 1..n
      /\ \A k \in 1..m : k \in D /\ k <= m /\ k \in Int
      /\ \A k \in 1..n : k + m \in (m + 1)..(m + n) /\ k + m - m = k
  BY <1>3
<1>6. /\ \A k \in 1..m : both[k] = at[k] /\ at[k] \in I /\ c[k] = list[at[k]]
      /\ \A k \in (m + 1)..(m + n) :
            both[k] = on[k - m] /\ on[k - m] \in J /\ d[k - m] = list[on[k - m]]
  <2>1. ASSUME NEW k \in 1..m
        PROVE  both[k] = at[k] /\ at[k] \in I /\ c[k] = list[at[k]]
    <3>1. k \in D /\ k <= m /\ k \in DOMAIN c
      BY <1>3, <1>5
    <3> HIDE DEF D
    <3> QED
      BY <1>1, <3>1
  <2>2. ASSUME NEW k \in (m + 1)..(m + n)
        PROVE  both[k] = on[k - m] /\ on[k - m] \in J /\ d[k - m] = list[on[k - m]]
    <3>1. k \in D /\ ~(k <= m) /\ k - m \in DOMAIN d
      BY <1>3, <1>5
    <3> HIDE DEF D
    <3> QED
      BY <1>2, <3>1
  <2> QED
    BY <2>1, <2>2
<1>7. DOMAIN both = D
  OBVIOUS
<1> HIDE DEF both
<1>8. \A k \in D : both[k] \in I \cup J /\ whole[k] = list[both[k]]
  <2> TAKE k \in D
  <2>1. CASE k \in 1..m
    BY <1>4, <1>6, <2>1
  <2>2. CASE k \in (m + 1)..(m + n)
    BY <1>4, <1>6, <2>2
  <2> QED
    BY <1>5, <2>1, <2>2
<1>9. ASSUME NEW k \in D, NEW l \in D, both[k] = both[l] PROVE k = l
  <2>1. CASE k \in 1..m /\ l \in 1..m
    BY <1>1, <1>3, <1>6, <1>9, <2>1
  <2>2. CASE k \in (m + 1)..(m + n) /\ l \in (m + 1)..(m + n)
    <3>1. on[k - m] = on[l - m] /\ k - m \in DOMAIN d /\ l - m \in DOMAIN d
      BY <1>3, <1>5, <1>6, <1>9, <2>2
    <3>2. k - m = l - m
      BY <1>2, <3>1
    <3> QED
      BY <1>3, <1>5, <2>2, <3>2
  <2>3. CASE k \in 1..m /\ l \in (m + 1)..(m + n)
    BY <1>6, <1>9, <2>3
  <2>4. CASE k \in (m + 1)..(m + n) /\ l \in 1..m
    BY <1>6, <1>9, <2>4
  <2> QED
    BY <1>5, <2>1, <2>2, <2>3, <2>4
<1>10. ASSUME NEW i \in I \cup J PROVE \E k \in D : both[k] = i
  <2>1. CASE i \in I
    <3>1. PICK k \in 1..m : at[k] = i
      BY <1>1, <1>3, <2>1
    <3> QED
      BY <1>5, <1>6, <3>1
  <2>2. CASE i \in J
    <3>1. PICK k \in 1..n : on[k] = i
      BY <1>2, <1>3, <2>2
    <3>2. k + m \in (m + 1)..(m + n) /\ k + m - m = k /\ k + m \in D
      BY <1>5
    <3> DEFINE l == k + m
    <3>3. l \in (m + 1)..(m + n) /\ l - m = k /\ l \in D
      BY <1>3, <3>2
    <3> HIDE DEF l, D
    <3>4. both[l] = on[l - m]
      BY <1>6, <3>3
    <3> QED
      BY <3>1, <3>3, <3>4
  <2> QED
    BY <2>1, <2>2
<1>11. both \in [D -> I \cup J]
  <2>1. both = [k \in D |-> both[k]]
    BY <1>7 DEF both
  <2> HIDE DEF D
  <2> QED
    BY <1>8, <2>1
<1> DEFINE K == I \cup J
<1>12. Takes(whole, list, K)
  <2>1. \A i \in K : \E k \in D : both[k] = i
    BY <1>10
  <2>2. both \in [DOMAIN whole -> K]
    BY <1>4, <1>11
  <2> HIDE DEF D, K
  <2>3. \A k \in DOMAIN whole : whole[k] = list[both[k]]
    BY <1>4, <1>8
  <2>4. \A k, l \in DOMAIN whole : both[k] = both[l] => k = l
    BY <1>4, <1>9
  <2>5. \A i \in K : \E k \in DOMAIN whole : both[k] = i
    BY <1>4, <2>1
  <2> QED
    BY <2>2, <2>3, <2>4, <2>5 DEF Takes
<1> QED
  BY <1>12 DEF whole

LEMMA TakesOne ==
    ASSUME NEW list, NEW i
    PROVE  Takes(<<list[i]>>, list, {i})
<1> DEFINE at == [k \in {1} |-> i]
<1>1. DOMAIN <<list[i]>> = {1} /\ <<list[i]>>[1] = list[i]
  OBVIOUS
<1>2. at \in [{1} -> {i}] /\ at[1] = i
  OBVIOUS
<1> HIDE DEF at
<1> QED
  BY <1>1, <1>2 DEF Takes

LEMMA TakesNone ==
    ASSUME NEW list
    PROVE  Takes(<<>>, list, {})
<1> DEFINE at == [k \in {} |-> 0]
<1>1. DOMAIN <<>> = {}
  OBVIOUS
<1>2. at \in [{} -> {}]
  OBVIOUS
<1> HIDE DEF at
<1> QED
  BY <1>1, <1>2 DEF Takes

\* What Chosen gives.
LEMMA ChosenIs ==
    ASSUME NEW S, NEW list \in Seq(S), NEW places, places \subseteq DOMAIN list
    PROVE  Chosen(list, places) \in Seq(S) /\ Takes(Chosen(list, places), list, places)
<1> DEFINE m == Len(list)
           Step(n, c) == IF n \in places THEN Append(c, list[n]) ELSE c
           h == [n \in 1..m |-> [c \in Seq(S) |-> Step(n, c)]]
           Picks(f) == f = [n \in 0..m |-> IF n = 0 THEN <<>>
                                        ELSE IF n \in places THEN Append(f[n - 1], list[n])
                                        ELSE f[n - 1]]
           first == CHOOSE f : Picks(f)
<1>1. m \in Nat /\ DOMAIN list = 1..m /\ \A n \in 1..m : list[n] \in S
  OBVIOUS
<1>2. h \in [1..m -> [Seq(S) -> Seq(S)]] /\ <<>> \in Seq(S)
  <2>1. \A n \in 1..m, c \in Seq(S) : Step(n, c) \in Seq(S)
    BY <1>1
  <2> HIDE DEF Step
  <2> QED
    BY <2>1
<1>3. PICK g \in [0..m -> Seq(S)] : g[0] = <<>> /\ \A n \in 1..m : g[n] = h[n][g[n - 1]]
  <2> DEFINE X == Seq(S)
             x == <<>>
  <2>1. h \in [1..m -> [X -> X]] /\ x \in X /\ m \in Nat
    BY <1>1, <1>2
  <2> HIDE DEF h, m, X, x
  <2>2. \E g \in [0..m -> X] : Stepwise(g, x, m, h)
    BY <2>1, StepByStep
  <2> QED
    BY <2>2 DEF X, x, Stepwise
<1>4. Picks(g)
  <2>1. \A n \in 1..m : g[n] = Step(n, g[n - 1])
    <3> TAKE n \in 1..m
    <3>1. g[n - 1] \in Seq(S)
      BY <1>1
    <3> QED
      BY <1>3, <3>1
  <2>2. \A n \in 0..m : g[n] = IF n = 0 THEN <<>>
                               ELSE IF n \in places THEN Append(g[n - 1], list[n]) ELSE g[n - 1]
    <3> TAKE n \in 0..m
    <3>1. n # 0 => n \in 1..m
      BY <1>1
    <3> HIDE DEF m
    <3> QED
      BY <1>3, <2>1, <3>1
  <2> HIDE DEF m, h
  <2> QED
    BY <2>2
<1>5. Picks(first)
  <2>1. \E f : Picks(f)
    BY <1>4
  <2> HIDE DEF Picks
  <2> QED
    BY <2>1
<1>6. Chosen(list, places) = first[m]
  BY DEF Chosen
<1> DEFINE Good(n) == first[n] \in Seq(S) /\ Takes(first[n], list, places \cap 1..n)
           T == {n \in 0..m : ~Good(n)}
<1>7. first[0] = <<>> /\ \A n \in 1..m : first[n] = Step(n, first[n - 1])
  <2> HIDE DEF first
  <2>1. 0 \in 0..m /\ \A n \in 1..m : n \in 0..m /\ n # 0
    BY <1>1
  <2>2. \A n \in 0..m : first[n] = IF n = 0 THEN <<>>
                                   ELSE IF n \in places THEN Append(first[n - 1], list[n])
                                   ELSE first[n - 1]
    BY <1>5
  <2> HIDE DEF Picks, m
  <2> QED
    BY <2>1, <2>2
<1> HIDE DEF first
<1>8. T = {}
  <2> SUFFICES ASSUME T # {} PROVE FALSE
    OBVIOUS
  <2>1. PICK n \in T : \A j \in T : n <= j
    <3>1. T \subseteq Nat
      BY <1>1
    <3> HIDE DEF T
    <3> QED
      BY <3>1, Least
  <2>2. n \in 0..m /\ ~Good(n)
    BY <2>1
  <2>3. n # 0
    <3>1. places \cap 1..0 = {}
      OBVIOUS
    <3>2. Good(0)
      BY <1>7, <3>1, TakesNone
    <3> QED
      BY <2>2, <3>2
  <2>4. n \in 1..m /\ n - 1 \in 0..m /\ n - 1 \notin T
    <3> HIDE DEF T
    <3> QED
      BY <1>1, <2>1, <2>2, <2>3
  <2>5. Good(n - 1)
    BY <2>4
  <2>6. CASE n \in places
    <3> DEFINE I == places \cap 1..(n - 1)
    <3>1. places \cap 1..n = I \cup {n} /\ I \cap {n} = {}
      BY <1>1, <2>4, <2>6
    <3>2. list[n] \in S
      BY <1>1, <2>4
    <3>3. first[n] = first[n - 1] \o <<list[n]>>
      <4> DEFINE c == first[n - 1]
                 x == list[n]
      <4>1. first[n] = Append(c, x) /\ c \in Seq(S) /\ x \in S
        BY <1>7, <2>4, <2>5, <2>6, <3>2
      <4> HIDE DEF c, x
      <4>2. Append(c, x) = c \o <<x>>
        BY <4>1, AppendIsConcat
      <4> QED
        BY <4>1, <4>2 DEF c, x
    <3>4. Takes(<<list[n]>>, list, {n}) /\ <<list[n]>> \in Seq(S)
      BY <3>2, TakesOne
    <3> HIDE DEF I
    <3>5. Takes(first[n - 1], list, I)
      BY <2>5 DEF I
    <3>6. Takes(first[n], list, I \cup {n}) /\ first[n] \in Seq(S)
      <4> DEFINE c == first[n - 1]
                 d == <<list[n]>>
                 J == {n}
      <4>1. /\ c \in Seq(S) /\ d \in Seq(S) /\ I \cap J = {}
            /\ Takes(c, list, I) /\ Takes(d, list, J) /\ first[n] = c \o d
        BY <2>5, <3>1, <3>3, <3>4, <3>5
      <4>2. c \o d \in Seq(S)
        BY <4>1
      <4> HIDE DEF c, d, J
      <4>3. Takes(c \o d, list, I \cup J)
        BY <4>1, TakesBoth
      <4> QED
        BY <4>1, <4>2, <4>3 DEF J
    <3> QED
      BY <2>2, <3>1, <3>6
  <2>7. CASE n \notin places
    <3>1. places \cap 1..n = places \cap 1..(n - 1)
      BY <1>1, <2>4, <2>7
    <3>2. first[n] = first[n - 1]
      BY <1>7, <2>4, <2>7
    <3> DEFINE I == places \cap 1..n
               J == places \cap 1..(n - 1)
    <3>3. I = J
      BY <3>1
    <3>4. first[n - 1] \in Seq(S) /\ Takes(first[n - 1], list, J)
      BY <2>5
    <3>5. ~(first[n] \in Seq(S) /\ Takes(first[n], list, I))
      BY <2>2
    <3> HIDE DEF I, J
    <3> QED
      BY <3>2, <3>3, <3>4, <3>5
  <2> QED
    BY <2>6, <2>7
<1>9. Good(m)
  <2>1. m \in 0..m
    BY <1>1
  <2> HIDE DEF Good, m
  <2> QED
    BY <1>8, <2>1
<1> DEFINE I == places \cap 1..m
<1>10. I = places
  BY <1>1
<1>11. first[m] \in Seq(S) /\ Takes(first[m], list, I)
  BY <1>9
<1> HIDE DEF I, m
<1> QED
  BY <1>6, <1>10, <1>11

\* The members of the lists of a list, by their places in both.
Marks(seqs) == {p \in Nat \X Nat : p[1] \in DOMAIN seqs /\ p[2] \in DOMAIN seqs[p[1]]}
Marked(seqs) == [p \in Marks(seqs) |-> seqs[p[1]][p[2]]]
MarksUpto(seqs, n) == {p \in Marks(seqs) : p[1] <= n}
MarksOf(seqs, n) == {p \in Marks(seqs) : p[1] = n}

LEMMA TakesMarks ==
    ASSUME NEW S, NEW seqs \in Seq(Seq(S)), NEW j \in DOMAIN seqs
    PROVE  Takes(seqs[j], Marked(seqs), MarksOf(seqs, j))
<1> DEFINE d == seqs[j]
           D == DOMAIN d
           M == MarksOf(seqs, j)
           list == Marked(seqs)
           on == [k \in D |-> <<j, k>>]
<1>1. j \in Nat /\ d \in Seq(S) /\ D = 1..Len(d) /\ Len(d) \in Nat
  OBVIOUS
<1>2. \A k \in D : <<j, k>> \in M /\ list[<<j, k>>] = d[k]
  <2> SUFFICES ASSUME NEW k \in D PROVE <<j, k>> \in M /\ list[<<j, k>>] = d[k]
    OBVIOUS
  <2>1. k \in Nat
    BY <1>1
  <2>2. <<j, k>> \in Nat \X Nat /\ <<j, k>>[1] = j /\ <<j, k>>[2] = k
    BY <1>1, <2>1
  <2>3. <<j, k>> \in Marks(seqs)
    BY <2>2 DEF Marks
  <2> QED
    BY <2>2, <2>3 DEF MarksOf, Marked
<1>3. \A p \in M : p = <<j, p[2]>> /\ p[2] \in D
  <2> TAKE p \in M
  <2>1. p \in Nat \X Nat /\ p[1] = j /\ p[2] \in DOMAIN seqs[p[1]]
    BY DEF MarksOf, Marks
  <2>2. p = <<p[1], p[2]>>
    BY <2>1
  <2> QED
    BY <2>1, <2>2
<1>4. /\ on \in [D -> M]
      /\ \A k \in D : d[k] = list[on[k]]
      /\ \A k, l \in D : on[k] = on[l] => k = l
      /\ \A p \in M : \E k \in D : on[k] = p
  <2> HIDE DEF D, M, list, d
  <2>1. \A k \in D : on[k] = <<j, k>>
    OBVIOUS
  <2>2. on \in [D -> M]
    BY <1>2
  <2> HIDE DEF on
  <2>3. \A k, l \in D : on[k] = on[l] => k = l
    BY <2>1
  <2> QED
    BY <1>2, <1>3, <2>1, <2>2, <2>3
<1> HIDE DEF M, list, d, on
<1>5. Takes(d, list, M)
  BY <1>4 DEF Takes
<1> QED
  BY <1>5 DEF M, list, d

\* What FlattenSeq gives.
LEMMA FlattenIs ==
    ASSUME NEW S, NEW seqs \in Seq(Seq(S))
    PROVE  FlattenSeq(seqs) \in Seq(S) /\ Takes(FlattenSeq(seqs), Marked(seqs), Marks(seqs))
<1> DEFINE m == Len(seqs)
           list == Marked(seqs)
           Step(n, c) == c \o seqs[n]
           h == [n \in 1..m |-> [c \in Seq(S) |-> Step(n, c)]]
           Joins(f) == f = [i \in 1..m |-> IF i = 1 THEN seqs[i] ELSE f[i - 1] \o seqs[i]]
           flatten == CHOOSE f : Joins(f)
<1>1. m \in Nat /\ DOMAIN seqs = 1..m /\ \A n \in 1..m : seqs[n] \in Seq(S)
  OBVIOUS
<1>2. CASE m = 0
  <2>1. seqs = <<>> /\ FlattenSeq(seqs) = seqs
    BY <1>1, <1>2 DEF FlattenSeq
  <2>2. Marks(seqs) = {}
    BY <2>1 DEF Marks
  <2> HIDE DEF list
  <2>3. Takes(<<>>, list, {}) /\ <<>> \in Seq(S)
    BY TakesNone
  <2> QED
    BY <2>1, <2>2, <2>3 DEF list
<1>3. CASE m # 0
  <2>1. h \in [1..m -> [Seq(S) -> Seq(S)]] /\ <<>> \in Seq(S)
    <3>1. \A n \in 1..m, c \in Seq(S) : Step(n, c) \in Seq(S)
      <4> TAKE n \in 1..m, c \in Seq(S)
      <4>1. seqs[n] \in Seq(S)
        BY <1>1
      <4> QED
        BY <4>1
    <3> HIDE DEF Step, m
    <3> QED
      BY <3>1
  <2>2. PICK g \in [0..m -> Seq(S)] : g[0] = <<>> /\ \A n \in 1..m : g[n] = h[n][g[n - 1]]
    <3> DEFINE X == Seq(S)
               x == <<>>
    <3>1. h \in [1..m -> [X -> X]] /\ x \in X /\ m \in Nat
      BY <1>1, <2>1
    <3> HIDE DEF h, m, X, x
    <3>2. \E g \in [0..m -> X] : Stepwise(g, x, m, h)
      BY <3>1, StepByStep
    <3> QED
      BY <3>2 DEF X, x, Stepwise
  <2>3. \A n \in 1..m : n - 1 \in 0..m /\ (n # 1 => n - 1 \in 1..m) /\ g[n - 1] \in Seq(S)
    <3>1. \A n \in 1..m : n - 1 \in 0..m /\ (n # 1 => n - 1 \in 1..m)
      BY <1>1
    <3> HIDE DEF m
    <3> QED
      BY <3>1
  <2>4. \A n \in 1..m : g[n] = Step(n, g[n - 1])
    <3> HIDE DEF m, Step
    <3> QED
      BY <2>2, <2>3
  <2> DEFINE f == [i \in 1..m |-> g[i]]
  <2>5. Joins(f)
    <3>1. \A n \in 1..m : f[n] = IF n = 1 THEN seqs[n] ELSE f[n - 1] \o seqs[n]
      <4> TAKE n \in 1..m
      <4>1. f[n] = Step(n, g[n - 1])
        BY <2>4
      <4>2. CASE n = 1
        <5>1. seqs[n] \in Seq(S) /\ g[0] = <<>> /\ g[n - 1] = <<>>
          BY <1>1, <2>2, <4>2
        <5>2. <<>> \o seqs[n] = seqs[n]
          BY <5>1
        <5> HIDE DEF f
        <5> QED
          BY <4>1, <4>2, <5>1, <5>2
      <4>3. CASE n # 1
        <5>1. f[n - 1] = g[n - 1]
          BY <2>3, <4>3
        <5> HIDE DEF f
        <5> QED
          BY <4>1, <4>3, <5>1
      <4> QED
        BY <4>2, <4>3
    <3>2. f = [i \in 1..m |-> f[i]]
      OBVIOUS
    <3> HIDE DEF f, m
    <3> QED
      BY <3>1, <3>2
  <2>6. Joins(flatten)
    <3>1. \E q : Joins(q)
      BY <2>5
    <3> HIDE DEF Joins
    <3> QED
      BY <3>1
  <2>7. FlattenSeq(seqs) = flatten[m]
    BY <1>3 DEF FlattenSeq
  <2>8. \A n \in 1..m : flatten[n] = IF n = 1 THEN seqs[n] ELSE flatten[n - 1] \o seqs[n]
    <3> HIDE DEF flatten, m
    <3> QED
      BY <2>6
  <2> HIDE DEF flatten, Joins
  <2> DEFINE Good(n) == flatten[n] \in Seq(S) /\ Takes(flatten[n], list, MarksUpto(seqs, n))
             T == {n \in 1..m : ~Good(n)}
  <2>9. \A n \in 1..m : seqs[n] \in Seq(S) /\ Takes(seqs[n], list, MarksOf(seqs, n))
    BY <1>1, TakesMarks
  <2>10. T = {}
    <3> SUFFICES ASSUME T # {} PROVE FALSE
      OBVIOUS
    <3>1. PICK n \in T : \A j \in T : n <= j
      <4>1. T \subseteq Nat
        BY <1>1
      <4> HIDE DEF T
      <4> QED
        BY <4>1, Least
    <3>2. n \in 1..m /\ ~Good(n)
      BY <3>1
    <3>3. \A p \in Marks(seqs) : p[1] \in Nat /\ p[1] >= 1
      BY <1>1 DEF Marks
    <3>4. CASE n = 1
      <4>1. MarksUpto(seqs, n) = MarksOf(seqs, n)
        BY <3>3, <3>4 DEF MarksUpto, MarksOf
      <4>2. flatten[n] = seqs[n]
        BY <2>8, <3>2, <3>4
      <4> HIDE DEF list
      <4> QED
        BY <2>9, <3>2, <4>1, <4>2
    <3>5. CASE n # 1
      <4>1. n - 1 \in 1..m /\ n - 1 \notin T
        <5>1. n - 1 \in 1..m /\ n \in Nat
          BY <1>1, <3>2, <3>5
        <5> HIDE DEF T
        <5> QED
          BY <3>1, <5>1
      <4>2. Good(n - 1)
        BY <4>1
      <4> DEFINE I == MarksUpto(seqs, n - 1)
                 J == MarksOf(seqs, n)
                 K == MarksUpto(seqs, n)
                 c == flatten[n - 1]
                 d == seqs[n]
      <4>3. I \cap J = {} /\ I \cup J = K
        <5>1. n \in Nat
          BY <1>1, <3>2
        <5>2. \A p \in Marks(seqs) : p[1] <= n <=> p[1] <= n - 1 \/ p[1] = n
          BY <3>3, <5>1
        <5>3. \A p \in Marks(seqs) : ~(p[1] <= n - 1 /\ p[1] = n)
          BY <3>3, <5>1
        <5> QED
          BY <5>2, <5>3 DEF MarksUpto, MarksOf
      <4>4. flatten[n] = c \o d /\ c \in Seq(S) /\ d \in Seq(S) /\ Takes(c, list, I) /\ Takes(d, list, J)
        <5>1. flatten[n] = flatten[n - 1] \o seqs[n]
          BY <2>8, <3>2, <3>5
        <5>2. c \in Seq(S) /\ Takes(c, list, I)
          BY <4>2
        <5>3. d \in Seq(S) /\ Takes(d, list, J)
          BY <2>9, <3>2
        <5> QED
          BY <5>1, <5>2, <5>3
      <4>5. ~(flatten[n] \in Seq(S) /\ Takes(flatten[n], list, K))
        BY <3>2
      <4> HIDE DEF I, J, K, c, d, list
      <4>6. c \o d \in Seq(S)
        BY <4>4
      <4>7. Takes(c \o d, list, I \cup J)
        BY <4>3, <4>4, TakesBoth
      <4> QED
        BY <4>3, <4>4, <4>5, <4>6, <4>7
    <3> QED
      BY <3>4, <3>5
  <2>11. Good(m)
    <3>1. m \in 1..m
      BY <1>1, <1>3
    <3> HIDE DEF Good, m
    <3> QED
      BY <2>10, <3>1
  <2> DEFINE U == MarksUpto(seqs, m)
             V == Marks(seqs)
  <2>12. U = V
    BY <1>1 DEF MarksUpto, Marks
  <2>13. flatten[m] \in Seq(S) /\ Takes(flatten[m], list, U)
    BY <2>11
  <2> HIDE DEF U, V, list, m
  <2>14. FlattenSeq(seqs) \in Seq(S) /\ Takes(FlattenSeq(seqs), list, V)
    BY <2>7, <2>12, <2>13
  <2> QED
    BY <2>14 DEF V, list
<1> QED
  BY <1>2, <1>3

-----------------------------------------------------------------------------
(* The suggestions on their way: their typing.                             *)

Forms == {"suggestion", "moved", "oneliner", "note"}
Items == [name : Nat \X Nat, complete : BOOLEAN, start : Int, end : Int, score : Int,
          scored : BOOLEAN, form : Forms]
IsAnswer(name) ==
    name[1] \in DOMAIN publication.answers /\ name[2] \in DOMAIN publication.answers[name[1]]

\* What is kept has the score and the lines of its answer, or none when the
\* feedback of its call is missing.
KeptItems ==
    {s \in Items :
        /\ IsAnswer(s.name) /\ s.complete /\ s.form = "suggestion"
        /\ \/ /\ s.scored /\ s.score = Answer(s.name).score /\ s.score >= Lowest
              /\ s.start = Answer(s.name).start /\ s.end = Answer(s.name).end /\ s.start >= 0
           \/ ~s.scored /\ s.start = 0 /\ publication.feedback[s.name[1]] # "scored"}
OwnItems ==
    {s \in Items :
        /\ IsAnswer(s.name) /\ s.score = Answer(s.name).score /\ s.score >= Lowest
        /\ s.start > 0 /\ s.start >= Answer(s.name).start
        /\ s.end <= Answer(s.name).end}
LinedItems == {s \in OwnItems : s.start <= s.end}


\* The members of a selection are those of the list that pass, in the same number.
LEMMA SelectionIs ==
    ASSUME NEW S, NEW list \in Seq(S), NEW places, places \subseteq DOMAIN list,
           NEW c, c = Chosen(list, places)
    PROVE  /\ c \in Seq(S)
           /\ \A k \in DOMAIN c : \E i \in places : c[k] = list[i]
           /\ \A i \in places : \E k \in DOMAIN c : c[k] = list[i]
           /\ Once(list) => Once(c)
           /\ Len(list) <= 1 => Len(c) <= 1
           /\ list = <<>> => c = <<>>
<1>1. c \in Seq(S) /\ Takes(c, list, places)
  BY ChosenIs
<1>2. PICK at \in [DOMAIN c -> places] :
          /\ \A k \in DOMAIN c : c[k] = list[at[k]]
          /\ \A k, l \in DOMAIN c : at[k] = at[l] => k = l
          /\ \A i \in places : \E k \in DOMAIN c : at[k] = i
  BY <1>1 DEF Takes
<1>3. \A k \in DOMAIN c : \E i \in places : c[k] = list[i]
  BY <1>2
<1>4. \A i \in places : \E k \in DOMAIN c : c[k] = list[i]
  BY <1>2
<1>5. Once(list) => Once(c)
  BY <1>2 DEF Once
<1>6. ASSUME Len(list) <= 1 PROVE Len(c) <= 1
  <2> SUFFICES ASSUME ~(Len(c) <= 1) PROVE FALSE
    OBVIOUS
  <2>1. DOMAIN c = 1..Len(c) /\ Len(c) \in Nat /\ DOMAIN list = 1..Len(list) /\ Len(list) \in Nat
    BY <1>1
  <2>2. 1 \in DOMAIN c /\ 2 \in DOMAIN c
    BY <2>1
  <2>3. at[1] \in places /\ at[2] \in places
    BY <1>2, <2>2
  <2>4. at[1] \in 1..Len(list) /\ at[2] \in 1..Len(list)
    BY <2>1, <2>3
  <2>5. at[1] = at[2]
    BY <1>6, <2>1, <2>4
  <2> QED
    BY <1>2, <2>2, <2>5
<1>7. ASSUME list = <<>> PROVE c = <<>>
  <2>1. places = {}
    BY <1>7
  <2>2. DOMAIN c = {} /\ DOMAIN c = 1..Len(c) /\ Len(c) \in Nat
    BY <1>1, <1>2, <2>1
  <2>3. Len(c) = 0
    BY <2>2
  <2> QED
    BY <1>1, <2>3
<1> QED
  BY <1>1, <1>3, <1>4, <1>5, <1>6, <1>7

\* Greatest and least of few.
LEMMA MaxOfTwo ==
    ASSUME NEW a \in Int, NEW b \in Int
    PROVE  Max({a, b}) \in {a, b} /\ Max({a, b}) >= a /\ Max({a, b}) >= b
<1>1. \E x \in {a, b} : \A y \in {a, b} : x >= y
  OBVIOUS
<1>2. Max({a, b}) \in {a, b} /\ \A y \in {a, b} : Max({a, b}) >= y
  BY <1>1 DEF Max
<1> QED
  BY <1>2

LEMMA MinOfTwo ==
    ASSUME NEW a \in Int, NEW b \in Int
    PROVE  Min({a, b}) \in {a, b} /\ Min({a, b}) <= a /\ Min({a, b}) <= b
<1>1. \E x \in {a, b} : \A y \in {a, b} : x <= y
  OBVIOUS
<1>2. Min({a, b}) \in {a, b} /\ \A y \in {a, b} : Min({a, b}) <= y
  BY <1>1 DEF Min
<1> QED
  BY <1>2

LEMMA MaxOfThree ==
    ASSUME NEW a \in Int, NEW b \in Int, NEW c \in Int
    PROVE  /\ Max({a, b, c}) \in {a, b, c}
           /\ Max({a, b, c}) >= a /\ Max({a, b, c}) >= b /\ Max({a, b, c}) >= c
<1>1. \E x \in {a, b, c} : \A y \in {a, b, c} : x >= y
  <2>1. CASE a >= b /\ a >= c
    BY <2>1
  <2>2. CASE b >= a /\ b >= c
    BY <2>2
  <2>3. CASE c >= a /\ c >= b
    BY <2>3
  <2> QED
    BY <2>1, <2>2, <2>3
<1>2. Max({a, b, c}) \in {a, b, c} /\ \A y \in {a, b, c} : Max({a, b, c}) >= y
  BY <1>1 DEF Max
<1> QED
  BY <1>2

-----------------------------------------------------------------------------
(* What becomes of a suggestion near a hunk.                               *)

RangeAt(k) == RangeOf(publication.hunks[k])
Reaches(s, k) == k \in DOMAIN publication.hunks /\ Beside(s, RangeAt(k)) /\ Apart(s, RangeAt(k)) < Near

LEMMA HunksAre ==
    ASSUME publication \in Publications, NEW k \in DOMAIN publication.hunks
    PROVE  /\ publication.hunks[k].start \in Nat /\ publication.hunks[k].size \in Nat
           /\ k \in Nat /\ RangeAt(k).start = publication.hunks[k].start
           /\ RangeAt(k).end =
                 publication.hunks[k].start - 1
                 + IF publication.hunks[k].size = 1 THEN 0 ELSE publication.hunks[k].size
           /\ RangeAt(k).end \in Int
<1>1. publication.hunks \in Seq([start : Nat, size : Nat])
  BY PublicationsAssumption
<1>2. publication.hunks[k] \in [start : Nat, size : Nat] /\ k \in Nat
  <2> DEFINE list == publication.hunks
             S == [start : Nat, size : Nat]
  <2>1. list \in Seq(S) /\ k \in DOMAIN list
    BY <1>1
  <2> HIDE DEF list, S
  <2>2. list[k] \in S /\ k \in Nat
    BY <2>1
  <2> QED
    BY <2>2 DEF list, S
<1>3. publication.hunks[k].start \in Nat /\ publication.hunks[k].size \in Nat
  BY <1>2
<1> DEFINE h == publication.hunks[k]
<1>4. RangeAt(k).start = h.start /\ RangeAt(k).end = h.start - 1 + IF h.size = 1 THEN 0 ELSE h.size
  BY DEF RangeAt, RangeOf
<1>5. RangeAt(k).end \in Int
  <2>1. CASE h.size = 1
    BY <1>3, <1>4, <2>1
  <2>2. CASE h.size # 1
    BY <1>3, <1>4, <2>2
  <2> QED
    BY <2>1, <2>2
<1> QED
  BY <1>2, <1>3, <1>4, <1>5

LEMMA ApartIs ==
    ASSUME publication \in Publications, NEW k \in DOMAIN publication.hunks,
           NEW s, s.start \in Int, s.end \in Int
    PROVE  /\ Apart(s, RangeAt(k)) \in Nat
           /\ Apart(s, RangeAt(k)) \in {0, RangeAt(k).start - s.start, s.end - RangeAt(k).end}
           /\ Apart(s, RangeAt(k)) >= RangeAt(k).start - s.start
           /\ Apart(s, RangeAt(k)) >= s.end - RangeAt(k).end
<1> DEFINE a == RangeAt(k).start - s.start
           b == s.end - RangeAt(k).end
<1>1. a \in Int /\ b \in Int /\ 0 \in Int
  BY HunksAre
<1>2. Apart(s, RangeAt(k)) = Max({0, a, b})
  BY DEF Apart
<1> HIDE DEF a, b
<1>3. Max({0, a, b}) \in {0, a, b} /\ Max({0, a, b}) >= 0 /\ Max({0, a, b}) >= a /\ Max({0, a, b}) >= b
  BY <1>1, MaxOfThree
<1>4. /\ Apart(s, RangeAt(k)) \in Nat /\ Apart(s, RangeAt(k)) \in {0, a, b}
      /\ Apart(s, RangeAt(k)) >= a /\ Apart(s, RangeAt(k)) >= b
  BY <1>1, <1>2, <1>3
<1> QED
  BY <1>4 DEF a, b

Moved(s, k) ==
    [s EXCEPT !.start = Max({s.start, RangeAt(k).start}), !.end = Min({s.end, RangeAt(k).end}),
              !.form = "moved"]

\* A suggestion stays, or it is moved to a hunk that no other is nearer than.
LEMMA ClippedIs ==
    ASSUME publication \in Publications, NEW s, s.start \in Int, s.end \in Int
    PROVE  \/ Clipped(s) = s
           \/ \E k \in DOMAIN publication.hunks :
                 /\ Reaches(s, k) /\ Clipped(s) = Moved(s, k)
                 /\ \A l \in DOMAIN publication.hunks :
                       ~Within(s, RangeAt(l)) /\ (Reaches(s, l) => Apart(s, RangeAt(k)) <= Apart(s, RangeAt(l)))
<1> DEFINE hunks == [k \in DOMAIN publication.hunks |-> RangeOf(publication.hunks[k])]
           near == {k \in DOMAIN hunks : Beside(s, hunks[k]) /\ Apart(s, hunks[k]) < Near}
           best == {k \in near : \A l \in near : Apart(s, hunks[k]) <= Apart(s, hunks[l])}
           h == hunks[Min(best)]
           inside == \E k \in DOMAIN hunks : Within(s, hunks[k])
<1>1. Clipped(s) = IF inside \/ near = {} THEN s
                   ELSE [s EXCEPT !.start = Max({s.start, h.start}), !.end = Min({s.end, h.end}),
                                  !.form = "moved"]
  BY DEF Clipped
<1>2. DOMAIN hunks = DOMAIN publication.hunks /\ \A k \in DOMAIN publication.hunks : hunks[k] = RangeAt(k)
  BY DEF RangeAt
<1> HIDE DEF hunks
<1>3. /\ near = {k \in DOMAIN publication.hunks : Reaches(s, k)}
      /\ inside <=> \E k \in DOMAIN publication.hunks : Within(s, RangeAt(k))
  BY <1>2 DEF Reaches
<1>4. CASE inside \/ near = {}
  <2> HIDE DEF inside, near, h
  <2> QED
    BY <1>1, <1>4
<1>5. CASE ~inside /\ near # {}
  <2> DEFINE T == {Apart(s, RangeAt(k)) : k \in near}
  <2>1. T \subseteq Nat /\ T # {}
    BY <1>3, <1>5, ApartIs
  <2>2. PICK a \in T : \A b \in T : a <= b
    <3> HIDE DEF T
    <3> QED
      BY <2>1, Least
  <2>3. PICK k \in near : a = Apart(s, RangeAt(k))
    BY <2>2
  <2>4. \A l \in near : Apart(s, RangeAt(k)) <= Apart(s, RangeAt(l))
    BY <2>2, <2>3
  <2>5. \A l \in near : hunks[l] = RangeAt(l)
    BY <1>2, <1>3
  <2>6. k \in best
    <3> HIDE DEF near
    <3> QED
      BY <2>3, <2>4, <2>5
  <2>7. best \subseteq Nat
    BY <1>3, HunksAre
  <2>8. \E x \in best : \A y \in best : x <= y
    <3> HIDE DEF best
    <3> QED
      BY <2>6, <2>7, Least
  <2>9. Min(best) \in best
    <3> HIDE DEF best
    <3> QED
      BY <2>8 DEF Min
  <2> DEFINE m == Min(best)
  <2>10. m \in near /\ \A l \in near : Apart(s, hunks[m]) <= Apart(s, hunks[l])
    <3> HIDE DEF near, m
    <3>1. m \in best
      BY <2>9 DEF m
    <3> QED
      BY <3>1
  <2>11. m \in DOMAIN publication.hunks /\ Reaches(s, m) /\ hunks[m] = RangeAt(m)
    BY <1>3, <2>5, <2>10
  <2>12. h = RangeAt(m)
    BY <2>11
  <2>13. Clipped(s) = Moved(s, m)
    <3> HIDE DEF inside, near, h
    <3> QED
      BY <1>1, <1>5, <2>12 DEF Moved
  <2>14. ASSUME NEW l \in DOMAIN publication.hunks
         PROVE  ~Within(s, RangeAt(l)) /\ (Reaches(s, l) => Apart(s, RangeAt(m)) <= Apart(s, RangeAt(l)))
    <3>1. ~Within(s, RangeAt(l))
      BY <1>3, <1>5
    <3>2. Reaches(s, l) => l \in near
      BY <1>3
    <3> HIDE DEF near, m
    <3> QED
      BY <2>5, <2>10, <2>11, <3>1, <3>2
  <2> HIDE DEF m
  <2> QED
    BY <2>11, <2>13, <2>14
<1> QED
  BY <1>4, <1>5

LEMMA OwnIs ==
    ASSUME NEW s \in OwnItems
    PROVE  /\ s \in Items /\ s.name \in Nat \X Nat /\ s.complete \in BOOLEAN /\ s.start \in Int
           /\ s.end \in Int /\ s.score \in Int /\ s.scored \in BOOLEAN /\ s.form \in Forms
           /\ IsAnswer(s.name) /\ s.score = Answer(s.name).score /\ s.score >= Lowest
           /\ s.start > 0 /\ s.start >= Answer(s.name).start /\ s.end <= Answer(s.name).end
<1>1. s \in Items
  BY DEF OwnItems
<1> QED
  BY <1>1 DEF OwnItems, Items

Narrowed(s, a, b, form) == [s EXCEPT !.start = a, !.end = b, !.form = form]

\* Fewer lines of the same suggestion.
LEMMA Narrower ==
    ASSUME NEW s \in OwnItems, NEW a \in Int, NEW b \in Int, NEW form \in Forms,
           a >= s.start, b <= s.end, publication \in Publications
    PROVE  /\ Narrowed(s, a, b, form) \in OwnItems
           /\ a <= b => Narrowed(s, a, b, form) \in LinedItems
           /\ Narrowed(s, a, b, form).name = s.name /\ Narrowed(s, a, b, form).start = a
           /\ Narrowed(s, a, b, form).end = b
<1> DEFINE c == Narrowed(s, a, b, form)
<1>1. s \in Items
  BY OwnIs
<1>2. c \in Items
  BY <1>1 DEF Items, Narrowed
<1>3. c.name = s.name /\ c.start = a /\ c.end = b /\ c.score = s.score
  BY <1>1 DEF Items, Narrowed
<1> HIDE DEF c
<1>4. Answer(s.name).start \in Int /\ Answer(s.name).end \in Int
  <2>1. publication.answers \in Seq(Seq(Suggestion)) /\ IsAnswer(s.name)
    BY OwnIs, PublicationsAssumption
  <2> DEFINE list == publication.answers
             S == Suggestion
             q == list[s.name[1]]
  <2>2. list \in Seq(Seq(S)) /\ s.name[1] \in DOMAIN list /\ s.name[2] \in DOMAIN q
    BY <2>1 DEF IsAnswer
  <2>3. q \in Seq(S)
    <3> HIDE DEF list, S
    <3> QED
      BY <2>2
  <2>4. q[s.name[2]] \in S
    <3> HIDE DEF q, S, list
    <3> QED
      BY <2>2, <2>3
  <2>5. Answer(s.name) \in Suggestion
    BY <2>4 DEF Answer
  <2> QED
    BY <2>5 DEF Suggestion
<1>5. c \in OwnItems
  <2>1. /\ IsAnswer(c.name) /\ c.score = Answer(c.name).score /\ c.score >= Lowest
        /\ c.start > 0 /\ c.start >= Answer(c.name).start /\ c.end <= Answer(c.name).end
    BY <1>3, <1>4, OwnIs
  <2> QED
    BY <1>2, <2>1 DEF OwnItems
<1> QED
  BY <1>3, <1>5 DEF c, LinedItems

LEMMA MovedIs ==
    ASSUME publication \in Publications, NEW s \in OwnItems, NEW k \in DOMAIN publication.hunks
    PROVE  /\ Moved(s, k) \in OwnItems /\ Moved(s, k).name = s.name
           /\ Moved(s, k).start = Max({s.start, RangeAt(k).start})
           /\ Moved(s, k).end = Min({s.end, RangeAt(k).end})
           /\ Moved(s, k).start <= Moved(s, k).end => Moved(s, k) \in LinedItems
<1> DEFINE r == RangeAt(k).start
           q == RangeAt(k).end
           a == Max({s.start, r})
           b == Min({s.end, q})
           form == "moved"
<1>1. s.start \in Int /\ s.end \in Int /\ r \in Int /\ q \in Int /\ s \in Items
  BY OwnIs, HunksAre
<1> HIDE DEF r, q
<1>2. a \in Int /\ b \in Int /\ a >= s.start /\ b <= s.end
  BY <1>1, MaxOfTwo, MinOfTwo
<1>3. form \in Forms
  BY DEF Forms
<1>4. Moved(s, k) = Narrowed(s, a, b, form)
  BY DEF Moved, Narrowed, r, q
<1> HIDE DEF a, b, form
<1>5. /\ Moved(s, k) \in OwnItems /\ (a <= b => Moved(s, k) \in LinedItems)
      /\ Moved(s, k).name = s.name /\ Moved(s, k).start = a /\ Moved(s, k).end = b
  BY <1>2, <1>3, <1>4, Narrower
<1> QED
  BY <1>5 DEF a, b, r, q

LEMMA ClippedOwn ==
    ASSUME publication \in Publications, NEW s \in OwnItems
    PROVE  /\ Clipped(s) \in OwnItems /\ Clipped(s).name = s.name
           /\ HasLines(Clipped(s)) => Clipped(s) \in LinedItems
<1>1. s.start \in Int /\ s.end \in Int
  BY OwnIs
<1>2. Clipped(s) = s \/ \E k \in DOMAIN publication.hunks : Clipped(s) = Moved(s, k)
  BY <1>1, ClippedIs
<1>3. CASE Clipped(s) = s
  BY <1>3 DEF HasLines, LinedItems
<1>4. ASSUME NEW k \in DOMAIN publication.hunks, Clipped(s) = Moved(s, k)
      PROVE  /\ Clipped(s) \in OwnItems /\ Clipped(s).name = s.name
             /\ HasLines(Clipped(s)) => Clipped(s) \in LinedItems
  BY <1>4, MovedIs DEF HasLines
<1> QED
  BY <1>2, <1>3, <1>4

\* On lines of the diff by its first one.
Placeable(s) == StartsInDiff(s) /\ s.start <= s.end
NoShortHunk == Host = "github" => \A h \in ToSet(publication.hunks) : h.size >= 2

LEMMA InDiffIs ==
    ASSUME publication \in Publications, NEW s \in OwnItems
    PROVE  /\ InDiff(s) <=> \E k \in DOMAIN publication.hunks :
                               /\ publication.hunks[k].start <= s.start
                               /\ s.end < publication.hunks[k].start + publication.hunks[k].size
           /\ StartsInDiff(s) <=> \E k \in DOMAIN publication.hunks :
                               /\ publication.hunks[k].start <= s.start
                               /\ s.start < publication.hunks[k].start + publication.hunks[k].size
<1>1. \A t : InDiff(t) <=> \E k \in DOMAIN publication.hunks :
                               /\ publication.hunks[k].start <= t.start
                               /\ t.end < publication.hunks[k].start + publication.hunks[k].size
  BY DEF InDiff, InHunk, ToSet
<1> DEFINE t == [s EXCEPT !.end = s.start]
<1>2. t.start = s.start /\ t.end = s.start
  BY OwnIs DEF Items
<1>3. StartsInDiff(s) = InDiff(t)
  BY DEF StartsInDiff
<1> HIDE DEF t
<1> QED
  BY <1>1, <1>2, <1>3

\* GitHub's client moves it to other lines of the diff at most.
LEMMA ClippedPlaceable ==
    ASSUME publication \in Publications, Host = "github", NoShortHunk,
           NEW s \in OwnItems, Placeable(s)
    PROVE  Placeable(Clipped(s)) /\ HasLines(Clipped(s))
<1>1. s.start \in Int /\ s.end \in Int /\ s.start > 0 /\ s.start <= s.end
  BY OwnIs DEF Placeable
<1>2. CASE Clipped(s) = s
  BY <1>1, <1>2 DEF HasLines
<1>3. ASSUME NEW k \in DOMAIN publication.hunks, Reaches(s, k), Clipped(s) = Moved(s, k),
             \A l \in DOMAIN publication.hunks :
                 /\ ~Within(s, RangeAt(l))
                 /\ Reaches(s, l) => Apart(s, RangeAt(k)) <= Apart(s, RangeAt(l))
      PROVE  Placeable(Clipped(s)) /\ HasLines(Clipped(s))
  <2>1. PICK l \in DOMAIN publication.hunks :
            /\ publication.hunks[l].start <= s.start
            /\ s.start < publication.hunks[l].start + publication.hunks[l].size
    BY InDiffIs DEF Placeable
  <2> DEFINE a == publication.hunks[k].start
             b == RangeAt(k).end
             c == publication.hunks[l].start
             d == RangeAt(l).end
             near == Apart(s, RangeAt(k))
             far == Apart(s, RangeAt(l))
  <2>2. /\ publication.hunks[k].size \in Nat /\ publication.hunks[k].size >= 2
        /\ publication.hunks[l].size \in Nat /\ publication.hunks[l].size >= 2
    BY HunksAre DEF NoShortHunk, ToSet
  <2>3. /\ a \in Nat /\ c \in Nat
        /\ b = a - 1 + publication.hunks[k].size /\ d = c - 1 + publication.hunks[l].size
        /\ RangeAt(k).start = a /\ RangeAt(l).start = c /\ b \in Int /\ d \in Int
    BY <2>2, HunksAre
  <2>4. a < b /\ c < d /\ c <= s.start /\ s.start <= d
    BY <1>1, <2>1, <2>2, <2>3
  <2>5. s.end > d
    BY <1>1, <1>3, <2>3, <2>4 DEF Within
  <2>6. far = s.end - d /\ far \in Int
    BY <1>1, <2>3, <2>4, <2>5, ApartIs
  <2>7. near \in Int /\ near >= a - s.start /\ near >= s.end - b
    BY <1>1, <2>3, ApartIs
  <2>8. near <= far
    <3>1. Beside(s, RangeAt(l))
      BY <1>1, <2>3, <2>4 DEF Beside
    <3>2. Near \in Nat
      BY PublicationsAssumption
    <3>3. near < Near
      BY <1>3 DEF Reaches
    <3>4. CASE far < Near
      BY <1>3, <3>1, <3>4 DEF Reaches
    <3>5. CASE ~(far < Near)
      BY <2>6, <2>7, <3>2, <3>3, <3>5
    <3> QED
      BY <3>4, <3>5
  <2>9. s.start <= b /\ a <= s.end
    BY <1>1, <2>3, <2>4, <2>5, <2>6, <2>7, <2>8
  <2>10. ~(s.start < a /\ b < s.end)
    BY <1>3, <2>3 DEF Reaches, Beside
  <2> DEFINE m == Moved(s, k)
  <2>11. m \in OwnItems /\ m.start = Max({s.start, a}) /\ m.end = Min({s.end, b})
    BY <2>3, MovedIs
  <2> HIDE DEF a, b, c, d, near, far, m
  <2>12. /\ m.start \in {s.start, a} /\ m.start >= s.start /\ m.start >= a
         /\ m.end \in {s.end, b} /\ m.end <= s.end /\ m.end <= b
    <3> DEFINE x == s.start
               y == s.end
    <3>1. x \in Int /\ y \in Int /\ a \in Int /\ b \in Int
      BY <1>1, <2>3
    <3> HIDE DEF x, y
    <3>2. Max({x, a}) \in {x, a} /\ Max({x, a}) >= x /\ Max({x, a}) >= a
      BY <3>1, MaxOfTwo
    <3>3. Min({y, b}) \in {y, b} /\ Min({y, b}) <= y /\ Min({y, b}) <= b
      BY <3>1, MinOfTwo
    <3> QED
      BY <2>11, <3>2, <3>3 DEF x, y
  <2>13. m.start <= m.end /\ m.start > 0 /\ a <= m.start /\ m.start <= b
    BY <1>1, <2>3, <2>4, <2>9, <2>12
  <2>14. m.start \in Int /\ m.start < a + publication.hunks[k].size
    BY <1>1, <2>2, <2>3, <2>12, <2>13
  <2>15. StartsInDiff(m)
    BY <2>11, <2>13, <2>14, InDiffIs DEF a
  <2> QED
    BY <1>3, <2>13, <2>15 DEF m, Placeable, HasLines
<1> QED
  BY <1>1, <1>2, <1>3, ClippedIs

LEMMA SequenceOf ==
    ASSUME NEW S, NEW T, NEW c \in Seq(S), \A k \in DOMAIN c : c[k] \in T
    PROVE  c \in Seq(T)
<1>1. DOMAIN c = 1..Len(c) /\ Len(c) \in Nat /\ c = [k \in 1..Len(c) |-> c[k]]
  OBVIOUS
<1>2. c \in [1..Len(c) -> T]
  BY <1>1
<1> QED
  BY <1>1, <1>2

\* A list made of another member by member.
LEMMA SameLength ==
    ASSUME NEW S, NEW T, NEW list \in Seq(S), NEW c,
           DOMAIN c = DOMAIN list, c = [i \in DOMAIN list |-> c[i]],
           \A i \in DOMAIN list : c[i] \in T
    PROVE  c \in Seq(T) /\ Len(c) = Len(list) /\ (list = <<>> => c = <<>>)
<1>1. DOMAIN list = 1..Len(list) /\ Len(list) \in Nat
  OBVIOUS
<1>2. c \in [1..Len(list) -> T]
  BY <1>1
<1>3. c \in Seq(T) /\ Len(c) = Len(list)
  BY <1>1, <1>2
<1>4. list = <<>> => c = <<>>
  <2> HAVE list = <<>>
  <2>1. Len(c) = 0
    BY <1>3
  <2> QED
    BY <1>3, <2>1
<1> QED
  BY <1>3, <1>4

LEMMA ClippedList ==
    ASSUME publication \in Publications, NEW list \in Seq(OwnItems),
           NEW c, c = [i \in DOMAIN list |-> Clipped(list[i])]
    PROVE  /\ c \in Seq(OwnItems) /\ DOMAIN c = DOMAIN list /\ Len(c) = Len(list)
           /\ list = <<>> => c = <<>>
           /\ \A i \in DOMAIN list :
                 /\ list[i] \in OwnItems /\ c[i] = Clipped(list[i]) /\ c[i].name = list[i].name
                 /\ HasLines(c[i]) => c[i] \in LinedItems
<1>1. \A i \in DOMAIN list : list[i] \in OwnItems
  OBVIOUS
<1>2. \A i \in DOMAIN list :
          /\ c[i] = Clipped(list[i]) /\ c[i] \in OwnItems /\ c[i].name = list[i].name
          /\ HasLines(c[i]) => c[i] \in LinedItems
  BY <1>1, ClippedOwn
<1>3. DOMAIN c = DOMAIN list /\ c = [i \in DOMAIN list |-> c[i]]
  OBVIOUS
<1> DEFINE S == OwnItems
<1>4. list \in Seq(S) /\ \A i \in DOMAIN list : c[i] \in S
  BY <1>2
<1> HIDE DEF S
<1>5. c \in Seq(S) /\ Len(c) = Len(list) /\ (list = <<>> => c = <<>>)
  BY <1>3, <1>4, SameLength
<1> QED
  BY <1>1, <1>2, <1>3, <1>5 DEF S

\* What is sent of a list.
LEMMA SentIs ==
    ASSUME publication \in Publications, NEW list \in Seq(OwnItems), NEW c, c = Sent(list)
    PROVE  /\ c \in Seq(OwnItems)
           /\ Host = "github" => c \in Seq(LinedItems)
           /\ Once(list) => Once(c)
           /\ Names(c) \subseteq Names(list)
           /\ Len(list) <= 1 => Len(c) <= 1
           /\ list = <<>> => c = <<>>
           /\ Host # "github" => ToSet(c) \subseteq ToSet(list)
           /\ NoShortHunk => \A k \in DOMAIN list :
                 Placeable(list[k]) =>
                     \E l \in DOMAIN c : c[l].name = list[k].name /\ Placeable(c[l])
<1> DEFINE S == OwnItems
<1>0. \A i \in DOMAIN list : list[i] \in S
  OBVIOUS
<1>1. CASE Host = "github"
  <2> DEFINE moved == [i \in DOMAIN list |-> Clipped(list[i])]
             places == {i \in DOMAIN moved : HasLines(moved[i])}
  <2>1. /\ moved \in Seq(S) /\ DOMAIN moved = DOMAIN list /\ Len(moved) = Len(list)
        /\ list = <<>> => moved = <<>>
        /\ \A i \in DOMAIN list :
              /\ list[i] \in S /\ moved[i] = Clipped(list[i]) /\ moved[i].name = list[i].name
              /\ HasLines(moved[i]) => moved[i] \in LinedItems
    <3> HIDE DEF moved
    <3>1. moved = [i \in DOMAIN list |-> Clipped(list[i])]
      BY DEF moved
    <3> QED
      BY <3>1, ClippedList
  <2>2. c = Chosen(moved, places) /\ places \subseteq DOMAIN moved
    BY <1>1 DEF Sent, SentToGithub, Those
  <2>3. \A i \in places : HasLines(moved[i]) /\ i \in DOMAIN list
    BY <2>1
  <2>4. \A i \in DOMAIN list : HasLines(moved[i]) => i \in places
    BY <2>1
  <2> HIDE DEF moved, places, S
  <2>5. /\ c \in Seq(S)
        /\ \A k \in DOMAIN c : \E i \in places : c[k] = moved[i]
        /\ \A i \in places : \E k \in DOMAIN c : c[k] = moved[i]
        /\ Once(moved) => Once(c)
        /\ Len(moved) <= 1 => Len(c) <= 1
        /\ moved = <<>> => c = <<>>
    BY <2>1, <2>2, SelectionIs
  <2>6. c \in Seq(LinedItems)
    <3> DEFINE T == LinedItems
    <3>1. \A k \in DOMAIN c : c[k] \in T
      BY <2>1, <2>3, <2>5
    <3> HIDE DEF T
    <3>2. c \in Seq(T)
      BY <2>5, <3>1, SequenceOf
    <3> QED
      BY <3>2 DEF T
  <2>7. Once(list) => Once(moved)
    BY <2>1 DEF Once
  <2>8. Names(c) \subseteq Names(list)
    BY <2>1, <2>3, <2>5 DEF Names
  <2>9. ASSUME NoShortHunk, NEW k \in DOMAIN list, Placeable(list[k])
        PROVE  \E l \in DOMAIN c : c[l].name = list[k].name /\ Placeable(c[l])
    <3>1. list[k] \in OwnItems /\ moved[k] = Clipped(list[k]) /\ moved[k].name = list[k].name
      BY <2>1 DEF S
    <3>2. Placeable(moved[k]) /\ HasLines(moved[k])
      BY <1>1, <2>9, <3>1, ClippedPlaceable
    <3>3. PICK l \in DOMAIN c : c[l] = moved[k]
      BY <2>4, <2>5, <3>2
    <3> QED
      BY <3>1, <3>2, <3>3
  <2>10. list = <<>> => c = <<>>
    BY <2>1, <2>5
  <2>11. Len(list) <= 1 => Len(c) <= 1
    BY <2>1, <2>5
  <2>12. c \in Seq(OwnItems) /\ (Once(list) => Once(c))
    BY <2>5, <2>7 DEF S
  <2> QED
    BY <1>1, <2>6, <2>8, <2>9, <2>10, <2>11, <2>12
<1>2. CASE Host # "github" /\ Host \in {"azure", "bitbucket", "bitbucket_server"}
  <2> DEFINE places == {i \in DOMAIN list : HasLines(list[i])}
  <2>1. c = Chosen(list, places) /\ places \subseteq DOMAIN list
    BY <1>2 DEF Sent, SentToOthers, Those
  <2>2. \A i \in DOMAIN list : Placeable(list[i]) => i \in places
    BY <1>0, OwnIs DEF Placeable, HasLines
  <2> HIDE DEF places, S
  <2>3. /\ c \in Seq(S)
        /\ \A k \in DOMAIN c : \E i \in places : c[k] = list[i]
        /\ \A i \in places : \E k \in DOMAIN c : c[k] = list[i]
        /\ Once(list) => Once(c)
        /\ Len(list) <= 1 => Len(c) <= 1
        /\ list = <<>> => c = <<>>
    <3>1. list \in Seq(S)
      BY DEF S
    <3> QED
      BY <2>1, <3>1, SelectionIs
  <2>4. \A k \in DOMAIN c : \E i \in DOMAIN list : c[k] = list[i]
    BY <2>1, <2>3
  <2>5. Names(c) \subseteq Names(list) /\ ToSet(c) \subseteq ToSet(list)
    BY <2>4 DEF Names, ToSet
  <2>6. \A k \in DOMAIN list :
            Placeable(list[k]) => \E l \in DOMAIN c : c[l].name = list[k].name /\ Placeable(c[l])
    BY <2>2, <2>3
  <2>7. c \in Seq(OwnItems)
    BY <2>3 DEF S
  <2> QED
    BY <1>2, <2>3, <2>5, <2>6, <2>7
<1>3. CASE Host # "github" /\ Host \notin {"azure", "bitbucket", "bitbucket_server"}
  <2>1. c = list
    BY <1>3 DEF Sent, SentToOthers
  <2> QED
    BY <1>3, <2>1
<1> QED
  BY <1>1, <1>2, <1>3

Shortened(s) == [s EXCEPT !.end = s.start, !.form = "oneliner"]

\* On its first line only, without the code.
LEMMA ShortenedIs ==
    ASSUME publication \in Publications, NEW s \in LinedItems
    PROVE  /\ Shortened(s) \in LinedItems /\ Shortened(s).name = s.name
           /\ Shortened(s).start = s.start /\ Shortened(s).end = s.start
<1>1. s \in OwnItems /\ s.start <= s.end
  BY DEF LinedItems
<1>2. s.start \in Int /\ s.end \in Int /\ s \in Items
  BY <1>1, OwnIs
<1> DEFINE a == s.start
           form == "oneliner"
           t == [s EXCEPT !.start = a]
<1>3. t = s
  BY <1>2 DEF Items
<1>4. Narrowed(s, a, a, form) = [t EXCEPT !.end = a, !.form = form]
  BY <1>2 DEF Narrowed, Items
<1>5. Shortened(s) = Narrowed(s, a, a, form)
  <2>1. Shortened(s) = [s EXCEPT !.end = a, !.form = form]
    BY DEF Shortened
  <2> HIDE DEF a, form, t
  <2> QED
    BY <2>1, <1>3, <1>4
<1>6. a \in Int /\ a >= s.start /\ a <= s.end /\ a <= a /\ form \in Forms
  BY <1>1, <1>2 DEF Forms
<1> HIDE DEF a, form
<1>7. /\ Shortened(s) \in LinedItems /\ Shortened(s).name = s.name
      /\ Shortened(s).start = a /\ Shortened(s).end = a
  BY <1>1, <1>5, <1>6, Narrower
<1> QED
  BY <1>7 DEF a

\* The first lines of comments that GitHub refused.
LEMMA FixedIs ==
    ASSUME publication \in Publications, NEW list \in Seq(LinedItems), NEW c, c = Fixed(list)
    PROVE  /\ c \in Seq(LinedItems)
           /\ Once(list) => Once(c)
           /\ Names(c) \subseteq Names(list)
           /\ \A k \in DOMAIN list :
                 Placeable(list[k]) /\ ~InDiff(list[k]) =>
                     \E l \in DOMAIN c : c[l].name = list[k].name /\ InDiff(c[l]) /\ Placeable(c[l])
<1> DEFINE S == LinedItems
           places == {i \in DOMAIN list : list[i].form = "suggestion" \/ list[i].start < list[i].end}
           changed == Chosen(list, places)
<1>1. \A i \in DOMAIN list : list[i] \in S
  OBVIOUS
<1>2. c = [i \in DOMAIN changed |-> Shortened(changed[i])]
  BY DEF Fixed, Those, Shortened
<1>3. \A s \in S : /\ Shortened(s) \in S /\ Shortened(s).name = s.name
                   /\ Shortened(s).start = s.start /\ Shortened(s).end = s.start
  BY ShortenedIs
<1>4. places \subseteq DOMAIN list /\ changed = Chosen(list, places)
  OBVIOUS
<1>5. \A i \in DOMAIN list : list[i].start < list[i].end => i \in places
  OBVIOUS
<1> HIDE DEF places, changed, S
<1>6. /\ changed \in Seq(S)
      /\ \A k \in DOMAIN changed : \E i \in places : changed[k] = list[i]
      /\ \A i \in places : \E k \in DOMAIN changed : changed[k] = list[i]
      /\ Once(list) => Once(changed)
  <2>1. list \in Seq(S)
    BY DEF S
  <2> QED
    BY <1>4, <2>1, SelectionIs
<1>7. \A k \in DOMAIN changed : changed[k] \in S
  BY <1>6
<1>8. \A k \in DOMAIN changed : c[k] = Shortened(changed[k]) /\ c[k].name = changed[k].name
  BY <1>2, <1>3, <1>7
<1>9. DOMAIN c = DOMAIN changed /\ c = [i \in DOMAIN changed |-> c[i]]
  BY <1>2
<1>10. c \in Seq(S)
  <2>1. \A k \in DOMAIN changed : c[k] \in S
    BY <1>3, <1>7, <1>8
  <2>2. changed \in Seq(S) /\ DOMAIN changed = 1..Len(changed) /\ Len(changed) \in Nat
    BY <1>6
  <2>3. c \in [1..Len(changed) -> S]
    BY <1>9, <2>1, <2>2
  <2> QED
    BY <2>2, <2>3
<1>11. Once(changed) => Once(c)
  BY <1>8, <1>9 DEF Once
<1>12. Names(c) \subseteq Names(list)
  <2>1. \A k \in DOMAIN c : \E i \in DOMAIN list : c[k].name = list[i].name
    <3> TAKE k \in DOMAIN c
    <3>1. k \in DOMAIN changed /\ c[k].name = changed[k].name
      BY <1>8, <1>9
    <3>2. PICK i \in places : changed[k] = list[i]
      BY <1>6, <3>1
    <3> QED
      BY <1>4, <3>1, <3>2
  <2> QED
    BY <2>1 DEF Names
<1>13. ASSUME NEW k \in DOMAIN list, Placeable(list[k]), ~InDiff(list[k])
       PROVE  \E l \in DOMAIN c : c[l].name = list[k].name /\ InDiff(c[l]) /\ Placeable(c[l])
  <2> DEFINE s == list[k]
  <2>1. s \in OwnItems /\ s \in S
    BY <1>1 DEF S, LinedItems
  <2>2. s.start \in Int /\ s.end \in Int /\ s.start <= s.end
    BY <1>13, <2>1, OwnIs DEF Placeable
  <2>3. \E m \in DOMAIN publication.hunks :
            /\ publication.hunks[m].start <= s.start
            /\ s.start < publication.hunks[m].start + publication.hunks[m].size
    BY <1>13, <2>1, InDiffIs DEF Placeable
  <2>4. s.start < s.end
    <3>1. s.start # s.end
      BY <1>13, <2>1, <2>3, InDiffIs
    <3> QED
      BY <2>2, <3>1
  <2>5. PICK l \in DOMAIN changed : changed[l] = s
    BY <1>5, <1>6, <2>4
  <2>6. c[l] = Shortened(s) /\ l \in DOMAIN c
    BY <1>8, <1>9, <2>5
  <2> DEFINE t == c[l]
  <2>7. t \in OwnItems /\ t.name = s.name /\ t.start = s.start /\ t.end = s.start
    BY <1>3, <2>1, <2>6 DEF S, LinedItems
  <2> HIDE DEF s, t
  <2>8. InDiff(t) /\ StartsInDiff(t) /\ t.start <= t.end
    BY <2>2, <2>3, <2>7, InDiffIs
  <2> QED
    BY <2>6, <2>7, <2>8 DEF s, t, Placeable
<1> QED
  BY <1>6, <1>10, <1>11, <1>12, <1>13 DEF S

-----------------------------------------------------------------------------
(* The suggestions that are kept.                                          *)

LEMMA KeptIs ==
    ASSUME NEW s \in KeptItems
    PROVE  /\ s \in Items /\ IsAnswer(s.name) /\ s.complete /\ s.form = "suggestion"
           /\ s.start \in Int /\ s.end \in Int /\ s.start >= 0 /\ s.score \in Int /\ s.scored \in BOOLEAN
           /\ s.scored => /\ s.score = Answer(s.name).score /\ s.score >= Lowest
                          /\ s.start = Answer(s.name).start /\ s.end = Answer(s.name).end
           /\ ~s.scored => s.start = 0 /\ publication.feedback[s.name[1]] # "scored"
<1>1. s \in Items
  BY DEF KeptItems
<1>2. s.start \in Int /\ s.end \in Int /\ s.score \in Int /\ s.scored \in BOOLEAN
  BY <1>1 DEF Items
<1> QED
  BY <1>1, <1>2 DEF KeptItems

\* What is put on lines has lines, so it has the score given to it.
LEMMA ParsedIs ==
    ASSUME NEW list \in Seq(KeptItems), NEW c, c = Parsed(list)
    PROVE  /\ c \in Seq(OwnItems)
           /\ Once(list) => Once(c)
           /\ list = <<>> => c = <<>>
<1> DEFINE S == KeptItems
           T == OwnItems
           places == {i \in DOMAIN list : Located(list[i])}
<1>1. \A i \in places : list[i] \in T
  <2> TAKE i \in places
  <2>1. list[i] \in KeptItems /\ list[i].start # 0
    BY DEF Located
  <2> DEFINE s == list[i]
  <2>2. s \in KeptItems /\ s.start # 0
    BY <2>1
  <2> HIDE DEF s
  <2>3. s.start > 0 /\ s.scored
    BY <2>2, KeptIs
  <2>4. s.start = Answer(s.name).start /\ s.end = Answer(s.name).end /\ s.end \in Int
    BY <2>2, <2>3, KeptIs
  <2>5. s \in OwnItems
    BY <2>2, <2>3, <2>4, KeptIs DEF OwnItems
  <2> QED
    BY <2>5 DEF s
<1>2. c = Chosen(list, places) /\ places \subseteq DOMAIN list
  BY DEF Parsed, Those
<1>3. list \in Seq(S)
  OBVIOUS
<1> HIDE DEF S, T, places
<1>4. /\ c \in Seq(S) /\ (Once(list) => Once(c)) /\ (list = <<>> => c = <<>>)
      /\ \A k \in DOMAIN c : \E i \in places : c[k] = list[i]
  BY <1>2, <1>3, SelectionIs
<1>5. \A k \in DOMAIN c : c[k] \in T
  BY <1>1, <1>4
<1>6. c \in Seq(T)
  BY <1>4, <1>5, SequenceOf
<1> QED
  BY <1>4, <1>6 DEF T

LEMMA AboveDualIs ==
    ASSUME NEW list \in Seq(KeptItems), NEW c, c = Those(list, AboveDual)
    PROVE  /\ c \in Seq(KeptItems)
           /\ Once(list) => Once(c)
           /\ list = <<>> => c = <<>>
<1> DEFINE S == KeptItems
           places == {i \in DOMAIN list : AboveDual(list[i])}
<1>1. list \in Seq(S) /\ c = Chosen(list, places) /\ places \subseteq DOMAIN list
  BY DEF Those
<1> HIDE DEF S, places
<1>2. c \in Seq(S) /\ (Once(list) => Once(c)) /\ (list = <<>> => c = <<>>)
  BY <1>1, SelectionIs
<1> QED
  BY <1>2 DEF S

LEMMA AnswersAre ==
    ASSUME publication \in Publications, NEW j \in DOMAIN publication.answers
    PROVE  /\ j \in Nat /\ publication.answers[j] \in Seq(Suggestion)
           /\ \A i \in DOMAIN publication.answers[j] :
                 publication.answers[j][i] \in Suggestion /\ publication.answers[j][i].name = <<j, i>>
           /\ publication.feedback[j] \in {"scored", "short", "failed"}
<1> DEFINE list == publication.answers
           S == Suggestion
           q == list[j]
<1>1. list \in Seq(Seq(S)) /\ j \in DOMAIN list
  BY PublicationsAssumption
<1>2. j \in Nat /\ q \in Seq(S)
  <2> HIDE DEF list, S
  <2> QED
    BY <1>1
<1>3. \A i \in DOMAIN q : q[i] \in S
  <2> HIDE DEF q, S
  <2> QED
    BY <1>2
<1>4. \A i \in DOMAIN publication.answers[j] : publication.answers[j][i].name = <<j, i>>
  BY PublicationsAssumption
<1>5. publication.feedback[j] \in {"scored", "short", "failed"}
  BY PublicationsAssumption
<1> QED
  BY <1>2, <1>3, <1>4, <1>5

OfAnswer(list, j) ==
    \A k \in DOMAIN list : \E i \in DOMAIN publication.answers[j] :
        list[k] = publication.answers[j][i] /\ list[k].complete

LEMMA PreparedIs ==
    ASSUME publication \in Publications, NEW j \in DOMAIN publication.answers,
           NEW c, c = Prepared(publication.answers[j])
    PROVE  c \in Seq(Suggestion) /\ Once(c) /\ OfAnswer(c, j)
<1> DEFINE S == Suggestion
           list == publication.answers[j]
           places == {i \in DOMAIN list :
                         /\ list[i].complete
                         /\ \A l \in 1..(i - 1) :
                               list[l].complete => list[l].summary # list[i].summary}
<1>1. list \in Seq(S) /\ \A i \in DOMAIN list : list[i].name = <<j, i>>
  BY AnswersAre
<1>2. c = Chosen(list, places) /\ places \subseteq DOMAIN list
  BY DEF Prepared
<1>3. \A i \in places : list[i].complete
  OBVIOUS
<1>4. Once(list)
  BY <1>1 DEF Once
<1> HIDE DEF S, list, places
<1>5. /\ c \in Seq(S) /\ (Once(list) => Once(c))
      /\ \A k \in DOMAIN c : \E i \in places : c[k] = list[i]
  BY <1>1, <1>2, SelectionIs
<1>6. \A k \in DOMAIN c : \E i \in DOMAIN list : c[k] = list[i] /\ c[k].complete
  BY <1>2, <1>3, <1>5
<1> QED
  BY <1>4, <1>5, <1>6 DEF S, list, OfAnswer

LEMMA LowestIs == Lowest \in Int /\ Lowest >= 1
<1>1. Threshold \in Int
  BY PublicationsAssumption
<1> QED
  BY <1>1 DEF Lowest

\* A suggestion of an answer after the reflection on the whole answer.
LEMMA UnscoredIs ==
    ASSUME publication \in Publications, NEW j \in DOMAIN publication.answers,
           NEW i \in DOMAIN publication.answers[j], NEW s, s = publication.answers[j][i],
           s.complete, publication.feedback[j] # "scored", NEW n \in {1, 7}
    PROVE  Unscored(s, n) \in KeptItems /\ Unscored(s, n).name = s.name
<1> DEFINE t == Unscored(s, n)
<1>1. s \in Suggestion /\ s.name = <<j, i>>
  BY AnswersAre
<1>2. s.name \in Nat \X Nat /\ s.complete = TRUE
  BY <1>1 DEF Suggestion
<1>3. t \in Items /\ t.name = s.name /\ t.complete /\ t.form = "suggestion" /\ ~t.scored /\ t.start = 0
  BY <1>2 DEF Unscored, Items, Forms
<1> HIDE DEF t
<1>4. IsAnswer(t.name) /\ t.name[1] = j
  BY <1>1, <1>3 DEF IsAnswer
<1>5. t \in KeptItems
  BY <1>3, <1>4 DEF KeptItems
<1> QED
  BY <1>3, <1>5 DEF t

LEMMA ScoredIs ==
    ASSUME publication \in Publications, NEW j \in DOMAIN publication.answers,
           NEW i \in DOMAIN publication.answers[j], NEW s, s = publication.answers[j][i],
           s.complete
    PROVE  /\ ScoredBy(s, s) \in Items /\ ScoredBy(s, s).name = s.name
           /\ AboveThreshold(ScoredBy(s, s)) => ScoredBy(s, s) \in KeptItems
<1> DEFINE t == ScoredBy(s, s)
<1>1. s \in Suggestion /\ s.name = <<j, i>>
  BY AnswersAre
<1>2. /\ s.name \in Nat \X Nat /\ s.complete = TRUE
      /\ s.start \in Int /\ s.end \in Int /\ s.score \in Int
  BY <1>1 DEF Suggestion
<1>3. /\ t.name = s.name /\ t.complete = TRUE /\ t.form = "suggestion" /\ t.scored = TRUE
      /\ t.start = s.start /\ t.end = s.end
      /\ t.score = IF s.start < 0 \/ s.end < 0 THEN 0 ELSE s.score
  BY <1>2 DEF ScoredBy
<1>4. t \in Items
  BY <1>2 DEF ScoredBy, Items, Forms
<1> HIDE DEF t
<1>5. IsAnswer(t.name) /\ Answer(t.name) = s
  BY <1>1, <1>3 DEF IsAnswer, Answer
<1>6. ASSUME AboveThreshold(t) PROVE t \in KeptItems
  <2>1. t.score >= Lowest
    BY <1>6 DEF AboveThreshold
  <2>2. ~(s.start < 0 \/ s.end < 0)
    BY <1>3, <2>1, LowestIs
  <2>3. t.score = s.score /\ t.start >= 0
    BY <1>2, <1>3, <2>2
  <2> QED
    BY <1>3, <1>4, <1>5, <2>1, <2>3 DEF KeptItems
<1> QED
  BY <1>3, <1>4, <1>6 DEF t

LEMMA ReflectedIs ==
    ASSUME publication \in Publications, NEW j \in DOMAIN publication.answers,
           NEW list, list = Prepared(publication.answers[j]),
           NEW c, c = Reflected(list, publication.feedback[j])
    PROVE  /\ c \in Seq(Items) /\ Once(c)
           /\ \A k \in DOMAIN c : c[k].name[1] = j /\ (AboveThreshold(c[k]) => c[k] \in KeptItems)
<1>1. /\ list \in Seq(Suggestion) /\ Once(list)
      /\ \A k \in DOMAIN list : \E i \in DOMAIN publication.answers[j] :
            list[k] = publication.answers[j][i] /\ list[k].complete
  <2>1. list \in Seq(Suggestion) /\ Once(list) /\ OfAnswer(list, j)
    BY PreparedIs
  <2> QED
    BY <2>1 DEF OfAnswer
<1>2. \A k \in DOMAIN list : list[k].name[1] = j
  <2> TAKE k \in DOMAIN list
  <2>1. PICK i \in DOMAIN publication.answers[j] : list[k] = publication.answers[j][i]
    BY <1>1
  <2>2. publication.answers[j][i].name = <<j, i>>
    BY AnswersAre
  <2> QED
    BY <2>1, <2>2
<1> DEFINE fb == publication.feedback[j]
           Feeds == /\ DOMAIN c = DOMAIN list
                    /\ \A k \in DOMAIN list : /\ c[k] \in Items /\ c[k].name = list[k].name
                                              /\ AboveThreshold(c[k]) => c[k] \in KeptItems
<1>3. ASSUME fb # "scored", NEW n \in {1, 7}, c = [i \in DOMAIN list |-> Unscored(list[i], n)]
      PROVE  Feeds
  <2>1. DOMAIN c = DOMAIN list /\ \A k \in DOMAIN list : c[k] = Unscored(list[k], n)
    BY <1>3
  <2>2. ASSUME NEW k \in DOMAIN list
        PROVE  Unscored(list[k], n) \in KeptItems /\ Unscored(list[k], n).name = list[k].name
    <3>1. PICK i \in DOMAIN publication.answers[j] : list[k] = publication.answers[j][i] /\ list[k].complete
      BY <1>1
    <3> DEFINE s == list[k]
    <3>2. s = publication.answers[j][i] /\ s.complete /\ publication.feedback[j] # "scored"
      BY <1>3, <3>1
    <3> HIDE DEF s
    <3>3. Unscored(s, n) \in KeptItems /\ Unscored(s, n).name = s.name
      BY <3>2, UnscoredIs
    <3> QED
      BY <3>3 DEF s
  <2>3. \A s \in KeptItems : s \in Items
    BY KeptIs
  <2> QED
    BY <2>1, <2>2, <2>3
<1>4. ASSUME c = [i \in DOMAIN list |-> ScoredBy(list[i], list[i])]
      PROVE  Feeds
  <2>1. DOMAIN c = DOMAIN list /\ \A k \in DOMAIN list : c[k] = ScoredBy(list[k], list[k])
    BY <1>4
  <2>2. ASSUME NEW k \in DOMAIN list
        PROVE  /\ ScoredBy(list[k], list[k]) \in Items /\ ScoredBy(list[k], list[k]).name = list[k].name
               /\ AboveThreshold(ScoredBy(list[k], list[k])) => ScoredBy(list[k], list[k]) \in KeptItems
    <3>1. PICK i \in DOMAIN publication.answers[j] : list[k] = publication.answers[j][i] /\ list[k].complete
      BY <1>1
    <3> DEFINE s == list[k]
    <3>2. s = publication.answers[j][i] /\ s.complete
      BY <3>1
    <3> HIDE DEF s
    <3>3. /\ ScoredBy(s, s) \in Items /\ ScoredBy(s, s).name = s.name
          /\ AboveThreshold(ScoredBy(s, s)) => ScoredBy(s, s) \in KeptItems
      BY <3>2, ScoredIs
    <3> QED
      BY <3>3 DEF s
  <2> QED
    BY <2>1, <2>2
<1>5. Feeds
  <2>1. fb \in {"scored", "short", "failed"}
    BY AnswersAre
  <2>2. CASE fb = "failed"
    <3>1. c = [i \in DOMAIN list |-> Unscored(list[i], 7)]
      BY <2>2 DEF Reflected
    <3> HIDE DEF Feeds, fb
    <3> QED
      BY <1>3, <2>2, <3>1
  <2>3. CASE fb = "short"
    <3>1. c = [i \in DOMAIN list |-> Unscored(list[i], 1)]
      BY <2>3 DEF Reflected
    <3> HIDE DEF Feeds, fb
    <3> QED
      BY <1>3, <2>3, <3>1
  <2>4. CASE fb = "scored"
    <3>1. c = [i \in DOMAIN list |-> ScoredBy(list[i], list[i])]
      BY <2>4 DEF Reflected
    <3> HIDE DEF Feeds, fb
    <3> QED
      BY <1>4, <3>1
  <2> HIDE DEF Feeds, fb
  <2> QED
    BY <2>1, <2>2, <2>3, <2>4
<1>6. c \in Seq(Items)
  <2>1. DOMAIN list = 1..Len(list) /\ Len(list) \in Nat
    BY <1>1
  <2>2. c = [i \in DOMAIN list |-> c[i]]
    <3>1. fb \in {"scored", "short", "failed"}
      BY AnswersAre
    <3> QED
      BY <3>1 DEF Reflected
  <2>3. c \in [1..Len(list) -> Items]
    BY <1>5, <2>1, <2>2
  <2> QED
    BY <2>1, <2>3
<1>7. Once(c)
  BY <1>1, <1>5 DEF Once
<1> QED
  BY <1>2, <1>5, <1>6, <1>7

LEMMA KeptOfIs ==
    ASSUME publication \in Publications, NEW j \in DOMAIN publication.answers,
           NEW c, c = KeptOf(j)
    PROVE  /\ c \in Seq(KeptItems) /\ Once(c)
           /\ \A k \in DOMAIN c : c[k].name[1] = j
<1> DEFINE S == Items
           T == KeptItems
           list == Reflected(Prepared(publication.answers[j]), publication.feedback[j])
           places == {i \in DOMAIN list : AboveThreshold(list[i])}
<1>1. /\ list \in Seq(S) /\ Once(list)
      /\ \A k \in DOMAIN list : list[k].name[1] = j /\ (AboveThreshold(list[k]) => list[k] \in T)
  BY ReflectedIs
<1>2. c = Chosen(list, places) /\ places \subseteq DOMAIN list
  BY DEF KeptOf, Those
<1>3. \A i \in places : list[i] \in T /\ list[i].name[1] = j
  <2> HIDE DEF list, T
  <2> QED
    BY <1>1
<1> HIDE DEF S, T, list, places
<1>4. /\ c \in Seq(S) /\ (Once(list) => Once(c))
      /\ \A k \in DOMAIN c : \E i \in places : c[k] = list[i]
  BY <1>1, <1>2, SelectionIs
<1>5. \A k \in DOMAIN c : c[k] \in T
  BY <1>3, <1>4
<1>6. \A k \in DOMAIN c : c[k].name[1] = j
  BY <1>3, <1>4
<1>7. c \in Seq(T)
  BY <1>4, <1>5, SequenceOf
<1> QED
  BY <1>1, <1>4, <1>6, <1>7 DEF T

\* The suggestions of all calls.
LEMMA AllKeptIs ==
    ASSUME publication \in Publications,
           NEW c, c = FlattenSeq([j \in DOMAIN publication.answers |-> KeptOf(j)])
    PROVE  c \in Seq(KeptItems) /\ Once(c)
<1> DEFINE S == KeptItems
           seqs == [j \in DOMAIN publication.answers |-> KeptOf(j)]
           m == Len(publication.answers)
<1>1. m \in Nat /\ DOMAIN publication.answers = 1..m
  <2> DEFINE q == publication.answers
             U == Seq(Suggestion)
  <2>1. q \in Seq(U)
    BY PublicationsAssumption
  <2> HIDE DEF q, U
  <2>2. Len(q) \in Nat /\ DOMAIN q = 1..Len(q)
    BY <2>1
  <2> QED
    BY <2>2 DEF q
<1>2. \A j \in 1..m : /\ seqs[j] \in Seq(S) /\ Once(seqs[j])
                      /\ \A k \in DOMAIN seqs[j] : seqs[j][k].name[1] = j
  <2> TAKE j \in 1..m
  <2>1. seqs[j] = KeptOf(j) /\ j \in DOMAIN publication.answers
    BY <1>1
  <2> DEFINE d == KeptOf(j)
  <2>2. /\ d \in Seq(S) /\ Once(d) /\ \A k \in DOMAIN d : d[k].name[1] = j
    BY <2>1, KeptOfIs
  <2> HIDE DEF d, S, seqs
  <2>3. seqs[j] = d
    BY <2>1 DEF d
  <2> QED
    BY <2>2, <2>3
<1>3. seqs \in [1..m -> Seq(S)]
  <2> DEFINE U == Seq(S)
  <2>1. \A j \in 1..m : seqs[j] \in U
    BY <1>2
  <2>2. DOMAIN seqs = 1..m /\ seqs = [j \in 1..m |-> seqs[j]]
    BY <1>1
  <2> HIDE DEF U, seqs, m
  <2>3. seqs \in [1..m -> U]
    BY <2>1, <2>2
  <2> QED
    BY <2>3 DEF U
<1>4. c = FlattenSeq(seqs)
  OBVIOUS
<1> HIDE DEF S, seqs, m
<1>5. seqs \in Seq(Seq(S)) /\ DOMAIN seqs = 1..m
  <2> DEFINE U == Seq(S)
  <2>1. seqs \in [1..m -> U]
    BY <1>3
  <2> HIDE DEF U
  <2>2. seqs \in Seq(U) /\ DOMAIN seqs = 1..m
    BY <1>1, <2>1, SequenceIs
  <2> QED
    BY <2>2 DEF U
<1>6. c \in Seq(S) /\ Takes(c, Marked(seqs), Marks(seqs))
  BY <1>4, <1>5, FlattenIs
<1>7. PICK at \in [DOMAIN c -> Marks(seqs)] :
          /\ \A k \in DOMAIN c : c[k] = Marked(seqs)[at[k]]
          /\ \A k, l \in DOMAIN c : at[k] = at[l] => k = l
  BY <1>6 DEF Takes
<1>8. ASSUME NEW k \in DOMAIN c, NEW l \in DOMAIN c, c[k].name = c[l].name PROVE k = l
  <2> DEFINE a == at[k]
             b == at[l]
  <2>1. a \in Marks(seqs) /\ b \in Marks(seqs) /\ c[k] = Marked(seqs)[a] /\ c[l] = Marked(seqs)[b]
    BY <1>7
  <2> HIDE DEF a, b
  <2>2. /\ c[k] = seqs[a[1]][a[2]] /\ a[1] \in 1..m /\ a[2] \in DOMAIN seqs[a[1]] /\ a = <<a[1], a[2]>>
        /\ c[l] = seqs[b[1]][b[2]] /\ b[1] \in 1..m /\ b[2] \in DOMAIN seqs[b[1]] /\ b = <<b[1], b[2]>>
    BY <1>5, <2>1 DEF Marks, Marked
  <2>3. c[k].name[1] = a[1] /\ c[l].name[1] = b[1]
    BY <1>2, <2>2
  <2>4. a[1] = b[1]
    BY <1>8, <2>3
  <2>5. Once(seqs[a[1]])
    BY <1>2, <2>2
  <2>6. a[2] = b[2]
    BY <1>8, <2>2, <2>4, <2>5 DEF Once
  <2>7. a = b
    BY <2>2, <2>4, <2>6
  <2> QED
    BY <1>7, <2>7 DEF a, b
<1>9. Once(c)
  BY <1>8 DEF Once
<1> QED
  BY <1>6, <1>9 DEF S

-----------------------------------------------------------------------------
(* Lists that grow at the end and shrink at the head.                      *)

LEMMA OfNone == ToSet(<<>>) = {} /\ Names(<<>>) = {} /\ Once(<<>>)
  BY DEF ToSet, Names, Once

LEMMA OfOne ==
    ASSUME NEW S, NEW s \in S
    PROVE  /\ <<s>> \in Seq(S) /\ Len(<<s>>) = 1 /\ <<s>> # <<>> /\ ToSet(<<s>>) = {s}
           /\ Names(<<s>>) = {s.name} /\ Once(<<s>>)
<1>1. DOMAIN <<s>> = {1} /\ <<s>>[1] = s
  OBVIOUS
<1>2. <<s>> \in Seq(S) /\ Len(<<s>>) = 1 /\ <<s>> # <<>>
  OBVIOUS
<1>3. ToSet(<<s>>) = {s} /\ Names(<<s>>) = {s.name} /\ Once(<<s>>)
  BY <1>1 DEF ToSet, Names, Once
<1> QED
  BY <1>2, <1>3

LEMMA OfTheRest ==
    ASSUME NEW S, NEW list \in Seq(S), list # <<>>
    PROVE  /\ Head(list) \in S /\ Tail(list) \in Seq(S) /\ Len(Tail(list)) = Len(list) - 1
           /\ ToSet(list) = {Head(list)} \cup ToSet(Tail(list))
           /\ Names(list) = {Head(list).name} \cup Names(Tail(list))
           /\ Once(list) => Once(Tail(list)) /\ Head(list).name \notin Names(Tail(list))
<1> DEFINE t == Tail(list)
<1>1. /\ Head(list) \in S /\ t \in Seq(S) /\ Len(t) = Len(list) - 1 /\ Head(list) = list[1]
      /\ Len(list) \in Nat /\ Len(list) > 0 /\ DOMAIN list = 1..Len(list) /\ DOMAIN t = 1..Len(t)
  OBVIOUS
<1>2. \A k \in DOMAIN t : t[k] = list[k + 1] /\ k + 1 \in DOMAIN list /\ k + 1 # 1 /\ k \in Nat
  BY <1>1
<1>3. \A k \in DOMAIN list : k = 1 \/ \E l \in DOMAIN t : k = l + 1 /\ t[l] = list[k]
  <2> TAKE k \in DOMAIN list
  <2> SUFFICES ASSUME k # 1 PROVE \E l \in DOMAIN t : k = l + 1 /\ t[l] = list[k]
    OBVIOUS
  <2>1. k - 1 \in DOMAIN t /\ k = (k - 1) + 1
    BY <1>1
  <2> QED
    BY <1>2, <2>1
<1>4. 1 \in DOMAIN list
  BY <1>1
<1> HIDE DEF t
<1>5. ToSet(list) = {Head(list)} \cup ToSet(t)
  BY <1>1, <1>2, <1>3, <1>4 DEF ToSet
<1>6. /\ Names(list) = {Head(list).name} \cup Names(t)
      /\ Once(list) => Once(t) /\ Head(list).name \notin Names(t)
  BY HeadIs DEF t
<1> QED
  BY <1>1, <1>5, <1>6 DEF t

LEMMA OfBoth ==
    ASSUME NEW S, NEW a \in Seq(S), NEW b \in Seq(S)
    PROVE  /\ a \o b \in Seq(S)
           /\ ToSet(a \o b) = ToSet(a) \cup ToSet(b)
           /\ Names(a \o b) = Names(a) \cup Names(b)
           /\ Once(a) /\ Once(b) /\ Names(a) \cap Names(b) = {} => Once(a \o b)
<1> DEFINE c == a \o b
           m == Len(a)
           n == Len(b)
<1>1. /\ c \in Seq(S) /\ m \in Nat /\ n \in Nat /\ DOMAIN a = 1..m /\ DOMAIN b = 1..n
      /\ DOMAIN c = 1..(m + n)
  OBVIOUS
<1>2. \A k \in DOMAIN a : k \in DOMAIN c /\ c[k] = a[k]
  OBVIOUS
<1>3. \A k \in DOMAIN b : m + k \in DOMAIN c /\ c[m + k] = b[k]
  OBVIOUS
<1>4. \A k \in DOMAIN c : k \in DOMAIN a \/ \E l \in DOMAIN b : k = m + l
  <2> TAKE k \in DOMAIN c
  <2>1. CASE k <= m
    BY <1>1, <2>1
  <2>2. CASE k > m
    <3>1. k - m \in DOMAIN b /\ k = m + (k - m)
      BY <1>1, <2>2
    <3> QED
      BY <3>1
  <2> QED
    BY <1>1, <2>1, <2>2
<1> HIDE DEF c, m, n
<1>5. ToSet(c) = ToSet(a) \cup ToSet(b)
  <2>1. \A x \in ToSet(c) : x \in ToSet(a) \cup ToSet(b)
    BY <1>2, <1>3, <1>4 DEF ToSet
  <2>2. \A x \in ToSet(a) \cup ToSet(b) : x \in ToSet(c)
    BY <1>2, <1>3 DEF ToSet
  <2> QED
    BY <2>1, <2>2
<1>6. Names(c) = Names(a) \cup Names(b)
  <2>1. \A x \in Names(c) : x \in Names(a) \cup Names(b)
    BY <1>2, <1>3, <1>4 DEF Names
  <2>2. \A x \in Names(a) \cup Names(b) : x \in Names(c)
    BY <1>2, <1>3 DEF Names
  <2> QED
    BY <2>1, <2>2
<1>7. ASSUME Once(a), Once(b), Names(a) \cap Names(b) = {} PROVE Once(c)
  <2>1. ASSUME NEW k \in DOMAIN c, NEW l \in DOMAIN c, c[k].name = c[l].name PROVE k = l
    <3>1. CASE k \in DOMAIN a /\ l \in DOMAIN a
      BY <1>2, <1>7, <2>1, <3>1 DEF Once
    <3>2. ASSUME NEW i \in DOMAIN a, NEW j \in DOMAIN b, c[i].name = c[m + j].name PROVE FALSE
      BY <1>2, <1>3, <1>7, <3>2 DEF Names
    <3>3. ASSUME NEW i \in DOMAIN b, NEW j \in DOMAIN b, k = m + i, l = m + j PROVE k = l
      BY <1>3, <1>7, <2>1, <3>3 DEF Once
    <3> QED
      BY <1>4, <2>1, <3>1, <3>2, <3>3
  <2> QED
    BY <2>1 DEF Once
<1> QED
  BY <1>1, <1>5, <1>6, <1>7 DEF c

-----------------------------------------------------------------------------
(* The lists of a publication.                                             *)

Coming == {"predict", "publish"}
UnderWay == {"post", "verify", "fix"}

ListsTyped ==
    /\ kept \in Seq(KeptItems) /\ Once(kept)
    /\ rest \in Seq(OwnItems) /\ queue \in Seq(OwnItems) /\ posted \in Seq(OwnItems)
    /\ verified \in Seq(LinedItems) /\ invalid \in Seq(LinedItems)
    /\ Host = "github" => queue \in Seq(LinedItems)

\* What a step leaves in the lists; what is left to publish one by one is all
\* that is wanted until it begins.
ListsAtSteps ==
    /\ step \in Coming =>
          /\ queue = <<>> /\ rest = <<>> /\ posted = <<>> /\ table = <<>> /\ unheard = {}
          /\ single = FALSE
    /\ step = "done" => queue = <<>> /\ rest = <<>>
    /\ step # "verify" => verified = <<>> /\ invalid = <<>>
    /\ step \in {"verify", "fix"} => Host = "github"
    /\ step \in UnderWay /\ single = FALSE => rest = Wanted
    /\ Host # "github" /\ single = TRUE => Len(queue) <= 1

TableShown ==
    /\ table \in {<<>>, TableOf(kept)}
    /\ step \notin Coming /\ publication.mode # "inline" /\ Markdown /\ kept # <<>> =>
          table = TableOf(kept)

PushTyped ==
    /\ publication \in Publications \cup {NoPublication}
    /\ step \in Coming \cup UnderWay \cup {"done"} /\ single \in BOOLEAN /\ failures \in Nat
    /\ ListsTyped /\ ListsAtSteps /\ TableShown

LEMMA SameItems ==
    ASSUME publication' = publication
    PROVE  /\ KeptItems' = KeptItems /\ OwnItems' = OwnItems /\ LinedItems' = LinedItems
           /\ Host' = Host /\ (Markdown' <=> Markdown) /\ (NoShortHunk' <=> NoShortHunk)
           /\ kept' = kept => Wanted' = Wanted
           /\ \A s : (InDiff(s)' <=> InDiff(s)) /\ (StartsInDiff(s)' <=> StartsInDiff(s))
                     /\ (Placeable(s)' <=> Placeable(s))
<1>1. KeptItems' = KeptItems /\ OwnItems' = OwnItems
  BY DEF KeptItems, OwnItems, IsAnswer, Answer
<1>2. LinedItems' = LinedItems
  BY <1>1 DEF LinedItems
<1>3. Host' = Host /\ (Markdown' <=> Markdown) /\ (NoShortHunk' <=> NoShortHunk)
  BY DEF Host, Markdown, NoShortHunk
<1>4. kept' = kept => Wanted' = Wanted
  BY DEF Host, Markdown, Wanted
<1>5. \A s : (InDiff(s)' <=> InDiff(s)) /\ (StartsInDiff(s)' <=> StartsInDiff(s))
             /\ (Placeable(s)' <=> Placeable(s))
  BY DEF InDiff, StartsInDiff, Placeable
<1> QED
  BY <1>1, <1>2, <1>3, <1>4, <1>5

\* The first of a list is published by itself, the others wait.
LEMMA OneByOne ==
    ASSUME publication \in Publications, NEW again \in Seq(OwnItems), again # <<>>,
           NEW q, q = Sent(<<Head(again)>>), NEW t, t = Tail(again)
    PROVE  /\ q \in Seq(OwnItems) /\ t \in Seq(OwnItems)
           /\ Host = "github" => q \in Seq(LinedItems)
           /\ Len(q) <= 1
           /\ Names(q) \subseteq Names(again) /\ Names(t) \subseteq Names(again)
           /\ Once(q)
           /\ Once(again) => Once(t) /\ Names(q) \cap Names(t) = {}
           /\ NoShortHunk => \A s \in ToSet(again) :
                 Placeable(s) =>
                     \/ \E r \in ToSet(q) : r.name = s.name /\ Placeable(r)
                     \/ s \in ToSet(t)
<1> DEFINE S == OwnItems
           h == Head(again)
           one == <<h>>
<1>1. again \in Seq(S)
  OBVIOUS
<1>2. /\ h \in S /\ t \in Seq(S) /\ ToSet(again) = {h} \cup ToSet(t)
      /\ Names(again) = {h.name} \cup Names(t)
      /\ Once(again) => Once(t) /\ h.name \notin Names(t)
  <2> HIDE DEF S
  <2> QED
    BY <1>1, OfTheRest
<1>3. one \in Seq(S) /\ Len(one) = 1 /\ Names(one) = {h.name} /\ Once(one)
  <2> HIDE DEF h, S
  <2> QED
    BY <1>2, OfOne
<1>4. DOMAIN one = {1} /\ one[1] = h
  OBVIOUS
<1>5. q = Sent(one)
  OBVIOUS
<1>6. one \in Seq(OwnItems)
  BY <1>3
<1> HIDE DEF one, h
<1>7. /\ q \in Seq(OwnItems) /\ (Host = "github" => q \in Seq(LinedItems))
      /\ (Once(one) => Once(q)) /\ Names(q) \subseteq Names(one)
      /\ (Len(one) <= 1 => Len(q) <= 1)
      /\ NoShortHunk => \A k \in DOMAIN one :
            Placeable(one[k]) => \E l \in DOMAIN q : q[l].name = one[k].name /\ Placeable(q[l])
  BY <1>5, <1>6, SentIs
<1>8. Len(q) <= 1 /\ Once(q) /\ Names(q) \subseteq {h.name}
  BY <1>3, <1>7
<1>9. ASSUME NoShortHunk, NEW s \in ToSet(again), Placeable(s)
      PROVE  (\E r \in ToSet(q) : r.name = s.name /\ Placeable(r)) \/ s \in ToSet(t)
  <2>1. CASE s = h
    <3>1. PICK l \in DOMAIN q : q[l].name = s.name /\ Placeable(q[l])
      BY <1>4, <1>7, <1>9, <2>1
    <3>2. q[l] \in ToSet(q)
      BY DEF ToSet
    <3> QED
      BY <3>1, <3>2
  <2>2. CASE s # h
    BY <1>2, <1>9, <2>2
  <2> QED
    BY <2>1, <2>2
<1> QED
  BY <1>2, <1>7, <1>8, <1>9 DEF S

\* After a list is published, or given up.
LEMMA ReturnsIs ==
    ASSUME PushTyped, publication \in Publications, UNCHANGED publication,
           NEW ok, Returns(ok)
    PROVE  /\ rest' \in Seq(OwnItems) /\ queue' \in Seq(OwnItems)
           /\ Host = "github" => queue' \in Seq(LinedItems)
           /\ step' \in {"post", "done"} /\ single' \in BOOLEAN
           /\ step' = "done" <=> single' = FALSE
           /\ step' = "done" => queue' = <<>> /\ rest' = <<>>
           /\ Len(queue') <= 1
           /\ ok /\ single = FALSE => step' = "done"
           /\ Names(queue') \subseteq Names(rest) /\ Names(rest') \subseteq Names(rest)
           /\ Once(queue')
           /\ Once(rest) => Once(rest') /\ Names(queue') \cap Names(rest') = {}
           /\ NoShortHunk /\ ~(ok /\ single = FALSE) =>
                 \A s \in ToSet(rest) :
                     Placeable(s) =>
                         \/ \E r \in ToSet(queue') : r.name = s.name /\ Placeable(r)
                         \/ single' = TRUE /\ s \in ToSet(rest')
<1> DEFINE again == IF ok /\ ~single THEN <<>> ELSE rest
<1>1. /\ rest' = IF again = <<>> THEN <<>> ELSE Tail(again)
      /\ queue' = IF again = <<>> THEN <<>> ELSE Sent(<<Head(again)>>)
      /\ step' = IF again = <<>> THEN "done" ELSE "post"
      /\ single' = (again # <<>>)
  BY DEF Returns
<1>2. rest \in Seq(OwnItems) /\ single \in BOOLEAN
  BY DEF PushTyped, ListsTyped
<1>3. /\ ok /\ single = FALSE => again = <<>>
      /\ ~(ok /\ single = FALSE) => again = rest
      /\ again = <<>> \/ again = rest
  BY <1>2
<1> HIDE DEF again
<1>4. CASE again = <<>>
  <2>1. /\ rest' = <<>> /\ queue' = <<>> /\ step' = "done" /\ single' = FALSE
    BY <1>1, <1>4
  <2>2. <<>> \in Seq(OwnItems) /\ <<>> \in Seq(LinedItems) /\ Len(<<>>) <= 1
    OBVIOUS
  <2>3. Names(<<>>) = {} /\ Once(<<>>) /\ ToSet(<<>>) = {}
    BY OfNone
  <2>4. ~(ok /\ single = FALSE) => ToSet(rest) = {}
    BY <1>3, <1>4, <2>3
  <2> QED
    BY <2>1, <2>2, <2>3, <2>4
<1>5. CASE again # <<>>
  <2>1. /\ rest' = Tail(rest) /\ queue' = Sent(<<Head(rest)>>) /\ step' = "post" /\ single' = TRUE
        /\ rest # <<>> /\ ~(ok /\ single = FALSE)
    BY <1>1, <1>3, <1>5
  <2> DEFINE q == Sent(<<Head(rest)>>)
             t == Tail(rest)
  <2>2. /\ q \in Seq(OwnItems) /\ t \in Seq(OwnItems)
        /\ Host = "github" => q \in Seq(LinedItems)
        /\ Len(q) <= 1
        /\ Names(q) \subseteq Names(rest) /\ Names(t) \subseteq Names(rest)
        /\ Once(q)
        /\ Once(rest) => Once(t) /\ Names(q) \cap Names(t) = {}
        /\ NoShortHunk => \A s \in ToSet(rest) :
              Placeable(s) =>
                  \/ \E r \in ToSet(q) : r.name = s.name /\ Placeable(r)
                  \/ s \in ToSet(t)
    <3> HIDE DEF q, t
    <3>1. q = Sent(<<Head(rest)>>) /\ t = Tail(rest)
      BY DEF q, t
    <3> QED
      BY <1>2, <2>1, <3>1, OneByOne
  <2>3. queue' = q /\ rest' = t
    BY <2>1
  <2> HIDE DEF q, t
  <2> QED
    BY <2>1, <2>2, <2>3
<1> QED
  BY <1>4, <1>5

\* How the lists may change while a publication is under way.
Follows ==
    /\ publication \in Publications /\ step \in UnderWay
    /\ UNCHANGED <<publication, kept, table>>
    /\ rest' \in Seq(OwnItems) /\ queue' \in Seq(OwnItems) /\ posted' \in Seq(OwnItems)
    /\ verified' \in Seq(LinedItems) /\ invalid' \in Seq(LinedItems)
    /\ Host = "github" => queue' \in Seq(LinedItems)
    /\ step' \in UnderWay \cup {"done"} /\ single' \in BOOLEAN /\ failures' \in Nat
    /\ step' = "done" => queue' = <<>> /\ rest' = <<>>
    /\ step' # "verify" => verified' = <<>> /\ invalid' = <<>>
    /\ step' \in {"verify", "fix"} => Host = "github"
    /\ step' # "done" /\ single' = FALSE => rest' = rest /\ single = FALSE
    /\ Host # "github" /\ single' = TRUE => Len(queue') <= 1

LEMMA FollowsTyped ==
    ASSUME PushTyped, Follows
    PROVE  PushTyped'
<1>1. /\ KeptItems' = KeptItems /\ OwnItems' = OwnItems /\ LinedItems' = LinedItems
      /\ Host' = Host /\ (Markdown' <=> Markdown) /\ Wanted' = Wanted
  BY SameItems DEF Follows
<1>2. ListsTyped'
  BY <1>1 DEF PushTyped, ListsTyped, Follows
<1>3. ListsAtSteps'
  <2>1. step' \notin Coming /\ step \in UnderWay /\ (single = FALSE => rest = Wanted)
    BY DEF PushTyped, ListsAtSteps, Follows, UnderWay, Coming
  <2>2. step' \in UnderWay /\ single' = FALSE => rest' = Wanted'
    BY <1>1, <2>1 DEF Follows, UnderWay
  <2> QED
    BY <1>1, <2>1, <2>2 DEF ListsAtSteps, Follows
<1>4. TableShown'
  <2>1. step \notin Coming /\ kept' = kept /\ table' = table /\ publication' = publication
    BY DEF Follows, UnderWay, Coming
  <2>2. TableOf(kept)' = TableOf(kept)
    BY <2>1 DEF TableOf
  <2> QED
    BY <1>1, <2>1, <2>2 DEF PushTyped, TableShown
<1>5. /\ publication' \in Publications \cup {NoPublication}
      /\ step' \in Coming \cup UnderWay \cup {"done"} /\ single' \in BOOLEAN /\ failures' \in Nat
  BY DEF Follows
<1> QED
  BY <1>2, <1>3, <1>4, <1>5 DEF PushTyped

Noted(s) == [s EXCEPT !.form = "note"]

LEMMA NotedIs ==
    ASSUME publication \in Publications, NEW s \in OwnItems
    PROVE  Noted(s) \in OwnItems /\ Noted(s).name = s.name
<1>1. s \in Items
  BY OwnIs
<1>2. Noted(s) \in Items /\ Noted(s).name = s.name
  BY <1>1 DEF Noted, Items, Forms
<1>3. Noted(s).score = s.score /\ Noted(s).start = s.start /\ Noted(s).end = s.end
  BY <1>1 DEF Noted, Items
<1> QED
  BY <1>2, <1>3, OwnIs DEF OwnItems

\* What comes next, and what is on the pull request with it.
LEMMA HeadOfQueue ==
    ASSUME PushTyped, publication \in Publications, queue # <<>>
    PROVE  /\ Head(queue) \in OwnItems /\ Tail(queue) \in Seq(OwnItems)
           /\ Host = "github" => Head(queue) \in LinedItems /\ Tail(queue) \in Seq(LinedItems)
           /\ Len(queue) <= 1 => Len(Tail(queue)) <= 1
           /\ ToSet(queue) = {Head(queue)} \cup ToSet(Tail(queue))
           /\ Names(queue) = {Head(queue).name} \cup Names(Tail(queue))
           /\ Once(queue) => Once(Tail(queue)) /\ Head(queue).name \notin Names(Tail(queue))
           /\ <<Head(queue)>> \in Seq(OwnItems) /\ <<Noted(Head(queue))>> \in Seq(OwnItems)
           /\ posted \o <<Head(queue)>> \in Seq(OwnItems)
           /\ posted \o <<Noted(Head(queue))>> \in Seq(OwnItems)
           /\ posted \o <<Head(queue), Noted(Head(queue))>> \in Seq(OwnItems)
<1> DEFINE S == OwnItems
           T == LinedItems
           h == Head(queue)
           t == Tail(queue)
           n == Noted(h)
<1>1. queue \in Seq(S) /\ posted \in Seq(S) /\ (Host = "github" => queue \in Seq(T))
  BY DEF PushTyped, ListsTyped
<1>2. /\ h \in S /\ t \in Seq(S) /\ Len(t) = Len(queue) - 1
      /\ ToSet(queue) = {h} \cup ToSet(t)
      /\ Names(queue) = {h.name} \cup Names(t)
      /\ Once(queue) => Once(t) /\ h.name \notin Names(t)
  <2> HIDE DEF S
  <2> QED
    BY <1>1, OfTheRest
<1>3. Host = "github" => h \in T /\ t \in Seq(T)
  <2> HIDE DEF T
  <2> QED
    BY <1>1, OfTheRest
<1>4. Len(queue) \in Nat /\ (Len(queue) <= 1 => Len(t) <= 1)
  <2>1. Len(queue) \in Nat
    BY <1>1
  <2> HIDE DEF t
  <2> QED
    BY <1>2, <2>1
<1>5. n \in S
  BY <1>2, NotedIs
<1> HIDE DEF S, T, h, t, n
<1>6. /\ <<h>> \in Seq(S) /\ <<n>> \in Seq(S) /\ posted \o <<h>> \in Seq(S)
      /\ posted \o <<n>> \in Seq(S) /\ posted \o <<h, n>> \in Seq(S)
  BY <1>1, <1>2, <1>5
<1> QED
  BY <1>2, <1>3, <1>4, <1>6 DEF S, T, h, t, n

LEMMA GoOnFollows ==
    ASSUME PushTyped, publication \in Publications, step \in UnderWay, queue # <<>>,
           GoOn, Untouched, posted' \in Seq(OwnItems), failures' \in Nat
    PROVE  Follows
<1>1. /\ queue' = Tail(queue) /\ step' = step /\ rest' = rest /\ single' = single
      /\ verified' = verified /\ invalid' = invalid
      /\ UNCHANGED <<publication, kept, table>>
  BY DEF GoOn, Untouched
<1>2. /\ rest \in Seq(OwnItems) /\ verified \in Seq(LinedItems) /\ invalid \in Seq(LinedItems)
      /\ single \in BOOLEAN
      /\ step # "verify" => verified = <<>> /\ invalid = <<>>
      /\ step \in {"verify", "fix"} => Host = "github"
      /\ Host # "github" /\ single = TRUE => Len(queue) <= 1
  BY DEF PushTyped, ListsTyped, ListsAtSteps
<1>3. /\ Tail(queue) \in Seq(OwnItems) /\ (Host = "github" => Tail(queue) \in Seq(LinedItems))
      /\ (Len(queue) <= 1 => Len(Tail(queue)) <= 1)
  BY HeadOfQueue
<1>4. step \in UnderWay \cup {"done"} /\ step # "done"
  BY DEF UnderWay
<1> QED
  BY <1>1, <1>2, <1>3, <1>4 DEF Follows

LEMMA ReturnsFollows ==
    ASSUME PushTyped, publication \in Publications, step \in {"post", "fix"}, NEW ok,
           Returns(ok), Untouched, posted' \in Seq(OwnItems), failures' \in Nat
    PROVE  Follows
<1>1. /\ verified' = verified /\ invalid' = invalid /\ UNCHANGED publication
      /\ UNCHANGED <<publication, kept, table>>
  BY DEF Untouched
<1>2. verified = <<>> /\ invalid = <<>> /\ <<>> \in Seq(LinedItems)
  BY DEF PushTyped, ListsAtSteps
<1>3. /\ rest' \in Seq(OwnItems) /\ queue' \in Seq(OwnItems)
      /\ Host = "github" => queue' \in Seq(LinedItems)
      /\ step' \in {"post", "done"} /\ single' \in BOOLEAN
      /\ step' = "done" <=> single' = FALSE
      /\ step' = "done" => queue' = <<>> /\ rest' = <<>>
      /\ Len(queue') <= 1
  BY <1>1, ReturnsIs
<1>4. step \in UnderWay /\ step' \in UnderWay \cup {"done"}
  BY <1>3 DEF UnderWay
<1> QED
  BY <1>1, <1>2, <1>3, <1>4 DEF Follows

\* The calls to every host but GitHub.
OthersNext ==
    \/ PostOne \/ PostNote \/ BeyondTheFile \/ RefusedUnseen \/ RefusedAll
    \/ FailOne \/ FailOnGitlab \/ ListDone

LEMMA PostingIs ==
    ASSUME PushTyped, publication \in Publications, Posting
    PROVE  /\ queue # <<>> /\ step \in UnderWay /\ step \in {"post", "fix"} /\ step = "post"
           /\ Host # "github" /\ posted \in Seq(OwnItems) /\ failures \in Nat
  BY DEF PushTyped, ListsTyped, Posting, UnderWay

LEMMA FailsIs ==
    ASSUME PushTyped, NEW list \in Seq(OwnItems), posted \o list \in Seq(OwnItems), FailsWith(list)
    PROVE  /\ posted' \in Seq(OwnItems) /\ failures' = failures + 1 /\ failures' \in Nat
           /\ \/ posted' = posted /\ unheard' = unheard
              \/ posted' = posted \o list /\ unheard' # {}
<1>1. posted \in Seq(OwnItems) /\ failures \in Nat
  BY DEF PushTyped, ListsTyped
<1>2. failures' = failures + 1 /\ failures' \in Nat
  BY <1>1 DEF FailsWith, Fails
<1>3. CASE UNCHANGED <<posted, unheard>>
  BY <1>1, <1>2, <1>3
<1>4. CASE list # <<>> /\ Post(list) /\ unheard' = unheard \cup {s.name : s \in ToSet(list)}
  <2>1. list[1] \in ToSet(list)
    <3>1. 1 \in DOMAIN list
      BY <1>4
    <3> QED
      BY <3>1 DEF ToSet
  <2>2. unheard' # {}
    BY <1>4, <2>1
  <2> QED
    BY <1>2, <1>4, <2>2 DEF Post
<1> QED
  BY <1>3, <1>4 DEF FailsWith

LEMMA OthersFollow ==
    ASSUME PushTyped, publication \in Publications, OthersNext
    PROVE  Follows
<1>0. posted \in Seq(OwnItems) /\ failures \in Nat /\ queue \in Seq(OwnItems)
  BY DEF PushTyped, ListsTyped
<1>1. CASE PostOne
  <2>1. Posting /\ GoOn /\ Untouched /\ posted' = posted \o <<Head(queue)>> /\ failures' = failures
    BY <1>1 DEF PostOne, Post, Heard
  <2> QED
    BY <1>0, <2>1, PostingIs, HeadOfQueue, GoOnFollows
<1>2. CASE PostNote
  <2>1. Posting /\ GoOn /\ Untouched /\ posted' = posted \o <<Noted(Head(queue))>> /\ failures' = failures
    BY <1>2 DEF PostNote, Post, Heard, Noted
  <2> QED
    BY <1>0, <2>1, PostingIs, HeadOfQueue, GoOnFollows
<1>3. CASE BeyondTheFile \/ RefusedUnseen
  <2>1. Posting /\ GoOn /\ Untouched /\ posted' = posted /\ failures' = failures
    BY <1>3 DEF BeyondTheFile, RefusedUnseen, Heard
  <2> QED
    BY <1>0, <2>1, PostingIs, GoOnFollows
<1>4. CASE RefusedAll
  <2>1. Posting /\ Returns(FALSE) /\ Untouched /\ posted' = posted /\ failures' = failures
    BY <1>4 DEF RefusedAll, Heard
  <2> QED
    BY <1>0, <2>1, PostingIs, ReturnsFollows
<1>5. CASE FailOne
  <2>1. Posting /\ FailsWith(<<Head(queue)>>) /\ Untouched
    BY <1>5 DEF FailOne
  <2>2. <<Head(queue)>> \in Seq(OwnItems) /\ posted \o <<Head(queue)>> \in Seq(OwnItems)
    BY <2>1, PostingIs, HeadOfQueue
  <2>3. posted' \in Seq(OwnItems) /\ failures' \in Nat
    BY <2>1, <2>2, FailsIs
  <2>4. CASE GoOn
    BY <2>1, <2>3, <2>4, PostingIs, GoOnFollows
  <2>5. CASE Returns(FALSE)
    BY <2>1, <2>3, <2>5, PostingIs, ReturnsFollows
  <2>6. CASE step' = "done" /\ queue' = <<>> /\ rest' = <<>> /\ UNCHANGED single
    <3>1. /\ UNCHANGED <<publication, kept, table>> /\ verified' = verified /\ invalid' = invalid
      BY <2>1 DEF Untouched
    <3>2. verified = <<>> /\ invalid = <<>> /\ <<>> \in Seq(LinedItems) /\ <<>> \in Seq(OwnItems)
      BY <2>1 DEF PushTyped, ListsAtSteps, Posting
    <3>3. single' \in BOOLEAN /\ Len(queue') <= 1
      BY <2>6 DEF PushTyped
    <3>4. step \in UnderWay
      BY <2>1 DEF Posting, UnderWay
    <3> QED
      BY <2>3, <2>6, <3>1, <3>2, <3>3, <3>4 DEF Follows
  <2> QED
    BY <1>5, <2>4, <2>5, <2>6 DEF FailOne
<1>6. CASE FailOnGitlab
  <2> DEFINE s == Head(queue)
             one == <<Noted(s)>>
             two == <<s, Noted(s)>>
  <2>1. /\ Posting /\ GoOn /\ Untouched /\ failures' = failures + 1
        /\ \/ posted' = posted \/ posted' = posted \o one \/ posted' = posted \o two
           \/ FailsWith(one)
    BY <1>6 DEF FailOnGitlab, Post, Fails, FailsWith, Noted
  <2>2. one \in Seq(OwnItems) /\ posted \o one \in Seq(OwnItems) /\ posted \o two \in Seq(OwnItems)
    BY <2>1, PostingIs, HeadOfQueue
  <2> HIDE DEF one, two
  <2>3. posted' \in Seq(OwnItems) /\ failures' \in Nat
    <3>1. CASE FailsWith(one)
      <4>1. one \in Seq(OwnItems) /\ posted \o one \in Seq(OwnItems) /\ FailsWith(one)
        BY <2>2, <3>1
      <4> QED
        BY <4>1, FailsIs
    <3>2. CASE ~FailsWith(one)
      <4>1. posted' \in {posted, posted \o one, posted \o two}
        BY <2>1, <3>2
      <4>2. \A list \in {posted, posted \o one, posted \o two} : list \in Seq(OwnItems)
        BY <1>0, <2>2
      <4>3. posted' \in Seq(OwnItems)
        BY <4>1, <4>2
      <4>4. failures' \in Nat
        <5>1. failures' = failures + 1
          BY <2>1
        <5> QED
          BY <1>0, <5>1
      <4> QED
        BY <4>3, <4>4
    <3> QED
      BY <3>1, <3>2
  <2> QED
    BY <2>1, <2>3, PostingIs, GoOnFollows
<1>7. CASE ListDone
  <2>1. /\ step = "post" /\ Returns(Host # "gitea") /\ Untouched /\ posted' = posted
        /\ failures' = failures
    BY <1>7 DEF ListDone, Heard
  <2> QED
    BY <1>0, <2>1, ReturnsFollows
<1> QED
  BY <1>1, <1>2, <1>3, <1>4, <1>5, <1>6, <1>7 DEF OthersNext

\* What GitHub takes for lines are lines of suggestions.
LEMMA LinedAreOwn ==
    ASSUME PushTyped, NEW list \in Seq(LinedItems)
    PROVE  list \in Seq(OwnItems) /\ posted \o list \in Seq(OwnItems)
<1>0. posted \in Seq(OwnItems)
  BY DEF PushTyped, ListsTyped
<1>1. \A k \in DOMAIN list : list[k] \in LinedItems
  OBVIOUS
<1>2. \A k \in DOMAIN list : list[k] \in OwnItems
  BY <1>1 DEF LinedItems
<1>3. list \in Seq(OwnItems)
  BY <1>2, SequenceOf
<1> DEFINE S == OwnItems
<1>4. posted \in Seq(S) /\ list \in Seq(S)
  BY <1>0, <1>3
<1> HIDE DEF S
<1>5. posted \o list \in Seq(S)
  BY <1>4
<1> QED
  BY <1>3, <1>5 DEF S

GithubNext ==
    \/ Review \/ RefuseReview \/ FailReview \/ Verify \/ PostVerified \/ PostFixed
    \/ FallbackDone

LEMMA GithubFollow ==
    ASSUME PushTyped, publication \in Publications, GithubNext
    PROVE  Follows
<1>0. /\ posted \in Seq(OwnItems) /\ failures \in Nat /\ rest \in Seq(OwnItems)
      /\ verified \in Seq(LinedItems) /\ invalid \in Seq(LinedItems) /\ single \in BOOLEAN
      /\ <<>> \in Seq(LinedItems) /\ <<>> \in Seq(OwnItems)
  BY DEF PushTyped, ListsTyped
<1>a. ASSUME NEW list \in Seq(LinedItems)
      PROVE  list \in Seq(OwnItems) /\ posted \o list \in Seq(OwnItems)
  BY LinedAreOwn
<1>b. step \in {"verify", "fix"} => Host = "github"
  BY DEF PushTyped, ListsAtSteps
<1>c. Host = "github" => queue \in Seq(LinedItems)
  BY DEF PushTyped, ListsTyped
<1>1. CASE Review
  <2>1. /\ step = "post" /\ Host = "github" /\ Returns(TRUE) /\ Untouched
        /\ posted' = posted \o queue /\ failures' = failures
    BY <1>1 DEF Review, Post, Heard
  <2>2. posted' \in Seq(OwnItems)
    BY <1>a, <1>c, <2>1
  <2> QED
    BY <1>0, <2>1, <2>2, ReturnsFollows
<1>2. CASE RefuseReview
  <2>1. /\ step = "post" /\ Host = "github" /\ step' = "verify" /\ verified' = <<>> /\ invalid' = <<>>
        /\ failures' = failures
        /\ UNCHANGED <<publication, kept, table, queue, rest, single, posted>>
    BY <1>2 DEF RefuseReview, Heard
  <2> QED
    BY <1>0, <1>a, <1>c, <2>1 DEF Follows, UnderWay
<1>3. CASE FailReview
  <2> DEFINE list == IF \A s \in ToSet(queue) : InDiff(s) THEN queue ELSE <<>>
  <2>1. step = "post" /\ Host = "github" /\ Returns(FALSE) /\ Untouched /\ FailsWith(list)
    BY <1>3 DEF FailReview
  <2>2. list = queue \/ list = <<>>
    OBVIOUS
  <2> HIDE DEF list
  <2>3. list \in Seq(OwnItems) /\ posted \o list \in Seq(OwnItems)
    BY <1>0, <1>a, <1>c, <2>1, <2>2
  <2>4. posted' \in Seq(OwnItems) /\ failures' \in Nat
    BY <2>1, <2>3, FailsIs
  <2> QED
    BY <2>1, <2>4, ReturnsFollows
<1>4. CASE Verify
  <2> DEFINE s == Head(queue)
  <2>1. /\ step = "verify" /\ queue # <<>> /\ queue' = Tail(queue)
        /\ \/ verified' = Append(verified, s) /\ invalid' = invalid
           \/ invalid' = Append(invalid, s) /\ verified' = verified
        /\ failures' = failures \/ failures' = failures + 1
        /\ UNCHANGED <<publication, kept, table, step, rest, single, posted, unheard>>
    BY <1>4 DEF Verify, Fails
  <2>2. s \in LinedItems /\ Tail(queue) \in Seq(LinedItems)
    BY <1>b, <2>1, HeadOfQueue
  <2> HIDE DEF s
  <2>3. verified' \in Seq(LinedItems) /\ invalid' \in Seq(LinedItems)
    <3> DEFINE S == LinedItems
    <3>1. verified \in Seq(S) /\ invalid \in Seq(S) /\ s \in S
      BY <1>0, <2>2
    <3> HIDE DEF S
    <3>2. Append(verified, s) \in Seq(S) /\ Append(invalid, s) \in Seq(S)
      BY <3>1
    <3>3. verified' \in Seq(S) /\ invalid' \in Seq(S)
      BY <2>1, <3>1, <3>2
    <3> QED
      BY <3>3 DEF S
  <2>4. queue' \in Seq(OwnItems) /\ queue' \in Seq(LinedItems)
    BY <1>a, <2>1, <2>2
  <2>5. failures' \in Nat
    BY <1>0, <2>1
  <2> QED
    BY <1>0, <1>b, <2>1, <2>3, <2>4, <2>5 DEF Follows, UnderWay, PushTyped, ListsAtSteps
<1>5. CASE PostVerified
  <2>1. /\ step = "verify" /\ queue = <<>> /\ step' = "fix" /\ queue' = Fixed(invalid)
        /\ verified' = <<>> /\ invalid' = <<>> /\ UNCHANGED <<publication, kept, table, rest, single>>
        /\ \/ posted' = posted \o verified /\ failures' = failures
           \/ FailsWith(verified)
    BY <1>5 DEF PostVerified, Post, Heard
  <2>2. verified \in Seq(OwnItems) /\ posted \o verified \in Seq(OwnItems)
    BY <1>0, <1>a
  <2>3. posted' \in Seq(OwnItems) /\ failures' \in Nat
    <3>1. CASE posted' = posted \o verified /\ failures' = failures
      BY <1>0, <2>2, <3>1
    <3>2. CASE FailsWith(verified)
      BY <2>2, <3>2, FailsIs
    <3> QED
      BY <2>1, <3>1, <3>2
  <2> DEFINE c == Fixed(invalid)
  <2>4. c \in Seq(LinedItems)
    <3> HIDE DEF c
    <3>1. c = Fixed(invalid)
      BY DEF c
    <3> QED
      BY <1>0, <3>1, FixedIs
  <2>5. queue' = c
    BY <2>1
  <2> HIDE DEF c
  <2>6. queue' \in Seq(OwnItems) /\ queue' \in Seq(LinedItems)
    BY <1>a, <2>4, <2>5
  <2> QED
    BY <1>0, <1>b, <2>1, <2>3, <2>6 DEF Follows, UnderWay
<1>6. CASE PostFixed
  <2> DEFINE one == <<Head(queue)>>
  <2>1. /\ step = "fix" /\ queue # <<>> /\ GoOn /\ Untouched
        /\ \/ failures' = failures /\ (posted' = posted \/ posted' = posted \o one)
           \/ FailsWith(one)
    BY <1>6 DEF PostFixed, Post, Heard
  <2>2. one \in Seq(OwnItems) /\ posted \o one \in Seq(OwnItems)
    BY <2>1, HeadOfQueue
  <2> HIDE DEF one
  <2>3. posted' \in Seq(OwnItems) /\ failures' \in Nat
    <3>1. CASE FailsWith(one)
      BY <2>2, <3>1, FailsIs
    <3> QED
      BY <1>0, <2>1, <2>2, <3>1
  <2>4. step \in UnderWay
    BY <2>1 DEF UnderWay
  <2> QED
    BY <2>1, <2>3, <2>4, GoOnFollows
<1>7. CASE FallbackDone
  <2>1. step = "fix" /\ Returns(TRUE) /\ Untouched /\ posted' = posted /\ failures' = failures
    BY <1>7 DEF FallbackDone, Heard
  <2> QED
    BY <1>0, <2>1, ReturnsFollows
<1> QED
  BY <1>1, <1>2, <1>3, <1>4, <1>5, <1>6, <1>7 DEF GithubNext

LEMMA PushInit ==
    ASSUME SuggestionsInit \/ SuggestionsIdle
    PROVE  PushTyped
<1>1. /\ publication \in Publications \cup {NoPublication} /\ step \in {"predict", "done"}
      /\ single = FALSE /\ failures = 0 /\ kept = <<>> /\ table = <<>> /\ queue = <<>>
      /\ rest = <<>> /\ verified = <<>> /\ invalid = <<>> /\ posted = <<>> /\ unheard = {}
      /\ publication = NoPublication \/ step = "predict"
  BY DEF SuggestionsInit, SuggestionsIdle
<1>2. \A S : <<>> \in Seq(S)
  OBVIOUS
<1>3. Once(<<>>) /\ Len(<<>>) <= 1
  BY OfNone
<1>4. ListsTyped
  BY <1>1, <1>2, <1>3 DEF ListsTyped
<1>5. ListsAtSteps
  BY <1>1, <1>3 DEF ListsAtSteps, UnderWay
<1>6. TableShown
  BY <1>1 DEF TableShown
<1> QED
  BY <1>1, <1>4, <1>5, <1>6 DEF PushTyped, Coming

LEMMA PushStutter ==
    ASSUME PushTyped, UNCHANGED pushVars
    PROVE  PushTyped'
<1>1. /\ UNCHANGED <<publication, step, kept, table, queue, rest, single, verified, invalid,
                     posted, failures, unheard>>
  BY DEF pushVars
<1>2. /\ KeptItems' = KeptItems /\ OwnItems' = OwnItems /\ LinedItems' = LinedItems
      /\ Host' = Host /\ (Markdown' <=> Markdown) /\ Wanted' = Wanted
  BY <1>1, SameItems
<1>3. ListsTyped' /\ ListsAtSteps'
  BY <1>1, <1>2 DEF PushTyped, ListsTyped, ListsAtSteps
<1>4. TableOf(kept)' = TableOf(kept)
  BY <1>1 DEF TableOf
<1>5. TableShown'
  BY <1>1, <1>2, <1>4 DEF PushTyped, TableShown
<1> QED
  BY <1>1, <1>3, <1>5 DEF PushTyped

LEMMA PredictTyped ==
    ASSUME PushTyped, publication \in Publications, Predict
    PROVE  PushTyped'
<1>1. /\ step = "predict" /\ step' = "publish"
      /\ kept' = FlattenSeq([j \in DOMAIN publication.answers |-> KeptOf(j)])
      /\ UNCHANGED <<publication, table, queue, rest, single, verified, invalid, posted, failures, unheard>>
  BY DEF Predict
<1>2. /\ KeptItems' = KeptItems /\ OwnItems' = OwnItems /\ LinedItems' = LinedItems /\ Host' = Host
  BY <1>1, SameItems
<1> DEFINE c == FlattenSeq([j \in DOMAIN publication.answers |-> KeptOf(j)])
<1>3. c \in Seq(KeptItems) /\ Once(c)
  <2> HIDE DEF c
  <2>1. c = FlattenSeq([j \in DOMAIN publication.answers |-> KeptOf(j)])
    BY DEF c
  <2> QED
    BY <2>1, AllKeptIs
<1>4. kept' = c
  BY <1>1
<1> HIDE DEF c
<1>5. ListsTyped'
  BY <1>1, <1>2, <1>3, <1>4 DEF PushTyped, ListsTyped
<1>6. /\ queue = <<>> /\ rest = <<>> /\ posted = <<>> /\ table = <<>> /\ unheard = {} /\ single = FALSE
      /\ verified = <<>> /\ invalid = <<>>
  BY <1>1 DEF PushTyped, ListsAtSteps, Coming
<1>7. ListsAtSteps'
  BY <1>1, <1>6 DEF ListsAtSteps, UnderWay
<1>8. TableShown'
  BY <1>1, <1>6 DEF TableShown, Coming
<1> QED
  BY <1>1, <1>5, <1>7, <1>8 DEF PushTyped, Coming

\* What push_inline_code_suggestions is given, and what it sends at first.
LEMMA PushIs ==
    ASSUME publication \in Publications, UNCHANGED publication,
           NEW list \in Seq(KeptItems), Once(list), Push(list)
    PROVE  /\ rest' = Parsed(list) /\ queue' = Sent(rest')
           /\ rest' \in Seq(OwnItems) /\ queue' \in Seq(OwnItems)
           /\ Host = "github" => queue' \in Seq(LinedItems)
           /\ Once(rest') /\ Once(queue')
           /\ Host # "github" => ToSet(queue') \subseteq ToSet(rest')
           /\ step' \in {"post", "done"}
           /\ list = <<>> <=> step' = "done"
           /\ list = <<>> => rest' = <<>> /\ queue' = <<>>
           /\ NoShortHunk => \A s \in ToSet(rest') :
                 Placeable(s) => \E r \in ToSet(queue') : r.name = s.name /\ Placeable(r)
<1> DEFINE c == Parsed(list)
           q == Sent(c)
<1>1. c \in Seq(OwnItems) /\ Once(c) /\ (list = <<>> => c = <<>>)
  <2> HIDE DEF c
  <2>1. c = Parsed(list)
    BY DEF c
  <2> QED
    BY <2>1, ParsedIs
<1>2. rest' = c /\ queue' = q /\ step' = IF list = <<>> THEN "done" ELSE "post"
  BY DEF Push
<1> HIDE DEF c, q
<1>3. /\ q \in Seq(OwnItems) /\ (Host = "github" => q \in Seq(LinedItems)) /\ Once(q)
      /\ c = <<>> => q = <<>>
      /\ Host # "github" => ToSet(q) \subseteq ToSet(c)
      /\ NoShortHunk => \A k \in DOMAIN c :
            Placeable(c[k]) => \E l \in DOMAIN q : q[l].name = c[k].name /\ Placeable(q[l])
  <2>1. q = Sent(c)
    BY DEF q
  <2> QED
    BY <1>1, <2>1, SentIs
<1>4. ASSUME NoShortHunk, NEW s \in ToSet(c), Placeable(s)
      PROVE  \E r \in ToSet(q) : r.name = s.name /\ Placeable(r)
  <2>1. PICK k \in DOMAIN c : c[k] = s
    BY <1>4 DEF ToSet
  <2>2. PICK l \in DOMAIN q : q[l].name = s.name /\ Placeable(q[l])
    BY <1>3, <1>4, <2>1
  <2>3. q[l] \in ToSet(q)
    BY DEF ToSet
  <2> QED
    BY <2>2, <2>3
<1>5. rest' = Parsed(list) /\ queue' = Sent(rest')
  BY DEF Push
<1> QED
  BY <1>1, <1>2, <1>3, <1>4, <1>5

PublishNext == PublishInline \/ PublishTable

\* A publication begins with all that is wanted.
LEMMA PublishIs ==
    ASSUME PushTyped, publication \in Publications, PublishNext
    PROVE  /\ step = "publish" /\ step' \in {"post", "done"}
           /\ UNCHANGED <<publication, kept, single, verified, invalid, posted, failures, unheard>>
           /\ rest' = Wanted /\ rest' \in Seq(OwnItems) /\ queue' \in Seq(OwnItems)
           /\ Host = "github" => queue' \in Seq(LinedItems)
           /\ Once(rest') /\ Once(queue')
           /\ Host # "github" => ToSet(queue') \subseteq ToSet(rest')
           /\ step' = "done" => rest' = <<>> /\ queue' = <<>>
           /\ NoShortHunk => \A s \in ToSet(rest') :
                 Placeable(s) => \E r \in ToSet(queue') : r.name = s.name /\ Placeable(r)
           /\ table' \in {<<>>, TableOf(kept)}
           /\ publication.mode # "inline" /\ Markdown /\ kept # <<>> => table' = TableOf(kept)
<1>0. kept \in Seq(KeptItems) /\ Once(kept)
  BY DEF PushTyped, ListsTyped
<1>1. step = "publish" /\ queue = <<>> /\ rest = <<>> /\ table = <<>>
  BY DEF PushTyped, ListsAtSteps, PublishNext, PublishInline, PublishTable, Coming
<1>2. UNCHANGED <<publication, kept, single, verified, invalid, posted, failures, unheard>>
  BY DEF PublishNext, PublishInline, PublishTable
<1>3. Parsed(<<>>) = <<>> /\ Those(<<>>, AboveDual) = <<>>
  <2> DEFINE e == <<>>
             a == Parsed(e)
             b == Those(e, AboveDual)
  <2>1. e \in Seq(KeptItems)
    OBVIOUS
  <2> HIDE DEF e, a, b
  <2>2. e = <<>> /\ a = Parsed(e) /\ b = Those(e, AboveDual)
    BY DEF e, a, b
  <2>3. a = <<>>
    BY <2>1, <2>2, ParsedIs
  <2>4. b = <<>>
    BY <2>1, <2>2, AboveDualIs
  <2> QED
    BY <2>3, <2>4 DEF a, b, e
<1>4. CASE PublishInline
  <2>1. Push(kept) /\ table' = table /\ (publication.mode = "inline" \/ ~Markdown \/ kept = <<>>)
    BY <1>4 DEF PublishInline
  <2>2. Wanted = Parsed(kept)
    BY <1>3, <2>1 DEF Wanted
  <2> QED
    BY <1>0, <1>1, <1>2, <2>1, <2>2, PushIs
<1>5. CASE PublishTable
  <2>1. /\ publication.mode \in {"table", "dual"} /\ Markdown /\ table' = TableOf(kept)
        /\ publication.mode = "dual" => Push(Those(kept, AboveDual))
        /\ publication.mode # "dual" => step' = "done" /\ UNCHANGED <<queue, rest>>
    BY <1>5 DEF PublishTable
  <2>2. CASE publication.mode = "dual"
    <3> DEFINE d == Those(kept, AboveDual)
    <3>1. d \in Seq(KeptItems) /\ Once(d)
      <4> HIDE DEF d
      <4>1. d = Those(kept, AboveDual)
        BY DEF d
      <4> QED
        BY <1>0, <4>1, AboveDualIs
    <3>2. Push(d) /\ Wanted = Parsed(d)
      BY <2>1, <2>2 DEF Wanted
    <3> HIDE DEF d
    <3> QED
      BY <1>1, <1>2, <2>1, <3>1, <3>2, PushIs
  <2>3. CASE publication.mode = "table"
    <3>1. Wanted = <<>>
      BY <2>1, <2>3 DEF Wanted
    <3>2. rest' = <<>> /\ queue' = <<>> /\ step' = "done"
      BY <1>1, <2>1, <2>3
    <3>3. <<>> \in Seq(OwnItems) /\ <<>> \in Seq(LinedItems)
      OBVIOUS
    <3> QED
      BY <1>1, <1>2, <2>1, <3>1, <3>2, <3>3, OfNone
  <2> QED
    BY <2>1, <2>2, <2>3
<1> QED
  BY <1>4, <1>5 DEF PublishNext

LEMMA PublishTyped ==
    ASSUME PushTyped, publication \in Publications, PublishNext
    PROVE  PushTyped'
<1>1. /\ step = "publish" /\ step' \in {"post", "done"}
      /\ UNCHANGED <<publication, kept, single, verified, invalid, posted, failures, unheard>>
      /\ rest' = Wanted /\ rest' \in Seq(OwnItems) /\ queue' \in Seq(OwnItems)
      /\ Host = "github" => queue' \in Seq(LinedItems)
      /\ step' = "done" => rest' = <<>> /\ queue' = <<>>
      /\ table' \in {<<>>, TableOf(kept)}
      /\ publication.mode # "inline" /\ Markdown /\ kept # <<>> => table' = TableOf(kept)
  BY PublishIs
<1>2. /\ KeptItems' = KeptItems /\ OwnItems' = OwnItems /\ LinedItems' = LinedItems
      /\ Host' = Host /\ (Markdown' <=> Markdown) /\ Wanted' = Wanted
  BY <1>1, SameItems
<1>3. single = FALSE /\ posted = <<>> /\ unheard = {} /\ verified = <<>> /\ invalid = <<>>
  BY <1>1 DEF PushTyped, ListsAtSteps, Coming
<1>4. ListsTyped'
  BY <1>1, <1>2 DEF PushTyped, ListsTyped
<1>5. ListsAtSteps'
  BY <1>1, <1>2, <1>3 DEF ListsAtSteps, UnderWay, Coming
<1>6. TableOf(kept)' = TableOf(kept)
  BY <1>1 DEF TableOf
<1>7. TableShown'
  BY <1>1, <1>2, <1>6 DEF TableShown
<1>8. step' \in Coming \cup UnderWay \cup {"done"}
  BY <1>1 DEF UnderWay
<1> QED
  BY <1>1, <1>4, <1>5, <1>7, <1>8 DEF PushTyped

LEMMA PushNextTyped ==
    ASSUME PushTyped, publication # NoPublication, SuggestionsNext
    PROVE  PushTyped'
<1>1. publication \in Publications
  BY DEF PushTyped
<1>2. Predict \/ PublishNext \/ OthersNext \/ GithubNext
  BY DEF SuggestionsNext, PublishNext, OthersNext, GithubNext
<1> QED
  BY <1>1, <1>2, PredictTyped, PublishTyped, OthersFollow, GithubFollow, FollowsTyped

LEMMA PushTypedStep ==
    ASSUME PushTyped, [Next]_pipeVars
    PROVE  PushTyped'
<1>1. CASE publication # NoPublication /\ SuggestionsNext
  BY <1>1, PushNextTyped
<1>2. CASE UNCHANGED pushVars
  BY <1>2, PushStutter
<1> QED
  BY <1>1, <1>2 DEF Next, pipeVars

LEMMA PushInitTyped == Init => PushTyped
  BY PushInit DEF Init

LEMMA PushAlwaysTyped == Spec => []PushTyped
  BY PushInitTyped, PushTypedStep, PTL DEF Spec

LEMMA TableIsWhole ==
    ASSUME PushTyped, Published, publication.mode # "inline", Markdown, table # kept
    PROVE  \E j \in DOMAIN publication.feedback : publication.feedback[j] # "scored"
<1>1. publication \in Publications /\ step \notin Coming /\ kept \in Seq(KeptItems)
  BY DEF PushTyped, ListsTyped, Published, Coming
<1>2. table = TableOf(kept) /\ table # kept
  <2>1. CASE kept = <<>>
    <3>1. TableOf(<<>>) = <<>>
      BY DEF TableOf
    <3> QED
      BY <2>1, <3>1 DEF PushTyped, TableShown
  <2>2. CASE kept # <<>>
    BY <1>1, <2>2 DEF PushTyped, TableShown
  <2> QED
    BY <2>1, <2>2
<1>3. PICK s \in ToSet(kept) : ~(s.scored /\ s.complete)
  BY <1>2 DEF TableOf
<1>4. s \in KeptItems
  <2>1. PICK k \in DOMAIN kept : s = kept[k]
    BY DEF ToSet
  <2> QED
    BY <1>1, <2>1
<1>5. ~s.scored /\ IsAnswer(s.name) /\ publication.feedback[s.name[1]] # "scored"
  BY <1>3, <1>4, KeptIs
<1>6. s.name[1] \in DOMAIN publication.feedback
  BY <1>1, <1>5, PublicationsAssumption DEF IsAnswer
<1> QED
  BY <1>5, <1>6

\* Whatever the model answers and whichever reflections fail or are cut short,
\* for any thresholds and hosts and whatever the host refuses: a suggestion is
\* published with the score given to it, which is above the threshold, and on
\* lines given to it; and the table has all that are kept, but when an answer is
\* without its feedback (pr_code_suggestions.py:416-480, 795-890).
THEOREM SuggestionsAsReflected == Spec => []AsReflected
<1>1. PushTyped => AsReflected
  <2> SUFFICES ASSUME PushTyped PROVE AsReflected
    OBVIOUS
  <2>1. kept \in Seq(KeptItems) /\ posted \in Seq(OwnItems) /\ table \in {<<>>, kept}
    BY DEF PushTyped, ListsTyped, TableShown, TableOf
  <2>2. ASSUME NEW s \in ToSet(posted)
        PROVE  /\ Answer(s.name).score >= Lowest /\ s.score = Answer(s.name).score
               /\ s.start >= Answer(s.name).start
               /\ s.form # "note" => s.end <= Answer(s.name).end
    <3>1. s \in OwnItems
      BY <2>1 DEF ToSet
    <3> QED
      BY <3>1, OwnIs
  <2>3. ASSUME NEW s \in ToSet(table)
        PROVE  /\ Answer(s.name).score >= Lowest /\ s.score = Answer(s.name).score
               /\ s.start >= Answer(s.name).start
               /\ s.form # "note" => s.end <= Answer(s.name).end
    <3>1. table = TableOf(kept) /\ ToSet(<<>>) = {}
      BY <2>3, OfNone DEF PushTyped, TableShown
    <3>2. s \in ToSet(kept) /\ s.scored
      BY <2>3, <3>1 DEF TableOf
    <3>3. s \in KeptItems
      BY <2>1, <3>2 DEF ToSet
    <3>4. s.start = Answer(s.name).start /\ s.end = Answer(s.name).end /\ s.start \in Int /\ s.end \in Int
      BY <3>2, <3>3, KeptIs
    <3> QED
      BY <3>2, <3>3, <3>4, KeptIs
  <2>4. OwnScore
    BY <2>2, <2>3 DEF OwnScore
  <2>5. TableWhole
    BY TableIsWhole DEF TableWhole
  <2> QED
    BY <2>4, <2>5 DEF AsReflected
<1> QED
  BY <1>1, PushAlwaysTyped, PTL

-----------------------------------------------------------------------------
(* What is wanted is on its way.                                           *)

\* On the pull request, or in the hands of a step that will put it there: with
\* its first line in the diff, with its only line when it was refused before.
OnItsWay(name) ==
    \/ name \in Names(posted)
    \/ \E s \in ToSet(queue) : s.name = name /\ Placeable(s) /\ (step = "fix" => InDiff(s))
    \/ name \in Names(verified)
    \/ \E s \in ToSet(invalid) : s.name = name /\ Placeable(s) /\ ~InDiff(s)
    \/ single = TRUE /\ \E s \in ToSet(rest) : s.name = name /\ Placeable(s)

NoneForgotten ==
    publication \in Publications /\ step \notin Coming /\ failures = 0 /\ NoShortHunk =>
        \A w \in ToSet(Wanted) : Placeable(w) => OnItsWay(w.name)

\* The head of the list is done with.
LEMMA GoOnKeeps ==
    ASSUME PushTyped, publication \in Publications, queue # <<>>, GoOn, Untouched,
           Names(posted) \subseteq Names(posted'), NEW name, OnItsWay(name),
           Head(queue).name = name /\ Placeable(Head(queue)) /\ (step = "fix" => InDiff(Head(queue))) =>
               name \in Names(posted')
    PROVE  OnItsWay(name)'
<1>1. /\ queue' = Tail(queue) /\ step' = step /\ rest' = rest /\ single' = single
      /\ verified' = verified /\ invalid' = invalid /\ publication' = publication
  BY DEF GoOn, Untouched
<1>2. \A s : (InDiff(s)' <=> InDiff(s)) /\ (Placeable(s)' <=> Placeable(s))
  BY <1>1, SameItems
<1>3. ToSet(queue) = {Head(queue)} \cup ToSet(Tail(queue))
  BY HeadOfQueue
<1>4. ASSUME NEW s \in ToSet(queue), s.name = name, Placeable(s), step = "fix" => InDiff(s)
      PROVE  OnItsWay(name)'
  <2>1. CASE s = Head(queue)
    BY <1>4, <2>1 DEF OnItsWay
  <2>2. CASE s \in ToSet(Tail(queue))
    BY <1>1, <1>2, <1>4, <2>2 DEF OnItsWay
  <2> QED
    BY <1>3, <1>4, <2>1, <2>2
<1>5. CASE name \in Names(posted) \/ name \in Names(verified)
  BY <1>1, <1>5 DEF OnItsWay
<1>6. CASE \E s \in ToSet(invalid) : s.name = name /\ Placeable(s) /\ ~InDiff(s)
  BY <1>1, <1>2, <1>6 DEF OnItsWay
<1>7. CASE single = TRUE /\ \E s \in ToSet(rest) : s.name = name /\ Placeable(s)
  BY <1>1, <1>2, <1>7 DEF OnItsWay
<1> QED
  BY <1>4, <1>5, <1>6, <1>7 DEF OnItsWay

\* The list is done with: what it did not publish is still in the rest.
LEMMA ReturnsKeeps ==
    ASSUME PushTyped, publication \in Publications, step \in {"post", "fix"}, NEW ok, Returns(ok),
           Untouched, NoShortHunk, Names(posted) \subseteq Names(posted'),
           NEW w \in ToSet(Wanted), Placeable(w), OnItsWay(w.name),
           (ok \/ single = TRUE) =>
               \A s \in ToSet(queue) :
                   s.name = w.name /\ Placeable(s) /\ (step = "fix" => InDiff(s)) =>
                       w.name \in Names(posted')
    PROVE  OnItsWay(w.name)'
<1>1. publication' = publication /\ verified = <<>> /\ invalid = <<>>
  BY DEF Untouched, PushTyped, ListsAtSteps
<1>2. \A s : (InDiff(s)' <=> InDiff(s)) /\ (Placeable(s)' <=> Placeable(s))
  BY <1>1, SameItems
<1>3. /\ step' \in {"post", "done"}
      /\ ~(ok /\ single = FALSE) =>
            \A s \in ToSet(rest) :
                Placeable(s) =>
                    \/ \E r \in ToSet(queue') : r.name = s.name /\ Placeable(r)
                    \/ single' = TRUE /\ s \in ToSet(rest')
  BY <1>1, ReturnsIs
<1>4. ASSUME ~(ok /\ single = FALSE), NEW s \in ToSet(rest), Placeable(s), s.name = w.name
      PROVE  OnItsWay(w.name)'
  BY <1>2, <1>3, <1>4 DEF OnItsWay
<1>5. CASE ~(ok \/ single = TRUE)
  <2>1. single = FALSE /\ step \in UnderWay
    BY <1>5 DEF PushTyped, UnderWay
  <2>2. rest = Wanted
    BY <2>1 DEF PushTyped, ListsAtSteps
  <2> QED
    BY <1>4, <1>5, <2>2
<1>6. CASE ok \/ single = TRUE
  <2>1. CASE w.name \in Names(posted')
    BY <2>1 DEF OnItsWay
  <2>2. CASE w.name \notin Names(posted')
    <3>1. ~\E s \in ToSet(queue) : s.name = w.name /\ Placeable(s) /\ (step = "fix" => InDiff(s))
      BY <1>6, <2>2
    <3>2. w.name \notin Names(posted) /\ w.name \notin Names(verified)
      BY <1>1, <2>2, OfNone
    <3>3. ~\E s \in ToSet(invalid) : s.name = w.name /\ Placeable(s) /\ ~InDiff(s)
      BY <1>1, OfNone
    <3>4. single = TRUE /\ \E s \in ToSet(rest) : s.name = w.name /\ Placeable(s)
      BY <3>1, <3>2, <3>3 DEF OnItsWay
    <3> QED
      BY <1>4, <3>4
  <2> QED
    BY <2>1, <2>2
<1> QED
  BY <1>5, <1>6

LEMMA OnThePullRequest ==
    ASSUME PushTyped, publication \in Publications, NEW list \in Seq(OwnItems),
           posted' = posted \o list
    PROVE  Names(posted') = Names(posted) \cup Names(list)
<1> DEFINE S == OwnItems
<1>1. posted \in Seq(S) /\ list \in Seq(S)
  BY DEF PushTyped, ListsTyped
<1> HIDE DEF S
<1> QED
  BY <1>1, OfBoth

LEMMA HeadPosted ==
    ASSUME PushTyped, publication \in Publications, queue # <<>>
    PROVE  /\ posted' = posted \o <<Head(queue)>> =>
                 Names(posted') = Names(posted) \cup {Head(queue).name}
           /\ posted' = posted \o <<Noted(Head(queue))>> =>
                 Names(posted') = Names(posted) \cup {Head(queue).name}
<1> DEFINE h == Head(queue)
           n == Noted(h)
           one == <<h>>
           note == <<n>>
           S == OwnItems
<1>1. h \in S /\ n \in S /\ n.name = h.name
  BY HeadOfQueue, NotedIs
<1> HIDE DEF S, h, n
<1>2. one \in Seq(S) /\ note \in Seq(S) /\ Names(one) = {h.name} /\ Names(note) = {h.name}
  BY <1>1, OfOne
<1> HIDE DEF one, note
<1>3. one \in Seq(OwnItems) /\ note \in Seq(OwnItems)
  BY <1>2 DEF S
<1>4. /\ posted' = posted \o one => Names(posted') = Names(posted) \cup {h.name}
      /\ posted' = posted \o note => Names(posted') = Names(posted) \cup {h.name}
  BY <1>2, <1>3, OnThePullRequest
<1> QED
  BY <1>4 DEF one, note, h, n

\* No call of the step fails, and what was on its way still is.
LEMMA Remembered ==
    ASSUME PushTyped, Follows, NoneForgotten,
           failures' = failures \/ failures' = failures + 1,
           ASSUME failures' = failures, NoShortHunk, NEW w \in ToSet(Wanted), Placeable(w), OnItsWay(w.name)
           PROVE  OnItsWay(w.name)'
    PROVE  NoneForgotten'
<1>1. /\ publication \in Publications /\ publication' = publication /\ step \notin Coming
      /\ kept' = kept /\ failures \in Nat
  BY DEF Follows, PushTyped, UnderWay, Coming
<1>2. (NoShortHunk' <=> NoShortHunk) /\ Wanted' = Wanted /\ \A s : Placeable(s)' <=> Placeable(s)
  BY <1>1, SameItems
<1> SUFFICES ASSUME failures' = 0, NoShortHunk, NEW w \in ToSet(Wanted), Placeable(w)
             PROVE  OnItsWay(w.name)'
  BY <1>2 DEF NoneForgotten
<1>3. failures = 0 /\ failures' = failures
  BY <1>1
<1>4. OnItsWay(w.name)
  BY <1>1, <1>3 DEF NoneForgotten
<1> QED
  BY <1>3, <1>4

\* An item that the host refuses has no line in the diff.
LEMMA RefusedIs ==
    ASSUME PushTyped, publication \in Publications, queue # <<>>
    PROVE  /\ ~Accepts(Head(queue)) => ~Placeable(Head(queue))
           /\ Head(queue).start > FileLength => ~Placeable(Head(queue))
<1> DEFINE s == Head(queue)
<1>1. s \in OwnItems
  BY HeadOfQueue
<1>2. ~Accepts(s) => ~Placeable(s)
  BY DEF Accepts, Placeable
<1> HIDE DEF s
<1>3. ASSUME Placeable(s) PROVE ~(s.start > FileLength)
  <2>1. PICK k \in DOMAIN publication.hunks :
            /\ publication.hunks[k].start <= s.start
            /\ s.start < publication.hunks[k].start + publication.hunks[k].size
    BY <1>1, <1>3, InDiffIs DEF Placeable
  <2>2. /\ publication.hunks[k].start \in Nat /\ publication.hunks[k].size \in Nat
    BY HunksAre
  <2>3. publication.hunks[k].start + publication.hunks[k].size - 1 <= FileLength /\ FileLength \in Nat
    BY PublicationsAssumption
  <2>4. s.start \in Int
    BY <1>1, OwnIs
  <2> QED
    BY <2>1, <2>2, <2>3, <2>4
<1> QED
  BY <1>2, <1>3 DEF s

LEMMA OthersRemember ==
    ASSUME PushTyped, publication \in Publications, NoneForgotten, OthersNext
    PROVE  NoneForgotten'
<1>0. Follows /\ failures \in Nat
  BY OthersFollow DEF PushTyped
<1> DEFINE Keeps == \A w \in ToSet(Wanted) :
                        NoShortHunk /\ Placeable(w) /\ OnItsWay(w.name) => OnItsWay(w.name)'
<1>a. ASSUME failures' = failures + 1 PROVE NoneForgotten'
  <2>1. failures' # failures
    BY <1>0, <1>a
  <2> QED
    BY <1>0, <1>a, <2>1, Remembered
<1>b. ASSUME failures' = failures, Keeps PROVE NoneForgotten'
  BY <1>0, <1>b, Remembered
<1> HIDE DEF Keeps
<1>1. CASE PostOne \/ PostNote
  <2>1. /\ Posting /\ GoOn /\ Untouched /\ failures' = failures
        /\ posted' = posted \o <<Head(queue)>> \/ posted' = posted \o <<Noted(Head(queue))>>
    BY <1>1 DEF PostOne, PostNote, Post, Heard, Noted
  <2>2. queue # <<>> /\ Names(posted') = Names(posted) \cup {Head(queue).name}
    BY <2>1, PostingIs, HeadPosted
  <2>3. Keeps
    <3> SUFFICES ASSUME NEW w \in ToSet(Wanted), NoShortHunk, Placeable(w), OnItsWay(w.name)
                 PROVE  OnItsWay(w.name)'
      BY DEF Keeps
    <3> DEFINE n == w.name
    <3>1. OnItsWay(n)
      OBVIOUS
    <3> HIDE DEF n
    <3>2. OnItsWay(n)'
      BY <2>1, <2>2, <3>1, GoOnKeeps
    <3> QED
      BY <3>2 DEF n
  <2> QED
    BY <1>b, <2>1, <2>3
<1>2. CASE BeyondTheFile \/ RefusedUnseen
  <2>1. /\ Posting /\ GoOn /\ Untouched /\ failures' = failures /\ posted' = posted
        /\ Head(queue).start > FileLength \/ ~Accepts(Head(queue))
    BY <1>2 DEF BeyondTheFile, RefusedUnseen, Heard
  <2>2. queue # <<>> /\ ~Placeable(Head(queue))
    BY <2>1, PostingIs, RefusedIs
  <2>3. Keeps
    <3> SUFFICES ASSUME NEW w \in ToSet(Wanted), NoShortHunk, Placeable(w), OnItsWay(w.name)
                 PROVE  OnItsWay(w.name)'
      BY DEF Keeps
    <3> DEFINE n == w.name
    <3>1. OnItsWay(n) /\ Names(posted) \subseteq Names(posted')
      BY <2>1
    <3> HIDE DEF n
    <3>2. OnItsWay(n)'
      BY <2>1, <2>2, <3>1, GoOnKeeps
    <3> QED
      BY <3>2 DEF n
  <2> QED
    BY <1>b, <2>1, <2>3
<1>3. CASE RefusedAll
  <2>1. /\ Posting /\ Returns(FALSE) /\ Untouched /\ posted' = posted /\ failures' = failures
        /\ ~Accepts(Head(queue))
    BY <1>3 DEF RefusedAll, Heard
  <2>2. queue # <<>> /\ ~Placeable(Head(queue)) /\ step \in {"post", "fix"} /\ Host # "github"
    BY <2>1, PostingIs, RefusedIs
  <2>3. ASSUME single = TRUE, NEW s \in ToSet(queue), Placeable(s) PROVE FALSE
    <3>1. Len(queue) <= 1 /\ queue \in Seq(OwnItems)
      BY <2>2, <2>3 DEF PushTyped, ListsTyped, ListsAtSteps
    <3>2. s = Head(queue)
      BY <2>2, <3>1 DEF ToSet
    <3> QED
      BY <2>2, <2>3, <3>2
  <2>4. Keeps
    <3> SUFFICES ASSUME NEW w \in ToSet(Wanted), NoShortHunk, Placeable(w), OnItsWay(w.name)
                 PROVE  OnItsWay(w.name)'
      BY DEF Keeps
    <3> DEFINE ok == FALSE
    <3>1. /\ Names(posted) \subseteq Names(posted')
          /\ (ok \/ single = TRUE) =>
               \A s \in ToSet(queue) :
                   s.name = w.name /\ Placeable(s) /\ (step = "fix" => InDiff(s)) =>
                       w.name \in Names(posted')
      BY <2>1, <2>3
    <3>2. Returns(ok)
      BY <2>1
    <3> HIDE DEF ok
    <3> QED
      BY <2>1, <2>2, <3>1, <3>2, ReturnsKeeps
  <2> QED
    BY <1>b, <2>1, <2>4
<1>4. CASE FailOne \/ FailOnGitlab
  <2>1. failures' = failures + 1
    BY <1>4 DEF FailOne, FailOnGitlab, FailsWith, Fails
  <2> QED
    BY <1>a, <2>1
<1>5. CASE ListDone
  <2> DEFINE ok == (Host # "gitea")
  <2>1. /\ step = "post" /\ queue = <<>> /\ Returns(ok) /\ Untouched /\ posted' = posted
        /\ failures' = failures
    BY <1>5 DEF ListDone, Heard
  <2> HIDE DEF ok
  <2>2. Keeps
    <3> SUFFICES ASSUME NEW w \in ToSet(Wanted), NoShortHunk, Placeable(w), OnItsWay(w.name)
                 PROVE  OnItsWay(w.name)'
      BY DEF Keeps
    <3>1. /\ Names(posted) \subseteq Names(posted')
          /\ (ok \/ single = TRUE) =>
               \A s \in ToSet(queue) :
                   s.name = w.name /\ Placeable(s) /\ (step = "fix" => InDiff(s)) =>
                       w.name \in Names(posted')
      BY <2>1, OfNone
    <3> QED
      BY <2>1, <3>1, ReturnsKeeps
  <2> QED
    BY <1>b, <2>1, <2>2
<1> QED
  BY <1>1, <1>2, <1>3, <1>4, <1>5 DEF OthersNext

LEMMA GithubRemembers ==
    ASSUME PushTyped, publication \in Publications, NoneForgotten, GithubNext
    PROVE  NoneForgotten'
<1>0. Follows /\ failures \in Nat /\ publication' = publication
  BY GithubFollow DEF PushTyped, Follows
<1>s. \A s : (InDiff(s)' <=> InDiff(s)) /\ (Placeable(s)' <=> Placeable(s))
  BY <1>0, SameItems
<1>t. /\ posted \in Seq(OwnItems) /\ queue \in Seq(OwnItems)
      /\ verified \in Seq(LinedItems) /\ invalid \in Seq(LinedItems)
      /\ step # "verify" => verified = <<>> /\ invalid = <<>>
  BY DEF PushTyped, ListsTyped, ListsAtSteps
<1> DEFINE Keeps == \A w \in ToSet(Wanted) :
                        NoShortHunk /\ Placeable(w) /\ OnItsWay(w.name) => OnItsWay(w.name)'
<1>a. ASSUME failures' = failures + 1 PROVE NoneForgotten'
  <2>1. failures' # failures
    BY <1>0, <1>a
  <2> QED
    BY <1>0, <1>a, <2>1, Remembered
<1>b. ASSUME failures' = failures, Keeps PROVE NoneForgotten'
  BY <1>0, <1>b, Remembered
<1> HIDE DEF Keeps
<1>1. CASE Review
  <2> DEFINE ok == TRUE
  <2>1. /\ step = "post" /\ Returns(ok) /\ Untouched
        /\ posted' = posted \o queue /\ failures' = failures
    BY <1>1 DEF Review, Post, Heard
  <2>2. Names(posted') = Names(posted) \cup Names(queue)
    BY <1>t, <2>1, OnThePullRequest
  <2> HIDE DEF ok
  <2>3. \A s \in ToSet(queue) : s.name \in Names(queue)
    BY DEF ToSet, Names
  <2>4. Keeps
    <3> SUFFICES ASSUME NEW w \in ToSet(Wanted), NoShortHunk, Placeable(w), OnItsWay(w.name)
                 PROVE  OnItsWay(w.name)'
      BY DEF Keeps
    <3>1. /\ Names(posted) \subseteq Names(posted')
          /\ (ok \/ single = TRUE) =>
               \A s \in ToSet(queue) :
                   s.name = w.name /\ Placeable(s) /\ (step = "fix" => InDiff(s)) =>
                       w.name \in Names(posted')
      BY <2>2, <2>3
    <3> QED
      BY <2>1, <3>1, ReturnsKeeps
  <2> QED
    BY <1>b, <2>1, <2>4
<1>2. CASE RefuseReview
  <2>1. /\ step = "post" /\ step' = "verify" /\ verified' = <<>> /\ invalid' = <<>>
        /\ failures' = failures
        /\ UNCHANGED <<publication, kept, table, queue, rest, single, posted>>
    BY <1>2 DEF RefuseReview, Heard
  <2>2. verified = <<>> /\ invalid = <<>>
    BY <1>t, <2>1
  <2>3. ASSUME NEW n, OnItsWay(n) PROVE OnItsWay(n)'
    BY <1>s, <2>1, <2>2, <2>3 DEF OnItsWay
  <2>4. Keeps
    BY <2>3 DEF Keeps
  <2> QED
    BY <1>b, <2>1, <2>4
<1>3. CASE FailReview
  <2>1. failures' = failures + 1
    BY <1>3 DEF FailReview, FailsWith, Fails
  <2> QED
    BY <1>a, <2>1
<1>4. CASE Verify
  <2> DEFINE s == Head(queue)
  <2>1. /\ step = "verify" /\ queue # <<>> /\ queue' = Tail(queue)
        /\ UNCHANGED <<publication, kept, table, step, rest, single, posted, unheard>>
        /\ \/ /\ InDiff(s) /\ verified' = Append(verified, s)
              /\ UNCHANGED <<invalid, failures>>
           \/ /\ ~InDiff(s) /\ invalid' = Append(invalid, s)
              /\ UNCHANGED <<verified, failures>>
           \/ failures' = failures + 1
    BY <1>4 DEF Verify, Fails
  <2>2. CASE failures' = failures + 1
    BY <1>a, <2>2
  <2> DEFINE one == <<s>>
  <2>4. s \in LinedItems /\ ToSet(queue) = {s} \cup ToSet(Tail(queue))
    BY <2>1, HeadOfQueue DEF PushTyped, ListsAtSteps
  <2>3. Append(verified, s) = verified \o one /\ Append(invalid, s) = invalid \o one
    <3> DEFINE S == LinedItems
    <3>1. verified \in Seq(S) /\ invalid \in Seq(S) /\ s \in S
      BY <1>t, <2>4
    <3> HIDE DEF S, s
    <3> QED
      BY <3>1, AppendIsConcat
  <2>5. /\ ToSet(verified \o one) = ToSet(verified) \cup {s}
        /\ Names(verified \o one) = Names(verified) \cup {s.name}
        /\ ToSet(invalid \o one) = ToSet(invalid) \cup {s}
    <3> DEFINE S == LinedItems
    <3>1. verified \in Seq(S) /\ invalid \in Seq(S) /\ s \in S
      BY <1>t, <2>4
    <3> HIDE DEF S, s
    <3>2. one \in Seq(S) /\ ToSet(one) = {s} /\ Names(one) = {s.name}
      BY <3>1, OfOne
    <3> HIDE DEF one
    <3> QED
      BY <3>1, <3>2, OfBoth
  <2> HIDE DEF s, one
  <2>6. CASE InDiff(s) /\ verified' = Append(verified, s) /\ UNCHANGED <<invalid, failures>>
    <3>1. ASSUME NEW n, OnItsWay(n) PROVE OnItsWay(n)'
      <4>1. Names(verified') = Names(verified) \cup {s.name}
        BY <2>3, <2>5, <2>6
      <4>2. CASE \E r \in ToSet(queue) : r.name = n /\ Placeable(r) /\ (step = "fix" => InDiff(r))
        <5>1. PICK r \in ToSet(queue) : r.name = n /\ Placeable(r) /\ (step = "fix" => InDiff(r))
          BY <4>2
        <5>2. CASE r = s
          BY <4>1, <5>1, <5>2 DEF OnItsWay
        <5>3. CASE r \in ToSet(Tail(queue))
          BY <1>s, <2>1, <5>1, <5>3 DEF OnItsWay
        <5> QED
          BY <2>4, <5>1, <5>2, <5>3
      <4>3. CASE n \in Names(posted) \/ n \in Names(verified)
        BY <2>1, <4>1, <4>3 DEF OnItsWay
      <4>4. CASE \E r \in ToSet(invalid) : r.name = n /\ Placeable(r) /\ ~InDiff(r)
        BY <1>s, <2>6, <4>4 DEF OnItsWay
      <4>5. CASE single = TRUE /\ \E r \in ToSet(rest) : r.name = n /\ Placeable(r)
        BY <1>s, <2>1, <4>5 DEF OnItsWay
      <4> QED
        BY <3>1, <4>2, <4>3, <4>4, <4>5 DEF OnItsWay
    <3>2. Keeps
      BY <3>1 DEF Keeps
    <3> QED
      BY <1>b, <2>6, <3>2
  <2>7. CASE ~InDiff(s) /\ invalid' = Append(invalid, s) /\ UNCHANGED <<verified, failures>>
    <3>1. ASSUME NEW n, OnItsWay(n) PROVE OnItsWay(n)'
      <4>1. ToSet(invalid') = ToSet(invalid) \cup {s}
        BY <2>3, <2>5, <2>7
      <4>2. CASE \E r \in ToSet(queue) : r.name = n /\ Placeable(r) /\ (step = "fix" => InDiff(r))
        <5>1. PICK r \in ToSet(queue) : r.name = n /\ Placeable(r) /\ (step = "fix" => InDiff(r))
          BY <4>2
        <5>2. CASE r = s
          BY <1>s, <2>7, <4>1, <5>1, <5>2 DEF OnItsWay
        <5>3. CASE r \in ToSet(Tail(queue))
          BY <1>s, <2>1, <5>1, <5>3 DEF OnItsWay
        <5> QED
          BY <2>4, <5>1, <5>2, <5>3
      <4>3. CASE n \in Names(posted) \/ n \in Names(verified)
        BY <2>1, <2>7, <4>3 DEF OnItsWay
      <4>4. CASE \E r \in ToSet(invalid) : r.name = n /\ Placeable(r) /\ ~InDiff(r)
        BY <1>s, <4>1, <4>4 DEF OnItsWay
      <4>5. CASE single = TRUE /\ \E r \in ToSet(rest) : r.name = n /\ Placeable(r)
        BY <1>s, <2>1, <4>5 DEF OnItsWay
      <4> QED
        BY <3>1, <4>2, <4>3, <4>4, <4>5 DEF OnItsWay
    <3>2. Keeps
      BY <3>1 DEF Keeps
    <3> QED
      BY <1>b, <2>7, <3>2
  <2> QED
    BY <2>1, <2>2, <2>6, <2>7
<1>5. CASE PostVerified
  <2>1. /\ step = "verify" /\ queue = <<>> /\ step' = "fix" /\ queue' = Fixed(invalid)
        /\ UNCHANGED <<publication, kept, table, rest, single>>
        /\ \/ posted' = posted \o verified /\ failures' = failures
           \/ failures' = failures + 1
    BY <1>5 DEF PostVerified, Post, Heard, FailsWith, Fails
  <2>2. CASE failures' = failures + 1
    BY <1>a, <2>2
  <2>3. CASE posted' = posted \o verified /\ failures' = failures
    <3>1. Names(posted') = Names(posted) \cup Names(verified)
      <4>1. verified \in Seq(OwnItems)
        BY <1>t, LinedAreOwn
      <4> QED
        BY <2>3, <4>1, OnThePullRequest
    <3> DEFINE c == Fixed(invalid)
    <3>2. \A k \in DOMAIN invalid :
              Placeable(invalid[k]) /\ ~InDiff(invalid[k]) =>
                  \E l \in DOMAIN c : c[l].name = invalid[k].name /\ InDiff(c[l]) /\ Placeable(c[l])
      <4> HIDE DEF c
      <4>1. c = Fixed(invalid)
        BY DEF c
      <4> QED
        BY <1>t, <4>1, FixedIs
    <3>3. queue' = c
      BY <2>1
    <3> HIDE DEF c
    <3>4. ASSUME NEW n, OnItsWay(n) PROVE OnItsWay(n)'
      <4>1. CASE n \in Names(posted) \/ n \in Names(verified)
        BY <3>1, <4>1 DEF OnItsWay
      <4>2. CASE \E r \in ToSet(invalid) : r.name = n /\ Placeable(r) /\ ~InDiff(r)
        <5>1. PICK k \in DOMAIN invalid : invalid[k].name = n /\ Placeable(invalid[k]) /\ ~InDiff(invalid[k])
          BY <4>2 DEF ToSet
        <5>2. PICK l \in DOMAIN c : c[l].name = n /\ InDiff(c[l]) /\ Placeable(c[l])
          BY <3>2, <5>1
        <5>3. c[l] \in ToSet(queue')
          BY <3>3 DEF ToSet
        <5> QED
          BY <1>s, <5>2, <5>3 DEF OnItsWay
      <4>3. CASE single = TRUE /\ \E r \in ToSet(rest) : r.name = n /\ Placeable(r)
        BY <1>s, <2>1, <4>3 DEF OnItsWay
      <4>4. ToSet(queue) = {}
        BY <2>1, OfNone
      <4> QED
        BY <3>4, <4>1, <4>2, <4>3, <4>4 DEF OnItsWay
    <3>5. Keeps
      BY <3>4 DEF Keeps
    <3> QED
      BY <1>b, <2>3, <3>5
  <2> QED
    BY <2>1, <2>2, <2>3
<1>6. CASE PostFixed
  <2>1. /\ step = "fix" /\ queue # <<>> /\ GoOn /\ Untouched
        /\ \/ /\ failures' = failures
              /\ IF InDiff(Head(queue)) THEN posted' = posted \o <<Head(queue)>> ELSE posted' = posted
           \/ failures' = failures + 1
    BY <1>6 DEF PostFixed, Post, Heard, FailsWith, Fails
  <2>2. CASE failures' = failures + 1
    BY <1>a, <2>2
  <2>3. CASE failures' = failures
    <3>1. /\ Names(posted) \subseteq Names(posted')
          /\ InDiff(Head(queue)) => Head(queue).name \in Names(posted')
      <4>1. CASE InDiff(Head(queue))
        <5>1. posted' = posted \o <<Head(queue)>>
          BY <1>0, <2>1, <2>3, <4>1
        <5> QED
          BY <2>1, <5>1, HeadPosted
      <4>2. CASE ~InDiff(Head(queue))
        BY <1>0, <2>1, <2>3, <4>2
      <4> QED
        BY <4>1, <4>2
    <3>2. Keeps
      <4> SUFFICES ASSUME NEW w \in ToSet(Wanted), NoShortHunk, Placeable(w), OnItsWay(w.name)
                   PROVE  OnItsWay(w.name)'
        BY DEF Keeps
      <4> DEFINE n == w.name
      <4>1. OnItsWay(n)
        OBVIOUS
      <4> HIDE DEF n
      <4>2. OnItsWay(n)'
        BY <2>1, <3>1, <4>1, GoOnKeeps
      <4> QED
        BY <4>2 DEF n
    <3> QED
      BY <1>b, <2>3, <3>2
  <2> QED
    BY <2>1, <2>2, <2>3
<1>7. CASE FallbackDone
  <2> DEFINE ok == TRUE
  <2>1. /\ step = "fix" /\ queue = <<>> /\ Returns(ok) /\ Untouched /\ posted' = posted
        /\ failures' = failures
    BY <1>7 DEF FallbackDone, Heard
  <2> HIDE DEF ok
  <2>2. Keeps
    <3> SUFFICES ASSUME NEW w \in ToSet(Wanted), NoShortHunk, Placeable(w), OnItsWay(w.name)
                 PROVE  OnItsWay(w.name)'
      BY DEF Keeps
    <3>1. /\ Names(posted) \subseteq Names(posted')
          /\ (ok \/ single = TRUE) =>
               \A s \in ToSet(queue) :
                   s.name = w.name /\ Placeable(s) /\ (step = "fix" => InDiff(s)) =>
                       w.name \in Names(posted')
      BY <2>1, OfNone
    <3> QED
      BY <2>1, <3>1, ReturnsKeeps
  <2> QED
    BY <1>b, <2>1, <2>2
<1> QED
  BY <1>1, <1>2, <1>3, <1>4, <1>5, <1>6, <1>7 DEF GithubNext

-----------------------------------------------------------------------------
(* Nothing is on its way twice.                                            *)

\* The hosts that are sent what they have already.
Known ==
    \/ Host = "gitea"
    \/ Host = "bitbucket" /\ failures > 0
    \/ Host = "bitbucket_server" /\ (failures > 0 \/ \E s \in ToSet(Wanted) : ~StartsInDiff(s))

Disjoint(a, b, c, d) ==
    /\ a \cap b = {} /\ a \cap c = {} /\ a \cap d = {}
    /\ b \cap c = {} /\ b \cap d = {} /\ c \cap d = {}

\* Only GitHub gets what is left one by one, and nothing was posted before.
EachOnce ==
    /\ Once(posted) /\ Once(queue) /\ Once(verified) /\ Once(invalid) /\ Once(rest)
    /\ Disjoint(Names(posted), Names(queue), Names(verified), Names(invalid))
    /\ single = TRUE =>
          /\ Host = "github"
          /\ Disjoint(Names(rest), Names(posted), Names(queue), Names(verified) \cup Names(invalid))
    /\ single = FALSE /\ Host = "github" /\ step = "post" => posted = <<>>
    /\ Host = "bitbucket_server" => ToSet(queue) \subseteq ToSet(Wanted)

NoneTwice ==
    publication \in Publications /\ step \notin Coming /\ unheard = {} /\ ~Known => EachOnce

LEMMA GoOnOnce ==
    ASSUME PushTyped, publication \in Publications, step \in UnderWay, queue # <<>>, EachOnce,
           GoOn, Untouched, Host = "github" => step = "fix",
           \/ posted' = posted
           \/ posted' = posted \o <<Head(queue)>>
           \/ posted' = posted \o <<Noted(Head(queue))>>
    PROVE  EachOnce'
<1>1. /\ queue' = Tail(queue) /\ step' = step /\ rest' = rest /\ single' = single
      /\ verified' = verified /\ invalid' = invalid /\ publication' = publication /\ kept' = kept
  BY DEF GoOn, Untouched
<1>2. Host' = Host /\ Wanted' = Wanted
  BY <1>1, SameItems
<1> DEFINE h == Head(queue)
           n == Noted(h)
           one == <<h>>
           note == <<n>>
           S == OwnItems
<1>3. /\ h \in S /\ ToSet(queue) = {h} \cup ToSet(Tail(queue))
      /\ Names(queue) = {h.name} \cup Names(Tail(queue))
      /\ Once(queue) => Once(Tail(queue)) /\ h.name \notin Names(Tail(queue))
  BY HeadOfQueue
<1>4. n \in S /\ n.name = h.name /\ posted \in Seq(S)
  BY <1>3, NotedIs DEF PushTyped, ListsTyped
<1>5. posted' = posted \/ posted' = posted \o one \/ posted' = posted \o note
  OBVIOUS
<1> HIDE DEF S, h, n
<1>6. /\ one \in Seq(S) /\ note \in Seq(S) /\ Names(one) = {h.name} /\ Names(note) = {h.name}
      /\ Once(one) /\ Once(note)
  BY <1>3, <1>4, OfOne
<1> HIDE DEF one, note
<1>7. h.name \notin Names(posted) /\ Once(posted)
  BY <1>3 DEF EachOnce, Disjoint
<1>8. Once(posted') /\ Names(posted') \subseteq Names(posted) \cup {h.name}
  <2>1. CASE posted' = posted
    BY <1>7, <2>1
  <2>2. ASSUME NEW list \in Seq(S), Names(list) = {h.name}, Once(list), posted' = posted \o list
        PROVE  Once(posted') /\ Names(posted') \subseteq Names(posted) \cup {h.name}
    <3>1. Names(posted) \cap Names(list) = {}
      BY <1>7, <2>2
    <3>2. Names(posted \o list) = Names(posted) \cup Names(list) /\ Once(posted \o list)
      BY <1>4, <1>7, <2>2, <3>1, OfBoth
    <3> QED
      BY <2>2, <3>2
  <2> QED
    BY <1>5, <1>6, <2>1, <2>2
<1>9. Names(queue') \subseteq Names(queue) /\ h.name \notin Names(queue') /\ Once(queue')
      /\ ToSet(queue') \subseteq ToSet(queue) /\ h.name \in Names(queue)
  BY <1>1, <1>3 DEF EachOnce
<1>10. Disjoint(Names(posted'), Names(queue'), Names(verified'), Names(invalid'))
  BY <1>1, <1>8, <1>9 DEF EachOnce, Disjoint
<1>11. single' = TRUE =>
          /\ Host' = "github"
          /\ Disjoint(Names(rest'), Names(posted'), Names(queue'), Names(verified') \cup Names(invalid'))
  BY <1>1, <1>2, <1>8, <1>9, <1>10 DEF EachOnce, Disjoint
<1>12. ~(Host' = "github" /\ step' = "post")
  BY <1>1, <1>2
<1>13. Host' = "bitbucket_server" => ToSet(queue') \subseteq ToSet(Wanted')
  BY <1>2, <1>9 DEF EachOnce
<1> QED
  BY <1>1, <1>8, <1>9, <1>10, <1>11, <1>12, <1>13 DEF EachOnce

LEMMA ReturnsOnce ==
    ASSUME PushTyped, publication \in Publications, step \in {"post", "fix"}, EachOnce,
           NEW ok, Returns(ok), Untouched, posted' = posted \/ posted' = posted \o queue,
           \/ ok /\ single = FALSE
           \/ Host = "github" /\ (single = TRUE \/ posted' = <<>>)
    PROVE  EachOnce'
<1>1. /\ publication' = publication /\ kept' = kept /\ verified = <<>> /\ invalid = <<>>
      /\ verified' = <<>> /\ invalid' = <<>>
  BY DEF Untouched, PushTyped, ListsAtSteps
<1>2. Host' = Host /\ Wanted' = Wanted
  BY <1>1, SameItems
<1>3. /\ step' \in {"post", "done"} /\ single' \in BOOLEAN
      /\ step' = "done" <=> single' = FALSE
      /\ step' = "done" => queue' = <<>> /\ rest' = <<>>
      /\ ok /\ single = FALSE => step' = "done"
      /\ Names(queue') \subseteq Names(rest) /\ Names(rest') \subseteq Names(rest)
      /\ Once(queue')
      /\ Once(rest) => Once(rest') /\ Names(queue') \cap Names(rest') = {}
  BY <1>1, ReturnsIs
<1>4. Once(posted') /\ Names(posted') \subseteq Names(posted) \cup Names(queue)
  <2>1. CASE posted' = posted
    BY <2>1 DEF EachOnce
  <2>2. CASE posted' = posted \o queue
    <3> DEFINE S == OwnItems
    <3>1. posted \in Seq(S) /\ queue \in Seq(S)
      BY DEF PushTyped, ListsTyped
    <3> HIDE DEF S
    <3>2. Once(posted) /\ Once(queue) /\ Names(posted) \cap Names(queue) = {}
      BY DEF EachOnce, Disjoint
    <3>3. Names(posted \o queue) = Names(posted) \cup Names(queue) /\ Once(posted \o queue)
      BY <3>1, <3>2, OfBoth
    <3> QED
      BY <2>2, <3>3
  <2> QED
    BY <2>1, <2>2
<1>5. Names(<<>>) = {} /\ Once(<<>>) /\ ToSet(<<>>) = {}
  BY OfNone
<1>6. Once(rest') /\ Once(queue') /\ Names(queue') \cap Names(rest') = {}
  BY <1>3 DEF EachOnce
<1>7. CASE step' = "done"
  <2>1. queue' = <<>> /\ rest' = <<>> /\ single' = FALSE
    BY <1>3, <1>7
  <2>2. Disjoint(Names(posted'), Names(queue'), Names(verified'), Names(invalid'))
    BY <1>1, <1>5, <2>1 DEF Disjoint
  <2> QED
    BY <1>1, <1>2, <1>4, <1>5, <1>6, <1>7, <2>1, <2>2 DEF EachOnce
<1>8. CASE step' = "post"
  <2>1. single' = TRUE /\ Host = "github" /\ (single = TRUE \/ posted' = <<>>)
    BY <1>3, <1>8
  <2>2. Names(posted') \cap Names(rest) = {}
    <3>1. CASE single = TRUE
      BY <1>4, <3>1 DEF EachOnce, Disjoint
    <3>2. CASE posted' = <<>>
      BY <1>5, <3>2
    <3> QED
      BY <2>1, <3>1, <3>2
  <2>3. Disjoint(Names(posted'), Names(queue'), Names(verified'), Names(invalid'))
    BY <1>1, <1>3, <1>5, <2>2 DEF Disjoint
  <2>4. Disjoint(Names(rest'), Names(posted'), Names(queue'), Names(verified') \cup Names(invalid'))
    BY <1>1, <1>3, <1>5, <1>6, <2>2 DEF Disjoint
  <2>5. Host' = "github" /\ Host' # "bitbucket_server"
    BY <1>2, <2>1
  <2> QED
    BY <1>1, <1>4, <1>5, <1>6, <2>1, <2>3, <2>4, <2>5 DEF EachOnce
<1> QED
  BY <1>3, <1>7, <1>8

\* A step with all its effects heard of, on a host that is not sent things twice.
LEMMA StillOnce ==
    ASSUME PushTyped, Follows, NoneTwice,
           unheard = {} \/ unheard' # {}, failures' = failures \/ failures' = failures + 1,
           ASSUME EachOnce, unheard' = {}, ~Known,
                  failures' = failures \/ Host \notin {"bitbucket", "bitbucket_server"}
           PROVE  EachOnce'
    PROVE  NoneTwice'
<1>1. /\ publication \in Publications /\ publication' = publication /\ step \notin Coming
      /\ kept' = kept /\ failures \in Nat
  BY DEF Follows, PushTyped, UnderWay, Coming
<1>2. Host' = Host /\ Wanted' = Wanted /\ \A s : StartsInDiff(s)' <=> StartsInDiff(s)
  BY <1>1, SameItems
<1> SUFFICES ASSUME unheard' = {}, ~Known'
             PROVE  EachOnce'
  BY DEF NoneTwice
<1>3. failures > 0 => failures' > 0
  BY <1>1
<1>4. ~Known
  BY <1>2, <1>3 DEF Known
<1>5. failures' = failures \/ Host \notin {"bitbucket", "bitbucket_server"}
  <2>1. failures' = failures + 1 => failures' > 0
    BY <1>1
  <2> QED
    BY <1>2, <2>1 DEF Known
<1>6. EachOnce
  BY <1>1, <1>4 DEF NoneTwice
<1> QED
  BY <1>4, <1>5, <1>6

LEMMA FailsOnce ==
    ASSUME PushTyped, NEW list \in Seq(OwnItems), posted \o list \in Seq(OwnItems), FailsWith(list)
    PROVE  (unheard = {} \/ unheard' # {}) /\ (unheard' = {} => posted' = posted)
<1>1. \/ posted' = posted /\ unheard' = unheard
      \/ posted' = posted \o list /\ unheard' # {}
  BY FailsIs
<1> QED
  BY <1>1

LEMMA OthersOnce ==
    ASSUME PushTyped, publication \in Publications, NoneTwice, OthersNext
    PROVE  NoneTwice'
<1>0. Follows
  BY OthersFollow
<1>1. CASE PostOne \/ PostNote \/ BeyondTheFile \/ RefusedUnseen
  <2>1. /\ Posting /\ GoOn /\ Untouched /\ failures' = failures /\ unheard' = unheard
        /\ \/ posted' = posted
           \/ posted' = posted \o <<Head(queue)>>
           \/ posted' = posted \o <<Noted(Head(queue))>>
    BY <1>1 DEF PostOne, PostNote, BeyondTheFile, RefusedUnseen, Post, Heard, Noted
  <2>2. queue # <<>> /\ Host # "github" /\ step \in UnderWay
    BY <2>1, PostingIs
  <2>3. ASSUME EachOnce PROVE EachOnce'
    BY <2>1, <2>2, <2>3, GoOnOnce
  <2>4. unheard = {} \/ unheard' # {}
    BY <2>1
  <2> QED
    BY <1>0, <2>1, <2>3, <2>4, StillOnce
<1>2. CASE RefusedAll
  <2>1. /\ Posting /\ failures' = failures /\ unheard' = unheard
        /\ Host = "bitbucket_server" /\ ~Accepts(Head(queue))
    BY <1>2 DEF RefusedAll, Heard
  <2>2. ASSUME EachOnce, ~Known PROVE FALSE
    <3>1. queue # <<>> /\ ToSet(queue) \subseteq ToSet(Wanted)
      BY <2>1, <2>2, PostingIs DEF EachOnce
    <3>2. Head(queue) \in ToSet(queue)
      BY <3>1, HeadOfQueue
    <3>3. ~StartsInDiff(Head(queue))
      BY <2>1 DEF Accepts
    <3> QED
      BY <2>1, <2>2, <3>1, <3>2, <3>3 DEF Known
  <2>3. unheard = {} \/ unheard' # {}
    BY <2>1
  <2> QED
    BY <1>0, <2>1, <2>2, <2>3, StillOnce
<1>3. CASE FailOne
  <2> DEFINE one == <<Head(queue)>>
  <2>1. /\ Posting /\ FailsWith(one) /\ Untouched /\ failures' = failures + 1
        /\ Host = "azure" => GoOn
    BY <1>3 DEF FailOne, FailsWith, Fails
  <2>2. Host \in {"azure", "gitea", "bitbucket", "bitbucket_server"}
    <3>1. publication.host \in Publishers
      BY PublicationsAssumption
    <3> QED
      BY <1>3, <3>1 DEF FailOne, Posting, Publishers, Host
  <2>3. one \in Seq(OwnItems) /\ posted \o one \in Seq(OwnItems)
    BY <2>1, PostingIs, HeadOfQueue
  <2> HIDE DEF one
  <2>4. (unheard = {} \/ unheard' # {}) /\ (unheard' = {} => posted' = posted)
    BY <2>1, <2>3, FailsOnce
  <2>5. failures' # failures
    <3>1. failures \in Nat
      BY DEF PushTyped
    <3> QED
      BY <2>1, <3>1
  <2>6. ASSUME EachOnce, unheard' = {}, ~Known, Host \notin {"bitbucket", "bitbucket_server"}
        PROVE  EachOnce'
    <3>1. GoOn /\ Untouched /\ posted' = posted /\ Host # "github"
      BY <2>1, <2>2, <2>4, <2>6 DEF Known
    <3>2. queue # <<>> /\ step \in UnderWay
      BY <2>1, PostingIs
    <3> QED
      BY <2>6, <3>1, <3>2, GoOnOnce
  <2> QED
    BY <1>0, <2>1, <2>4, <2>5, <2>6, StillOnce
<1>4. CASE FailOnGitlab
  <2> DEFINE s == Head(queue)
             one == <<Noted(s)>>
  <2>1. /\ Posting /\ GoOn /\ Untouched /\ failures' = failures + 1
        /\ \/ posted' = posted /\ unheard' = unheard
           \/ posted' = posted \o <<Noted(Head(queue))>> /\ unheard' = unheard
           \/ unheard' = unheard \cup {s.name}
           \/ FailsWith(one)
    BY <1>4 DEF FailOnGitlab, Post, Fails, FailsWith, Noted
  <2>2. one \in Seq(OwnItems) /\ posted \o one \in Seq(OwnItems) /\ queue # <<>> /\ Host # "github"
        /\ step \in UnderWay
    BY <2>1, PostingIs, HeadOfQueue
  <2> HIDE DEF one, s
  <2>3. FailsWith(one) => (unheard = {} \/ unheard' # {}) /\ (unheard' = {} => posted' = posted)
    BY <2>2, FailsOnce
  <2>4. /\ unheard = {} \/ unheard' # {}
        /\ unheard' = {} => posted' = posted \/ posted' = posted \o <<Noted(Head(queue))>>
    <3>1. CASE FailsWith(one)
      BY <2>3, <3>1
    <3>2. CASE ~FailsWith(one)
      BY <2>1, <3>2
    <3> QED
      BY <3>1, <3>2
  <2>5. ASSUME EachOnce, unheard' = {} PROVE EachOnce'
    BY <2>1, <2>2, <2>4, <2>5, GoOnOnce
  <2> QED
    BY <1>0, <2>1, <2>4, <2>5, StillOnce
<1>5. CASE ListDone
  <2> DEFINE ok == (Host # "gitea")
  <2>1. /\ step \in {"post", "fix"} /\ Host # "github" /\ Returns(ok) /\ Untouched /\ posted' = posted
        /\ failures' = failures /\ unheard' = unheard
    BY <1>5 DEF ListDone, Heard
  <2>2. ASSUME EachOnce, ~Known PROVE EachOnce'
    <3>1. ok
      BY <2>2 DEF Known
    <3>2. single = FALSE
      BY <2>1, <2>2 DEF EachOnce, PushTyped
    <3> HIDE DEF ok
    <3> QED
      BY <2>1, <2>2, <3>1, <3>2, ReturnsOnce
  <2>3. unheard = {} \/ unheard' # {}
    BY <2>1
  <2> QED
    BY <1>0, <2>1, <2>2, <2>3, StillOnce
<1> QED
  BY <1>1, <1>2, <1>3, <1>4, <1>5 DEF OthersNext

LEMMA GithubOnce ==
    ASSUME PushTyped, publication \in Publications, NoneTwice, GithubNext
    PROVE  NoneTwice'
<1>0. Follows /\ publication' = publication /\ kept' = kept
  BY GithubFollow DEF Follows
<1>s. Host' = Host /\ Wanted' = Wanted
  BY <1>0, SameItems
<1>t. /\ posted \in Seq(OwnItems) /\ queue \in Seq(OwnItems) /\ single \in BOOLEAN
      /\ verified \in Seq(LinedItems) /\ invalid \in Seq(LinedItems)
      /\ step # "verify" => verified = <<>> /\ invalid = <<>>
      /\ step \in {"verify", "fix"} => Host = "github"
      /\ Host = "github" => queue \in Seq(LinedItems)
  BY DEF PushTyped, ListsTyped, ListsAtSteps
<1>l. ASSUME NEW list \in Seq(LinedItems)
      PROVE  list \in Seq(OwnItems) /\ posted \o list \in Seq(OwnItems)
  BY LinedAreOwn
<1>e. Names(<<>>) = {} /\ Once(<<>>) /\ ToSet(<<>>) = {} /\ <<>> \in Seq(LinedItems)
  BY OfNone
<1>1. CASE Review
  <2> DEFINE ok == TRUE
  <2>1. /\ step \in {"post", "fix"} /\ Host = "github" /\ Returns(ok) /\ Untouched
        /\ posted' = posted \o queue /\ failures' = failures /\ unheard' = unheard
    BY <1>1 DEF Review, Post, Heard
  <2>2. ok
    OBVIOUS
  <2> HIDE DEF ok
  <2>3. ASSUME EachOnce PROVE EachOnce'
    BY <1>t, <2>1, <2>2, <2>3, ReturnsOnce
  <2>4. unheard = {} \/ unheard' # {}
    BY <2>1
  <2> QED
    BY <1>0, <2>1, <2>3, <2>4, StillOnce
<1>2. CASE RefuseReview
  <2>1. /\ step = "post" /\ Host = "github" /\ step' = "verify" /\ verified' = <<>> /\ invalid' = <<>>
        /\ failures' = failures /\ unheard' = unheard
        /\ UNCHANGED <<publication, kept, table, queue, rest, single, posted>>
    BY <1>2 DEF RefuseReview, Heard
  <2>2. verified = <<>> /\ invalid = <<>>
    BY <1>t, <2>1
  <2>3. ASSUME EachOnce PROVE EachOnce'
    BY <1>s, <2>1, <2>2, <2>3 DEF EachOnce
  <2>4. unheard = {} \/ unheard' # {}
    BY <2>1
  <2> QED
    BY <1>0, <2>1, <2>3, <2>4, StillOnce
<1>3. CASE FailReview
  <2> DEFINE list == IF \A s \in ToSet(queue) : InDiff(s) THEN queue ELSE <<>>
             ok == FALSE
  <2>1. /\ step = "post" /\ Host = "github" /\ Returns(ok) /\ Untouched /\ FailsWith(list)
        /\ failures' = failures + 1
    BY <1>3 DEF FailReview, FailsWith, Fails
  <2>2. list = queue \/ list = <<>>
    OBVIOUS
  <2> HIDE DEF list, ok
  <2>3. list \in Seq(OwnItems) /\ posted \o list \in Seq(OwnItems)
    BY <1>t, <1>l, <1>e, <2>1, <2>2
  <2>4. (unheard = {} \/ unheard' # {}) /\ (unheard' = {} => posted' = posted)
    BY <2>1, <2>3, FailsOnce
  <2>5. ASSUME EachOnce, unheard' = {} PROVE EachOnce'
    <3>1. posted' = posted /\ (single = TRUE \/ posted' = <<>>) /\ step \in {"post", "fix"}
      BY <1>t, <2>1, <2>4, <2>5 DEF EachOnce
    <3> QED
      BY <2>1, <2>5, <3>1, ReturnsOnce
  <2> QED
    BY <1>0, <2>1, <2>4, <2>5, StillOnce
<1>4. CASE Verify
  <2> DEFINE s == Head(queue)
             one == <<s>>
             v == verified \o one
             i == invalid \o one
  <2>1. /\ step = "verify" /\ queue # <<>> /\ queue' = Tail(queue)
        /\ \/ verified' = Append(verified, s) /\ invalid' = invalid
           \/ invalid' = Append(invalid, s) /\ verified' = verified
        /\ failures' = failures \/ failures' = failures + 1
        /\ UNCHANGED <<publication, kept, table, step, rest, single, posted, unheard>>
    BY <1>4 DEF Verify, Fails
  <2>2. /\ s \in LinedItems /\ ToSet(queue) = {s} \cup ToSet(Tail(queue))
        /\ Names(queue) = {s.name} \cup Names(Tail(queue))
        /\ Once(queue) => Once(Tail(queue)) /\ s.name \notin Names(Tail(queue))
    BY <1>t, <2>1, HeadOfQueue
  <2>3. Append(verified, s) = v /\ Append(invalid, s) = i
    <3> DEFINE S == LinedItems
    <3>1. verified \in Seq(S) /\ invalid \in Seq(S) /\ s \in S
      BY <1>t, <2>2
    <3> HIDE DEF S, s
    <3> QED
      BY <3>1, AppendIsConcat
  <2>4. /\ Names(v) = Names(verified) \cup {s.name} /\ Names(i) = Names(invalid) \cup {s.name}
        /\ Once(verified) /\ s.name \notin Names(verified) => Once(v)
        /\ Once(invalid) /\ s.name \notin Names(invalid) => Once(i)
    <3> DEFINE S == LinedItems
    <3>1. verified \in Seq(S) /\ invalid \in Seq(S) /\ s \in S
      BY <1>t, <2>2
    <3> HIDE DEF S, s
    <3>2. one \in Seq(S) /\ Names(one) = {s.name} /\ Once(one)
      BY <3>1, OfOne
    <3> HIDE DEF one
    <3> QED
      BY <3>1, <3>2, OfBoth
  <2> HIDE DEF s, one, v, i
  <2>5. \/ verified' = v /\ invalid' = invalid
        \/ verified' = verified /\ invalid' = i
    BY <2>1, <2>3
  <2>6. ASSUME EachOnce PROVE EachOnce'
    <3>1. /\ s.name \in Names(queue) /\ s.name \notin Names(queue') /\ Names(queue') \subseteq Names(queue)
          /\ Once(queue') /\ ToSet(queue') \subseteq ToSet(queue)
      BY <2>1, <2>2, <2>6 DEF EachOnce
    <3>2. /\ s.name \notin Names(posted) /\ s.name \notin Names(verified) /\ s.name \notin Names(invalid)
          /\ single = TRUE => s.name \notin Names(rest)
      BY <3>1, <2>6 DEF EachOnce, Disjoint
    <3>3. /\ Once(verified') /\ Once(invalid')
          /\ \/ Names(verified') = Names(verified) \cup {s.name} /\ Names(invalid') = Names(invalid)
             \/ Names(verified') = Names(verified) /\ Names(invalid') = Names(invalid) \cup {s.name}
      BY <2>4, <2>5, <2>6, <3>2 DEF EachOnce
    <3>4. Disjoint(Names(posted'), Names(queue'), Names(verified'), Names(invalid'))
      BY <2>1, <2>6, <3>1, <3>2, <3>3 DEF EachOnce, Disjoint
    <3>5. single' = TRUE =>
              /\ Host' = "github"
              /\ Disjoint(Names(rest'), Names(posted'), Names(queue'), Names(verified') \cup Names(invalid'))
      BY <1>s, <2>1, <2>6, <3>1, <3>2, <3>3, <3>4 DEF EachOnce, Disjoint
    <3>6. Host' = "bitbucket_server" => ToSet(queue') \subseteq ToSet(Wanted')
      BY <1>s, <2>6, <3>1 DEF EachOnce
    <3>7. step' # "post" /\ Once(posted') /\ Once(rest')
      BY <2>1, <2>6 DEF EachOnce
    <3> QED
      BY <3>1, <3>3, <3>4, <3>5, <3>6, <3>7 DEF EachOnce
  <2>7. unheard = {} \/ unheard' # {}
    BY <2>1
  <2> QED
    BY <1>0, <2>1, <2>6, <2>7, StillOnce
<1>5. CASE PostVerified
  <2>1. /\ step = "verify" /\ queue = <<>> /\ step' = "fix" /\ queue' = Fixed(invalid)
        /\ verified' = <<>> /\ invalid' = <<>> /\ UNCHANGED <<publication, kept, table, rest, single>>
        /\ \/ posted' = posted \o verified /\ failures' = failures /\ unheard' = unheard
           \/ FailsWith(verified) /\ failures' = failures + 1
    BY <1>5 DEF PostVerified, Post, Heard, FailsWith, Fails
  <2>2. verified \in Seq(OwnItems) /\ posted \o verified \in Seq(OwnItems)
    BY <1>t, <1>l
  <2>3. /\ unheard = {} \/ unheard' # {}
        /\ unheard' = {} => posted' = posted \/ posted' = posted \o verified
        /\ failures' = failures \/ failures' = failures + 1
    <3>1. CASE posted' = posted \o verified /\ failures' = failures /\ unheard' = unheard
      BY <3>1
    <3>2. CASE FailsWith(verified) /\ failures' = failures + 1
      BY <2>2, <3>2, FailsOnce
    <3> QED
      BY <2>1, <3>1, <3>2
  <2> DEFINE c == Fixed(invalid)
  <2>4. (Once(invalid) => Once(c)) /\ Names(c) \subseteq Names(invalid)
    <3> HIDE DEF c
    <3>1. c = Fixed(invalid)
      BY DEF c
    <3> QED
      BY <1>t, <3>1, FixedIs
  <2>5. queue' = c
    BY <2>1
  <2> HIDE DEF c
  <2>6. ASSUME EachOnce, unheard' = {} PROVE EachOnce'
    <3>1. Once(posted') /\ Names(posted') \subseteq Names(posted) \cup Names(verified)
      <4>1. CASE posted' = posted
        BY <2>6, <4>1 DEF EachOnce
      <4>2. CASE posted' = posted \o verified
        <5> DEFINE S == OwnItems
        <5>1. posted \in Seq(S) /\ verified \in Seq(S)
          BY <1>t, <2>2
        <5> HIDE DEF S
        <5>2. Once(posted) /\ Once(verified) /\ Names(posted) \cap Names(verified) = {}
          BY <2>6 DEF EachOnce, Disjoint
        <5>3. Names(posted \o verified) = Names(posted) \cup Names(verified) /\ Once(posted \o verified)
          BY <5>1, <5>2, OfBoth
        <5> QED
          BY <4>2, <5>3
      <4> QED
        BY <2>3, <2>6, <4>1, <4>2
    <3>2. Once(queue') /\ Names(queue') \subseteq Names(invalid)
      BY <2>4, <2>5, <2>6 DEF EachOnce
    <3>3. Names(verified') = {} /\ Names(invalid') = {} /\ Once(verified') /\ Once(invalid')
      BY <1>e, <2>1
    <3>4. Disjoint(Names(posted'), Names(queue'), Names(verified'), Names(invalid'))
      BY <2>6, <3>1, <3>2, <3>3 DEF EachOnce, Disjoint
    <3>5. single' = TRUE =>
              /\ Host' = "github"
              /\ Disjoint(Names(rest'), Names(posted'), Names(queue'), Names(verified') \cup Names(invalid'))
      BY <1>s, <2>1, <2>6, <3>1, <3>2, <3>3, <3>4 DEF EachOnce, Disjoint
    <3>6. step' # "post" /\ Once(rest') /\ Host' = "github" /\ Host' # "bitbucket_server"
      BY <1>s, <1>t, <2>1, <2>6 DEF EachOnce
    <3> QED
      BY <3>1, <3>2, <3>3, <3>4, <3>5, <3>6 DEF EachOnce
  <2> QED
    BY <1>0, <2>3, <2>6, StillOnce
<1>6. CASE PostFixed
  <2> DEFINE one == <<Head(queue)>>
  <2>1. /\ step = "fix" /\ queue # <<>> /\ GoOn /\ Untouched
        /\ \/ /\ posted' = posted \/ posted' = posted \o one
              /\ failures' = failures /\ unheard' = unheard
           \/ FailsWith(one) /\ failures' = failures + 1
    BY <1>6 DEF PostFixed, Post, Heard, FailsWith, Fails
  <2>2. one \in Seq(OwnItems) /\ posted \o one \in Seq(OwnItems) /\ step \in UnderWay
    BY <2>1, HeadOfQueue DEF UnderWay
  <2>3. one = <<Head(queue)>>
    OBVIOUS
  <2> HIDE DEF one
  <2>4. /\ unheard = {} \/ unheard' # {}
        /\ unheard' = {} => posted' = posted \/ posted' = posted \o one
        /\ failures' = failures \/ failures' = failures + 1
    <3>1. CASE FailsWith(one) /\ failures' = failures + 1
      BY <2>2, <3>1, FailsOnce
    <3>2. CASE ~(FailsWith(one) /\ failures' = failures + 1)
      BY <2>1, <3>2
    <3> QED
      BY <3>1, <3>2
  <2>5. ASSUME EachOnce, unheard' = {} PROVE EachOnce'
    BY <2>1, <2>2, <2>3, <2>4, <2>5, GoOnOnce
  <2> QED
    BY <1>0, <2>4, <2>5, StillOnce
<1>7. CASE FallbackDone
  <2> DEFINE ok == TRUE
  <2>1. /\ step \in {"post", "fix"} /\ Host = "github" /\ Returns(ok) /\ Untouched /\ posted' = posted
        /\ failures' = failures /\ unheard' = unheard
    BY <1>7, <1>t DEF FallbackDone, Heard
  <2>2. ok
    OBVIOUS
  <2> HIDE DEF ok
  <2>3. ASSUME EachOnce PROVE EachOnce'
    BY <1>t, <2>1, <2>2, <2>3, ReturnsOnce
  <2>4. unheard = {} \/ unheard' # {}
    BY <2>1
  <2> QED
    BY <1>0, <2>1, <2>3, <2>4, StillOnce
<1> QED
  BY <1>1, <1>2, <1>3, <1>4, <1>5, <1>6, <1>7 DEF GithubNext

\* A publication begins with what is wanted, each once.
LEMMA PublishRemembers ==
    ASSUME PushTyped, publication \in Publications, PublishNext
    PROVE  NoneForgotten' /\ NoneTwice'
<1>1. /\ step = "publish" /\ step' \in {"post", "done"}
      /\ UNCHANGED <<publication, kept, single, verified, invalid, posted, failures, unheard>>
      /\ rest' = Wanted /\ Once(rest') /\ Once(queue')
      /\ Host # "github" => ToSet(queue') \subseteq ToSet(rest')
      /\ NoShortHunk => \A s \in ToSet(rest') :
            Placeable(s) => \E r \in ToSet(queue') : r.name = s.name /\ Placeable(r)
  BY PublishIs
<1>2. /\ Host' = Host /\ Wanted' = Wanted /\ (NoShortHunk' <=> NoShortHunk)
      /\ \A s : Placeable(s)' <=> Placeable(s)
  BY <1>1, SameItems
<1>3. single' = FALSE /\ posted' = <<>> /\ verified' = <<>> /\ invalid' = <<>>
  BY <1>1 DEF PushTyped, ListsAtSteps, Coming
<1>4. NoneForgotten'
  <2> SUFFICES ASSUME NoShortHunk, NEW w \in ToSet(Wanted), Placeable(w) PROVE OnItsWay(w.name)'
    BY <1>2 DEF NoneForgotten
  <2>1. PICK r \in ToSet(queue') : r.name = w.name /\ Placeable(r)
    BY <1>1
  <2>2. step' # "fix"
    BY <1>1
  <2> QED
    BY <1>2, <2>1, <2>2 DEF OnItsWay
<1>5. NoneTwice'
  <2>1. Names(<<>>) = {} /\ Once(<<>>)
    BY OfNone
  <2>2. Disjoint(Names(posted'), Names(queue'), Names(verified'), Names(invalid'))
    BY <1>3, <2>1 DEF Disjoint
  <2>3. Host' = "bitbucket_server" => ToSet(queue') \subseteq ToSet(Wanted')
    BY <1>1, <1>2
  <2>4. EachOnce'
    BY <1>1, <1>3, <2>1, <2>2, <2>3 DEF EachOnce
  <2> QED
    BY <2>4 DEF NoneTwice
<1> QED
  BY <1>4, <1>5

PushInvariant == PushTyped /\ NoneForgotten /\ NoneTwice

LEMMA PushInvariantInit == Init => PushInvariant
<1> SUFFICES ASSUME Init PROVE PushInvariant
  OBVIOUS
<1>1. publication = NoPublication \/ step = "predict"
  BY DEF Init, SuggestionsInit, SuggestionsIdle
<1>2. NoPublication \notin Publications
  BY PublicationsAssumption DEF NoPublication, Publishers
<1> QED
  BY <1>1, <1>2, PushInitTyped DEF PushInvariant, NoneForgotten, NoneTwice, Coming

LEMMA PushInvariantStep ==
    ASSUME PushInvariant, [Next]_pipeVars
    PROVE  PushInvariant'
<1>0. PushTyped' /\ PushTyped /\ NoneForgotten /\ NoneTwice
  BY PushTypedStep DEF PushInvariant
<1>1. CASE publication # NoPublication /\ SuggestionsNext
  <2>1. publication \in Publications
    BY <1>0, <1>1 DEF PushTyped
  <2>2. CASE Predict
    <3>1. step' \in Coming
      BY <2>2 DEF Predict, Coming
    <3> QED
      BY <1>0, <3>1 DEF PushInvariant, NoneForgotten, NoneTwice
  <2>3. CASE PublishNext
    BY <1>0, <2>1, <2>3, PublishRemembers DEF PushInvariant
  <2>4. CASE OthersNext
    BY <1>0, <2>1, <2>4, OthersRemember, OthersOnce DEF PushInvariant
  <2>5. CASE GithubNext
    BY <1>0, <2>1, <2>5, GithubRemembers, GithubOnce DEF PushInvariant
  <2> QED
    BY <1>1, <2>2, <2>3, <2>4, <2>5 DEF SuggestionsNext, PublishNext, OthersNext, GithubNext
<1>2. CASE UNCHANGED pushVars
  <2>1. UNCHANGED <<publication, step, kept, table, queue, rest, single, verified, invalid,
                    posted, failures, unheard>>
    BY <1>2 DEF pushVars
  <2>2. /\ Host' = Host /\ Wanted' = Wanted /\ (NoShortHunk' <=> NoShortHunk)
        /\ \A s : (InDiff(s)' <=> InDiff(s)) /\ (Placeable(s)' <=> Placeable(s))
                  /\ (StartsInDiff(s)' <=> StartsInDiff(s))
    BY <2>1, SameItems
  <2>3. \A n : OnItsWay(n)' <=> OnItsWay(n)
    BY <2>1, <2>2 DEF OnItsWay
  <2>4. NoneForgotten'
    BY <1>0, <2>1, <2>2, <2>3 DEF NoneForgotten
  <2>5. (Known' <=> Known) /\ (EachOnce' <=> EachOnce)
    BY <2>1, <2>2 DEF Known, EachOnce
  <2>6. NoneTwice'
    BY <1>0, <2>1, <2>5 DEF NoneTwice
  <2> QED
    BY <1>0, <2>4, <2>6 DEF PushInvariant
<1> QED
  BY <1>1, <1>2 DEF Next, pipeVars

LEMMA TimesIs ==
    ASSUME PushTyped, NEW name
    PROVE  /\ name \in Names(posted) => Times(name) > 0
           /\ name \in Names(posted) /\ Once(posted) => Times(name) = 1
<1> DEFINE T == {k \in DOMAIN posted : posted[k].name = name}
<1>1. posted \in Seq(OwnItems)
  BY DEF PushTyped, ListsTyped
<1>2. DOMAIN posted = 1..Len(posted) /\ Len(posted) \in Nat
  BY <1>1
<1>3. IsFiniteSet(T) /\ Cardinality(T) \in Nat
  <2>1. IsFiniteSet(1..Len(posted)) /\ T \subseteq 1..Len(posted)
    BY <1>2, FirstNumbers
  <2> HIDE DEF T
  <2>2. IsFiniteSet(T)
    BY <2>1, FS_Subset
  <2> QED
    BY <2>2, FS_CardinalityType
<1>4. Times(name) = Cardinality(T)
  BY DEF Times
<1>5. name \in Names(posted) => T # {}
  BY DEF Names
<1>6. ASSUME Once(posted), name \in Names(posted) PROVE \E k : T = {k}
  <2>1. PICK k \in DOMAIN posted : posted[k].name = name
    BY <1>6 DEF Names
  <2>2. T = {k}
    BY <1>6, <2>1 DEF Once
  <2> QED
    BY <2>2
<1> HIDE DEF T
<1>7. T # {} => Cardinality(T) > 0
  <2>1. Cardinality(T) = 0 <=> T = {}
    BY <1>3, FS_EmptySet
  <2> QED
    BY <1>3, <2>1
<1>8. (\E k : T = {k}) => Cardinality(T) = 1
  BY FS_Singleton
<1> QED
  BY <1>4, <1>5, <1>6, <1>7, <1>8

LEMMA FirstLines ==
    ASSUME PushInvariant
    PROVE  FirstLineIsEnough
<1> SUFFICES ASSUME Published, failures = 0, NEW s \in ToSet(Wanted), Placeable(s), NoShortHunk
             PROVE  Times(s.name) > 0
  <2>1. ASSUME ~NoShortHunk PROVE Host = "github" /\ \E h \in ToSet(publication.hunks) : h.size < 2
    <3>1. PICK h \in ToSet(publication.hunks) : ~(h.size >= 2)
      BY <2>1 DEF NoShortHunk
    <3>2. publication \in Publications
      BY <2>1, <3>1 DEF PushInvariant, PushTyped, NoShortHunk, Host, NoPublication
    <3>3. h.size \in Nat
      BY <3>1, <3>2, HunksAre DEF ToSet
    <3> QED
      BY <2>1, <3>1, <3>3 DEF NoShortHunk
  <2> QED
    BY <2>1 DEF FirstLineIsEnough, Placeable
<1>1. publication \in Publications /\ step = "done" /\ step \notin Coming /\ PushTyped
  BY DEF PushInvariant, PushTyped, Published, Coming
<1>2. OnItsWay(s.name)
  BY <1>1 DEF PushInvariant, NoneForgotten
<1>3. queue = <<>> /\ rest = <<>> /\ verified = <<>> /\ invalid = <<>>
  BY <1>1 DEF PushTyped, ListsAtSteps
<1>4. s.name \in Names(posted)
  BY <1>2, <1>3, OfNone DEF OnItsWay
<1> QED
  BY <1>1, <1>4, TimesIs

LEMMA OneCommentEach ==
    ASSUME PushInvariant
    PROVE  PostedOnceOrKnown
<1>1. PushTyped /\ posted \in Seq(OwnItems)
  BY DEF PushInvariant, PushTyped, ListsTyped
<1> SUFFICES ASSUME unheard = {}, ~Known, NEW s \in ToSet(posted) PROVE Times(s.name) = 1
  BY DEF PostedOnceOrKnown, Known
<1>2. s.name \in Names(posted)
  BY DEF ToSet, Names
<1>3. s \in OwnItems
  BY <1>1 DEF ToSet
<1>4. publication \in Publications
  <2>1. publication.answers # <<>>
    BY <1>3, OwnIs DEF IsAnswer
  <2> QED
    BY <1>1, <2>1 DEF PushTyped, NoPublication
<1>5. step \notin Coming
  <2>1. posted # <<>>
    BY OfNone
  <2> QED
    BY <1>1, <2>1 DEF PushTyped, ListsAtSteps
<1>6. Once(posted)
  BY <1>4, <1>5 DEF PushInvariant, NoneTwice, EachOnce
<1> QED
  BY <1>1, <1>2, <1>6, TimesIs

\* On every host, for any answers, hunks and number of calls that fail: when
\* none fails, a suggestion whose first line is in the diff gets its comment,
\* whatever becomes of the others, unless GitHub's client takes a hunk for too
\* short; and none gets two when every call that takes effect is heard of, but
\* on the hosts that are sent everything again (pr_code_suggestions.py:545-590,
\* github_provider.py:450-560).
THEOREM SuggestionsPlacedOnce == Spec => []PlacedOnce
<1>1. Spec => []PushInvariant
  BY PushInvariantInit, PushInvariantStep, PTL DEF Spec
<1>2. PushInvariant => PlacedOnce
  BY FirstLines, OneCommentEach DEF PlacedOnce
<1> QED
  BY <1>1, <1>2, PTL
==============================================================================
