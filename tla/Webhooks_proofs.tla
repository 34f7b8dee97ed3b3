---------------------------- MODULE Webhooks_proofs ----------------------------
(***************************************************************************)
(* Proofs about Webhooks, for any of the servers, any settings and files,  *)
(* any number of acts of users, of commands and of delivered comments.     *)
(***************************************************************************)
EXTENDS Webhooks, FiniteSetTheorems, TLAPS

-----------------------------------------------------------------------------
(* The inductive invariant.                                                *)

UserIds == {<<"user", n>> : n \in 0..(acts - 1)}
BotIds == {<<"bot", n>> : n \in 0..(replies - 1)}

Automatic == [id : UserIds, kind : {"opened", "ready", "push", "retitled"},
              draft : BOOLEAN, marked : BOOLEAN, fresh : BOOLEAN]
OfUsers == [id : UserIds, kind : {"comment"}, by : {"user"}, text : Texts, line : BOOLEAN]
OfTheBot == [id : BotIds, kind : {"comment"}, by : {"bot"}, text : Texts, line : BOOLEAN]

\* The servers that rewrite a question on a line to /ask_line.
AsksOnLine == {"github_app", "gitlab", "azure", "action"}

\* How a text of the model may begin once it is sanitized.
Clean == {"space", "word", "image", "prose"}

\* The bot's comments are its tools' own, or the answer to a question on a line.
SaidByBot(e) == IF e.line THEN server \in AsksOnLine /\ e.text.lead \in Clean
                ELSE e.text = Prose

Event(e) == e \in Automatic \cup OfUsers \/ (e \in OfTheBot /\ SaidByBot(e))

Met == events \cup {h.event : h \in handled}

Settled ==
    /\ server \in Servers /\ known \in BOOLEAN
    /\ config \subseteq Flags /\ file \in [Flags -> SUBSET BOOLEAN]
    /\ pr \in [opened : BOOLEAN, draft : BOOLEAN, marked : BOOLEAN]
    /\ acts \in 0..MaxActs /\ replies \in 0..MaxReplies

\* An event is known by its id, and delivered once.
EventsKnown ==
    /\ \A e \in Met : Event(e)
    /\ \A e, f \in Met : e.id = f.id => e = f
    /\ events \cap {h.event : h \in handled} = {}

\* What an event starts depends on nothing that changes.
HandledSo == \A h \in handled : h = [event |-> h.event, batch |-> Started(h.event)]

TasksKnown ==
    /\ \A t \in tasks :
          /\ t = [event |-> t.event, batch |-> t.batch, todo |-> t.todo,
                  at |-> t.at]
          /\ t.todo \in 1..Size(t.batch)
          /\ t.at \in {"command", "status", "notice"}
          /\ t.at # "command" => OnThread(t.event)
          /\ t.batch \in Started(t.event)
          /\ \E h \in handled : h.event = t.event
    /\ \A t, u \in tasks : t.event = u.event => t = u

HandledIds == {h.event.id : h \in handled}

\* The batch of the comment that thread j hangs under, while it runs.
Busy(j) == {t \in tasks : OnThread(t.event) /\ t.event.id = j}

In(j, fates) == \E f \in fates : j \in threads[f]

\* Each step of a command leaves its mark on the thread: what is answered is
\* closed next, what was noticed is rid of the notice, unless a call is refused.
Marked(j) ==
    /\ \A t \in Busy(j) :
          /\ t.at = "command" => ~In(j, {"answered", "raised", "closed"})
          /\ t.at # "command" => ~In(j, {"raised"})
          /\ t.at = "notice" => In(j, {"closed", "unclosed"})
          /\ t.at # "command" /\ t.batch = "ask" => In(j, {"answered"})
    /\ ~In(j, {"closed"}) \/ ~In(j, {"raised"})
    /\ In(j, {"answered"}) => In(j, {"closed", "unclosed"}) \/ Busy(j) # {}
    /\ In(j, {"noticed"}) => In(j, {"raised", "unremoved"}) \/ Busy(j) # {}

\* What the thread tells of the batch that the comment started.
Told(h) ==
    LET j == h.event.id
    IN  /\ In(j, {"closed"}) /\ ~In(j, {"answered"}) => h.batch # {"ask"}
        /\ In(j, {"closed", "raised"}) => h.batch # {}

ThreadsKnown ==
    /\ threads \in [Fates -> SUBSET HandledIds]
    /\ \A j \in HandledIds : Marked(j)
    /\ \A h \in handled : Told(h)

IInv == Settled /\ EventsKnown /\ HandledSo /\ TasksKnown /\ ThreadsKnown

-----------------------------------------------------------------------------
(* What an event starts.                                                   *)

Decided == UNCHANGED <<server, known, config, file>>

LEMMA BatchIsOne ==
    ASSUME Settled, NEW e
    PROVE  /\ Batch(e) \subseteq {"pr_commands", "push_commands"}
           /\ \A b, c \in Batch(e) : b = c
<1>1. server \in {"github_app", "gitlab", "bitbucket", "bitbucket_server", "azure", "gitea", "action"}
  BY ServersAssumption DEF Settled
<1> QED
  BY <1>1 DEF Batch, GithubBatch, GitlabBatch, BitbucketBatch, BitbucketServerBatch,
              AzureBatch, GiteaBatch, ActionBatch

LEMMA ParsedIsOne ==
    ASSUME NEW t
    PROVE  /\ Parsed(t) \subseteq {"ask", "review"}
           /\ \A b, c \in Parsed(t) : b = c
  BY DEF Parsed

LEMMA CommandIsOne ==
    ASSUME Settled, NEW e
    PROVE  /\ Command(e) \subseteq {"ask", "ask_line", "review"}
           /\ \A b, c \in Command(e) : b = c
           /\ "ask_line" \in Command(e) => server \in AsksOnLine
<1>1. server \in {"github_app", "gitlab", "bitbucket", "bitbucket_server", "azure", "gitea", "action"}
  BY ServersAssumption DEF Settled
<1>2. ASSUME NEW f
      PROVE  OnLine(f) \subseteq {"ask", "ask_line", "review"} /\ \A b, c \in OnLine(f) : b = c
  BY ParsedIsOne DEF OnLine
<1>3. /\ GithubCommand(e) \subseteq {"ask", "ask_line", "review"}
      /\ \A b, c \in GithubCommand(e) : b = c
  BY <1>2 DEF GithubCommand
<1> QED
  BY <1>1, <1>2, <1>3, ParsedIsOne
     DEF Command, GitlabCommand, BitbucketCommand, BitbucketServerCommand,
         AzureCommand, GiteaCommand, ActionCommand, AsksOnLine

LEMMA StartedIsOne ==
    ASSUME Settled, NEW e
    PROVE  /\ Started(e) \subseteq Batches /\ Cardinality(Started(e)) < 2
           /\ \A b, c \in Started(e) : b = c
           /\ e.kind = "comment" => \A b \in Started(e) : Size(b) = 1
           /\ "ask_line" \in Started(e) => server \in AsksOnLine
<1>1. /\ Started(e) \subseteq Batches
      /\ \A b, c \in Started(e) : b = c
      /\ e.kind = "comment" => \A b \in Started(e) : Size(b) = 1
      /\ "ask_line" \in Started(e) => server \in AsksOnLine
  BY BatchIsOne, CommandIsOne DEF Started, Batches, Size
<1>2. CASE Started(e) = {}
  BY <1>1, <1>2, FS_EmptySet
<1>3. CASE Started(e) # {}
  <2>1. PICK b : Started(e) = {b}
    BY <1>1, <1>3
  <2>2. Cardinality({b}) = 1
    BY FS_Singleton
  <2> QED
    BY <1>1, <2>1, <2>2
<1> QED
  BY <1>1, <1>2, <1>3

LEMMA StartedKept == ASSUME Decided, NEW e PROVE Started(e)' = Started(e)
  BY DEF Decided, Started, Batch, GithubBatch, GitlabBatch, BitbucketBatch, BitbucketServerBatch,
         AzureBatch, GiteaBatch, ActionBatch, Opens, Ignored, IgnoredByFile, Configured,
         Effective, FilteredOnCreation, TakenForPush, LeftAlone, Command, GithubCommand,
         GitlabCommand, BitbucketCommand, BitbucketServerCommand, AzureCommand, GiteaCommand,
         ActionCommand, OnLine, Parsed, Dropped, Slash, Reformatted

\* The divergences of Withheld and Unasked are all there are.
LEMMA BatchAsPromised ==
    ASSUME Settled, NEW e \in Automatic
    PROVE  \/ Batch(e) = Promised(e)
           \/ Batch(e) = {} /\ Withheld(e)
           \/ Batch(e) # {} /\ Unasked(e)
<1>1. /\ e.kind \in {"opened", "ready", "push", "retitled"} /\ e.draft \in BOOLEAN
      /\ e.marked \in BOOLEAN /\ e.fresh \in BOOLEAN
  BY DEF Automatic
<1>2. server \in {"github_app", "gitlab", "bitbucket", "bitbucket_server", "azure", "gitea", "action"}
  BY ServersAssumption DEF Settled
<1> USE <1>1 DEF Batch, Promised, Withheld, Unasked, Opens, Ignored, IgnoredByFile
<1>3. CASE server \in {"github_app", "gitlab"}
  BY <1>3 DEF GithubBatch, GitlabBatch
<1>4. CASE server = "bitbucket"
  BY <1>4 DEF BitbucketBatch, FilteredOnCreation, TakenForPush
<1>5. CASE server = "bitbucket_server"
  BY <1>5 DEF BitbucketServerBatch, LeftAlone
<1>6. CASE server \in {"azure", "action"}
  BY <1>6 DEF AzureBatch, ActionBatch
<1>7. CASE server = "gitea"
  BY <1>7 DEF GiteaBatch
<1> QED
  BY <1>2, <1>3, <1>4, <1>5, <1>6, <1>7

LEMMA BotCommands ==
    ASSUME Settled, NEW e \in OfTheBot, SaidByBot(e), Command(e) # {}
    PROVE  /\ e.line
           /\ \/ e.text.lead = "space" \/ e.text.ask
              \/ e.text.lead = "word" /\ server # "github_app"
           /\ server \in {"github_app", "gitlab", "action"}
           /\ known => server = "action"
<1>1. e.by = "bot" /\ e.line \in BOOLEAN
  BY DEF OfTheBot
<1>2. server \in {"github_app", "gitlab", "bitbucket", "bitbucket_server", "azure", "gitea", "action"}
  BY ServersAssumption DEF Settled
<1>3. CASE ~e.line
  <2>1. e.text.lead = "prose" /\ ~e.text.ask
    BY <1>3 DEF SaidByBot, Prose
  <2> QED
    BY <1>2, <1>3, <2>1
       DEF Command, GithubCommand, GitlabCommand, BitbucketCommand, BitbucketServerCommand,
           AzureCommand, GiteaCommand, ActionCommand, OnLine, Parsed, Slash, Reformatted
<1>4. CASE e.line
  <2>1. server \in AsksOnLine /\ e.text.lead \in Clean
    BY <1>4 DEF SaidByBot
  <2> QED
    BY <1>1, <1>4, <2>1
       DEF AsksOnLine, Command, GithubCommand, GitlabCommand, AzureCommand, ActionCommand,
           OnLine, Parsed, Slash, Dropped, Reformatted, Clean
<1> QED
  BY <1>1, <1>3, <1>4

\* The properties follow.
LEMMA InvImplies == IInv => AsPromised /\ BotStartsNothing /\ HandledWhole
<1> SUFFICES ASSUME IInv PROVE AsPromised /\ BotStartsNothing /\ HandledWhole
  OBVIOUS
<1>1. ASSUME NEW h \in handled PROVE h.batch = Started(h.event) /\ Event(h.event)
  BY DEF IInv, HandledSo, EventsKnown, Met
<1>2. ASSUME NEW e, Event(e)
      PROVE  /\ e.kind # "comment" => e \in Automatic
             /\ e.kind = "comment" /\ e.by = "bot" => e \in OfTheBot /\ SaidByBot(e)
  BY <1>2 DEF Event, Automatic, OfUsers, OfTheBot
<1>3. AsPromised
  BY <1>1, <1>2, BatchAsPromised DEF AsPromised, Started, IInv
<1>4. BotStartsNothing
  BY <1>1, <1>2, BotCommands DEF BotStartsNothing, Started, IInv
<1>5. TypeOK
  <2>1. \A h \in handled : h.batch \subseteq Batches /\ Cardinality(h.batch) < 2
    BY <1>1, StartedIsOne DEF IInv
  <2> QED
    BY <2>1 DEF IInv, Settled, EventsKnown, TasksKnown, ThreadsKnown, TypeOK
<1>6. ThreadsTell
  <2>1. \A f \in Fates : threads[f] \subseteq HandledIds
    BY DEF IInv, ThreadsKnown
  <2>2. \A j \in HandledIds : Marked(j)
    BY DEF IInv, ThreadsKnown
  <2>3. threads.closed \cap threads.raised = {}
    BY <2>1, <2>2 DEF Marked, In, Fates
  <2>4. ASSUME tasks = {}
        PROVE  /\ threads.answered \subseteq threads.closed \cup threads.unclosed
               /\ threads.noticed \subseteq threads.raised \cup threads.unremoved
    BY <2>1, <2>2, <2>4 DEF Marked, In, Fates, Busy
  <2>5. ASSUME NEW h \in handled
        PROVE  /\ h.event.id \in threads.closed \ threads.answered => h.batch # {"ask"}
               /\ h.event.id \in threads.closed \cup threads.raised => h.batch # {}
    <3>1. Told(h)
      BY DEF IInv, ThreadsKnown
    <3> QED
      BY <3>1 DEF Told, In
  <2> QED
    BY <2>3, <2>4, <2>5 DEF ThreadsTell
<1> QED
  BY <1>3, <1>4, <1>5, <1>6 DEF HandledWhole

-----------------------------------------------------------------------------
(* The steps.                                                              *)

LEMMA InitInv == Init => IInv
<1> SUFFICES ASSUME Init PROVE IInv
  OBVIOUS
<1>1. Settled
  <2>1. /\ server \in Servers /\ known \in BOOLEAN /\ config \subseteq Flags
        /\ file \in [Flags -> SUBSET BOOLEAN]
    <3>1. {{}, {TRUE}, {FALSE}} \subseteq SUBSET BOOLEAN
      OBVIOUS
    <3> QED
      BY <3>1 DEF Init
  <2>2. pr \in [opened : BOOLEAN, draft : BOOLEAN, marked : BOOLEAN]
    BY DEF Init
  <2>3. acts \in 0..MaxActs /\ replies \in 0..MaxReplies
    BY CommandsAssumption DEF Init
  <2> QED
    BY <2>1, <2>2, <2>3 DEF Settled
<1>2. EventsKnown /\ HandledSo /\ TasksKnown
  BY DEF Init, EventsKnown, Met, HandledSo, TasksKnown
<1>3. ThreadsKnown
  <2>1. handled = {} /\ threads \in [Fates -> SUBSET HandledIds] /\ HandledIds = {}
    BY DEF Init, HandledIds
  <2> QED
    BY <2>1 DEF ThreadsKnown
<1> QED
  BY <1>1, <1>2, <1>3 DEF IInv

\* A known event stays one.
LEMMA EventKept ==
    ASSUME Settled, Decided, acts' >= acts, replies' >= replies, acts' \in Nat, replies' \in Nat,
           NEW e, Event(e)
    PROVE  Event(e)'
<1>1. UserIds \subseteq UserIds' /\ BotIds \subseteq BotIds'
  <2>1. 0..(acts - 1) \subseteq 0..(acts' - 1) /\ 0..(replies - 1) \subseteq 0..(replies' - 1)
    <3>1. acts \in Nat /\ replies \in Nat
      BY CommandsAssumption DEF Settled
    <3>2. ASSUME NEW a \in Nat, NEW b \in Nat, b >= a PROVE 0..(a - 1) \subseteq 0..(b - 1)
      BY <3>2
    <3> QED
      BY <3>1, <3>2
  <2> QED
    BY <2>1 DEF UserIds, BotIds
<1>2. e \in Automatic => e \in Automatic'
  BY <1>1 DEF Automatic
<1>3. e \in OfUsers => e \in OfUsers'
  BY <1>1 DEF OfUsers
<1>4. e \in OfTheBot /\ SaidByBot(e) => e \in OfTheBot' /\ SaidByBot(e)'
  BY <1>1 DEF OfTheBot, SaidByBot, Decided
<1> QED
  BY <1>2, <1>3, <1>4 DEF Event

\* An event of a new id may join the others.
LEMMA NewEvent ==
    ASSUME Settled, EventsKnown, Decided, UNCHANGED handled,
           acts' >= acts, replies' >= replies, acts' \in Nat, replies' \in Nat,
           NEW e, Event(e)', events' = events \cup {e},
           \A f \in Met : f.id # e.id
    PROVE  EventsKnown'
<1>1. Met' = Met \cup {e}
  BY DEF Met
<1>2. \A f \in Met' : Event(f)'
  BY <1>1, EventKept DEF EventsKnown
<1>3. \A f, g \in Met' : f.id = g.id => f = g
  BY <1>1 DEF EventsKnown
<1>4. events' \cap {h.event : h \in handled'} = {}
  BY DEF EventsKnown, Met
<1> QED
  BY <1>2, <1>3, <1>4 DEF EventsKnown

\* The ids that are given out next are new.
LEMMA NewIds ==
    ASSUME Settled, EventsKnown, NEW f \in Met
    PROVE  f.id # <<"user", acts>> /\ f.id # <<"bot", replies>>
<1>1. f.id \in UserIds \cup BotIds
  BY DEF EventsKnown, Event, Automatic, OfUsers, OfTheBot
<1>2. CASE f.id \in UserIds
  BY <1>2 DEF UserIds, Settled
<1>3. CASE f.id \in BotIds
  BY <1>3 DEF BotIds, Settled
<1> QED
  BY <1>1, <1>2, <1>3

LEMMA HandledKept == ASSUME HandledSo, Decided, UNCHANGED handled PROVE HandledSo'
  BY StartedKept DEF HandledSo

LEMMA TasksKept ==
    ASSUME TasksKnown, Decided, UNCHANGED <<handled, tasks>> PROVE TasksKnown'
<1>1. \A t \in tasks : Size(t.batch)' = Size(t.batch)
  BY DEF Size
<1>2. \A t \in tasks : OnThread(t.event)' = OnThread(t.event)
  BY DEF OnThread, Decided
<1> QED
  BY <1>1, <1>2, StartedKept DEF TasksKnown

LEMMA ThreadsKept ==
    ASSUME ThreadsKnown, UNCHANGED <<server, handled, tasks, threads>> PROVE ThreadsKnown'
<1>1. HandledIds' = HandledIds /\ \A j : Busy(j)' = Busy(j)
  BY DEF HandledIds, Busy, OnThread
<1> QED
  BY <1>1 DEF ThreadsKnown, Marked, Told, In

\* A thread that a step has nothing to do with stays as it is.
LEMMA OtherThread ==
    ASSUME NEW j, Marked(j), Busy(j)' = Busy(j),
           \A f \in Fates : (j \in threads'[f]) <=> (j \in threads[f])
    PROVE  Marked(j)'
<1>1. /\ In(j, {"answered", "raised", "closed"})' = In(j, {"answered", "raised", "closed"})
      /\ In(j, {"raised"})' = In(j, {"raised"}) /\ In(j, {"closed"})' = In(j, {"closed"})
      /\ In(j, {"closed", "unclosed"})' = In(j, {"closed", "unclosed"})
      /\ In(j, {"answered"})' = In(j, {"answered"}) /\ In(j, {"noticed"})' = In(j, {"noticed"})
      /\ In(j, {"raised", "unremoved"})' = In(j, {"raised", "unremoved"})
  BY DEF In, Fates
<1> QED
  BY <1>1 DEF Marked

LEMMA OtherTold ==
    ASSUME NEW h, Told(h), \A f \in Fates : (h.event.id \in threads'[f]) <=> (h.event.id \in threads[f])
    PROVE  Told(h)'
<1>1. /\ In(h.event.id, {"closed"})' = In(h.event.id, {"closed"})
      /\ In(h.event.id, {"answered"})' = In(h.event.id, {"answered"})
      /\ In(h.event.id, {"closed", "raised"})' = In(h.event.id, {"closed", "raised"})
  BY DEF In, Fates
<1> QED
  BY <1>1 DEF Told

LEMMA UserEvent ==
    ASSUME IInv, acts < MaxActs, acts' = acts + 1,
           pr' \in [opened : BOOLEAN, draft : BOOLEAN, marked : BOOLEAN],
           UNCHANGED <<server, known, config, file, replies, handled, tasks, threads>>,
           NEW e, e \in Automatic' \cup OfUsers', e.id = <<"user", acts>>,
           events' = events \cup {e}
    PROVE  IInv'
<1>1. Settled' /\ Decided /\ Settled
  BY CommandsAssumption DEF IInv, Settled, Decided
<1>2. acts' >= acts /\ replies' >= replies /\ acts' \in Nat /\ replies' \in Nat
  BY <1>1 DEF Settled
<1>3. EventsKnown'
  BY <1>1, <1>2, NewEvent, NewIds DEF IInv, Event
<1>4. HandledSo' /\ TasksKnown' /\ ThreadsKnown'
  BY <1>1, HandledKept, TasksKept, ThreadsKept DEF IInv
<1> QED
  BY <1>1, <1>3, <1>4 DEF IInv

\* The id of the next act of a user.
LEMMA NextId == ASSUME Settled, acts' = acts + 1 PROVE <<"user", acts>> \in UserIds'
  BY DEF Settled, UserIds

LEMMA ActInv ==
    ASSUME IInv, NEW kind \in {"opened", "ready", "push", "retitled"},
           NEW p \in [opened : BOOLEAN, draft : BOOLEAN, marked : BOOLEAN],
           NEW fresh \in BOOLEAN, Act(kind, p, fresh)
    PROVE  IInv'
<1>1. /\ acts < MaxActs /\ acts' = acts + 1 /\ pr' = p
      /\ events' = events \cup {Payload(kind, p, fresh)}
      /\ UNCHANGED <<server, known, config, file, replies, handled, tasks, threads>>
  BY DEF Act
<1>2. Payload(kind, p, fresh) \in Automatic' /\ Payload(kind, p, fresh).id = <<"user", acts>>
  BY <1>1, NextId DEF IInv, Payload, Automatic
<1> QED
  BY <1>1, <1>2, UserEvent

LEMMA UsersInv == IInv /\ (Open \/ MarkReady \/ Push \/ Retitle) => IInv'
<1> SUFFICES ASSUME IInv, Open \/ MarkReady \/ Push \/ Retitle PROVE IInv'
  OBVIOUS
<1>1. pr \in [opened : BOOLEAN, draft : BOOLEAN, marked : BOOLEAN] /\ Fresh \subseteq BOOLEAN
  BY DEF IInv, Settled, Fresh
<1>2. CASE Open
  BY <1>2, ActInv DEF Open
<1>3. CASE MarkReady
  <2>1. [pr EXCEPT !.draft = FALSE] \in [opened : BOOLEAN, draft : BOOLEAN, marked : BOOLEAN]
    BY <1>1
  <2>2. PICK fresh \in BOOLEAN : Act("ready", [pr EXCEPT !.draft = FALSE], fresh)
    BY <1>1, <1>3 DEF MarkReady
  <2> QED
    BY <2>1, <2>2, ActInv
<1>4. CASE Push
  <2>1. PICK fresh \in BOOLEAN : Act("push", pr, fresh)
    BY <1>1, <1>4 DEF Push
  <2> QED
    BY <1>1, <2>1, ActInv
<1>5. CASE Retitle
  <2>1. PICK fresh \in BOOLEAN : Act("retitled", [pr EXCEPT !.marked = ~@], fresh)
    BY <1>1, <1>5 DEF Retitle
  <2>2. [pr EXCEPT !.marked = ~@] \in [opened : BOOLEAN, draft : BOOLEAN, marked : BOOLEAN]
    BY <1>1
  <2> QED
    BY <2>1, <2>2, ActInv
<1> QED
  BY <1>2, <1>3, <1>4, <1>5

LEMMA SayInv == IInv /\ Say => IInv'
<1> SUFFICES ASSUME IInv, Say PROVE IInv'
  OBVIOUS
<1>1. PICK t \in Texts, line \in BOOLEAN :
        events' = events \cup {Comment(<<"user", acts>>, "user", t, line)}
  BY DEF Say
<1>2. /\ acts < MaxActs /\ acts' = acts + 1 /\ pr' = pr
      /\ UNCHANGED <<server, known, config, file, replies, handled, tasks, threads>>
  BY DEF Say
<1>3. /\ Comment(<<"user", acts>>, "user", t, line) \in OfUsers'
      /\ Comment(<<"user", acts>>, "user", t, line).id = <<"user", acts>>
  BY <1>2, NextId DEF IInv, Comment, OfUsers
<1> QED
  BY <1>1, <1>2, <1>3, UserEvent DEF IInv, Settled

LEMMA DeliverInv == ASSUME IInv, NEW e \in events, Deliver(e) PROVE IInv'
<1>1. /\ events' = events \ {e}
      /\ handled' = handled \cup {[event |-> e, batch |-> Started(e)]}
      /\ tasks' = tasks \cup {Task(e, b) : b \in Started(e)}
      /\ UNCHANGED <<server, known, config, file, pr, acts, replies>>
  BY DEF Deliver
<1>2. Decided /\ Settled /\ Settled'
  BY <1>1 DEF IInv, Settled, Decided
<1>3. e \in Met /\ e.id \notin HandledIds /\ \A h \in handled : h.event # e
  BY DEF IInv, EventsKnown, Met, HandledIds
<1>4. EventsKnown'
  <2>1. Met' = Met
    <3>1. {h.event : h \in handled'} = {h.event : h \in handled} \cup {e}
      <4>1. PICK r : r.event = e /\ handled' = handled \cup {r}
        <5>1. [event |-> e, batch |-> Started(e)].event = e
          OBVIOUS
        <5> QED
          BY <1>1, <5>1
      <4> QED
        BY <4>1
    <3> QED
      BY <1>1, <3>1 DEF Met
  <2>2. \A f \in Met : Event(f)'
    BY <1>1, <1>2, EventKept DEF IInv, EventsKnown, Settled
  <2>3. events' \cap {h.event : h \in handled'} = {}
    BY <1>1, <1>3 DEF IInv, EventsKnown
  <2> QED
    BY <2>1, <2>2, <2>3 DEF IInv, EventsKnown
<1>5. HandledSo'
  BY <1>1, <1>2, StartedKept DEF IInv, HandledSo
<1>6. ASSUME NEW t \in tasks'
      PROVE  \/ t \in tasks /\ t.event # e
             \/ \E b \in Started(e) : t = Task(e, b) /\ t.event = e
  <2>1. \A b : Task(e, b).event = e
    BY DEF Task
  <2> QED
    BY <1>1, <1>3, <2>1 DEF IInv, TasksKnown
<1>7. \A b : Size(b) \in Nat \ {0} /\ Size(b)' = Size(b)
  BY CommandsAssumption DEF Size
<1>8. TasksKnown'
  <2>1. ASSUME NEW t \in tasks'
        PROVE  /\ t = [event |-> t.event, batch |-> t.batch, todo |-> t.todo, at |-> t.at]
               /\ t.todo \in 1..Size(t.batch)
               /\ t.at \in {"command", "status", "notice"}
               /\ t.at # "command" => OnThread(t.event)'
               /\ t.batch \in Started(t.event)'
               /\ \E h \in handled' : h.event = t.event
    <3>1. CASE t \in tasks
      <4>1. OnThread(t.event)' = OnThread(t.event)
        BY <1>1 DEF OnThread
      <4> QED
        BY <1>1, <1>2, <1>7, <3>1, <4>1, StartedKept DEF IInv, TasksKnown
    <3>2. ASSUME NEW b \in Started(e), t = Task(e, b)
          PROVE  /\ t = [event |-> t.event, batch |-> t.batch, todo |-> t.todo, at |-> t.at]
                 /\ t.todo \in 1..Size(t.batch)
                 /\ t.at = "command"
                 /\ t.batch \in Started(t.event)'
                 /\ \E h \in handled' : h.event = t.event
      <4>1. /\ t.event = e /\ t.batch = b /\ t.todo = Size(b) /\ t.at = "command"
            /\ t = [event |-> t.event, batch |-> t.batch, todo |-> t.todo, at |-> t.at]
        BY <3>2 DEF Task
      <4>2. \E h \in handled' : h.event = e
        <5>1. [event |-> e, batch |-> Started(e)] \in handled'
          BY <1>1
        <5> QED
          BY <5>1
      <4>3. Started(e)' = Started(e)
        BY <1>2, StartedKept
      <4> QED
        BY <1>7, <4>1, <4>2, <4>3
    <3> QED
      BY <1>6, <3>1, <3>2
  <2>2. ASSUME NEW t \in tasks', NEW u \in tasks', t.event = u.event PROVE t = u
    <3>1. CASE t.event = e
      <4>1. PICK b, c \in Started(e) :
              t = Task(e, b) /\ u = Task(e, c)
        BY <1>6, <2>2, <3>1
      <4> QED
        BY <1>2, <4>1, StartedIsOne
    <3>2. CASE t.event # e
      BY <1>6, <2>2, <3>2 DEF IInv, TasksKnown
    <3> QED
      BY <3>1, <3>2
  <2> QED
    BY <1>7, <2>1, <2>2 DEF TasksKnown
<1>9. ThreadsKnown'
  <2>1. HandledIds' = HandledIds \cup {e.id}
    <3>1. [event |-> e, batch |-> Started(e)].event.id = e.id
      OBVIOUS
    <3>2. {h.event.id : h \in handled'} = {h.event.id : h \in handled} \cup {e.id}
      BY <1>1, <3>1
    <3> QED
      BY <3>2 DEF HandledIds
  <2>2. /\ threads' \in [Fates -> SUBSET HandledIds']
        /\ \A f \in Fates : \A j \in HandledIds : (j \in threads'[f]) <=> (j \in threads[f])
        /\ \A f \in Fates \ {"noticed"} : threads'[f] = threads[f]
        /\ e.id \in threads'.noticed => OnThread(e) /\ Started(e) # {}
    <3>1. threads \in [Fates -> SUBSET HandledIds] /\ e.id \notin threads.noticed
      BY <1>3 DEF IInv, ThreadsKnown, Fates
    <3>2. \/ threads' = threads
          \/ /\ threads' = [threads EXCEPT !.noticed = @ \cup {e.id}]
             /\ OnThread(e) /\ Started(e) # {}
      BY DEF Deliver
    <3> QED
      BY <1>3, <2>1, <3>1, <3>2 DEF Fates
  <2>3. ASSUME NEW j \in HandledIds PROVE Marked(j)'
    <3>1. Busy(j)' = Busy(j)
      <4>1. \A b : Task(e, b).event = e
        BY DEF Task
      <4> QED
        BY <1>1, <1>3, <4>1 DEF Busy, OnThread
    <3> QED
      BY <2>2, <3>1, OtherThread DEF IInv, ThreadsKnown
  <2>4. ~In(e.id, Fates \ {"noticed"})'
    BY <1>3, <2>2 DEF IInv, ThreadsKnown, In
  <2>5. Marked(e.id)'
    <3>1. \A t \in Busy(e.id)' : t.at = "command"
      <4>1. ASSUME NEW t \in tasks', t.event.id = e.id PROVE t.at = "command"
        <5>1. t.event = e
          BY <1>3, <1>6, <4>1 DEF IInv, TasksKnown, HandledIds
        <5> QED
          BY <1>6, <5>1 DEF Task
      <4> QED
        BY <4>1 DEF Busy
    <3>2. In(e.id, {"noticed"})' => Busy(e.id)' # {}
      <4>1. ASSUME NEW b \in Started(e), OnThread(e) PROVE Task(e, b) \in Busy(e.id)'
        BY <1>1, <4>1 DEF Busy, OnThread, Task
      <4> QED
        BY <2>2, <4>1 DEF In
    <3> QED
      BY <2>4, <3>1, <3>2 DEF Marked, In, Fates
  <2>6. ASSUME NEW h \in handled' PROVE Told(h)'
    <3>1. CASE h \in handled
      <4>1. h.event.id \in HandledIds
        BY <3>1 DEF HandledIds
      <4> QED
        BY <2>2, <3>1, <4>1, OtherTold DEF IInv, ThreadsKnown
    <3>2. CASE h.event.id = e.id
      BY <2>4, <3>2 DEF Told, In, Fates
    <3> QED
      BY <1>1, <3>1, <3>2
  <2> QED
    BY <2>1, <2>2, <2>3, <2>5, <2>6 DEF ThreadsKnown
<1> QED
  BY <1>2, <1>4, <1>5, <1>8, <1>9 DEF IInv

\* What a command publishes is a comment of the bot as SaidByBot describes it.
LEMMA PublishedByBot ==
    ASSUME IInv, NEW t \in tasks, NEW text \in Published(t.batch), Decided,
           acts' = acts, replies' = replies + 1,
           NEW c, c = Comment(<<"bot", replies>>, "bot", text, t.batch = "ask_line")
    PROVE  Event(c)'
<1>1. /\ c.id = <<"bot", replies>> /\ c.text = text /\ c.line = (t.batch = "ask_line")
      /\ c = [id |-> c.id, kind |-> "comment", by |-> "bot", text |-> text, line |-> c.line]
  BY DEF Comment
<1>2. c.id \in BotIds'
  BY <1>1 DEF IInv, Settled, BotIds
<1>3. text \in Texts
  <2>1. Prose \in Texts
    BY DEF Prose, Texts
  <2>2. ASSUME NEW u \in Texts PROVE Sanitized(u) \in Texts
    BY DEF Texts, Sanitized
  <2> QED
    BY <2>1, <2>2 DEF Published
<1>4. c \in OfTheBot'
  <2>1. c.line \in BOOLEAN
    BY <1>1
  <2> QED
    BY <1>1, <1>2, <1>3, <2>1 DEF OfTheBot
<1>5. SaidByBot(c)'
  <2>1. CASE t.batch = "ask_line"
    <3>1. server \in AsksOnLine
      BY <2>1, StartedIsOne DEF IInv, TasksKnown
    <3>2. \E u \in Texts : text = Sanitized(u)
      BY <2>1 DEF Published
    <3>3. text.lead \in Clean
      BY <3>2 DEF Texts, Sanitized, Clean
    <3> QED
      BY <1>1, <2>1, <3>1, <3>3 DEF SaidByBot, Decided
  <2>2. CASE t.batch # "ask_line"
    BY <1>1, <2>2 DEF SaidByBot, Published
  <2> QED
    BY <2>1, <2>2
<1> QED
  BY <1>4, <1>5 DEF Event

\* A step of batch t, after which it goes on as one of S or has ended.
Continues(t, S) ==
    /\ tasks' = (tasks \ {t}) \cup S
    /\ \A u \in S :
          /\ u = [event |-> u.event, batch |-> u.batch, todo |-> u.todo, at |-> u.at]
          /\ u.event = t.event /\ u.batch = t.batch /\ u.todo \in 1..Size(t.batch)
          /\ u.at \in {"command", "status", "notice"}
          /\ u.at # "command" => OnThread(t.event)
    /\ \A u, v \in S : u = v
    /\ Decided /\ UNCHANGED handled

LEMMA StepTasks ==
    ASSUME TasksKnown, NEW t \in tasks, NEW S, Continues(t, S)
    PROVE  TasksKnown'
<1>1. \A b : Size(b)' = Size(b)
  BY DEF Size
<1>2. \A e : OnThread(e)' = OnThread(e) /\ Started(e)' = Started(e)
  BY StartedKept DEF Continues, Decided, OnThread
<1>3. ASSUME NEW u \in tasks'
      PROVE  /\ u = [event |-> u.event, batch |-> u.batch, todo |-> u.todo, at |-> u.at]
             /\ u.todo \in 1..Size(u.batch)
             /\ u.at \in {"command", "status", "notice"}
             /\ u.at # "command" => OnThread(u.event)
             /\ u.batch \in Started(u.event)
             /\ \E h \in handled : h.event = u.event
  <2>1. CASE u \in tasks
    BY <2>1 DEF TasksKnown
  <2>2. CASE u \in S
    BY <2>2 DEF TasksKnown, Continues
  <2> QED
    BY <2>1, <2>2 DEF Continues
<1>4. ASSUME NEW u \in tasks', NEW v \in tasks', u.event = v.event PROVE u = v
  BY <1>4 DEF TasksKnown, Continues
<1> QED
  BY <1>1, <1>2, <1>3, <1>4 DEF TasksKnown, Continues

\* A thread has one batch, that of its comment; other threads keep theirs.
LEMMA StepBusy ==
    ASSUME TasksKnown, EventsKnown, NEW t \in tasks, NEW S, Continues(t, S)
    PROVE  /\ \A j : (j # t.event.id \/ ~OnThread(t.event)) => Busy(j)' = Busy(j)
           /\ OnThread(t.event) => Busy(t.event.id) = {t} /\ Busy(t.event.id)' = S
<1>1. \A e : OnThread(e)' = OnThread(e)
  BY DEF Continues, Decided, OnThread
<1>2. \A u \in S : u.event = t.event
  BY DEF Continues
<1>3. ASSUME NEW j, j # t.event.id \/ ~OnThread(t.event) PROVE Busy(j)' = Busy(j)
  BY <1>1, <1>2, <1>3 DEF Busy, Continues
<1>4. \A u \in tasks : u.event.id = t.event.id => u = t
  <2>1. \A u \in tasks : u.event \in Met
    BY DEF TasksKnown, Met
  <2> QED
    BY <2>1 DEF TasksKnown, EventsKnown
<1>5. ASSUME OnThread(t.event) PROVE Busy(t.event.id) = {t} /\ Busy(t.event.id)' = S
  BY <1>1, <1>2, <1>4, <1>5 DEF Busy, Continues
<1> QED
  BY <1>3, <1>5

\* It is enough to look at the thread of the batch.
LEMMA StepThreads ==
    ASSUME IInv, NEW t \in tasks, NEW S, Continues(t, S),
           threads' \in [Fates -> SUBSET HandledIds],
           \A f \in Fates, j \in HandledIds : (j # t.event.id \/ ~OnThread(t.event)) =>
                 ((j \in threads'[f]) <=> (j \in threads[f])),
           OnThread(t.event) => Marked(t.event.id)',
           \A h \in handled : (OnThread(t.event) /\ h.event = t.event) => Told(h)'
    PROVE  ThreadsKnown'
<1>1. HandledIds' = HandledIds
  BY DEF Continues, HandledIds
<1>2. ASSUME NEW j \in HandledIds PROVE Marked(j)'
  <2>1. CASE j # t.event.id \/ ~OnThread(t.event)
    <3>1. Busy(j)' = Busy(j)
      BY <2>1, StepBusy DEF IInv
    <3> QED
      BY <2>1, <3>1, OtherThread DEF IInv, ThreadsKnown
  <2> QED
    BY <2>1
<1>3. ASSUME NEW h \in handled PROVE Told(h)'
  <2>1. h.event.id \in HandledIds /\ h.event \in Met /\ t.event \in Met
    BY DEF HandledIds, Met, IInv, TasksKnown
  <2>2. CASE h.event # t.event \/ ~OnThread(t.event)
    <3>1. h.event.id # t.event.id \/ ~OnThread(t.event)
      BY <2>1, <2>2 DEF IInv, EventsKnown
    <3> QED
      BY <2>1, <3>1, OtherTold DEF IInv, ThreadsKnown
  <2> QED
    BY <2>2
<1> QED
  BY <1>1, <1>2, <1>3 DEF ThreadsKnown, Continues

\* The batch of a comment on a thread is one command, the one it asked for.
LEMMA OneCommand ==
    ASSUME IInv, NEW t \in tasks, OnThread(t.event)
    PROVE  /\ Size(t.batch) = 1 /\ t.todo = 1 /\ t.event.id \in HandledIds
           /\ Marked(t.event.id) /\ Busy(t.event.id) = {t}
           /\ \A h \in handled : h.event = t.event => h.batch = {t.batch}
<1>1. Size(t.batch) = 1 /\ t.todo = 1
  BY StartedIsOne DEF IInv, TasksKnown, OnThread
<1>2. t.event.id \in HandledIds
  BY DEF IInv, TasksKnown, HandledIds
<1>3. ASSUME NEW u \in tasks, u.event.id = t.event.id PROVE u = t
  <2>1. u.event \in Met /\ t.event \in Met
    BY DEF IInv, TasksKnown, Met
  <2> QED
    BY <1>3, <2>1 DEF IInv, TasksKnown, EventsKnown
<1>4. Busy(t.event.id) = {t}
  BY <1>3 DEF Busy
<1>5. ASSUME NEW h \in handled, h.event = t.event PROVE h.batch = {t.batch}
  <2>1. h.batch = Started(t.event)
    BY <1>5 DEF IInv, HandledSo
  <2>2. t.batch \in Started(t.event)
    BY DEF IInv, TasksKnown
  <2> QED
    BY <2>1, <2>2, StartedIsOne DEF IInv
<1> QED
  BY <1>1, <1>2, <1>4, <1>5 DEF IInv, ThreadsKnown

\* The command ends: the thread's calls follow unless it raised.
LEMMA EndCommandThreads ==
    ASSUME IInv, NEW t \in tasks, t.at = "command", NEW ending \in Endings(t),
           Continues(t, Follows(t, ending)), threads' = Noted(t, ending)
    PROVE  ThreadsKnown'
<1>1. threads \in [Fates -> SUBSET HandledIds]
  BY DEF IInv, ThreadsKnown
<1>2. CASE ~OnThread(t.event)
  BY <1>1, <1>2, StepThreads DEF Noted
<1>3. CASE OnThread(t.event)
  <2>1. PICK i : i = t.event.id
    OBVIOUS
  <2>2. /\ Marked(i) /\ Busy(i) = {t} /\ i \in HandledIds /\ t.todo = 1
        /\ \A h \in handled : h.event = t.event => h.batch = {t.batch}
        /\ ~In(i, {"answered", "raised", "closed"})
    BY <1>3, <2>1, OneCommand DEF Marked
  <2>3. Busy(i)' = Follows(t, ending)
    BY <1>3, <2>1, StepBusy DEF IInv
  <2>4. Follows(t, ending) = IF ending = "raised" THEN {} ELSE {[t EXCEPT !.at = "status"]}
    BY <1>3, <2>2 DEF Follows, Rest
  <2>5. /\ t = [event |-> t.event, batch |-> t.batch, todo |-> t.todo, at |-> t.at]
        /\ [t EXCEPT !.at = "status"].at = "status" /\ [t EXCEPT !.at = "status"].batch = t.batch
    BY DEF IInv, TasksKnown
  <2>6. ending \in {"answered", "silent", "raised"} /\ (t.batch = "ask" => ending # "silent")
    BY DEF Endings
  <2>7. /\ threads' \in [Fates -> SUBSET HandledIds]
        /\ \A f \in Fates : \A j \in HandledIds \ {i} : (j \in threads'[f]) <=> (j \in threads[f])
        /\ In(i, {"answered"})' <=> ending = "answered"
        /\ In(i, {"raised"})' <=> ending = "raised"
        /\ ~In(i, {"closed"})'
    BY <1>1, <1>3, <2>1, <2>2, <2>6 DEF Noted, In, Fates
  <2>8. Marked(i)'
    <3>1. CASE ending = "raised"
      <4>1. Busy(i)' = {}
        BY <2>3, <2>4, <3>1
      <4> QED
        BY <2>7, <3>1, <4>1 DEF Marked, In
    <3>2. CASE ending # "raised"
      <4>1. PICK u : Busy(i)' = {u} /\ u.at = "status" /\ u.batch = t.batch
        BY <2>3, <2>4, <2>5, <3>2
      <4>2. t.batch = "ask" => In(i, {"answered"})'
        BY <2>6, <2>7, <3>2
      <4> QED
        BY <2>7, <3>2, <4>1, <4>2 DEF Marked
    <3> QED
      BY <3>1, <3>2
  <2>9. \A h \in handled : h.event = t.event => Told(h)'
    BY <2>1, <2>2, <2>7 DEF Told, In
  <2>10. \A f \in Fates, j \in HandledIds : (j # t.event.id \/ ~OnThread(t.event)) =>
            ((j \in threads'[f]) <=> (j \in threads[f]))
    BY <1>3, <2>1, <2>7
  <2>11. Marked(t.event.id)'
    BY <2>1, <2>8
  <2> QED
    BY <2>7, <2>9, <2>10, <2>11, StepThreads
<1> QED
  BY <1>2, <1>3

LEMMA SetStatusThreads ==
    ASSUME IInv, NEW t \in tasks, t.at = "status", OnThread(t.event), NEW ok \in BOOLEAN,
           Continues(t, AfterStatus(t, ok)),
           threads' = IF ok THEN [threads EXCEPT !.closed = @ \cup {t.event.id}]
                      ELSE [threads EXCEPT !.unclosed = @ \cup {t.event.id}]
    PROVE  ThreadsKnown'
<1>1. threads \in [Fates -> SUBSET HandledIds]
  BY DEF IInv, ThreadsKnown
<1>2. PICK i : i = t.event.id
  OBVIOUS
<1>3. /\ Marked(i) /\ Busy(i) = {t} /\ i \in HandledIds
      /\ \A h \in handled : h.event = t.event => h.batch = {t.batch}
      /\ ~In(i, {"raised"}) /\ (t.batch = "ask" => In(i, {"answered"}))
  BY <1>2, OneCommand DEF Marked
<1>4. Busy(i)' = {[t EXCEPT !.at = "notice"]}
  BY <1>2, StepBusy DEF IInv, AfterStatus
<1>5. /\ t = [event |-> t.event, batch |-> t.batch, todo |-> t.todo, at |-> t.at]
      /\ [t EXCEPT !.at = "notice"].at = "notice" /\ [t EXCEPT !.at = "notice"].batch = t.batch
  BY DEF IInv, TasksKnown
<1>6. /\ threads' \in [Fates -> SUBSET HandledIds]
      /\ \A f \in Fates : \A j \in HandledIds \ {i} : (j \in threads'[f]) <=> (j \in threads[f])
      /\ In(i, {"answered"})' <=> In(i, {"answered"})
      /\ ~In(i, {"raised"})' /\ In(i, {"closed", "unclosed"})'
  BY <1>1, <1>2, <1>3 DEF In, Fates
<1>7. Marked(i)'
  BY <1>3, <1>4, <1>5, <1>6 DEF Marked, In
<1>8. \A h \in handled : h.event = t.event => Told(h)'
  BY <1>2, <1>3, <1>6 DEF Told, In
<1> QED
  BY <1>2, <1>6, <1>7, <1>8, StepThreads

LEMMA RemoveNoticeThreads ==
    ASSUME IInv, NEW t \in tasks, t.at = "notice", OnThread(t.event), NEW ok \in BOOLEAN,
           Continues(t, {}),
           threads' = IF ok THEN [threads EXCEPT !.noticed = @ \ {t.event.id}]
                      ELSE [threads EXCEPT !.unremoved = @ \cup {t.event.id}]
    PROVE  ThreadsKnown'
<1>1. threads \in [Fates -> SUBSET HandledIds]
  BY DEF IInv, ThreadsKnown
<1>2. PICK i : i = t.event.id
  OBVIOUS
<1>3. /\ Marked(i) /\ Busy(i) = {t} /\ i \in HandledIds
      /\ \A h \in handled : h.event = t.event => h.batch = {t.batch}
      /\ ~In(i, {"raised"}) /\ In(i, {"closed", "unclosed"})
      /\ t.batch = "ask" => In(i, {"answered"})
  BY <1>2, OneCommand DEF Marked
<1>4. Busy(i)' = {}
  BY <1>2, StepBusy DEF IInv
<1>6. /\ threads' \in [Fates -> SUBSET HandledIds]
      /\ \A f \in Fates : \A j \in HandledIds \ {i} : (j \in threads'[f]) <=> (j \in threads[f])
      /\ In(i, {"answered"})' <=> In(i, {"answered"})
      /\ ~In(i, {"raised"})' /\ In(i, {"closed", "unclosed"})'
      /\ In(i, {"noticed"})' => In(i, {"unremoved"})'
  BY <1>1, <1>2, <1>3 DEF In, Fates
<1>7. Marked(i)'
  BY <1>4, <1>6 DEF Marked, In
<1>8. \A h \in handled : h.event = t.event => Told(h)'
  BY <1>2, <1>3, <1>6 DEF Told, In
<1> QED
  BY <1>2, <1>6, <1>7, <1>8, StepThreads

\* A step of a batch that publishes nothing.
LEMMA QuietStepInv ==
    ASSUME IInv, NEW t \in tasks, NEW S, Continues(t, S), ThreadsKnown',
           UNCHANGED <<pr, acts, replies, events>>
    PROVE  IInv'
<1>1. Settled /\ Settled' /\ Decided
  BY DEF IInv, Settled, Continues, Decided
<1>2. EventsKnown'
  <2>1. Met' = Met
    BY DEF Met, Continues
  <2>2. \A f \in Met : Event(f)'
    BY <1>1, EventKept DEF IInv, EventsKnown, Settled
  <2> QED
    BY <2>1, <2>2 DEF IInv, EventsKnown, Continues
<1>3. HandledSo' /\ TasksKnown'
  BY <1>1, HandledKept, StepTasks DEF IInv, Continues
<1> QED
  BY <1>1, <1>2, <1>3 DEF IInv

LEMMA SetStatusInv == ASSUME IInv, NEW t \in tasks, SetStatus(t) PROVE IInv'
<1>1. PICK ok \in BOOLEAN :
        /\ tasks' = (tasks \ {t}) \cup AfterStatus(t, ok)
        /\ threads' = IF ok THEN [threads EXCEPT !.closed = @ \cup {t.event.id}]
                      ELSE [threads EXCEPT !.unclosed = @ \cup {t.event.id}]
  BY DEF SetStatus
<1>2. t.at = "status" /\ OnThread(t.event)
  BY DEF SetStatus, IInv, TasksKnown
<1>3. /\ t = [event |-> t.event, batch |-> t.batch, todo |-> t.todo, at |-> t.at]
      /\ t.todo \in 1..Size(t.batch)
  BY DEF IInv, TasksKnown
<1>4. Continues(t, AfterStatus(t, ok))
  BY <1>1, <1>2, <1>3 DEF SetStatus, Continues, AfterStatus, Decided
<1> QED
  BY <1>1, <1>2, <1>4, SetStatusThreads, QuietStepInv DEF SetStatus

LEMMA RemoveNoticeInv == ASSUME IInv, NEW t \in tasks, RemoveNotice(t) PROVE IInv'
<1>1. PICK ok \in BOOLEAN :
        threads' = IF ok THEN [threads EXCEPT !.noticed = @ \ {t.event.id}]
                   ELSE [threads EXCEPT !.unremoved = @ \cup {t.event.id}]
  BY DEF RemoveNotice
<1>2. t.at = "notice" /\ OnThread(t.event)
  BY DEF RemoveNotice, IInv, TasksKnown
<1>3. Continues(t, {})
  BY DEF RemoveNotice, Continues, Decided
<1> QED
  BY <1>1, <1>2, <1>3, RemoveNoticeThreads, QuietStepInv DEF RemoveNotice

LEMMA EndCommandInv == ASSUME IInv, NEW t \in tasks, EndCommand(t) PROVE IInv'
<1>1. /\ UNCHANGED <<server, known, config, file, pr, acts, handled>>
      /\ Decided /\ t.at = "command"
  BY DEF EndCommand, Decided
<1>2. PICK ending \in Endings(t) :
        /\ tasks' = (tasks \ {t}) \cup Follows(t, ending)
        /\ threads' = Noted(t, ending)
  BY DEF EndCommand
<1>3. \/ UNCHANGED <<replies, events>>
      \/ \E text \in Published(t.batch) :
            /\ replies < MaxReplies /\ replies' = replies + 1
            /\ events' = events \cup {Comment(<<"bot", replies>>, "bot", text, t.batch = "ask_line")}
  BY DEF EndCommand, Publish
<1>4. Settled /\ Settled'
  BY <1>1, <1>3, CommandsAssumption DEF IInv, Settled
<1>5. EventsKnown'
  <2>1. CASE UNCHANGED <<replies, events>>
    <3>1. Met' = Met
      BY <1>1, <2>1 DEF Met
    <3>2. \A f \in Met : Event(f)'
      BY <1>1, <1>4, <2>1, EventKept DEF IInv, EventsKnown, Settled
    <3> QED
      BY <1>1, <2>1, <3>1, <3>2 DEF IInv, EventsKnown
  <2>2. ASSUME NEW text \in Published(t.batch), replies' = replies + 1,
               events' = events \cup {Comment(<<"bot", replies>>, "bot", text, t.batch = "ask_line")}
        PROVE  EventsKnown'
    <3>1. PICK c : c = Comment(<<"bot", replies>>, "bot", text, t.batch = "ask_line")
      OBVIOUS
    <3>2. Event(c)' /\ c.id = <<"bot", replies>>
      BY <1>1, <2>2, <3>1, PublishedByBot DEF Comment
    <3>3. \A f \in Met : f.id # c.id
      BY <1>4, <3>2, NewIds DEF IInv
    <3>4. acts' >= acts /\ replies' >= replies /\ acts' \in Nat /\ replies' \in Nat
      BY <1>1, <1>4, <2>2 DEF Settled
    <3> QED
      BY <1>1, <1>4, <2>2, <3>1, <3>2, <3>3, <3>4, NewEvent DEF IInv
  <2> QED
    BY <1>3, <2>1, <2>2
<1>6. HandledSo'
  BY <1>1, HandledKept DEF IInv
<1>7. Continues(t, Follows(t, ending))
  <2>1. /\ t = [event |-> t.event, batch |-> t.batch, todo |-> t.todo, at |-> t.at]
        /\ t.todo \in 1..Size(t.batch) /\ Size(t.batch) \in Nat
    BY CommandsAssumption DEF IInv, TasksKnown, Size
  <2>2. ASSUME NEW u \in Follows(t, ending)
        PROVE  /\ u = [event |-> u.event, batch |-> u.batch, todo |-> u.todo, at |-> u.at]
               /\ u.event = t.event /\ u.batch = t.batch /\ u.todo \in 1..Size(t.batch)
               /\ u.at \in {"command", "status", "notice"}
               /\ u.at # "command" => OnThread(t.event)
    <3>1. CASE t.todo > 1
      <4>1. u = [t EXCEPT !.todo = t.todo - 1]
        BY <3>1 DEF Follows, Rest
      <4>2. /\ u = [event |-> u.event, batch |-> u.batch, todo |-> u.todo, at |-> u.at]
            /\ u.event = t.event /\ u.batch = t.batch /\ u.todo = t.todo - 1 /\ u.at = t.at
        BY <2>1, <4>1
      <4> QED
        BY <1>1, <2>1, <3>1, <4>2
    <3>2. CASE ~(t.todo > 1)
      <4>1. u = [t EXCEPT !.at = "status"] /\ OnThread(t.event)
        BY <3>2 DEF Follows, Rest
      <4>2. /\ u = [event |-> u.event, batch |-> u.batch, todo |-> u.todo, at |-> u.at]
            /\ u.event = t.event /\ u.batch = t.batch /\ u.todo = t.todo /\ u.at = "status"
        BY <2>1, <4>1
      <4> QED
        BY <2>1, <4>1, <4>2
    <3> QED
      BY <3>1, <3>2
  <2>3. \A u, v \in Follows(t, ending) : u = v
    BY DEF Follows, Rest
  <2> QED
    BY <1>1, <1>2, <2>2, <2>3 DEF Continues
<1>8. TasksKnown'
  BY <1>7, StepTasks DEF IInv
<1>9. ThreadsKnown'
  BY <1>1, <1>2, <1>7, EndCommandThreads
<1> QED
  BY <1>4, <1>5, <1>6, <1>8, <1>9 DEF IInv

LEMMA NextInv == IInv /\ [Next]_vars => IInv'
<1> SUFFICES ASSUME IInv, [Next]_vars PROVE IInv'
  OBVIOUS
<1>1. CASE UNCHANGED vars
  <2>1. \A e : Event(e)' = Event(e)
    BY <1>1 DEF vars, Event, Automatic, OfUsers, OfTheBot, UserIds, BotIds, SaidByBot
  <2>2. Decided /\ Settled' /\ Met' = Met
    BY <1>1 DEF vars, Decided, IInv, Settled, Met
  <2>3. EventsKnown'
    BY <1>1, <2>1, <2>2 DEF vars, IInv, EventsKnown
  <2>4. HandledSo' /\ TasksKnown' /\ ThreadsKnown'
    BY <1>1, <2>2, HandledKept, TasksKept, ThreadsKept DEF vars, IInv
  <2> QED
    BY <2>2, <2>3, <2>4 DEF IInv
<1>2. CASE \E e \in events : Deliver(e)
  BY <1>2, DeliverInv
<1>3. CASE \E t \in tasks : Step(t)
  BY <1>3, EndCommandInv, SetStatusInv, RemoveNoticeInv DEF Step
<1> QED
  BY <1>1, <1>2, <1>3, UsersInv, SayInv DEF Next

LEMMA Inductive == Spec => []IInv
  BY InitInv, NextInv, PTL DEF Spec

-----------------------------------------------------------------------------
(* The theorems.                                                           *)

\* Whatever the settings of the server and of the repository, an event of the
\* pull request starts exactly the commands the documentation promises, on
\* every server, but that it may start none where Withheld says so and some
\* where Unasked says so: there are no other divergences (github_app.py,
\* gitlab_webhook.py, bitbucket_app.py, bitbucket_server_webhook.py,
\* azuredevops_server_webhook.py, gitea_app.py, github_action_runner.py).
THEOREM PromisesKept == Spec => []AsPromised
  BY Inductive, InvImplies, PTL

\* However many comments of the bot are delivered back to the server, none
\* starts a command, but for the answers to questions on a line that
\* BotStartsNothing names (pr_line_questions.py:90-93 and the tests of the
\* sender in the servers).
THEOREM NoEcho == Spec => []BotStartsNothing
  BY Inductive, InvImplies, PTL

\* Every delivery is handled once, by one batch at most.  A thread is never
\* closed when an exception of its command reached the agent; one whose command
\* answered ends closed and without the notice unless a call was refused; a
\* question that the agent took for handled was answered, the other commands
\* may have caught their own exception.  However the commands of several events
\* interleave (azuredevops_server_webhook.py:39-52).
THEOREM ThreadsEndWell == Spec => []HandledWhole
  BY Inductive, InvImplies, PTL
=============================================================================
