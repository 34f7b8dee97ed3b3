-------------------------------- MODULE Polling --------------------------------
(***************************************************************************)
(* The polling server (pr_agent/servers/github_polling.py): it asks GitHub *)
(* for the unread notifications, marks each of them as read, looks for the *)
(* comment that mentions it, and starts a process per such comment.        *)
(* Between any two of its calls users may write more comments.  A comment  *)
(* is the pair of its pull request and its place there.                    *)
(***************************************************************************)
EXTENDS Integers, SequencesExt

CONSTANTS
    PRs,           \* pull requests
    MaxParallel,   \* max_allowed_parallel_tasks
    MaxScan,       \* max_comment_to_scan
    PageSize,      \* comments in the response to a request for them
    MaxComments,   \* bound on the comments written
    MaxFailures    \* bound on the calls to GitHub that fail

ASSUME PRsAssumption == IsFiniteSet(PRs)

ASSUME BoundsAssumption ==
    MaxComments \in Nat /\ MaxParallel \in Nat /\ MaxScan \in Nat
    /\ PageSize \in Nat /\ MaxFailures \in Nat

\* A comment that mentions the user, one that does not, one by the user.
Kinds == {"mention", "other", "own"}

VARIABLES
    comments,  \* comments[p]: kinds of the comments of p, oldest first
    unread,    \* unread[p]: the notification thread of p is unread
    modified,  \* something was notified since the latest response
    pc,        \* where the loop is
    batch,     \* notifications of this iteration still to go through
    handled,   \* handled_ids: latest comments looked at
    queue,     \* task_queue: see Task
    started,   \* the tasks whose processes were started so far
    failures,
    missed     \* history: mentions lost in one of the ways named below

github == <<comments, unread, modified>>
vars == <<github, pc, batch, handled, queue, started, failures, missed>>

Init ==
    /\ comments = [p \in PRs |-> <<>>]
    /\ unread = [p \in PRs |-> FALSE]
    /\ modified = FALSE
    /\ pc = "sleep"
    /\ batch = <<>>
    /\ handled = {}
    /\ queue = <<>>
    /\ started = {}
    /\ failures = 0
    /\ missed = {}

Mentions(p) == {i \in DOMAIN comments[p] : comments[p][i] = "mention"}

\* The mentions of p as a set of comments.
MentionsOf(p) == {<<p, i>> : i \in Mentions(p)}

\* The process of comment c, wanted because of comment by.
Task(c, by) == [comment |-> c, by |-> by]

Written == FoldFunction(LAMBDA s, n : Len(s) + n, 0, comments)

-----------------------------------------------------------------------------

\* A comment is written.  The thread of a pull request notifies the user of
\* a mention, and then of every later comment that is not the user's own.
Comment(p, kind) ==
    LET notifies == kind = "mention" \/ (kind = "other" /\ Mentions(p) # {})
    IN  /\ Written < MaxComments
        /\ comments' = [comments EXCEPT ![p] = Append(@, kind)]
        /\ unread' = [unread EXCEPT ![p] = @ \/ notifies]
        /\ modified' = (modified \/ notifies)
        /\ UNCHANGED <<pc, batch, handled, queue, started, failures, missed>>

\* One of a bounded number of failures.
Fails == failures < MaxFailures /\ failures' = failures + 1

\* The response to the request for notifications, which is 304 when nothing
\* was notified since the latest one: the unread threads in some order, each
\* with the latest comment it has by now.
Poll ==
    LET threads == {p \in PRs : unread[p]}
    IN  /\ pc = "sleep"
        /\ modified
        /\ modified' = FALSE
        /\ \E order \in SetToSeqs(threads) :
              batch' = [n \in DOMAIN order |->
                           [pr |-> order[n], latest |-> Len(comments[order[n]])]]
        /\ pc' = IF threads = {} THEN "sleep" ELSE "mark"
        /\ UNCHANGED <<comments, unread, handled, queue, started, failures,
                       missed>>

\* The response cannot be read, but its Last-Modified has been noted.
PollFails ==
    /\ pc = "sleep"
    /\ modified
    /\ modified' = FALSE
    /\ Fails
    /\ missed' = missed \cup UNION {MentionsOf(p) : p \in {q \in PRs : unread[q]}}
    /\ UNCHANGED <<comments, unread, pc, batch, handled, queue, started>>

\* Mentions of p written since the response was put together: the first way
\* to lose one is that its notification is marked as read unseen.
Unseen(n) == {c \in MentionsOf(n.pr) : c[2] > n.latest}

\* mark_notification_as_read: whatever the thread holds by now is read; a
\* refusal is only logged.
MarkAsRead ==
    /\ pc = "mark"
    /\ \/ /\ unread' = [unread EXCEPT ![Head(batch).pr] = FALSE]
          /\ missed' = missed \cup Unseen(Head(batch))
          /\ UNCHANGED failures
       \/ Fails /\ UNCHANGED <<unread, missed>>
    /\ pc' = "check"
    /\ UNCHANGED <<comments, modified, batch, handled, queue, started>>

\* The call raises: the iteration ends.  What it has queued is lost, and what
\* it has not come to as well, until GitHub has something new to tell.
Raise ==
    /\ Fails
    /\ pc = "mark"
    /\ pc' = "sleep"
    /\ batch' = <<>>
    /\ queue' = <<>>
    /\ missed' = missed \cup {t.comment : t \in ToSet(queue)}
                        \cup UNION {MentionsOf(n.pr) : n \in ToSet(batch)}
    /\ UNCHANGED <<github, handled, started>>

\* The loop goes on with the tasks in found added to the queue.
Advance(found) ==
    /\ queue' = queue \o found
    /\ batch' = Tail(batch)
    /\ pc' = IF Len(batch) > 1 THEN "mark" ELSE "start"
    /\ UNCHANGED <<github, started>>

\* Mutated form of Known: the ids are not looked up.
MutForgets(c) == FALSE

\* The latest comment has been looked at before.
Known(c) == c \in handled

\* is_valid_notification when its latest comment is known.
CheckKnown ==
    /\ pc = "check"
    /\ Known(<<Head(batch).pr, Head(batch).latest>>)
    /\ Advance(<<>>)
    /\ UNCHANGED <<handled, failures, missed>>

\* The latest comment or, once it is known, the previous ones cannot be read,
\* or the notification gives another reason by now: its mentions are lost.
CheckFails ==
    LET n == Head(batch)
    IN  /\ pc = "check"
        /\ Fails
        /\ missed' = missed \cup MentionsOf(n.pr)
        /\ \/ UNCHANGED handled
           \/ /\ comments[n.pr][n.latest] # "mention"
              /\ handled' = handled \cup {<<n.pr, n.latest>>}
        /\ Advance(<<>>)

\* The latest comment is a mention.
CheckLatest ==
    LET n == Head(batch)
        c == <<n.pr, n.latest>>
    IN  /\ pc = "check"
        /\ ~Known(c)
        /\ comments[n.pr][n.latest] = "mention"
        /\ handled' = handled \cup {c}
        /\ Advance(<<Task(c, c)>>)
        /\ UNCHANGED <<failures, missed>>

\* The one page of comments that is asked for begins with the oldest.
OnPage(p) == IF Len(comments[p]) <= PageSize THEN Len(comments[p]) ELSE PageSize

\* The last comments of the page, as many as are scanned, that mention the user.
Scanned(p) == {i \in Mentions(p) : i > OnPage(p) - MaxScan /\ i <= OnPage(p)}

\* Mutated form of Newest: the oldest mention is taken.
MutOldest(S) == CHOOSE i \in S : \A j \in S : i <= j

\* The comments of the page are scanned from the newest one.
Newest(S) == CHOOSE i \in S : \A j \in S : i >= j

\* The latest comment is not a mention: the newest of the previous ones that is
\* one is taken, whether or not it was handled before.
CheckPrevious ==
    LET n == Head(batch)
        c == <<n.pr, n.latest>>
        S == Scanned(n.pr)
    IN  /\ pc = "check"
        /\ ~Known(c)
        /\ comments[n.pr][n.latest] # "mention"
        /\ handled' = handled \cup {c}
        /\ Advance(IF S = {} THEN <<>> ELSE <<Task(<<n.pr, Newest(S)>>, c)>>)
        /\ UNCHANGED <<failures, missed>>

\* How many of the tasks are started: the test that ends the loop comes after
\* the start of the process with index MaxParallel + 1.
Admitted == IF Len(queue) > MaxParallel + 2 THEN MaxParallel + 2 ELSE Len(queue)

\* Processes are started, and the other tasks dropped.
Start ==
    LET now == {queue[m] : m \in 1..Admitted}
    IN  /\ pc = "start"
        /\ started' = started \cup now
        /\ missed' = missed \cup {t.comment : t \in ToSet(queue) \ now}
        /\ queue' = <<>>
        /\ pc' = "sleep"
        /\ UNCHANGED <<github, batch, handled, failures>>

Loop ==
    \/ Poll \/ PollFails \/ MarkAsRead \/ Raise
    \/ CheckKnown \/ CheckFails \/ CheckLatest \/ CheckPrevious
    \/ Start

\* Everything has been answered and nobody writes any more.
Idle ==
    /\ Written = MaxComments /\ pc = "sleep" /\ ~modified
    /\ UNCHANGED vars

Next == (\E p \in PRs, kind \in Kinds : Comment(p, kind)) \/ Loop \/ Idle

Spec == Init /\ [][Next]_vars

-----------------------------------------------------------------------------

\* A mention may be processed again when others answer it, and a notification
\* delivered again when marking it failed; but no comment is the occasion of
\* two processes, so that the server, whose processes comment themselves,
\* never feeds on one comment for ever (handled_ids, github_polling.py:90-95).
OneRunPerComment ==
    /\ \A t, u \in started : t.by = u.by => t = u
    /\ \A n \in DOMAIN queue :
          /\ \A t \in started : t.by # queue[n].by
          /\ \A m \in DOMAIN queue : queue[m].by = queue[n].by => m = n

\* A newer mention is there to be taken instead, or more comments were written
\* since than are scanned, or so many before that it is not on the page.
PassedOver(p, i) ==
    \/ \E j \in Mentions(p) : j > i
    \/ i <= OnPage(p) - MaxScan \/ i > OnPage(p)

\* Whenever the server has dealt with all it was told of, every mention has
\* had its process, unless a newer one took its place, it was out of the reach
\* of the scan (which never sees the second page of comments), or it was lost
\* in one of the ways that `missed` names: written between the response and the
\* mark, a call that failed, or more tasks than are started (polling_loop,
\* github_polling.py:185-227).
EveryMentionAnswered ==
    (pc = "sleep" /\ ~modified) =>
        \A p \in PRs : \A i \in Mentions(p) :
            \/ \E t \in started : t.comment = <<p, i>>
            \/ <<p, i>> \in missed
            \/ PassedOver(p, i)
=============================================================================
