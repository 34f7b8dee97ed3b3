---------------------------- MODULE Polling_proofs ----------------------------
(***************************************************************************)
(* Proofs about Polling, for any number of pull requests, comments and     *)
(* failures and any bounds of the tasks started and the comments scanned.  *)
(***************************************************************************)
EXTENDS Polling, FiniteSetTheorems, WellFoundedInduction, TLAPS

Places == PRs \X Nat
Tasks == [comment : Places, by : Places]
Notifications == [pr : PRs, latest : Nat]

Typed ==
    /\ comments \in [PRs -> Seq(Kinds)]
    /\ unread \in [PRs -> BOOLEAN] /\ modified \in BOOLEAN
    /\ pc \in {"sleep", "mark", "check", "start"}
    /\ batch \in Seq(Notifications)
    /\ handled \subseteq Places
    /\ queue \in Seq(Tasks) /\ started \subseteq Tasks

\* Where in the loop there are notifications to go through and tasks to start.
InPhase ==
    /\ pc \in {"mark", "check"} <=> batch # <<>>
    /\ pc = "sleep" => queue = <<>>

\* Only comments that are there have been looked at, or will be.
Exist ==
    /\ \A p \in PRs : unread[p] => comments[p] # <<>>
    /\ \A n \in ToSet(batch) : n.latest \in 1..Len(comments[n.pr])
    /\ \A c \in handled : c[2] <= Len(comments[c[1]])

\* What a task was wanted for has been looked at.
OccasionsKnown ==
    /\ \A t \in started : t.by \in handled
    /\ \A n \in DOMAIN queue : queue[n].by \in handled

\* The mention needs nothing any more but the start of what is queued.
Settled(p, i) ==
    \/ \E t \in started : t.comment = <<p, i>>
    \/ \E n \in DOMAIN queue : queue[n].comment = <<p, i>>
    \/ <<p, i>> \in missed
    \/ PassedOver(p, i)

\* A notification of this iteration, or of one to come, leads to the mention.
Announced(p, i) ==
    \/ unread[p] /\ modified
    \/ \E n \in ToSet(batch) : n.pr = p /\ i <= n.latest

\* Every mention is settled or announced; up to a comment that has been looked
\* at they are settled.
Accounted(p, i) ==
    /\ Settled(p, i) \/ Announced(p, i)
    /\ \A c \in handled : c[1] = p /\ i <= c[2] => Settled(p, i)

NoneForgotten == \A p \in PRs : \A i \in Mentions(p) : Accounted(p, i)

Bookkeeping == Typed /\ InPhase /\ Exist

IInv == Bookkeeping /\ OccasionsKnown /\ OneRunPerComment /\ NoneForgotten

-----------------------------------------------------------------------------
(* Sequences.                                                               *)

LEMMA Elements ==
    ASSUME NEW S, NEW s \in Seq(S)
    PROVE  /\ ToSet(s) = {s[n] : n \in 1..Len(s)} /\ DOMAIN s = 1..Len(s)
           /\ Len(s) \in Nat /\ \A n \in 1..Len(s) : s[n] \in S
  BY DEF ToSet

LEMMA Listed ==
    ASSUME NEW S, NEW m \in Nat, NEW s \in [1..m -> S]
    PROVE  s \in Seq(S) /\ Len(s) = m /\ DOMAIN s = 1..m
  OBVIOUS

LEMMA FirstAndRest ==
    ASSUME NEW S, NEW s \in Seq(S), s # <<>>
    PROVE  /\ Head(s) \in S /\ Head(s) \in ToSet(s)
           /\ Tail(s) \in Seq(S)
           /\ \A x \in ToSet(s) : x = Head(s) \/ x \in ToSet(Tail(s))
           /\ \A x \in ToSet(Tail(s)) : x \in ToSet(s)
           /\ Len(s) > 1 <=> Tail(s) # <<>>
<1> DEFINE rest == Tail(s)
<1>1. Len(s) \in Nat \ {0} /\ Head(s) = s[1] /\ Head(s) \in S
  OBVIOUS
<1>2. /\ rest \in Seq(S) /\ Len(rest) = Len(s) - 1
      /\ \A n \in 1..(Len(s) - 1) : rest[n] = s[n + 1]
  OBVIOUS
<1> HIDE DEF rest
<1>3. Head(s) \in ToSet(s)
  BY <1>1, Elements
<1>4. ASSUME NEW x \in ToSet(s) PROVE x = Head(s) \/ x \in ToSet(rest)
  <2>1. PICK n \in 1..Len(s) : x = s[n]
    BY <1>4, Elements
  <2>2. CASE n # 1
    <3>1. n - 1 \in 1..Len(rest) /\ rest[n - 1] = s[n]
      BY <1>1, <1>2, <2>1, <2>2
    <3> QED
      BY <1>2, <2>1, <3>1, Elements
  <2> QED
    BY <1>1, <2>1, <2>2
<1>5. ASSUME NEW x \in ToSet(rest) PROVE x \in ToSet(s)
  <2>1. PICK n \in 1..Len(rest) : x = rest[n]
    BY <1>2, <1>5, Elements
  <2>2. n + 1 \in 1..Len(s) /\ x = s[n + 1]
    BY <1>1, <1>2, <2>1
  <2> QED
    BY <2>2, Elements
<1>6. Len(s) > 1 <=> rest # <<>>
  BY <1>1, <1>2
<1> QED
  BY <1>1, <1>2, <1>3, <1>4, <1>5, <1>6 DEF rest

\* A queue with one more task.
LEMMA OneMore ==
    ASSUME NEW S, NEW s \in Seq(S), NEW x \in S, NEW more, more = s \o <<x>>
    PROVE  /\ more \in Seq(S) /\ DOMAIN more = 1..(Len(s) + 1)
           /\ \A n \in DOMAIN s : more[n] = s[n] /\ n \in DOMAIN more
           /\ more[Len(s) + 1] = x
           /\ DOMAIN s = 1..Len(s)
<1>1. <<x>> \in Seq(S) /\ Len(<<x>>) = 1 /\ <<x>>[1] = x
  OBVIOUS
<1>2. more \in Seq(S) /\ Len(more) = Len(s) + 1
  BY <1>1
<1>3. DOMAIN more = 1..(Len(s) + 1) /\ DOMAIN s = 1..Len(s) /\ Len(s) \in Nat
  BY <1>2
<1>4. \A n \in 1..Len(s) : more[n] = s[n]
  BY <1>1
<1>5. more[Len(s) + 1] = x
  BY <1>1
<1>6. \A n \in DOMAIN s : more[n] = s[n] /\ n \in DOMAIN more
  BY <1>3, <1>4
<1> QED
  BY <1>2, <1>3, <1>5, <1>6

\* A set of numbers has a least one, and a bounded one a greatest.
LEMMA Least ==
    ASSUME NEW T, T \subseteq Nat, T # {}
    PROVE  \E k \in T : \A j \in T : k <= j
<1>1. \E k \in T : \A j \in T : ~(<<j, k>> \in OpToRel(<, Nat))
  BY NatLessThanWellFounded, WFMin
<1>2. PICK k \in T : \A j \in T : ~(<<j, k>> \in OpToRel(<, Nat))
  BY <1>1
<1>3. \A j \in T : ~(j < k)
  BY <1>2 DEF OpToRel
<1> QED
  BY <1>3

LEMMA Greatest ==
    ASSUME NEW m \in Nat, NEW S, S \subseteq 1..m, S # {}
    PROVE  Newest(S) \in S /\ \A i \in S : i <= Newest(S)
<1> DEFINE T == {k \in Nat : m - k \in S}
<1>1. T # {}
  <2>1. PICK i \in S : TRUE
    OBVIOUS
  <2>2. m - i \in Nat /\ m - (m - i) = i
    BY <2>1
  <2> QED
    BY <2>1, <2>2
<1>2. T \subseteq Nat
  OBVIOUS
<1>3. PICK k \in T : \A j \in T : k <= j
  <2> HIDE DEF T
  <2> QED
    BY <1>1, <1>2, Least
<1>4. \A i \in S : m - k >= i
  <2> SUFFICES ASSUME NEW i \in S PROVE m - k >= i
    OBVIOUS
  <2>1. m - i \in Nat /\ m - (m - i) = i
    OBVIOUS
  <2>2. k <= m - i
    BY <1>3, <2>1
  <2> QED
    BY <2>1, <2>2
<1>5. \E i \in S : \A j \in S : i >= j
  BY <1>4
<1>6. Newest(S) \in S /\ \A j \in S : Newest(S) >= j
  BY <1>5 DEF Newest
<1> QED
  BY <1>6

-----------------------------------------------------------------------------
(* One task for one occasion.                                               *)

LEMMA BookkeepingInit == Init => Bookkeeping
<1> SUFFICES ASSUME Init PROVE Bookkeeping
  OBVIOUS
<1>1. comments \in [PRs -> Seq(Kinds)] /\ unread \in [PRs -> BOOLEAN]
  <2>1. <<>> \in Seq(Kinds)
    OBVIOUS
  <2> QED
    BY <2>1 DEF Init
<1>2. batch \in Seq(Notifications) /\ queue \in Seq(Tasks) /\ ToSet(batch) = {}
  BY DEF Init, ToSet
<1>3. Typed
  BY <1>1, <1>2 DEF Init, Typed
<1> QED
  BY <1>2, <1>3 DEF Init, Bookkeeping, InPhase, Exist

\* What the mentions are, and that they are there.
LEMMA MentionsExist ==
    ASSUME Typed, NEW p \in PRs
    PROVE  /\ comments[p] \in Seq(Kinds) /\ Len(comments[p]) \in Nat
           /\ \A i \in Mentions(p) : i \in 1..Len(comments[p])
  BY DEF Typed, Mentions

\* A loop step of a notification: it is done with, and the queue has perhaps
\* one task more.
LEMMA Advanced ==
    ASSUME Bookkeeping, pc = "check", NEW found, Advance(found),
           found = <<>> \/ \E t \in Tasks : found = <<t>>
    PROVE  /\ Head(batch) \in Notifications /\ Head(batch) \in ToSet(batch)
           /\ batch' \in Seq(Notifications) /\ queue' \in Seq(Tasks)
           /\ \A n \in ToSet(batch) : n = Head(batch) \/ n \in ToSet(batch')
           /\ \A n \in ToSet(batch') : n \in ToSet(batch)
           /\ InPhase'
           /\ \A n \in DOMAIN queue : n \in DOMAIN queue' /\ queue'[n] = queue[n]
           /\ \A n \in DOMAIN queue' :
                 n \in DOMAIN queue \/ (n = Len(queue) + 1 /\ found # <<>> /\ queue'[n] = found[1])
           /\ found # <<>> => /\ Len(queue) + 1 \in DOMAIN queue'
                              /\ queue'[Len(queue) + 1] = found[1]
<1>1. batch \in Seq(Notifications) /\ batch # <<>> /\ queue \in Seq(Tasks)
  BY DEF Bookkeeping, Typed, InPhase
<1>2. /\ queue' = queue \o found /\ batch' = Tail(batch)
      /\ pc' = IF Len(batch) > 1 THEN "mark" ELSE "start"
  BY DEF Advance
<1>3. /\ Head(batch) \in Notifications /\ Head(batch) \in ToSet(batch)
      /\ batch' \in Seq(Notifications)
      /\ \A n \in ToSet(batch) : n = Head(batch) \/ n \in ToSet(batch')
      /\ \A n \in ToSet(batch') : n \in ToSet(batch)
      /\ Len(batch) > 1 <=> batch' # <<>>
  BY <1>1, <1>2, FirstAndRest
<1>4. InPhase'
  BY <1>2, <1>3 DEF InPhase
<1>5. CASE found = <<>>
  <2>1. queue' = queue
    BY <1>1, <1>2, <1>5
  <2> QED
    BY <1>1, <1>3, <1>4, <1>5, <2>1
<1>6. CASE \E t \in Tasks : found = <<t>>
  <2>1. PICK t \in Tasks : found = <<t>>
    BY <1>6
  <2>2. found # <<>> /\ found[1] = t
    BY <2>1
  <2>3. /\ queue' \in Seq(Tasks) /\ DOMAIN queue' = 1..(Len(queue) + 1)
        /\ \A n \in DOMAIN queue : queue'[n] = queue[n] /\ n \in DOMAIN queue'
        /\ queue'[Len(queue) + 1] = t
        /\ DOMAIN queue = 1..Len(queue)
    BY <1>1, <1>2, <2>1, OneMore
  <2>4. Len(queue) \in Nat
    BY <1>1
  <2> QED
    BY <1>3, <1>4, <2>2, <2>3, <2>4
<1> QED
  BY <1>3, <1>4, <1>5, <1>6

\* What a look at a notification amounts to.
LEMMA Looked ==
    ASSUME Bookkeeping, CheckKnown \/ CheckFails \/ CheckLatest \/ CheckPrevious
    PROVE  /\ pc = "check" /\ missed \subseteq missed'
           /\ \E found :
                 /\ Advance(found)
                 /\ LET n == Head(batch)
                        c == <<n.pr, n.latest>>
                    IN  \/ found = <<>> /\ handled' \in {handled, handled \cup {c}}
                        \/ /\ c \notin handled /\ handled' = handled \cup {c}
                           /\ \E i \in Mentions(n.pr) : found = <<Task(<<n.pr, i>>, c)>>
<1> DEFINE n == Head(batch)
           c == <<n.pr, n.latest>>
<1>1. CASE CheckKnown
  BY <1>1 DEF CheckKnown
<1>2. CASE CheckFails
  BY <1>2 DEF CheckFails
<1>3. (n \in Notifications /\ n \in ToSet(batch)) \/ pc # "check"
  BY FirstAndRest DEF Bookkeeping, Typed, InPhase
<1>4. CASE CheckLatest
  <2>1. n.pr \in PRs /\ n.latest \in 1..Len(comments[n.pr])
    BY <1>3, <1>4 DEF CheckLatest, Notifications, Bookkeeping, Exist
  <2>2. n.latest \in Mentions(n.pr)
    BY <1>4, <2>1, MentionsExist DEF CheckLatest, Mentions, Bookkeeping
  <2> QED
    BY <1>4, <2>2 DEF CheckLatest, Known
<1>5. CASE CheckPrevious
  <2>1. n.pr \in PRs
    BY <1>3, <1>5 DEF CheckPrevious, Notifications
  <2>2. Scanned(n.pr) \subseteq Mentions(n.pr)
    BY DEF Scanned
  <2>3. Scanned(n.pr) # {} => Newest(Scanned(n.pr)) \in Scanned(n.pr)
    BY <2>1, <2>2, MentionsExist, Greatest DEF Bookkeeping
  <2> QED
    BY <1>5, <2>2, <2>3 DEF CheckPrevious, Known
<1> QED
  BY <1>1, <1>2, <1>4, <1>5

\* The steps other than comments leave those alone.
LEMMA CommentsStay ==
    ASSUME Loop \/ Idle \/ UNCHANGED vars
    PROVE  comments' = comments
  BY DEF Loop, Poll, PollFails, MarkAsRead, Raise, CheckKnown, CheckFails,
         CheckLatest, CheckPrevious, Advance, Start, Idle, vars, github

\* What a response holds: each unread thread with its comments so far.
LEMMA Response ==
    ASSUME Typed, Poll
    PROVE  /\ batch' \in Seq(Notifications)
           /\ \A n \in ToSet(batch') : unread[n.pr] /\ n.latest = Len(comments[n.pr])
           /\ \A p \in PRs : unread[p] => \E n \in ToSet(batch') : n.pr = p
           /\ pc' = IF batch' = <<>> THEN "sleep" ELSE "mark"
<1> DEFINE threads == {p \in PRs : unread[p]}
<1>1. PICK order \in SetToSeqs(threads) :
          batch' = [n \in DOMAIN order |->
                      [pr |-> order[n], latest |-> Len(comments[order[n]])]]
  BY DEF Poll
<1>2. IsFiniteSet(threads) /\ Cardinality(threads) \in Nat
  BY PRsAssumption, FS_Subset, FS_CardinalityType
<1>3. /\ order \in [1..Cardinality(threads) -> threads]
      /\ \A i, j \in 1..Cardinality(threads) : i # j => order[i] # order[j]
  BY DEF SetToSeqs
<1>4. \A p \in threads : \E i \in 1..Cardinality(threads) : order[i] = p
  <2> DEFINE D == 1..Cardinality(threads)
  <2>1. order \in Injection(D, threads)
    BY <1>3 DEF Injection, IsInjective
  <2>2. Cardinality(D) = Cardinality(threads)
    BY <1>2, FS_Interval
  <2>3. order \in Surjection(D, threads)
    BY <1>2, <2>1, <2>2, FS_Injection
  <2> QED
    BY <2>3 DEF Surjection
<1>5. \A p \in threads : Len(comments[p]) \in Nat
  BY DEF Typed
<1>6. /\ batch' \in Seq(Notifications) /\ DOMAIN batch' = 1..Cardinality(threads)
      /\ Len(batch') = Cardinality(threads)
  <2>1. DOMAIN order = 1..Cardinality(threads)
    BY <1>3
  <2>2. batch' = [n \in 1..Cardinality(threads) |->
                     [pr |-> order[n], latest |-> Len(comments[order[n]])]]
    BY <1>1, <2>1
  <2>3. \A n \in 1..Cardinality(threads) :
           [pr |-> order[n], latest |-> Len(comments[order[n]])] \in Notifications
    BY <1>3, <1>5 DEF Notifications
  <2>4. batch' \in [1..Cardinality(threads) -> Notifications]
    BY <2>2, <2>3
  <2> QED
    BY <1>2, <2>4, Listed
<1>10. \A n \in 1..Cardinality(threads) :
          batch'[n] = [pr |-> order[n], latest |-> Len(comments[order[n]])]
  BY <1>1, <1>3
<1>11. \A p \in threads : unread[p]
  OBVIOUS
<1> HIDE DEF threads
<1>7. \A n \in ToSet(batch') : unread[n.pr] /\ n.latest = Len(comments[n.pr])
  <2> SUFFICES ASSUME NEW n \in 1..Cardinality(threads)
               PROVE  unread[batch'[n].pr] /\ batch'[n].latest = Len(comments[batch'[n].pr])
    BY <1>6 DEF ToSet
  <2>1. batch'[n] = [pr |-> order[n], latest |-> Len(comments[order[n]])]
    BY <1>10
  <2>2. order[n] \in threads
    BY <1>3
  <2> QED
    BY <1>11, <2>1, <2>2
<1>8. \A p \in threads : \E n \in ToSet(batch') : n.pr = p
  <2> SUFFICES ASSUME NEW p \in threads PROVE \E n \in ToSet(batch') : n.pr = p
    OBVIOUS
  <2>1. PICK i \in 1..Cardinality(threads) : order[i] = p
    BY <1>4
  <2>2. batch'[i] \in ToSet(batch')
    BY <1>6 DEF ToSet
  <2>3. batch'[i] = [pr |-> order[i], latest |-> Len(comments[order[i]])]
    BY <1>10
  <2>4. batch'[i].pr = p
    BY <2>1, <2>3
  <2> QED
    BY <2>2, <2>4
<1>9. batch' = <<>> <=> threads = {}
  <2>1. batch' = <<>> => threads = {}
    BY <1>8 DEF ToSet
  <2>2. threads = {} => batch' = <<>>
    <3>1. ASSUME threads = {} PROVE Len(batch') = 0
      BY <1>6, <3>1, FS_EmptySet
    <3> QED
      BY <1>6, <3>1
  <2> QED
    BY <2>1, <2>2
<1> QED
  BY <1>6, <1>7, <1>8, <1>9 DEF Poll, threads

\* What a new comment changes: one more, and perhaps something to be notified.
LEMMA Commented ==
    ASSUME Typed, NEW p \in PRs, NEW kind \in Kinds, Comment(p, kind)
    PROVE  /\ comments' \in [PRs -> Seq(Kinds)] /\ unread' \in [PRs -> BOOLEAN]
           /\ modified' \in BOOLEAN
           /\ \A q \in PRs :
                 /\ Len(comments'[q]) >= Len(comments[q])
                 /\ \A i \in 1..Len(comments[q]) : comments'[q][i] = comments[q][i]
                 /\ unread'[q] => unread[q] \/ comments'[q] # <<>>
                 /\ unread[q] => unread'[q]
                 /\ \A i \in Mentions(q)' : i \in Mentions(q) \/ (unread'[q] /\ modified')
           /\ modified => modified'
           /\ UNCHANGED <<pc, batch, handled, queue, started, missed>>
<1> DEFINE notifies == kind = "mention" \/ (kind = "other" /\ Mentions(p) # {})
<1>1. /\ comments' = [comments EXCEPT ![p] = Append(@, kind)]
      /\ unread' = [unread EXCEPT ![p] = @ \/ notifies]
      /\ modified' = (modified \/ notifies)
      /\ UNCHANGED <<pc, batch, handled, queue, started, missed>>
  BY DEF Comment
<1>2. \A q \in PRs : comments[q] \in Seq(Kinds)
  BY DEF Typed
<1>3. comments'[p] = Append(comments[p], kind) /\ \A q \in PRs \ {p} : comments'[q] = comments[q]
  BY <1>1 DEF Typed
<1>4. comments' \in [PRs -> Seq(Kinds)]
  BY <1>1, <1>2 DEF Typed
<1>5. /\ unread' \in [PRs -> BOOLEAN] /\ modified' \in BOOLEAN
      /\ unread'[p] = (unread[p] \/ notifies)
      /\ \A q \in PRs \ {p} : unread'[q] = unread[q]
  BY <1>1, Zenon DEF Typed
<1>6. /\ Len(comments'[p]) = Len(comments[p]) + 1 /\ Len(comments[p]) \in Nat
      /\ comments'[p] # <<>>
      /\ \A i \in 1..Len(comments[p]) : comments'[p][i] = comments[p][i]
      /\ comments'[p][Len(comments[p]) + 1] = kind
      /\ DOMAIN comments'[p] = 1..(Len(comments[p]) + 1)
      /\ DOMAIN comments[p] = 1..Len(comments[p])
  BY <1>2, <1>3
<1>7. \A q \in PRs : Len(comments[q]) \in Nat
  BY <1>2
<1>8. ASSUME NEW i \in Mentions(p)', i \notin Mentions(p)
      PROVE  unread'[p] /\ modified'
  <2>1. kind = "mention"
    BY <1>6, <1>8 DEF Mentions
  <2> QED
    BY <1>1, <1>5, <2>1
<1>9. \A q \in PRs \ {p} : Mentions(q)' = Mentions(q)
  BY <1>3 DEF Mentions
<1>10. ASSUME NEW q \in PRs
       PROVE  /\ Len(comments'[q]) >= Len(comments[q])
              /\ \A i \in 1..Len(comments[q]) : comments'[q][i] = comments[q][i]
              /\ unread'[q] => unread[q] \/ comments'[q] # <<>>
              /\ unread[q] => unread'[q]
              /\ \A i \in Mentions(q)' : i \in Mentions(q) \/ (unread'[q] /\ modified')
  <2>1. CASE q = p
    BY <1>5, <1>6, <1>8, <2>1
  <2>2. CASE q # p
    BY <1>3, <1>5, <1>7, <1>9, <2>2
  <2> QED
    BY <2>1, <2>2
<1>11. modified => modified'
  BY <1>1
<1> HIDE DEF notifies
<1> QED
  BY <1>1, <1>4, <1>5, <1>10, <1>11

LEMMA BookkeepingStep == Bookkeeping /\ [Next]_vars => Bookkeeping'
<1> SUFFICES ASSUME Bookkeeping, [Next]_vars PROVE Bookkeeping'
  OBVIOUS
<1> USE DEF Bookkeeping
<1>1. CASE UNCHANGED vars \/ Idle
  BY <1>1 DEF Idle, vars, github, Typed, InPhase, Exist, ToSet
<1>2. ASSUME NEW p \in PRs, NEW kind \in Kinds, Comment(p, kind) PROVE Bookkeeping'
  <2>1. Typed'
    BY <1>2, Commented DEF Typed
  <2>2. InPhase'
    BY <1>2, Commented DEF InPhase
  <2>3. ASSUME NEW q \in PRs, unread'[q] PROVE comments'[q] # <<>>
    <3>1. CASE unread[q]
      <4>1. comments[q] # <<>> /\ comments[q] \in Seq(Kinds) /\ comments'[q] \in Seq(Kinds)
        BY <1>2, <3>1, Commented DEF Exist, Typed
      <4>2. Len(comments'[q]) >= Len(comments[q])
        BY <1>2, Commented
      <4> QED
        BY <4>1, <4>2
    <3> QED
      BY <1>2, <2>3, <3>1, Commented
  <2>4. /\ \A n \in ToSet(batch) : n.pr \in PRs
        /\ \A c \in handled : c[1] \in PRs /\ c[2] \in Nat
        /\ \A q \in PRs : Len(comments[q]) \in Nat /\ Len(comments'[q]) \in Nat
        /\ \A q \in PRs : Len(comments'[q]) >= Len(comments[q])
    <3>1. \A q \in PRs : comments[q] \in Seq(Kinds) /\ comments'[q] \in Seq(Kinds)
      BY <1>2, Commented DEF Typed
    <3>2. \A n \in ToSet(batch) : n.pr \in PRs
      <4>1. \A n \in ToSet(batch) : n \in Notifications
        BY Elements DEF Typed
      <4> QED
        BY <4>1 DEF Notifications
    <3> QED
      BY <1>2, <3>1, <3>2, Commented DEF Typed, Places
  <2>5. /\ \A n \in ToSet(batch) : n.latest \in 1..Len(comments'[n.pr])
        /\ \A c \in handled : c[2] <= Len(comments'[c[1]])
    BY <2>4 DEF Exist
  <2>6. batch' = batch /\ handled' = handled
    BY <1>2, Commented
  <2>7. Exist'
    BY <2>3, <2>5, <2>6 DEF Exist
  <2> QED
    BY <2>1, <2>2, <2>7
<1>3. CASE Poll
  <2>1. UNCHANGED <<comments, unread, handled, queue, started>> /\ modified' = FALSE
    BY <1>3 DEF Poll
  <2>2. pc = "sleep"
    BY <1>3 DEF Poll
  <2>3. Typed' /\ InPhase'
    BY <1>3, <2>1, <2>2, Response DEF Typed, InPhase
  <2>4. ASSUME NEW n \in ToSet(batch') PROVE n.latest \in 1..Len(comments[n.pr])
    <3>1. n.pr \in PRs
      <4>1. batch' \in Seq(Notifications)
        BY <2>3 DEF Typed
      <4>2. n \in Notifications
        BY <2>4, <4>1, Elements
      <4> QED
        BY <4>2 DEF Notifications
    <3>2. comments[n.pr] # <<>> /\ comments[n.pr] \in Seq(Kinds)
      BY <1>3, <2>4, <3>1, Response DEF Exist, Typed
    <3> QED
      BY <1>3, <2>4, <3>2, Response
  <2> QED
    BY <2>1, <2>3, <2>4 DEF Exist
<1>4. CASE PollFails
  BY <1>4 DEF PollFails, Typed, InPhase, Exist, ToSet
<1>5. CASE MarkAsRead
  <2>1. UNCHANGED <<comments, modified, batch, handled, queue, started>> /\ pc = "mark" /\ pc' = "check"
    BY <1>5 DEF MarkAsRead
  <2>2. unread' \in [PRs -> BOOLEAN] /\ \A p \in PRs : unread'[p] => unread[p]
    BY <1>5, Zenon DEF MarkAsRead, Typed
  <2> QED
    BY <2>1, <2>2 DEF Typed, InPhase, Exist
<1>6. CASE Raise
  BY <1>6 DEF Raise, github, Typed, InPhase, Exist, ToSet
<1>7. CASE CheckKnown \/ CheckFails \/ CheckLatest \/ CheckPrevious
  <2>1. PICK found :
           /\ Advance(found)
           /\ found = <<>> \/ \E t \in Tasks : found = <<t>>
           /\ handled' \in {handled, handled \cup {<<Head(batch).pr, Head(batch).latest>>}}
    <3>1. Head(batch) \in Notifications
      BY <1>7, Looked, FirstAndRest DEF Typed, InPhase
    <3>2. \A i \in Mentions(Head(batch).pr) :
              Task(<<Head(batch).pr, i>>, <<Head(batch).pr, Head(batch).latest>>) \in Tasks
      BY <3>1, MentionsExist DEF Task, Tasks, Places, Notifications
    <3> QED
      BY <1>7, <3>2, Looked
  <2>2. pc = "check"
    BY <1>7, Looked
  <2>3. /\ Head(batch) \in Notifications /\ Head(batch) \in ToSet(batch)
        /\ batch' \in Seq(Notifications) /\ queue' \in Seq(Tasks) /\ InPhase'
        /\ \A n \in ToSet(batch') : n \in ToSet(batch)
    BY <2>1, <2>2, Advanced
  <2>4. UNCHANGED <<comments, unread, modified, started>> /\ pc' \in {"mark", "start"}
    BY <2>1 DEF Advance, github
  <2>5. Typed'
    BY <2>1, <2>3, <2>4 DEF Typed, Places, Notifications
  <2>6. Exist'
    BY <2>1, <2>3, <2>4 DEF Exist
  <2> QED
    BY <2>3, <2>5, <2>6
<1>8. CASE Start
  <2>1. /\ UNCHANGED <<comments, unread, modified, batch, handled>>
        /\ pc = "start" /\ pc' = "sleep" /\ queue' = <<>>
        /\ started' = started \cup {queue[m] : m \in 1..Admitted}
    BY <1>8 DEF Start, github
  <2>2. {queue[m] : m \in 1..Admitted} \subseteq Tasks
    <3>1. 1..Admitted \subseteq 1..Len(queue) /\ queue \in Seq(Tasks)
      BY BoundsAssumption DEF Admitted, Typed
    <3> QED
      BY <3>1
  <2> QED
    BY <2>1, <2>2 DEF Typed, InPhase, Exist
<1> QED
  BY <1>1, <1>2, <1>3, <1>4, <1>5, <1>6, <1>7, <1>8 DEF Next, Loop

\* What a look at a notification adds, if anything: a task for a comment that
\* had not been looked at.
LEMMA TaskAdded ==
    ASSUME Bookkeeping, CheckKnown \/ CheckFails \/ CheckLatest \/ CheckPrevious
    PROVE  /\ handled \subseteq handled' /\ started' = started
           /\ \A n \in DOMAIN queue : n \in DOMAIN queue' /\ queue'[n] = queue[n]
           /\ \A n \in DOMAIN queue' : n \notin DOMAIN queue =>
                 n = Len(queue) + 1 /\ queue'[n].by \in handled' \ handled
<1> DEFINE n == Head(batch)
           c == <<n.pr, n.latest>>
<1>1. pc = "check"
  BY Looked
<1>2. n \in Notifications
  BY <1>1, FirstAndRest DEF Bookkeeping, Typed, InPhase
<1>3. PICK found :
         /\ Advance(found)
         /\ \/ found = <<>> /\ handled' \in {handled, handled \cup {c}}
            \/ /\ c \notin handled /\ handled' = handled \cup {c}
               /\ \E i \in Mentions(n.pr) : found = <<Task(<<n.pr, i>>, c)>>
  BY Looked
<1>4. found # <<>> => found[1] \in Tasks /\ found = <<found[1]>> /\ found[1].by = c
  <2>1. ASSUME NEW i \in Mentions(n.pr) PROVE Task(<<n.pr, i>>, c) \in Tasks
    BY <1>2, MentionsExist DEF Task, Tasks, Places, Notifications, Bookkeeping
  <2> QED
    BY <1>3, <2>1 DEF Task
<1>5. found = <<>> \/ \E t \in Tasks : found = <<t>>
  BY <1>4
<1>6. /\ \A m \in DOMAIN queue : m \in DOMAIN queue' /\ queue'[m] = queue[m]
      /\ \A m \in DOMAIN queue' :
            m \in DOMAIN queue \/ (m = Len(queue) + 1 /\ found # <<>> /\ queue'[m] = found[1])
  BY <1>1, <1>3, <1>5, Advanced
<1>7. started' = started
  BY <1>3 DEF Advance
<1>8. found # <<>> => c \in handled' /\ c \notin handled
  BY <1>3
<1>9. handled \subseteq handled'
  BY <1>3
<1> HIDE DEF c
<1> QED
  BY <1>4, <1>6, <1>7, <1>8, <1>9

LEMMA OccasionsStep ==
    ASSUME Bookkeeping, OccasionsKnown, OneRunPerComment, [Next]_vars
    PROVE  OccasionsKnown' /\ OneRunPerComment'
<1> USE DEF OccasionsKnown, OneRunPerComment
<1>1. CASE UNCHANGED <<queue, started, handled>>
  BY <1>1
<1>2. CASE Poll \/ PollFails \/ MarkAsRead \/ Idle \/ UNCHANGED vars
           \/ \E p \in PRs, kind \in Kinds : Comment(p, kind)
  BY <1>1, <1>2 DEF Poll, PollFails, MarkAsRead, Idle, Comment, vars
<1>3. CASE Raise
  BY <1>3 DEF Raise
<1>4. CASE CheckKnown \/ CheckFails \/ CheckLatest \/ CheckPrevious
  <2>1. OccasionsKnown'
    BY <1>4, TaskAdded
  <2>2. ASSUME NEW n \in DOMAIN queue', n \notin DOMAIN queue
        PROVE  /\ \A t \in started : t.by # queue'[n].by
               /\ \A m \in DOMAIN queue : queue'[m].by # queue'[n].by
    BY <1>4, <2>2, TaskAdded
  <2>3. ASSUME NEW n \in DOMAIN queue', NEW m \in DOMAIN queue',
               queue'[m].by = queue'[n].by
        PROVE  m = n
    <3>1. CASE n \notin DOMAIN queue
      BY <1>4, <2>2, <2>3, <3>1, TaskAdded
    <3>2. CASE n \in DOMAIN queue
      BY <1>4, <2>2, <2>3, <3>2, TaskAdded
    <3> QED
      BY <3>1, <3>2
  <2>4. \A n \in DOMAIN queue' : \A t \in started' : t.by # queue'[n].by
    BY <1>4, <2>2, TaskAdded
  <2>5. started' = started
    BY <1>4, TaskAdded
  <2> QED
    BY <2>1, <2>3, <2>4, <2>5
<1>5. CASE Start
  <2>1. /\ started' = started \cup {queue[m] : m \in 1..Admitted}
        /\ queue' = <<>> /\ handled' = handled
    BY <1>5 DEF Start
  <2>2. 1..Admitted \subseteq DOMAIN queue
    BY BoundsAssumption DEF Admitted, Bookkeeping, Typed
  <2>3. ASSUME NEW t \in started', NEW u \in started', t.by = u.by PROVE t = u
    BY <2>1, <2>2, <2>3
  <2> QED
    BY <2>1, <2>2, <2>3
<1> QED
  BY <1>2, <1>3, <1>4, <1>5 DEF Next, Loop

-----------------------------------------------------------------------------
(* No mention is forgotten.                                                 *)

\* Settled mentions stay so, if what is queued is kept, started or missed.
LEMMA SettledStays ==
    ASSUME comments' = comments, started \subseteq started', missed \subseteq missed',
           \A n \in DOMAIN queue : \/ n \in DOMAIN queue' /\ queue'[n] = queue[n]
                                   \/ queue[n] \in started'
                                   \/ queue[n].comment \in missed',
           NEW p \in PRs, NEW i \in Nat, Settled(p, i)
    PROVE  Settled(p, i)'
<1>1. PassedOver(p, i)' = PassedOver(p, i)
  BY DEF PassedOver, OnPage, Mentions
<1> QED
  BY <1>1 DEF Settled

\* Up to the latest comment of a notification that has been looked at, all the
\* mentions are settled.
LEMMA HeadSettled ==
    ASSUME Bookkeeping, NoneForgotten,
           CheckKnown \/ CheckFails \/ CheckLatest \/ CheckPrevious,
           NEW n, n = Head(batch), NEW p, p = n.pr,
           NEW i \in Mentions(p), i <= n.latest
    PROVE  Settled(p, i)'
<1> DEFINE c == <<p, n.latest>>
<1>1. pc = "check" /\ batch # <<>>
  BY Looked DEF Bookkeeping, InPhase
<1>2. n \in Notifications /\ n \in ToSet(batch)
  BY <1>1, FirstAndRest DEF Bookkeeping, Typed
<1>3. p \in PRs /\ n.latest \in 1..Len(comments[p])
  BY <1>2 DEF Notifications, Bookkeeping, Exist
<1>4. comments' = comments
  BY CommentsStay DEF Loop
<1>5. \A j \in Mentions(p) : j \in 1..Len(comments[p]) /\ Len(comments[p]) \in Nat
  BY <1>3, MentionsExist DEF Bookkeeping
<1>6. Mentions(p)' = Mentions(p) /\ PassedOver(p, i)' = PassedOver(p, i)
  BY <1>4 DEF Mentions, PassedOver, OnPage
<1>7. CASE CheckKnown
  <2>1. c \in handled
    BY <1>7 DEF CheckKnown, Known
  <2>2. Settled(p, i)
    <3>1. c[1] = p /\ c[2] = n.latest
      OBVIOUS
    <3> QED
      BY <1>3, <2>1, <3>1 DEF NoneForgotten, Accounted
  <2>3. queue' = queue /\ UNCHANGED <<started, missed>>
    <3>1. queue' = queue \o <<>> /\ UNCHANGED <<started, missed>>
      BY <1>7 DEF CheckKnown, Advance
    <3> QED
      BY <3>1 DEF Bookkeeping, Typed
  <2> QED
    BY <1>3, <1>4, <1>5, <2>2, <2>3, SettledStays
<1>8. CASE CheckFails
  BY <1>8 DEF CheckFails, MentionsOf, Settled
<1>9. ASSUME NEW j \in Mentions(p), Advance(<<Task(<<p, j>>, c)>>), i <= j
      PROVE  Settled(p, i)'
  <2> DEFINE t == Task(<<p, j>>, c)
  <2>1. t \in Tasks /\ t.comment = <<p, j>>
    BY <1>2, <1>3, <1>5 DEF Task, Tasks, Places, Notifications
  <2>2. queue' = queue \o <<t>> /\ queue \in Seq(Tasks)
    BY <1>9 DEF Advance, Bookkeeping, Typed
  <2> HIDE DEF t
  <2>3. Len(queue) + 1 \in DOMAIN queue' /\ queue'[Len(queue) + 1] = t
    <3>1. DOMAIN queue' = 1..(Len(queue) + 1) /\ queue'[Len(queue) + 1] = t
      BY <2>1, <2>2, OneMore
    <3> QED
      BY <2>2, <3>1
  <2>4. CASE i = j
    BY <2>1, <2>3, <2>4 DEF Settled
  <2>5. CASE i # j
    <3>1. j > i
      BY <1>5, <1>9, <2>5
    <3> QED
      BY <1>6, <3>1 DEF PassedOver, Settled
  <2> QED
    BY <2>4, <2>5
<1>10. CASE CheckLatest
  <2>1. n.latest \in Mentions(p)
    BY <1>3, <1>10 DEF CheckLatest, Mentions, Bookkeeping, Typed
  <2>2. Advance(<<Task(<<p, n.latest>>, c)>>)
    BY <1>10 DEF CheckLatest
  <2> QED
    BY <1>9, <2>1, <2>2
<1>11. CASE CheckPrevious
  <2> DEFINE S == Scanned(p)
  <2>1. CASE i \in S
    <3>1. /\ Newest(S) \in S /\ i <= Newest(S) /\ Newest(S) \in Mentions(p)
      <4>1. S \subseteq 1..Len(comments[p]) /\ S \subseteq Mentions(p) /\ Len(comments[p]) \in Nat
        BY <1>5 DEF Scanned
      <4> QED
        BY <2>1, <4>1, Greatest
    <3>2. Advance(<<Task(<<p, Newest(S)>>, c)>>)
      BY <1>11, <2>1 DEF CheckPrevious
    <3> QED
      BY <1>9, <3>1, <3>2
  <2>2. CASE i \notin S
    <3>1. i <= OnPage(p) - MaxScan \/ i > OnPage(p)
      BY <1>5, <2>2, BoundsAssumption DEF Scanned, OnPage
    <3> QED
      BY <1>6, <3>1 DEF PassedOver, Settled, OnPage
  <2> QED
    BY <2>1, <2>2
<1> QED
  BY <1>7, <1>8, <1>10, <1>11

\* What is passed over stays so when comments are added.
LEMMA PassedOverStays ==
    ASSUME Typed, NEW q \in PRs, NEW kind \in Kinds, Comment(q, kind),
           NEW p \in PRs, NEW i \in Mentions(p), PassedOver(p, i)
    PROVE  PassedOver(p, i)'
<1>1. comments[p] \in Seq(Kinds) /\ comments'[p] \in Seq(Kinds)
  BY Commented DEF Typed
<1>2. /\ Len(comments[p]) \in Nat /\ Len(comments'[p]) \in Nat
      /\ Len(comments'[p]) >= Len(comments[p])
  BY <1>1, Commented
<1>3. ASSUME NEW j \in Mentions(p) PROVE j \in Mentions(p)'
  <2>1. j \in 1..Len(comments[p]) /\ comments[p][j] = "mention"
    BY <1>1 DEF Mentions
  <2>2. comments'[p][j] = "mention" /\ j \in DOMAIN comments'[p]
    BY <1>1, <1>2, <2>1, Commented
  <2> QED
    BY <2>2 DEF Mentions
<1>4. i \in 1..Len(comments[p])
  BY <1>1 DEF Mentions
<1>5. CASE i <= OnPage(p) - MaxScan \/ i > OnPage(p)
  <2>1. i <= OnPage(p)' - MaxScan \/ i > OnPage(p)'
    BY <1>2, <1>4, <1>5, BoundsAssumption DEF OnPage
  <2> QED
    BY <2>1 DEF PassedOver
<1> QED
  BY <1>3, <1>5 DEF PassedOver

LEMMA NoneForgottenStep ==
    ASSUME Bookkeeping, Bookkeeping', NoneForgotten, [Next]_vars
    PROVE  NoneForgotten'
<1> SUFFICES ASSUME NEW p \in PRs, NEW i \in Mentions(p)' PROVE Accounted(p, i)'
  BY DEF NoneForgotten
<1>1. \A j \in Mentions(p) : j \in 1..Len(comments[p]) /\ j \in Nat
  BY MentionsExist DEF Bookkeeping
<1>2. ASSUME comments' = comments
      PROVE  /\ i \in Mentions(p) /\ Accounted(p, i) /\ i \in Nat
             /\ Len(comments[p]) \in Nat /\ i <= Len(comments[p])
  <2>1. i \in Mentions(p)
    BY <1>2 DEF Mentions
  <2>2. Len(comments[p]) \in Nat
    BY MentionsExist DEF Bookkeeping
  <2> QED
    BY <1>1, <2>1, <2>2 DEF NoneForgotten
<1>3. ASSUME NEW q \in PRs, NEW kind \in Kinds, Comment(q, kind) PROVE Accounted(p, i)'
  <2>1. UNCHANGED <<batch, handled, queue, started, missed>>
    BY <1>3, Commented DEF Bookkeeping
  <2>2. /\ \A j \in Mentions(p)' : j \in Mentions(p) \/ (unread'[p] /\ modified')
        /\ unread[p] => unread'[p]
        /\ modified => modified'
    BY <1>3, Commented DEF Bookkeeping
  <2>3. CASE i \in Mentions(p)
    <3>1. Settled(p, i) => Settled(p, i)'
      BY <1>3, <2>1, <2>3, PassedOverStays DEF Settled, Bookkeeping
    <3>2. Announced(p, i) => Announced(p, i)'
      BY <2>1, <2>2 DEF Announced
    <3>3. Accounted(p, i)
      BY <2>3 DEF NoneForgotten
    <3> QED
      BY <2>1, <3>1, <3>2, <3>3 DEF Accounted
  <2>4. CASE i \notin Mentions(p)
    <3>1. Announced(p, i)'
      BY <2>2, <2>4 DEF Announced
    <3>2. ASSUME NEW c \in handled, c[1] = p PROVE ~(i <= c[2])
      <4>1. c[2] <= Len(comments[p]) /\ c[2] \in Nat
        BY <3>2 DEF Bookkeeping, Exist, Typed, Places
      <4>2. i \in 1..Len(comments'[p]) /\ comments'[p][i] = "mention"
        <5>1. comments'[p] \in Seq(Kinds)
          BY <1>3, Commented DEF Bookkeeping
        <5> QED
          BY <5>1 DEF Mentions
      <4>3. comments[p] \in Seq(Kinds) /\ Len(comments[p]) \in Nat
        BY MentionsExist DEF Bookkeeping
      <4>4. i \notin 1..Len(comments[p])
        <5>1. ASSUME i \in 1..Len(comments[p]) PROVE FALSE
          <6>1. comments[p][i] = "mention" /\ i \in DOMAIN comments[p]
            BY <1>3, <4>2, <4>3, <5>1, Commented DEF Bookkeeping
          <6> QED
            BY <2>4, <6>1 DEF Mentions
        <5> QED
          BY <5>1
      <4> QED
        BY <4>1, <4>2, <4>3, <4>4
    <3> QED
      BY <2>1, <3>1, <3>2 DEF Accounted
  <2> QED
    BY <2>3, <2>4
<1>4. ASSUME comments' = comments, started \subseteq started', missed \subseteq missed',
             \A n \in DOMAIN queue : \/ n \in DOMAIN queue' /\ queue'[n] = queue[n]
                                     \/ queue[n] \in started'
                                     \/ queue[n].comment \in missed',
             Announced(p, i) => Announced(p, i)' \/ Settled(p, i)',
             \A c \in handled' \ handled : c[1] = p /\ i <= c[2] => Settled(p, i)'
      PROVE  Accounted(p, i)'
  <2>1. Settled(p, i) => Settled(p, i)'
    BY <1>2, <1>4, SettledStays
  <2> QED
    BY <1>2, <1>4, <2>1 DEF Accounted
<1>5. CASE UNCHANGED vars \/ Idle
  <2>1. UNCHANGED <<comments, unread, modified, batch, handled, queue, started, missed>>
    BY <1>5 DEF Idle, vars, github
  <2>2. Announced(p, i) => Announced(p, i)'
    BY <2>1 DEF Announced
  <2> QED
    BY <1>4, <2>1, <2>2
<1>6. CASE Poll
  <2>1. /\ UNCHANGED <<comments, handled, queue, started, missed>> /\ pc = "sleep"
        /\ batch = <<>>
    BY <1>6 DEF Poll, Bookkeeping, InPhase
  <2>2. ASSUME Announced(p, i) PROVE Announced(p, i)'
    <3>1. unread[p]
      BY <2>1, <2>2 DEF Announced, ToSet
    <3>2. \E n \in ToSet(batch') : n.pr = p /\ n.latest = Len(comments[p])
      BY <1>6, <3>1, Response DEF Bookkeeping
    <3> QED
      BY <1>2, <2>1, <3>2 DEF Announced
  <2> QED
    BY <1>4, <2>1, <2>2
<1>7. CASE PollFails
  <2>1. /\ UNCHANGED <<comments, handled, queue, started>> /\ batch = <<>>
        /\ missed' = missed \cup UNION {MentionsOf(q) : q \in {r \in PRs : unread[r]}}
    BY <1>7 DEF PollFails, Bookkeeping, InPhase
  <2>2. ASSUME Announced(p, i) PROVE Settled(p, i)'
    <3>1. unread[p]
      BY <2>1, <2>2 DEF Announced, ToSet
    <3>2. <<p, i>> \in MentionsOf(p)
      BY <1>2, <2>1 DEF MentionsOf
    <3> QED
      BY <2>1, <3>1, <3>2 DEF Settled
  <2> QED
    BY <1>4, <2>1, <2>2
<1>8. CASE MarkAsRead
  <2> DEFINE n == Head(batch)
  <2>1. /\ UNCHANGED <<comments, modified, batch, handled, queue, started>>
        /\ pc = "mark" /\ missed \subseteq missed'
    BY <1>8 DEF MarkAsRead
  <2>2. n \in Notifications /\ n \in ToSet(batch) /\ n.latest \in Nat
    <3>1. batch \in Seq(Notifications) /\ batch # <<>>
      BY <2>1 DEF Bookkeeping, Typed, InPhase
    <3>2. n \in Notifications /\ n \in ToSet(batch)
      BY <3>1, FirstAndRest
    <3> QED
      BY <3>2 DEF Notifications
  <2>3. ASSUME Announced(p, i) PROVE Announced(p, i)' \/ Settled(p, i)'
    <3>1. CASE unread'[p] = unread[p]
      BY <2>1, <2>3, <3>1 DEF Announced
    <3>2. CASE unread'[p] # unread[p]
      <4>1. p = n.pr /\ missed' = missed \cup Unseen(n)
        BY <1>8, <3>2 DEF MarkAsRead, Bookkeeping, Typed
      <4>2. CASE i <= n.latest
        BY <2>1, <2>2, <4>1, <4>2 DEF Announced
      <4>3. CASE i > n.latest
        <5>1. <<p, i>> \in Unseen(n)
          BY <1>2, <2>1, <4>1, <4>3 DEF Unseen, MentionsOf
        <5> QED
          BY <4>1, <5>1 DEF Settled
      <4> QED
        BY <1>2, <2>1, <2>2, <4>2, <4>3
    <3> QED
      BY <3>1, <3>2
  <2> QED
    BY <1>4, <2>1, <2>3
<1>9. CASE Raise
  <2>1. /\ UNCHANGED <<comments, unread, modified, handled, started>>
        /\ missed' = missed \cup {t.comment : t \in ToSet(queue)}
                            \cup UNION {MentionsOf(n.pr) : n \in ToSet(batch)}
    BY <1>9 DEF Raise, github
  <2>2. \A n \in DOMAIN queue : queue[n].comment \in missed'
    BY <2>1 DEF ToSet
  <2>3. ASSUME Announced(p, i) PROVE Announced(p, i)' \/ Settled(p, i)'
    <3>1. CASE \E n \in ToSet(batch) : n.pr = p
      <4>1. <<p, i>> \in missed'
        BY <1>2, <2>1, <3>1 DEF MentionsOf
      <4> QED
        BY <4>1 DEF Settled
    <3>2. CASE unread[p] /\ modified
      BY <2>1, <3>2 DEF Announced
    <3> QED
      BY <2>3, <3>1, <3>2 DEF Announced
  <2> QED
    BY <1>4, <2>1, <2>2, <2>3
<1>10. CASE CheckKnown \/ CheckFails \/ CheckLatest \/ CheckPrevious
  <2> DEFINE n == Head(batch)
  <2>1. /\ pc = "check" /\ missed \subseteq missed'
        /\ \E found :
              /\ Advance(found)
              /\ handled' \in {handled, handled \cup {<<n.pr, n.latest>>}}
    BY <1>10, Looked
  <2>2. UNCHANGED <<comments, unread, modified, started>> /\ batch' = Tail(batch)
    BY <2>1 DEF Advance, github
  <2>3. \A m \in DOMAIN queue : m \in DOMAIN queue' /\ queue'[m] = queue[m]
    BY <1>10, TaskAdded
  <2>4. \A m \in ToSet(batch) : m = n \/ m \in ToSet(batch')
    <3>1. batch \in Seq(Notifications) /\ batch # <<>>
      BY <2>1 DEF Bookkeeping, Typed, InPhase
    <3> QED
      BY <2>2, <3>1, FirstAndRest
  <2>5. ASSUME n.pr = p, i <= n.latest PROVE Settled(p, i)'
    BY <1>2, <1>10, <2>2, <2>5, HeadSettled
  <2>6. ASSUME Announced(p, i) PROVE Announced(p, i)' \/ Settled(p, i)'
    BY <2>2, <2>4, <2>5, <2>6 DEF Announced
  <2>7. ASSUME NEW c \in handled' \ handled, c[1] = p, i <= c[2] PROVE Settled(p, i)'
    <3>1. c = <<n.pr, n.latest>>
      BY <2>1, <2>7
    <3> QED
      BY <2>5, <2>7, <3>1
  <2> QED
    BY <1>4, <2>1, <2>2, <2>3, <2>6, <2>7
<1>11. CASE Start
  <2> DEFINE started_now == {queue[m] : m \in 1..Admitted}
  <2>1. /\ UNCHANGED <<comments, unread, modified, batch, handled>>
        /\ started' = started \cup started_now
        /\ missed' = missed \cup {t.comment : t \in ToSet(queue) \ started_now}
    BY <1>11 DEF Start, github
  <2>2. \A n \in DOMAIN queue : queue[n] \in started' \/ queue[n].comment \in missed'
    BY <2>1 DEF ToSet
  <2>3. Announced(p, i) => Announced(p, i)'
    BY <2>1 DEF Announced
  <2> HIDE DEF started_now
  <2> QED
    BY <1>4, <2>1, <2>2, <2>3
<1> QED
  BY <1>3, <1>5, <1>6, <1>7, <1>8, <1>9, <1>10, <1>11 DEF Next, Loop

-----------------------------------------------------------------------------

\* The inductive invariant, whatever the bounds.
LEMMA Inductive == Spec => []IInv
<1>1. Init => IInv
  <2> SUFFICES ASSUME Init PROVE IInv
    OBVIOUS
  <2>1. Bookkeeping
    BY BookkeepingInit
  <2>2. OccasionsKnown /\ OneRunPerComment
    BY DEF Init, OccasionsKnown, OneRunPerComment
  <2>3. \A p \in PRs : Mentions(p) = {}
    BY DEF Init, Mentions
  <2> QED
    BY <2>1, <2>2, <2>3 DEF IInv, NoneForgotten
<1>2. IInv /\ [Next]_vars => IInv'
  BY BookkeepingStep, OccasionsStep, NoneForgottenStep DEF IInv
<1> QED
  BY <1>1, <1>2, PTL DEF Spec

\* However comments, failures and the steps of the loop interleave, no comment
\* is the occasion of two processes, over all iterations (handled_ids,
\* github_polling.py:90-95).
THEOREM OneOccasionOneRun == Spec => []OneRunPerComment
<1>1. IInv => OneRunPerComment
  BY DEF IInv
<1> QED
  BY <1>1, Inductive, PTL

\* Whenever the server sleeps and has been told of nothing new, every mention
\* has had its process, was superseded by a newer one or out of the reach of the
\* scan, or was lost in one of the named ways: there are no others
\* (polling_loop, github_polling.py:185-227).
THEOREM NoMentionForgotten == Spec => []EveryMentionAnswered
<1>1. ASSUME IInv PROVE EveryMentionAnswered
  <2> SUFFICES ASSUME pc = "sleep", ~modified, NEW p \in PRs, NEW i \in Mentions(p)
               PROVE  \/ \E t \in started : t.comment = <<p, i>>
                      \/ <<p, i>> \in missed
                      \/ PassedOver(p, i)
    BY DEF EveryMentionAnswered
  <2>1. batch = <<>> /\ queue = <<>>
    BY <1>1 DEF IInv, Bookkeeping, InPhase
  <2>2. ~Announced(p, i)
    BY <2>1 DEF Announced, ToSet
  <2>3. Settled(p, i)
    BY <1>1, <2>2 DEF IInv, NoneForgotten, Accounted
  <2> QED
    BY <2>1, <2>3 DEF Settled
<1> QED
  BY <1>1, Inductive, PTL
===============================================================================
