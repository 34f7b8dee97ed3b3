----------------------------- MODULE Tools_proofs -----------------------------
(***************************************************************************)
(* Proofs about Tools, for any number of runs, any settings and any bounds *)
(* of failures, of what the users do, and of the history.                  *)
(***************************************************************************)
EXTENDS Tools, FiniteSetTheorems, WellFoundedInduction, TLAPS

Labels == UserLabels \cup ReviewLabels \cup TypeLabels
Parts == Texts \cup Written
Entries == [of : Runs, linked : BOOLEAN, tick : BOOLEAN]
Names == {"temp", "progress", "review", "title", "notice", "failed", "none", "table"}
Notes == {c \in [place : Nat, id : Runs \X Names, by : Runs, kind : Names,
                 tables : Seq(Entries)] : c.kind = "table" <=> c.tables # <<>>}
Listings == {S \in SUBSET Notes : IsFiniteSet(S)}
Records ==
    [tool : {"review", "improve", "describe", "none"}, pc : Pcs,
     kind : {"none", "progress", "review", "title"},
     said : {"none", "error", "issues", "nothing", "plain", "tick"},
     listed : Listings, seen : SUBSET Labels, labels : SUBSET Labels,
     read : Seq(Parts), met : SUBSET Runs]
Requests == [comments : Listings, labels : SUBSET Labels, body : Seq(Parts)]

Typed ==
    /\ setting \in Settings
    /\ pr \in Requests
    /\ run \in [Runs -> Records]
    /\ failures \in 0..MaxFailures /\ acts \in 0..MaxActs

-----------------------------------------------------------------------------
(* Numbers.                                                                *)

\* A set of numbers has a least one, and a finite one a greatest.
LEMMA Least ==
    ASSUME NEW T, T \subseteq Nat, T # {}
    PROVE  \E k \in T : \A j \in T : k <= j
<1>1. \E k \in T : \A j \in T : ~(<<j, k>> \in OpToRel(<, Nat))
  BY NatLessThanWellFounded, WFMin
<1>2. PICK k \in T : \A j \in T : ~(<<j, k>> \in OpToRel(<, Nat))
  BY <1>1
<1>3. \A j \in T : ~(j < k)
  BY <1>2 DEF OpToRel
<1> QED
  BY <1>3

Unbounded(S) == IsFiniteSet(S) /\ S \subseteq Nat /\ ~\E b \in Nat : \A x \in S : x <= b

LEMMA Bounded ==
    ASSUME NEW S, IsFiniteSet(S), S \subseteq Nat
    PROVE  \E b \in Nat : \A x \in S : x <= b
<1> SUFFICES ASSUME Unbounded(S) PROVE FALSE
  BY DEF Unbounded
<1> DEFINE Sizes == {n \in Nat : \E T : Unbounded(T) /\ Cardinality(T) = n}
<1>1. \A T : Unbounded(T) => Cardinality(T) \in Nat
  BY FS_CardinalityType DEF Unbounded
<1>2. Sizes \subseteq Nat /\ Sizes # {}
  BY <1>1
<1>3. PICK n \in Sizes : \A m \in Sizes : n <= m
  <2> HIDE DEF Sizes
  <2> QED
    BY <1>2, Least
<1>4. PICK T : Unbounded(T) /\ Cardinality(T) = n
  BY <1>3
<1>5. PICK x \in T : TRUE
  BY <1>4 DEF Unbounded
<1>6. IsFiniteSet(T \ {x}) /\ Cardinality(T \ {x}) = n - 1 /\ n - 1 \in Nat
  <2>1. IsFiniteSet(T \ {x}) /\ Cardinality(T \ {x}) = n - 1
    BY <1>4, <1>5, FS_RemoveElement DEF Unbounded
  <2> QED
    BY <2>1, FS_CardinalityType
<1>7. ~Unbounded(T \ {x})
  BY <1>3, <1>6
<1>8. PICK b \in Nat : \A y \in T \ {x} : y <= b
  BY <1>4, <1>6, <1>7 DEF Unbounded
<1>9. x \in Nat /\ \A y \in T : y <= IF x <= b THEN b ELSE x
  BY <1>4, <1>8 DEF Unbounded
<1> QED
  BY <1>4, <1>8, <1>9 DEF Unbounded

LEMMA MaxIs ==
    ASSUME NEW S, IsFiniteSet(S), S \subseteq Nat, S # {}
    PROVE  Max(S) \in S /\ \A x \in S : x <= Max(S)
<1>1. PICK b \in Nat : \A x \in S : x <= b
  BY Bounded
<1> DEFINE T == {k \in Nat : b - k \in S}
<1>2. PICK x \in S : TRUE
  OBVIOUS
<1>3. b - x \in T
  BY <1>1, <1>2
<1>4. PICK k \in T : \A j \in T : k <= j
  <2> T \subseteq Nat /\ T # {}
    BY <1>3
  <2> HIDE DEF T
  <2> QED
    BY Least
<1>5. \A y \in S : b - y \in T
  BY <1>1
<1>6. b - k \in S /\ \A y \in S : y <= b - k
  BY <1>1, <1>4, <1>5
<1>7. \E y \in S : \A z \in S : y >= z
  BY <1>6
<1> QED
  BY <1>7 DEF Max

LEMMA MinIs ==
    ASSUME NEW S, S \subseteq Nat, S # {}
    PROVE  Min(S) \in S /\ \A x \in S : Min(S) <= x
<1>1. \E y \in S : \A z \in S : y =< z
  BY Least
<1> QED
  BY <1>1 DEF Min

-----------------------------------------------------------------------------
(* Texts of descriptions.                                                  *)

LEMMA Elements ==
    ASSUME NEW S, NEW s \in Seq(S)
    PROVE  /\ ToSet(s) = {s[n] : n \in 1..Len(s)} /\ DOMAIN s = 1..Len(s)
           /\ Len(s) \in Nat /\ \A n \in 1..Len(s) : s[n] \in S
  BY DEF ToSet

LEMMA FirstOfIs ==
    ASSUME NEW S, NEW s \in Seq(S), NEW t
    PROVE  /\ FirstOf(s, t) \in 1..(Len(s) + 1)
           /\ t \in ToSet(s) => FirstOf(s, t) <= Len(s) /\ s[FirstOf(s, t)] = t
           /\ t \notin ToSet(s) => FirstOf(s, t) = Len(s) + 1
           /\ \A n \in 1..Len(s) : s[n] = t => FirstOf(s, t) <= n
<1>1. /\ ToSet(s) = {s[n] : n \in 1..Len(s)} /\ Len(s) \in Nat
  BY Elements
<1>2. CASE t \notin ToSet(s)
  BY <1>1, <1>2 DEF FirstOf
<1>3. CASE t \in ToSet(s)
  <2> DEFINE I == {i \in 1..Len(s) : s[i] = t}
  <2>1. I # {} /\ I \subseteq Nat
    BY <1>1, <1>3
  <2>2. FirstOf(s, t) = Min(I)
    BY <1>3, <2>1 DEF FirstOf, SelectInSeq
  <2>3. Min(I) \in I /\ \A x \in I : Min(I) <= x
    <3> HIDE DEF I
    <3> QED
      BY <2>1, MinIs
  <2> QED
    BY <1>1, <1>3, <2>2, <2>3
<1> QED
  BY <1>2, <1>3

\* A part of a sequence.
LEMMA PartIs ==
    ASSUME NEW S, NEW s \in Seq(S), NEW m \in 1..(Len(s) + 1), NEW n \in 0..Len(s)
    PROVE  /\ SubSeq(s, m, n) \in Seq(S)
           /\ \A i \in m..n : s[i] \in ToSet(SubSeq(s, m, n))
<1>1. SubSeq(s, m, n) \in Seq(S) /\ Len(SubSeq(s, m, n)) = IF m <= n THEN n - m + 1 ELSE 0
  OBVIOUS
<1>2. ASSUME NEW i \in m..n PROVE s[i] \in ToSet(SubSeq(s, m, n))
  <2> DEFINE part == SubSeq(s, m, n)
  <2> DEFINE k == i - m + 1
  <2>3. m <= n /\ k \in 1..(n - m + 1) /\ m + k - 1 = i
    OBVIOUS
  <2>4. \A j \in 1..(n - m + 1) : part[j] = s[m + j - 1]
    OBVIOUS
  <2>5. Len(part) = n - m + 1
    BY <1>1, <2>3
  <2>6. k \in 1..Len(part) /\ part[k] = s[i]
    <3> HIDE DEF k, part
    <3>1. part[k] = s[m + k - 1]
      BY <2>3, <2>4
    <3> QED
      BY <2>3, <2>5, <3>1
  <2> HIDE DEF k, part
  <2>7. part \in Seq(S)
    BY <1>1 DEF part
  <2>8. s[i] \in ToSet(part)
    BY <2>6, <2>7, Elements
  <2> QED
    BY <2>8 DEF part
<1> QED
  BY <1>1, <1>2

LEMMA NoRuleIs ==
    ASSUME NEW s \in Seq(Parts)
    PROVE  /\ NoRule(s) \in Seq(Parts)
           /\ \A t \in ToSet(s) : t = "rule" \/ t \in ToSet(NoRule(s))
<1>1. CASE s # <<>> /\ Last(s) = "rule"
  <2>1. Len(s) \in Nat \ {0} /\ NoRule(s) = SubSeq(s, 1, Len(s) - 1) /\ s[Len(s)] = "rule"
    BY <1>1 DEF NoRule, Front, Last
  <2>2. NoRule(s) \in Seq(Parts) /\ \A i \in 1..(Len(s) - 1) : s[i] \in ToSet(NoRule(s))
    BY <2>1, PartIs
  <2> QED
    BY <2>1, <2>2, Elements
<1>2. CASE ~(s # <<>> /\ Last(s) = "rule")
  BY <1>2 DEF NoRule
<1> QED
  BY <1>1, <1>2

LEMMA BeforeRuleIs ==
    ASSUME NEW s \in Seq(Parts)
    PROVE  /\ BeforeRule(s) \in Seq(Parts)
           /\ \A t \in ToSet(s) \ {"user"} :
                 FirstOf(s, t) < FirstOf(s, "rule") => t \in ToSet(BeforeRule(s))
<1> DEFINE rule == FirstOf(s, "rule")
           text == SubSeq(s, 1, rule - 1)
<1>1. rule \in 1..(Len(s) + 1) /\ rule - 1 \in 0..Len(s) /\ Len(s) \in Nat
  BY FirstOfIs
<1>2. text \in Seq(Parts)
  <2> HIDE DEF rule
  <2> QED
    BY <1>1, PartIs
<1>3. ASSUME NEW t \in ToSet(s), FirstOf(s, t) < rule
      PROVE  t \in ToSet(text)
  <2>1. FirstOf(s, t) \in 1..(rule - 1) /\ s[FirstOf(s, t)] = t
    BY <1>1, <1>3, FirstOfIs
  <2> HIDE DEF rule
  <2> QED
    BY <1>1, <2>1, PartIs
<1>4. text # <<>> => /\ Tail(text) \in Seq(Parts)
                     /\ \A t \in ToSet(text) : t = Head(text) \/ t \in ToSet(Tail(text))
  <2> SUFFICES ASSUME text # <<>>
               PROVE  /\ Tail(text) \in Seq(Parts)
                      /\ \A t \in ToSet(text) : t = Head(text) \/ t \in ToSet(Tail(text))
    OBVIOUS
  <2> HIDE DEF text
  <2> DEFINE rest == Tail(text)
  <2>1. /\ rest \in Seq(Parts) /\ Len(rest) = Len(text) - 1 /\ Len(text) \in Nat \ {0}
        /\ \A n \in 1..(Len(text) - 1) : rest[n] = text[n + 1]
        /\ Head(text) = text[1]
    BY <1>2
  <2> HIDE DEF rest
  <2>2. ASSUME NEW n \in 1..Len(text), n # 1 PROVE text[n] \in ToSet(rest)
    <3>1. n - 1 \in 1..Len(rest) /\ rest[n - 1] = text[n]
      BY <2>1, <2>2
    <3> QED
      BY <2>1, <3>1, Elements
  <2> QED
    BY <1>2, <2>1, <2>2, Elements DEF rest
<1> HIDE DEF text
<1>5. BeforeRule(s) = IF text # <<>> /\ Head(text) = "user" THEN Tail(text) ELSE text
  BY DEF BeforeRule, text
<1> QED
  BY <1>2, <1>3, <1>4, <1>5

\* A user's text is in the user's part of a description, unless the description
\* is generated and the text stands behind the generated part or a rule.
LEMMA UserDescriptionIs ==
    ASSUME NEW body \in Seq(Parts)
    PROVE  /\ UserDescription(body) \in Seq(Parts)
           /\ \A t \in Texts \cap ToSet(body) :
                 \/ t \in ToSet(UserDescription(body))
                 \/ IsGenerated(body)
                    /\ \/ FirstOf(body, t) > FirstOf(body, "generated")
                       \/ FirstOf(body, t) > FirstOf(body, "rule")
<1> DEFINE start == FirstOf(body, "user")
           end == FirstOf(body, "generated")
           rule == FirstOf(body, "rule")
<1>1. /\ start \in 1..(Len(body) + 1) /\ end \in 1..(Len(body) + 1)
      /\ rule \in 1..(Len(body) + 1) /\ Len(body) \in Nat
  BY FirstOfIs
<1>2. ASSUME NEW t \in Texts \cap ToSet(body)
      PROVE  /\ t \notin {"user", "generated", "rule"}
             /\ FirstOf(body, t) \in 1..Len(body) /\ body[FirstOf(body, t)] = t
  <2>1. FirstOf(body, t) \in 1..Len(body) /\ body[FirstOf(body, t)] = t
    BY <1>1, FirstOfIs
  <2> QED
    BY <2>1, TextsAssumption DEF Written
<1>3. ASSUME IsGenerated(body)
      PROVE  /\ Len(body) # 0
             /\ body[1] = "user" => start = 1
             /\ body[1] = "generated" => end = 1
             /\ body[1] \in {"user", "generated"}
  <2>1. Len(body) # 0 /\ body[1] \in {"user", "generated"}
    BY <1>3 DEF IsGenerated
  <2>2. 1 \in 1..Len(body)
    BY <1>1, <2>1
  <2> QED
    BY <2>1, <2>2, <1>1, FirstOfIs
<1>4. CASE ~IsGenerated(body)
  BY <1>4 DEF UserDescription
<1>5. CASE IsGenerated(body) /\ "user" \notin ToSet(body)
  <2>1. UserDescription(body) = <<>>
    BY <1>5 DEF UserDescription
  <2>2. body[1] \in ToSet(body)
    BY <1>1, <1>3, <1>5, Elements
  <2>3. end = 1
    BY <1>3, <1>5, <2>2
  <2>4. ASSUME NEW t \in Texts \cap ToSet(body) PROVE FirstOf(body, t) > end
    <3>1. FirstOf(body, t) # 1
      BY <1>2, <1>3, <1>5, <2>2
    <3> QED
      BY <1>2, <2>3, <3>1
  <2> QED
    BY <1>5, <2>1, <2>4
<1>6. CASE IsGenerated(body) /\ "user" \in ToSet(body) /\ end <= Len(body) /\ end > start
  <2> DEFINE part == SubSeq(body, start + 1, end - 1)
  <2>1. UserDescription(body) = NoRule(part)
    BY <1>6 DEF UserDescription
  <2>2. start = 1
    BY <1>1, <1>3, <1>6
  <2>3. start + 1 \in 1..(Len(body) + 1) /\ end - 1 \in 0..Len(body)
    BY <1>1, <1>6
  <2>4. part \in Seq(Parts) /\ \A i \in (start + 1)..(end - 1) : body[i] \in ToSet(part)
    <3> HIDE DEF start, end
    <3> QED
      BY <2>3, PartIs
  <2>5. ASSUME NEW t \in Texts \cap ToSet(body), ~(FirstOf(body, t) > end)
        PROVE  t \in ToSet(NoRule(part))
    <3>1. FirstOf(body, t) # end
      BY <1>1, <1>2, <1>6, FirstOfIs
    <3>2. FirstOf(body, t) # 1
      BY <1>2, <1>3, <1>6
    <3>3. FirstOf(body, t) \in (start + 1)..(end - 1)
      BY <1>1, <1>2, <2>2, <2>5, <3>1, <3>2
    <3>4. t \in ToSet(part)
      BY <1>2, <2>4, <3>3
    <3> HIDE DEF part
    <3> QED
      BY <1>2, <2>4, <3>4, NoRuleIs
  <2>6. NoRule(part) \in Seq(Parts)
    <3> HIDE DEF part
    <3> QED
      BY <2>4, NoRuleIs
  <2> QED
    BY <1>6, <2>1, <2>5, <2>6
<1>7. CASE IsGenerated(body) /\ "user" \in ToSet(body) /\ ~(end <= Len(body) /\ end > start)
  <2>1. UserDescription(body) = BeforeRule(body)
    BY <1>7 DEF UserDescription
  <2>2. ASSUME NEW t \in Texts \cap ToSet(body), ~(FirstOf(body, t) > rule)
        PROVE  t \in ToSet(BeforeRule(body))
    <3>1. FirstOf(body, t) # rule
      BY <1>1, <1>2, FirstOfIs
    <3>2. FirstOf(body, t) < rule
      BY <1>1, <1>2, <2>2, <3>1
    <3> QED
      BY <1>2, <3>2, BeforeRuleIs
  <2> QED
    BY <1>7, <2>1, <2>2, BeforeRuleIs
<1> QED
  BY <1>4, <1>5, <1>6, <1>7

LEMMA AnswersAre ==
    ASSUME NEW text \in Seq(Parts)
    PROVE  /\ Answer(text) \in Seq(Parts) /\ AnswerInMarkers(text) \in Seq(Parts)
           /\ \A t \in Texts \cap ToSet(text) :
                 t \in ToSet(Answer(text)) /\ t \in ToSet(AnswerInMarkers(text))
<1>1. \A n \in {"user", "rule", "generated", "answer", "marker"} : n \in Parts /\ n \notin Texts
  BY TextsAssumption DEF Parts, Written
<1>2. /\ AnswerInMarkers(text) \in Seq(Parts)
      /\ \A t \in Texts \cap ToSet(text) : t \in ToSet(AnswerInMarkers(text))
  <2> DEFINE answer == AnswerInMarkers(text)
  <2>1. answer \in [1..Len(text) -> Parts] /\ Len(text) \in Nat
    BY <1>1, Elements DEF AnswerInMarkers
  <2>2. \A n \in 1..Len(text) : text[n] # "marker" => answer[n] = text[n]
    BY Elements DEF AnswerInMarkers
  <2> HIDE DEF answer
  <2>3. answer \in Seq(Parts) /\ Len(answer) = Len(text)
    BY <2>1
  <2> QED
    BY <1>1, <2>2, <2>3, Elements DEF answer
<1>3. /\ Answer(text) \in Seq(Parts)
      /\ \A t \in Texts \cap ToSet(text) : t \in ToSet(Answer(text))
  <2>1. CASE text = <<>>
    <3>1. Answer(text) = <<"generated">>
      BY <2>1 DEF Answer
    <3>2. ToSet(text) = {}
      BY <2>1 DEF ToSet
    <3>3. <<"generated">> \in Seq(Parts)
      BY <1>1
    <3> QED
      BY <3>1, <3>2, <3>3
  <2>2. CASE text # <<>>
    <3> DEFINE answer == <<"user">> \o text \o <<"rule">> \o <<"generated">>
    <3>1. Answer(text) = answer
      BY <2>2 DEF Answer
    <3>2. answer \in Seq(Parts)
      BY <1>1
    <3>3. Len(answer) = Len(text) + 3
      OBVIOUS
    <3>4. \A n \in 1..Len(text) : answer[n + 1] = text[n]
      OBVIOUS
    <3> HIDE DEF answer
    <3>5. \A n \in 1..Len(text) : n + 1 \in 1..Len(answer)
      BY <3>3
    <3>6. ASSUME NEW t \in Texts \cap ToSet(text) PROVE t \in ToSet(answer)
      <4>1. PICK n \in 1..Len(text) : t = text[n]
        BY Elements
      <4> QED
        BY <3>2, <3>4, <3>5, <4>1, Elements
    <3> QED
      BY <3>1, <3>2, <3>6
  <2> QED
    BY <2>1, <2>2
<1> QED
  BY <1>2, <1>3

-----------------------------------------------------------------------------
(* Steps of runs.                                                          *)

\* A step of r changes what r knows and leaves the others alone.
Moves(r) ==
    /\ setting' = setting
    /\ run' \in [Runs -> Records]
    /\ \A q \in Runs \ {r} : run'[q] = run[q]
    /\ run'[r].tool = run[r].tool
    /\ run'[r].met = run[r].met
    /\ failures' = failures \/ (failures < MaxFailures /\ failures' = failures + 1)
    /\ acts' = acts

LEMMA AtIs ==
    ASSUME Typed, NEW r \in Runs, NEW p \in Pcs
    PROVE  LET x == At(r, p)
           IN  /\ x \in Records
               /\ x.tool = run[r].tool /\ x.pc = p /\ x.kind = run[r].kind
               /\ x.said = run[r].said /\ x.listed = run[r].listed
               /\ x.seen = run[r].seen /\ x.labels = run[r].labels
               /\ x.read = run[r].read /\ x.met = run[r].met
<1>1. run[r] \in Records
  BY DEF Typed
<1> QED
  BY <1>1 DEF At, Records

LEMMA DoneIs ==
    ASSUME Typed, NEW r \in Runs
    PROVE  LET x == Done(r)
           IN  /\ x \in Records
               /\ x.tool = run[r].tool /\ x.pc = "done" /\ x.kind = run[r].kind
               /\ x.said = run[r].said /\ x.listed = {}
               /\ x.seen = {} /\ x.labels = run[r].labels
               /\ x.read = <<>> /\ x.met = run[r].met
<1>1. run[r] \in Records /\ "done" \in Pcs
  BY DEF Typed, Pcs
<1>2. {} \in Listings /\ {} \in SUBSET Labels /\ <<>> \in Seq(Parts)
  BY FS_EmptySet DEF Listings
<1> QED
  BY <1>1, <1>2 DEF Done, At, Records

\* What a run may go on as: of the same tool, having met the same runs.
Successor(r, x) == x \in Records /\ x.tool = run[r].tool /\ x.met = run[r].met

LEMMA OptionsAreBoolean ==
    ASSUME Typed
    PROVE  /\ setting.auto \in BOOLEAN /\ setting.persistent \in BOOLEAN
           /\ setting.quiet \in BOOLEAN /\ setting.commitable \in BOOLEAN
           /\ setting.asComment \in BOOLEAN /\ setting.markers \in BOOLEAN
  BY SettingsAssumption DEF Typed

LEMMA LocalDoes ==
    ASSUME Typed, NEW r \in Runs, NEW x, Successor(r, x), Local(r, x)
    PROVE  Moves(r) /\ run'[r] = x /\ pr' = pr /\ failures' = failures
  BY DEF Typed, Moves, Successor, Local

\* What is known after a call: it has had its effect, or it has failed.
Did(r, after, x, y) ==
    /\ Moves(r)
    /\ \/ run'[r] = x /\ pr' = after /\ failures' = failures
       \/ run'[r] \in {x, y} /\ pr' = pr /\ failures' = failures + 1

LEMMA CallDoes ==
    ASSUME Typed, NEW r \in Runs, NEW x, NEW y, NEW call, NEW after,
           Successor(r, x), Successor(r, y), Call(r, call, after, x, y)
    PROVE  Did(r, after, x, y)
<1>1. CASE pr' = after /\ run' = [run EXCEPT ![r] = x] /\ UNCHANGED <<setting, failures, acts>>
  BY <1>1 DEF Typed, Moves, Successor, Did
<1>2. CASE Fails /\ Refused(r, call, x, y)
  <2>1. PICK z \in {x, y} : run' = [run EXCEPT ![r] = z]
    BY <1>2 DEF Refused
  <2> QED
    BY <1>2, <2>1 DEF Typed, Moves, Successor, Did, Refused, Fails
<1> QED
  BY <1>1, <1>2 DEF Call

LEMMA PublishDoes ==
    ASSUME Typed, NEW r \in Runs, NEW x, NEW y, NEW c,
           Successor(r, x), Successor(r, y), PublishCall(r, c, x, y)
    PROVE  Did(r, WithComment(c), x, y)
  BY CallDoes DEF PublishCall

\* A comment may be gone when it is to be edited.
LEMMA EditDoes ==
    ASSUME Typed, NEW r \in Runs, NEW x, NEW y, NEW id, NEW c,
           Successor(r, x), Successor(r, y), EditCall(r, id, c, x, y)
    PROVE  \/ id \in Ids /\ Did(r, WithEdit(id, c), x, y)
           \/ id \notin Ids /\ Did(r, pr, x, y)
           \/ /\ id \notin Ids /\ Moves(r) /\ run'[r] = y
              /\ pr' = pr /\ failures' = failures
<1>1. CASE id \in Ids
  BY <1>1, CallDoes DEF EditCall
<1>2. CASE id \notin Ids
  <2>1. PICK z \in {x, y} : run' = [run EXCEPT ![r] = z]
    BY <1>2 DEF Refused, EditCall
  <2> QED
    BY <1>2, <2>1 DEF Typed, Moves, Successor, Did, Refused, EditCall
<1> QED
  BY <1>1, <1>2

LEMMA CleanupDoes ==
    ASSUME Typed, NEW r \in Runs, NEW x, Successor(r, x), CleanupCall(r, x)
    PROVE  Did(r, Without(<<r, "temp">>), x, x)
  BY DEF Typed, Moves, Successor, Did, CleanupCall, Fails

LEMMA AtFollows ==
    ASSUME Typed, NEW r \in Runs
    PROVE  Successor(r, Done(r)) /\ \A p \in Pcs : Successor(r, At(r, p))
  BY AtIs, DoneIs DEF Successor


-----------------------------------------------------------------------------
(* What the calls make of the comments.                                    *)

\* The image of a finite set under a function.
LEMMA Image ==
    ASSUME NEW S, IsFiniteSet(S), NEW f, DOMAIN f = S, f = [x \in S |-> f[x]]
    PROVE  IsFiniteSet({f[x] : x \in S})
<1>1. f \in Surjection(S, {f[x] : x \in S})
  BY DEF Surjection
<1> QED
  BY <1>1, FS_Surjection

LEMMA CommentsAre ==
    ASSUME Typed
    PROVE  pr.comments \in Listings /\ IsFiniteSet(pr.comments) /\ pr.comments \subseteq Notes
  BY DEF Typed, Requests, Listings

LEMMA PlacesAre ==
    ASSUME NEW S \in Listings
    PROVE  IsFiniteSet({c.place : c \in S}) /\ {c.place : c \in S} \subseteq Nat
<1> DEFINE f == [c \in S |-> c.place]
<1>1. {f[c] : c \in S} = {c.place : c \in S}
  OBVIOUS
<1>2. DOMAIN f = S /\ f = [c \in S |-> f[c]]
  OBVIOUS
<1>3. IsFiniteSet({f[c] : c \in S})
  <2> HIDE DEF f
  <2> QED
    BY <1>2, Image DEF Listings
<1> QED
  BY <1>1, <1>3 DEF Listings, Notes

LEMMA NoteIs ==
    ASSUME Typed, NEW r \in Runs, NEW n \in Names, NEW k \in Names,
           NEW tables \in Seq(Entries), k = "table" <=> tables # <<>>
    PROVE  LET c == Note(<<r, n>>, k, tables)
           IN  c \in Notes /\ c.id = <<r, n>> /\ c.by = r /\ c.kind = k /\ c.tables = tables
<1> DEFINE taken == {c.place : c \in pr.comments}
           places == {0} \cup taken
<1>1. IsFiniteSet(places) /\ places \subseteq Nat /\ places # {}
  <2>1. IsFiniteSet(taken) /\ taken \subseteq Nat
    BY CommentsAre, PlacesAre
  <2> HIDE DEF taken
  <2>2. IsFiniteSet({0})
    BY FS_Singleton
  <2> QED
    BY <2>1, <2>2, FS_Union
<1>2. Max(places) \in Nat
  <2> HIDE DEF places
  <2> QED
    BY <1>1, MaxIs
<1> QED
  BY <1>2 DEF Note, Notes

LEMMA FirstIs ==
    ASSUME NEW S \in Listings, S # {}
    PROVE  First(S) \in S
<1> DEFINE places == {c.place : c \in S}
<1>1. IsFiniteSet(places) /\ places \subseteq Nat /\ places # {}
  BY PlacesAre
<1>2. /\ Max(places) \in places /\ \A p \in places : p <= Max(places)
      /\ Min(places) \in places /\ \A p \in places : Min(places) <= p
  <2> HIDE DEF places
  <2> QED
    BY <1>1, MaxIs, MinIs
<1>3. PICK a \in S : a.place = Max(places)
  BY <1>2
<1>4. PICK b \in S : b.place = Min(places)
  BY <1>2
<1>5. \A d \in S : a.place >= d.place /\ b.place <= d.place
  BY <1>1, <1>2, <1>3, <1>4
<1> HIDE DEF places
<1>6. CASE setting.host \in NewestFirst
  BY <1>5, <1>6 DEF First
<1>7. CASE setting.host \notin NewestFirst
  BY <1>5, <1>7 DEF First
<1> QED
  BY <1>6, <1>7

LEMMA HeadedAre ==
    ASSUME NEW S \in Listings, NEW h
    PROVE  Headed(S, h) \in Listings
  BY FS_Subset DEF Headed, Listings

LEMMA WithCommentIs ==
    ASSUME Typed, NEW c \in Notes
    PROVE  LET p == WithComment(c)
           IN  /\ p \in Requests
               /\ p.comments = pr.comments \cup {c}
               /\ p.labels = pr.labels /\ p.body = pr.body
<1>1. IsFiniteSet(pr.comments \cup {c})
  BY CommentsAre, FS_AddElement
<1> QED
  BY <1>1 DEF Typed, Requests, Listings, WithComment

LEMMA WithoutIs ==
    ASSUME Typed, NEW id
    PROVE  LET p == Without(id)
           IN  /\ p \in Requests
               /\ p.comments = {c \in pr.comments : c.id # id}
               /\ p.labels = pr.labels /\ p.body = pr.body
<1>1. IsFiniteSet({c \in pr.comments : c.id # id})
  BY CommentsAre, FS_Subset
<1> QED
  BY <1>1 DEF Typed, Requests, Listings, Without

\* No two comments of one identity.
Distinct(S) == \A c, d \in S : c.id = d.id => c = d

LEMMA WithEditIs ==
    ASSUME Typed, NEW c \in Notes, NEW id
    PROVE  LET p == WithEdit(id, c)
           IN  /\ p \in Requests
               /\ \A e \in p.comments :
                     \/ e \in pr.comments /\ e.id # id
                     \/ /\ id \in Ids
                        /\ e.id = c.id /\ e.by = c.by /\ e.kind = c.kind /\ e.tables = c.tables
               /\ \A d \in pr.comments :
                     \E e \in p.comments : IF d.id = id THEN e.id = c.id ELSE e = d
               /\ c.id = id /\ Distinct(pr.comments) => Distinct(p.comments)
               /\ p.labels = pr.labels /\ p.body = pr.body
<1> DEFINE f == [d \in pr.comments |-> IF d.id = id THEN [c EXCEPT !.place = d.place] ELSE d]
           S == {f[d] : d \in pr.comments}
<1>1. S = {IF d.id = id THEN [c EXCEPT !.place = d.place] ELSE d : d \in pr.comments}
  OBVIOUS
<1>2. \A d \in pr.comments :
         /\ f[d] \in Notes
         /\ d.id # id => f[d] = d
         /\ d.id = id => /\ f[d].id = c.id /\ f[d].by = c.by
                         /\ f[d].kind = c.kind /\ f[d].tables = c.tables
  BY CommentsAre DEF Notes
<1>3. IsFiniteSet(S)
  <2>1. DOMAIN f = pr.comments /\ f = [d \in pr.comments |-> f[d]]
    OBVIOUS
  <2> HIDE DEF f
  <2> QED
    BY <2>1, CommentsAre, Image
<1>4. LET p == WithEdit(id, c)
      IN  p \in Requests /\ p.comments = S /\ p.labels = pr.labels /\ p.body = pr.body
  <2>1. WithEdit(id, c) = [pr EXCEPT !.comments = S]
    BY <1>1 DEF WithEdit
  <2>2. S \subseteq Notes
    <3> HIDE DEF f
    <3> QED
      BY <1>2
  <2> HIDE DEF S
  <2> QED
    BY <2>1, <2>2, <1>3 DEF Typed, Requests, Listings
<1> HIDE DEF f
<1>5. c.id = id /\ Distinct(pr.comments) => Distinct(S)
  BY <1>2 DEF Distinct
<1> QED
  BY <1>2, <1>3, <1>4, <1>5 DEF Ids

-----------------------------------------------------------------------------
(* What each step does, in terms of the fields of the run and of the       *)
(* comments.                                                               *)

\* The run goes on with what it knows.
Goes(r, p) ==
    /\ run'[r].pc = p /\ run'[r].kind = run[r].kind /\ run'[r].said = run[r].said
    /\ run'[r].labels = run[r].labels /\ run'[r].seen = run[r].seen
    /\ run'[r].read = run[r].read /\ run'[r].listed = run[r].listed

Ends(r) ==
    /\ run'[r].pc = "done" /\ run'[r].kind = run[r].kind /\ run'[r].said = run[r].said
    /\ run'[r].labels = run[r].labels /\ run'[r].seen = {} /\ run'[r].listed = {}

Faults == failures' = failures + 1

Keeps == pr'.labels = pr.labels /\ pr' \in Requests

\* A comment of r appears.
Appears(r, n, k) ==
    /\ Keeps
    /\ \E c \in Notes : /\ c.id = <<r, n>> /\ c.kind = k
                        /\ pr'.comments = pr.comments \cup {c}

Edited(id, k) ==
    /\ Keeps /\ id \in Ids
    /\ \A e \in pr'.comments : (e \in pr.comments /\ e.id # id) \/ (e.id = id /\ e.kind = k)
    /\ \A d \in pr.comments : \E e \in pr'.comments : e.id = d.id
    /\ Distinct(pr.comments) => Distinct(pr'.comments)

Removed(id) == Keeps /\ pr'.comments = {c \in pr.comments : c.id # id}

Same == pr' = pr /\ pr' \in Requests

LEMMA GoesAt ==
    ASSUME Typed, NEW r \in Runs
    PROVE  /\ \A p \in Pcs : run'[r] = At(r, p) => Goes(r, p)
           /\ run'[r] = Done(r) => Ends(r)
  BY AtIs, DoneIs DEF Goes, Ends

LEMMA Publishing ==
    ASSUME Typed, NEW r \in Runs, NEW n \in Names, NEW k \in Names, NEW tables \in Seq(Entries),
           k = "table" <=> tables # <<>>, pr' = WithComment(Note(<<r, n>>, k, tables))
    PROVE  Appears(r, n, k)
  BY NoteIs, WithCommentIs DEF Appears, Keeps

LEMMA Editing ==
    ASSUME Typed, NEW c \in Notes, NEW id, c.id = id, id \in Ids, pr' = WithEdit(id, c)
    PROVE  Edited(id, c.kind)
<1>1. \A d \in pr.comments : \E e \in pr'.comments : e.id = d.id
  BY WithEditIs
<1> QED
  BY <1>1, WithEditIs DEF Edited, Keeps

LEMMA Removing ==
    ASSUME Typed, NEW id, pr' = Without(id)
    PROVE  Removed(id)
  BY WithoutIs DEF Removed, Keeps

LEMMA Leaving ==
    ASSUME Typed, pr' = pr
    PROVE  Same /\ Keeps
  BY DEF Same, Keeps, Typed

LEMMA Relisted ==
    ASSUME NEW x \in Records, NEW s \in Listings
    PROVE  LET y == [x EXCEPT !.listed = s]
           IN  /\ y \in Records /\ y.tool = x.tool /\ y.met = x.met /\ y.pc = x.pc
               /\ y.listed = s /\ y.kind = x.kind /\ y.said = x.said
               /\ y.labels = x.labels /\ y.seen = x.seen
  BY DEF Records

LEMMA ListCommentsDoes ==
    ASSUME Typed, NEW r \in Runs, ListComments(r)
    PROVE  /\ Moves(r) /\ Same /\ run[r].pc = "list"
           /\ \/ Goes(r, "publish") /\ (~setting.persistent \/ setting.host \in NeverPersistent)
              \/ Goes(r, "publish") /\ Faults
              \/ /\ run'[r].pc = "update" /\ run'[r].listed = pr.comments
                 /\ run'[r].kind = run[r].kind /\ run'[r].said = run[r].said
                 /\ run'[r].labels = run[r].labels /\ run'[r].seen = run[r].seen
<1> DEFINE x == [At(r, "update") EXCEPT !.listed = pr.comments]
<1>1. At(r, "update") \in Records /\ pr.comments \in Listings /\ "publish" \in Pcs
  BY AtIs, CommentsAre DEF Pcs
<1>2. /\ x \in Records /\ x.tool = run[r].tool /\ x.met = run[r].met
      /\ x.pc = "update" /\ x.listed = pr.comments /\ x.kind = run[r].kind
      /\ x.said = run[r].said /\ x.labels = run[r].labels /\ x.seen = run[r].seen
  <2>1. "update" \in Pcs
    BY DEF Pcs
  <2> QED
    BY <1>1, <2>1, AtIs, Relisted
<1>3. Successor(r, x) /\ Successor(r, At(r, "publish"))
  BY <1>1, <1>2, AtFollows DEF Successor
<1> HIDE DEF x
<1>4. CASE setting.host \in NeverPersistent \/ ~setting.persistent
  BY <1>1, <1>3, <1>4, LocalDoes, GoesAt, Leaving DEF ListComments
<1>5. CASE ~(setting.host \in NeverPersistent \/ ~setting.persistent)
  <2>1. Call(r, "list", pr, x, At(r, "publish")) /\ run[r].pc = "list"
    BY <1>5 DEF ListComments, x
  <2>2. Did(r, pr, x, At(r, "publish"))
    BY <1>3, <2>1, CallDoes
  <2> QED
    BY <1>1, <1>2, <2>1, <2>2, GoesAt, Leaving DEF Did, Faults
<1> QED
  BY <1>4, <1>5

LEMMA UpdatePersistentDoes ==
    ASSUME Typed, NEW r \in Runs, UpdatePersistent(r)
    PROVE  /\ Moves(r) /\ run[r].pc = "update"
           /\ \/ Goes(r, "publish") /\ Same /\ Previous(r) = {}
              \/ \E c \in Previous(r) :
                    /\ Goes(r, "notice") \/ Goes(r, "cleanup") \/ Goes(r, "publish")
                    /\ \/ Edited(c.id, c.kind) /\ run'[r].pc # "publish"
                       \/ Same /\ (Faults \/ c.id \notin Ids)
<1>1. \A p \in {"publish", "notice", "cleanup"} : p \in Pcs /\ Successor(r, At(r, p))
  BY AtFollows DEF Pcs
<1>2. CASE Previous(r) = {}
  BY <1>1, <1>2, LocalDoes, GoesAt, Leaving DEF UpdatePersistent
<1>3. CASE Previous(r) # {}
  <2> DEFINE c == First(Previous(r))
             e == [c EXCEPT !.by = r]
             p == IF run[r].kind = "review" THEN "notice" ELSE "cleanup"
  <2>1. Previous(r) \in Listings
    BY HeadedAre DEF Previous, Typed, Records
  <2>2. c \in Previous(r) /\ c \in Notes
    BY <1>3, <2>1, FirstIs DEF Listings
  <2> HIDE DEF c
  <2>3. e \in Notes /\ e.id = c.id /\ e.kind = c.kind
    BY <2>2 DEF Notes
  <2>4. EditCall(r, c.id, e, At(r, p), At(r, "publish")) /\ run[r].pc = "update"
    BY <1>3 DEF UpdatePersistent, c
  <2>5. p \in {"notice", "cleanup"}
    OBVIOUS
  <2> HIDE DEF p, e
  <2>6. \/ c.id \in Ids /\ Did(r, WithEdit(c.id, e), At(r, p), At(r, "publish"))
        \/ c.id \notin Ids /\ Did(r, pr, At(r, p), At(r, "publish"))
        \/ /\ c.id \notin Ids /\ Moves(r) /\ run'[r] = At(r, "publish")
           /\ pr' = pr /\ failures' = failures
    BY <1>1, <2>4, <2>5, EditDoes
  <2>7. Moves(r) /\ (Goes(r, p) \/ Goes(r, "publish"))
    BY <1>1, <2>5, <2>6, GoesAt DEF Did
  <2>8. \/ pr' = WithEdit(c.id, e) /\ c.id \in Ids /\ Goes(r, p)
        \/ pr' = pr /\ (Faults \/ c.id \notin Ids)
    BY <1>1, <2>5, <2>6, GoesAt DEF Did, Faults
  <2>9. \/ Edited(c.id, c.kind) /\ run'[r].pc # "publish"
        \/ Same /\ (Faults \/ c.id \notin Ids)
    BY <2>3, <2>5, <2>8, Editing, Leaving DEF Goes
  <2> QED
    BY <2>2, <2>4, <2>5, <2>7, <2>9
<1> QED
  BY <1>2, <1>3

LEMMA AnnounceUpdateDoes ==
    ASSUME Typed, NEW r \in Runs, AnnounceUpdate(r)
    PROVE  /\ Moves(r) /\ run[r].pc = "notice"
           /\ \/ Appears(r, "notice", "notice") /\ Goes(r, "cleanup")
              \/ Same /\ Faults /\ (Goes(r, "cleanup") \/ Goes(r, "publish"))
<1>1. \A p \in {"publish", "cleanup"} : p \in Pcs /\ Successor(r, At(r, p))
  BY AtFollows DEF Pcs
<1>2. Did(r, WithComment(Note(<<r, "notice">>, "notice", <<>>)), At(r, "cleanup"), At(r, "publish"))
  BY <1>1, PublishDoes DEF AnnounceUpdate
<1>3. "notice" \in Names /\ <<>> \in Seq(Entries)
  BY DEF Names
<1> QED
  BY <1>1, <1>2, <1>3, GoesAt, Publishing, Leaving DEF Did, Faults, AnnounceUpdate

LEMMA PublishWholeDoes ==
    ASSUME Typed, NEW r \in Runs, PublishWhole(r), run[r].kind \in {"review", "title"}
    PROVE  /\ Moves(r) /\ run[r].pc = "publish"
           /\ \/ Appears(r, run[r].kind, run[r].kind) /\ Goes(r, "cleanup")
              \/ Same /\ Faults /\ (Goes(r, "cleanup") \/ Ends(r))
<1>1. "cleanup" \in Pcs /\ Successor(r, At(r, "cleanup")) /\ Successor(r, Done(r))
  BY AtFollows DEF Pcs
<1>2. Did(r, WithComment(Note(<<r, run[r].kind>>, run[r].kind, <<>>)), At(r, "cleanup"), Done(r))
  BY <1>1, PublishDoes DEF PublishWhole
<1>3. run[r].kind \in Names /\ run[r].kind # "table" /\ <<>> \in Seq(Entries)
  BY DEF Names
<1> QED
  BY <1>1, <1>2, <1>3, GoesAt, Publishing, Leaving DEF Did, Faults, PublishWhole

LEMMA CleanupStepDoes ==
    ASSUME Typed, NEW r \in Runs, Cleanup(r)
    PROVE  /\ Moves(r) /\ run[r].pc = "cleanup" /\ Ends(r)
           /\ Removed(<<r, "temp">>) \/ (Same /\ Faults)
<1>1. Did(r, Without(<<r, "temp">>), Done(r), Done(r))
  BY AtFollows, CleanupDoes DEF Cleanup
<1> QED
  BY <1>1, GoesAt, Removing, Leaving DEF Did, Faults, Cleanup

\* The labels are written, and nothing else.
Relabels(L) == pr' \in Requests /\ pr'.comments = pr.comments /\ pr'.labels = L

LEMMA Relabelling ==
    ASSUME Typed, NEW L \in SUBSET Labels, pr' = [pr EXCEPT !.labels = Labelling(L)]
    PROVE  Relabels(Labelling(L))
  BY DEF Typed, Requests, Relabels, Labelling

LEMMA GetLabelsDoes ==
    ASSUME Typed, NEW r \in Runs, NEW y, Successor(r, y),
           GetLabels(r, At(r, "putLabels"), y)
    PROVE  /\ Moves(r) /\ Same
           /\ \/ /\ run'[r].pc = "putLabels" /\ run'[r].kind = run[r].kind
                 /\ run'[r].said = run[r].said /\ run'[r].labels = run[r].labels
                 /\ run'[r].listed = run[r].listed
                 /\ \/ /\ run'[r].seen = IF setting.host \in OldLabels
                                         THEN run[r].seen ELSE pr.labels
                       /\ failures' = failures
                    \/ run'[r].seen = {} /\ Faults
              \/ run'[r] = y /\ Faults
<1> DEFINE x == At(r, "putLabels")
           z(l) == [x EXCEPT !.seen = l]
<1>1. "putLabels" \in Pcs /\ x \in Records
  BY AtIs DEF Pcs
<1>2. ASSUME NEW l \in SUBSET Labels
      PROVE  /\ z(l) \in Records /\ z(l).tool = x.tool /\ z(l).met = x.met
             /\ z(l).pc = x.pc /\ z(l).kind = x.kind /\ z(l).said = x.said
             /\ z(l).labels = x.labels /\ z(l).listed = x.listed /\ z(l).seen = l
  <2> HIDE DEF x
  <2> QED
    BY <1>1, <1>2 DEF Records
<1>3. ASSUME NEW l \in SUBSET Labels, run' = [run EXCEPT ![r] = z(l)],
             setting' = setting, pr' = pr, acts' = acts,
             failures' = failures \/ (failures < MaxFailures /\ failures' = failures + 1)
      PROVE  /\ Moves(r) /\ Same
             /\ run'[r].pc = "putLabels" /\ run'[r].kind = run[r].kind
             /\ run'[r].said = run[r].said /\ run'[r].labels = run[r].labels
             /\ run'[r].listed = run[r].listed /\ run'[r].seen = l
  <2>1. run' \in [Runs -> Records] /\ run'[r] = z(l) /\ \A q \in Runs \ {r} : run'[q] = run[q]
    <3> HIDE DEF z
    <3> QED
      BY <1>2, <1>3 DEF Typed
  <2> QED
    BY <1>1, <1>2, <1>3, <2>1, AtIs, Leaving DEF Moves
<1>4. run[r].seen \in SUBSET Labels /\ pr.labels \in SUBSET Labels /\ {} \in SUBSET Labels
  BY DEF Typed, Records, Requests
<1>5. CASE /\ run' = [run EXCEPT ![r] = z(IF setting.host \in OldLabels
                                          THEN run[r].seen ELSE pr.labels)]
           /\ UNCHANGED <<setting, pr, failures, acts>>
  <2> DEFINE l == IF setting.host \in OldLabels THEN run[r].seen ELSE pr.labels
  <2>1. l \in SUBSET Labels
    BY <1>4
  <2> HIDE DEF l
  <2> QED
    BY <1>3, <1>5, <2>1 DEF l
<1>6. CASE Fails /\ Refused(r, "getLabels", z({}), y)
  <2>1. CASE run' = [run EXCEPT ![r] = z({})]
    BY <1>3, <1>4, <1>6, <2>1 DEF Fails, Refused, Faults
  <2>2. CASE run' = [run EXCEPT ![r] = y]
    BY <1>6, <2>2, Leaving DEF Typed, Moves, Successor, Fails, Refused, Faults
  <2> QED
    BY <1>6, <2>1, <2>2 DEF Refused
<1> QED
  BY <1>5, <1>6 DEF GetLabels

LEMMA PutLabelsDoes ==
    ASSUME Typed, NEW r \in Runs, NEW L \in SUBSET Labels, NEW x, NEW y,
           Successor(r, x), Successor(r, y), PutLabels(r, L, x, y)
    PROVE  /\ Moves(r)
           /\ \/ L = run[r].seen /\ Same /\ run'[r] = x
              \/ L # run[r].seen /\ Relabels(Labelling(L)) /\ run'[r] = x
              \/ Same /\ Faults /\ run'[r] \in {x, y}
<1>1. CASE L = run[r].seen
  BY <1>1, LocalDoes, Leaving DEF PutLabels
<1>2. CASE L # run[r].seen
  <2>1. Did(r, [pr EXCEPT !.labels = Labelling(L)], x, y)
    BY <1>2, CallDoes DEF PutLabels
  <2> QED
    BY <1>2, <2>1, Relabelling, Leaving DEF Did, Faults
<1> QED
  BY <1>1, <1>2

LEMMA StartCommentDoes ==
    ASSUME Typed, NEW r \in Runs, NEW y, Successor(r, y), NEW n \in {"temp", "progress"},
           NEW x, Successor(r, x), StartComment(r, n, n, x, y)
    PROVE  /\ Moves(r)
           /\ \/ run'[r] = x /\ Same /\ (setting.auto \/ setting.host = "bitbucket_server" \/ Faults)
              \/ ~setting.auto /\ Appears(r, n, n) /\ run'[r] = x
              \/ Same /\ Faults /\ run'[r] \in {x, y}
<1>1. CASE setting.auto \/ setting.host = "bitbucket_server"
  BY <1>1, LocalDoes, Leaving DEF StartComment
<1>2. CASE ~setting.auto /\ setting.host # "bitbucket_server"
  <2>1. PublishCall(r, Note(<<r, n>>, n, <<>>), x, y)
    BY <1>2, OptionsAreBoolean DEF StartComment
  <2>2. Did(r, WithComment(Note(<<r, n>>, n, <<>>)), x, y)
    BY <2>1, PublishDoes
  <2>3. n \in Names /\ n # "table" /\ <<>> \in Seq(Entries)
    BY DEF Names
  <2> QED
    BY <1>2, <2>2, <2>3, Publishing, Leaving DEF Did, Faults
<1> QED
  BY <1>1, <1>2, OptionsAreBoolean

\* The review and the describe tool begin alike.
LEMMA PrepareDoes ==
    ASSUME Typed, NEW r \in Runs, PrepareReview(r) \/ PrepareDescribe(r)
    PROVE  /\ Moves(r) /\ run[r].pc = "prepare"
           /\ \/ Goes(r, "predict") /\ Same
              \/ ~setting.auto /\ Appears(r, "temp", "temp") /\ Goes(r, "predict")
              \/ Same /\ Faults /\ Ends(r)
<1>1. "predict" \in Pcs /\ Successor(r, At(r, "predict")) /\ Successor(r, Done(r))
  BY AtFollows DEF Pcs
<1>2. run[r].pc = "prepare" /\ StartComment(r, "temp", "temp", At(r, "predict"), Done(r))
  BY DEF PrepareReview, PrepareDescribe
<1>3. Goes(r, "predict") \/ run'[r] # At(r, "predict")
  BY <1>1, GoesAt
<1>4. Ends(r) \/ run'[r] # Done(r)
  BY GoesAt
<1> QED
  BY <1>1, <1>2, <1>3, <1>4, StartCommentDoes

\* The model has answered with labels.
Answers(r, k, answers) ==
    /\ run'[r].pc = "getLabels" /\ run'[r].kind = k /\ run'[r].labels \in answers
    /\ run'[r].seen = run[r].seen /\ run'[r].listed = run[r].listed

Errs(r) ==
    /\ run'[r].pc = "done" /\ run'[r].kind = run[r].kind /\ run'[r].said = "error"
    /\ run'[r].labels = run[r].labels /\ run'[r].seen = {} /\ run'[r].listed = {}

LEMMA ErrorIs ==
    ASSUME Typed, NEW r \in Runs
    PROVE  LET x == [Done(r) EXCEPT !.said = "error"]
           IN  /\ Successor(r, x) /\ x.pc = "done" /\ x.kind = run[r].kind
               /\ x.said = "error" /\ x.labels = run[r].labels
               /\ x.seen = {} /\ x.listed = {}
<1>1. \A d \in Records : LET x == [d EXCEPT !.said = "error"]
                         IN  /\ x \in Records /\ x.tool = d.tool /\ x.met = d.met
                             /\ x.pc = d.pc /\ x.kind = d.kind /\ x.said = "error"
                             /\ x.labels = d.labels /\ x.seen = d.seen
                             /\ x.listed = d.listed
  BY DEF Records
<1> QED
  BY <1>1, DoneIs DEF Successor

LEMMA PredictReviewDoes ==
    ASSUME Typed, NEW r \in Runs, PredictReview(r)
    PROVE  /\ Moves(r) /\ Same /\ failures' = failures /\ run[r].pc = "predict"
           /\ \/ Errs(r)
              \/ Goes(r, "cleanup")
              \/ Answers(r, "review", ReviewAnswers) /\ run'[r].said \in {"issues", "nothing"}
<1>1. "cleanup" \in Pcs /\ "getLabels" \in Pcs /\ Successor(r, At(r, "cleanup"))
  BY AtFollows DEF Pcs
<1>2. run[r].pc = "predict"
  BY DEF PredictReview
<1>3. CASE Local(r, [Done(r) EXCEPT !.said = "error"])
  BY <1>2, <1>3, ErrorIs, LocalDoes, Leaving DEF Errs
<1>4. CASE Local(r, At(r, "cleanup"))
  BY <1>1, <1>2, <1>4, LocalDoes, GoesAt, Leaving
<1>5. ASSUME NEW L \in ReviewAnswers, NEW said \in {"issues", "nothing"},
             Local(r, [At(r, "getLabels") EXCEPT !.labels = L, !.said = said,
                                                 !.kind = "review"])
      PROVE  /\ Moves(r) /\ Same /\ failures' = failures
             /\ Answers(r, "review", ReviewAnswers) /\ run'[r].said \in {"issues", "nothing"}
  <2> DEFINE a == At(r, "getLabels")
             x == [a EXCEPT !.labels = L, !.said = said, !.kind = "review"]
  <2>1. L \in SUBSET Labels
    BY DEF ReviewAnswers, Labels, ReviewLabels, EffortLabels
  <2>2. a \in Records
    BY <1>1, AtIs
  <2>3. /\ x \in Records /\ x.tool = a.tool /\ x.met = a.met /\ x.pc = a.pc
        /\ x.kind = "review" /\ x.said = said /\ x.labels = L /\ x.seen = a.seen
        /\ x.listed = a.listed
    <3> HIDE DEF a
    <3> QED
      BY <2>1, <2>2 DEF Records
  <2>4. Successor(r, x)
    BY <1>1, <2>3, AtIs DEF Successor
  <2>5. Local(r, x)
    BY <1>5
  <2> HIDE DEF x
  <2> QED
    BY <1>1, <2>3, <2>4, <2>5, AtIs, LocalDoes, Leaving DEF Answers
<1> QED
  BY <1>2, <1>3, <1>4, <1>5 DEF PredictReview

LEMMA PredictDescribeDoes ==
    ASSUME Typed, NEW r \in Runs, PredictDescribe(r)
    PROVE  /\ Moves(r) /\ Same /\ failures' = failures /\ run[r].pc = "predict"
           /\ \/ Errs(r)
              \/ Goes(r, "cleanup")
              \/ Answers(r, "title", DescribeAnswers) /\ run'[r].said = run[r].said
<1>1. "cleanup" \in Pcs /\ "getLabels" \in Pcs /\ Successor(r, At(r, "cleanup"))
  BY AtFollows DEF Pcs
<1>2. run[r].pc = "predict"
  BY DEF PredictDescribe
<1>3. CASE Local(r, [Done(r) EXCEPT !.said = "error"])
  BY <1>2, <1>3, ErrorIs, LocalDoes, Leaving DEF Errs
<1>4. CASE Local(r, At(r, "cleanup"))
  BY <1>1, <1>2, <1>4, LocalDoes, GoesAt, Leaving
<1>5. ASSUME NEW L \in DescribeAnswers,
             Local(r, [At(r, "getLabels") EXCEPT !.labels = L, !.kind = "title"])
      PROVE  /\ Moves(r) /\ Same /\ failures' = failures
             /\ Answers(r, "title", DescribeAnswers) /\ run'[r].said = run[r].said
  <2> DEFINE a == At(r, "getLabels")
             x == [a EXCEPT !.labels = L, !.kind = "title"]
  <2>1. L \in SUBSET Labels
    BY DEF DescribeAnswers, Labels, TypeLabels
  <2>2. a \in Records
    BY <1>1, AtIs
  <2>3. /\ x \in Records /\ x.tool = a.tool /\ x.met = a.met /\ x.pc = a.pc
        /\ x.kind = "title" /\ x.said = a.said /\ x.labels = L /\ x.seen = a.seen
        /\ x.listed = a.listed
    <3> HIDE DEF a
    <3> QED
      BY <2>1, <2>2 DEF Records
  <2>4. Successor(r, x)
    BY <1>1, <2>3, AtIs DEF Successor
  <2>5. Local(r, x)
    BY <1>5
  <2> HIDE DEF x
  <2> QED
    BY <1>1, <2>3, <2>4, <2>5, AtIs, LocalDoes, Leaving DEF Answers
<1> QED
  BY <1>2, <1>3, <1>4, <1>5 DEF PredictDescribe

\* The labels are read.
Reads(r) ==
    /\ run'[r].pc = "putLabels" /\ run'[r].kind = run[r].kind
    /\ run'[r].said = run[r].said /\ run'[r].labels = run[r].labels
    /\ run'[r].listed = run[r].listed
    /\ \/ /\ run'[r].seen = IF setting.host \in OldLabels THEN run[r].seen ELSE pr.labels
          /\ failures' = failures
       \/ run'[r].seen = {} /\ Faults

\* The labels L are written, unless they are the ones read.
Writes(r, L) ==
    \/ L = run[r].seen /\ Same
    \/ Relabels(Labelling(L))
    \/ Same /\ Faults

LEMMA SetReviewLabelsDoes ==
    ASSUME Typed, NEW r \in Runs, SetReviewLabels(r)
    PROVE  /\ Moves(r)
           /\ \/ /\ run[r].pc = "getLabels" /\ Same
                 /\ Reads(r) \/ (Goes(r, "report") /\ (Faults \/ setting.host \notin Labelled))
              \/ /\ run[r].pc = "putLabels" /\ Goes(r, "report")
                 /\ Writes(r, run[r].labels \cup OthersLabels(r))
<1>1. "report" \in Pcs /\ Successor(r, At(r, "report"))
  BY AtFollows DEF Pcs
<1>2. Goes(r, "report") \/ run'[r] # At(r, "report")
  BY <1>1, GoesAt
<1>3. CASE run[r].pc = "getLabels"
  <2>1. CASE setting.host \in Labelled
    <3>1. GetLabels(r, At(r, "putLabels"), At(r, "report"))
      BY <1>3, <2>1 DEF SetReviewLabels
    <3> QED
      BY <1>1, <1>2, <1>3, <3>1, GetLabelsDoes DEF Reads
  <2>2. CASE setting.host \notin Labelled
    BY <1>1, <1>2, <1>3, <2>2, LocalDoes, Leaving DEF SetReviewLabels
  <2> QED
    BY <2>1, <2>2
<1>4. CASE run[r].pc = "putLabels"
  <2> DEFINE L == run[r].labels \cup OthersLabels(r)
  <2>1. L \in SUBSET Labels
    BY DEF Typed, Records, OthersLabels
  <2>2. PutLabels(r, L, At(r, "report"), At(r, "report"))
    BY <1>4 DEF SetReviewLabels
  <2> HIDE DEF L
  <2>3. Moves(r) /\ Goes(r, "report") /\ Writes(r, L)
    BY <1>1, <1>2, <2>1, <2>2, PutLabelsDoes DEF Writes
  <2> QED
    BY <1>4, <2>3 DEF L
<1> QED
  BY <1>3, <1>4 DEF SetReviewLabels

LEMMA SetTypeLabelsDoes ==
    ASSUME Typed, NEW r \in Runs, SetTypeLabels(r)
    PROVE  /\ Moves(r)
           /\ \/ /\ run[r].pc = "getLabels" /\ Same
                 /\ \/ Reads(r)
                    \/ Ends(r) /\ Faults
                    \/ Goes(r, "list") \/ Goes(r, "write")
              \/ /\ run[r].pc = "putLabels"
                 /\ Writes(r, run[r].labels \cup UsersLabels(r))
                 /\ \/ Goes(r, "list") \/ Goes(r, "write")
                    \/ Ends(r) /\ Same /\ Faults
<1>1. \A p \in {"list", "write"} : p \in Pcs /\ Successor(r, At(r, p))
  BY AtFollows DEF Pcs
<1>2. Successor(r, Done(r)) /\ (Ends(r) \/ run'[r] # Done(r))
  BY AtFollows, GoesAt
<1>3. \/ AfterLabels(r) = At(r, "list")
      \/ AfterLabels(r) = At(r, "write")
  BY DEF AfterLabels
<1>4. /\ Successor(r, AfterLabels(r))
      /\ Goes(r, "list") \/ Goes(r, "write") \/ run'[r] # AfterLabels(r)
  BY <1>1, <1>3, GoesAt
<1>5. CASE run[r].pc = "getLabels"
  <2>1. CASE setting.host \in Labelled
    <3>1. GetLabels(r, At(r, "putLabels"), Done(r))
      BY <1>5, <2>1 DEF SetTypeLabels
    <3> QED
      BY <1>2, <1>5, <3>1, GetLabelsDoes DEF Reads
  <2>2. CASE setting.host \notin Labelled
    BY <1>4, <1>5, <2>2, LocalDoes, Leaving DEF SetTypeLabels
  <2> QED
    BY <2>1, <2>2
<1>6. CASE run[r].pc = "putLabels"
  <2> DEFINE L == run[r].labels \cup UsersLabels(r)
  <2>1. L \in SUBSET Labels
    BY DEF Typed, Records, UsersLabels
  <2>2. PutLabels(r, L, AfterLabels(r), Done(r))
    BY <1>6 DEF SetTypeLabels
  <2> HIDE DEF L
  <2>3. /\ Moves(r) /\ Writes(r, L)
        /\ \/ Goes(r, "list") \/ Goes(r, "write")
           \/ Ends(r) /\ Same /\ Faults
    BY <1>2, <1>4, <2>1, <2>2, PutLabelsDoes DEF Writes
  <2> QED
    BY <1>6, <2>3 DEF L
<1> QED
  BY <1>5, <1>6 DEF SetTypeLabels

LEMMA ReportReviewDoes ==
    ASSUME Typed, NEW r \in Runs, ReportReview(r)
    PROVE  /\ Moves(r) /\ Same /\ run[r].pc = "report"
           /\ \/ Ends(r) /\ setting.quiet /\ run[r].said = "nothing"
              \/ Goes(r, "list")
<1>1. "list" \in Pcs /\ Successor(r, At(r, "list")) /\ Successor(r, Done(r))
  BY AtFollows DEF Pcs
<1>2. CASE setting.quiet /\ run[r].said = "nothing"
  BY <1>1, <1>2, LocalDoes, GoesAt, Leaving DEF ReportReview
<1>3. CASE ~(setting.quiet /\ run[r].said = "nothing")
  BY <1>1, <1>3, LocalDoes, GoesAt, Leaving DEF ReportReview
<1> QED
  BY <1>2, <1>3

LEMMA WriteDescriptionDoes ==
    ASSUME Typed, NEW r \in Runs, WriteDescription(r)
    PROVE  /\ Moves(r) /\ run[r].pc = "write" /\ Keeps /\ pr'.comments = pr.comments
           /\ \/ Goes(r, "cleanup") \/ Goes(r, "tell")
              \/ Same /\ Faults /\ Ends(r)
<1> DEFINE text == UserDescription(run[r].read)
           body == IF setting.markers THEN AnswerInMarkers(text) ELSE Answer(text)
           p == IF setting.auto THEN "cleanup" ELSE "tell"
<1>1. p \in {"cleanup", "tell"} /\ Successor(r, At(r, p)) /\ Successor(r, Done(r))
  BY AtFollows DEF Pcs
<1>2. body \in Seq(Parts)
  <2>1. text \in Seq(Parts)
    BY UserDescriptionIs DEF Typed, Records
  <2> HIDE DEF text
  <2> QED
    BY <2>1, AnswersAre
<1>3. run[r].pc = "write" /\ Call(r, "description", [pr EXCEPT !.body = body], At(r, p), Done(r))
  BY DEF WriteDescription
<1> HIDE DEF body, p
<1>4. Did(r, [pr EXCEPT !.body = body], At(r, p), Done(r))
  BY <1>1, <1>3, CallDoes
<1>5. pr' = [pr EXCEPT !.body = body] => Keeps /\ pr'.comments = pr.comments
  BY <1>2 DEF Typed, Requests, Keeps
<1>6. \/ run'[r] # At(r, p)
      \/ Goes(r, "cleanup") \/ Goes(r, "tell")
  BY <1>1, GoesAt DEF Pcs
<1> QED
  BY <1>3, <1>4, <1>5, <1>6, GoesAt, Leaving DEF Did, Faults

LEMMA TellDescriptionDoes ==
    ASSUME Typed, NEW r \in Runs, TellDescription(r)
    PROVE  /\ Moves(r) /\ run[r].pc = "tell"
           /\ \/ Appears(r, "notice", "notice") /\ Goes(r, "cleanup")
              \/ Same /\ Faults /\ (Goes(r, "cleanup") \/ Ends(r))
<1>1. "cleanup" \in Pcs /\ Successor(r, At(r, "cleanup")) /\ Successor(r, Done(r))
  BY AtFollows DEF Pcs
<1>2. Did(r, WithComment(Note(<<r, "notice">>, "notice", <<>>)), At(r, "cleanup"), Done(r))
  BY <1>1, PublishDoes DEF TellDescription
<1>3. "notice" \in Names /\ <<>> \in Seq(Entries)
  BY DEF Names
<1> QED
  BY <1>1, <1>2, <1>3, GoesAt, Publishing, Leaving DEF Did, Faults, TellDescription

-----------------------------------------------------------------------------
(* The improve tool.                                                       *)

LEMMA FirstAndRest ==
    ASSUME NEW S, NEW s \in Seq(S), s # <<>>
    PROVE  Head(s) \in S /\ Tail(s) \in Seq(S)
  OBVIOUS

LEMMA TwoMore ==
    ASSUME NEW S, NEW a \in S, NEW b \in S, NEW s \in Seq(S)
    PROVE  <<a, b>> \o s \in Seq(S) \ {<<>>}
<1>1. <<a, b>> \in Seq(S) /\ Len(<<a, b>>) = 2
  OBVIOUS
<1> DEFINE top == <<a, b>>
<1> HIDE DEF top
<1>2. top \o s \in Seq(S) /\ Len(top \o s) = 2 + Len(s) /\ Len(s) \in Nat
  BY <1>1 DEF top
<1> DEFINE whole == top \o s
<1> HIDE DEF whole
<1>3. whole # <<>>
  BY <1>2 DEF whole
<1> QED
  BY <1>2, <1>3 DEF whole, top

LEMMA TablesAre ==
    ASSUME Typed, NEW r \in Runs
    PROVE  /\ \A linked \in BOOLEAN : <<Table(r, linked)>> \in Seq(Entries)
           /\ \A tables \in Seq(Entries) \ {<<>>} :
                 Merged(r, tables) \in Seq(Entries) \ {<<>>}
<1>1. \A linked \in BOOLEAN : Table(r, linked) \in Entries
  BY DEF Table, Entries
<1>2. ASSUME NEW history \in Seq(Entries) PROVE Cut(history) \in Seq(Entries)
  <2> DEFINE at == {n \in DOMAIN history : Cuttable(history[n])}
             last == Max(at)
  <2>1. CASE at # {}
    <3>1. at \in SUBSET (1..Len(history)) /\ Len(history) \in Nat
      OBVIOUS
    <3>2. IsFiniteSet(1..Len(history))
      BY <3>1, FS_Interval
    <3>3. IsFiniteSet(at) /\ at \subseteq Nat
      BY <3>1, <3>2, FS_Subset
    <3>4. last \in at
      <4> HIDE DEF at
      <4> QED
        BY <2>1, <3>3, MaxIs
    <3>5. last - 1 \in 0..Len(history) /\ 1 \in 1..(Len(history) + 1)
      <4> HIDE DEF last
      <4> QED
        BY <3>1, <3>4
    <3>6. SubSeq(history, 1, last - 1) \in Seq(Entries)
      <4> HIDE DEF last
      <4> QED
        BY <3>5, PartIs
    <3> QED
      BY <3>6 DEF Cut
  <2>2. CASE at = {}
    BY <2>2 DEF Cut
  <2> QED
    BY <2>1, <2>2
<1>3. ASSUME NEW tables \in Seq(Entries) \ {<<>>}
      PROVE  Merged(r, tables) \in Seq(Entries) \ {<<>>}
  <2>1. tables \in Seq(Entries) /\ tables # <<>>
    BY <1>3
  <2>2. Head(tables) \in Entries /\ Tail(tables) \in Seq(Entries)
    BY <2>1, FirstAndRest
  <2>3. Table(r, TRUE) \in Entries
    BY <1>1
  <2>4. Cut(Tail(tables)) \in Seq(Entries)
    BY <1>2, <2>2
  <2> QED
    BY <2>2, <2>3, <2>4, TwoMore DEF Merged
<1> QED
  BY <1>1, <1>3

\* What comes of showing a body of the kind k.
Shows(r, k) ==
    \/ HasProgress(r) /\ Edited(ProgressId(r), k)
    \/ HasProgress(r) /\ ProgressId(r) \notin Ids /\ Same
    \/ ~HasProgress(r) /\ Appears(r, k, k) /\ Ends(r)
    \/ Same /\ Faults

LEMMA ShowDoes ==
    ASSUME Typed, NEW r \in Runs, NEW k \in {"table", "none"}, NEW tables \in Seq(Entries),
           k = "table" <=> tables # <<>>,
           Show(r, k, tables, Done(r), At(r, "failed"))
    PROVE  Moves(r) /\ Shows(r, k) /\ (Ends(r) \/ Goes(r, "failed"))
<1>1. "failed" \in Pcs /\ Successor(r, At(r, "failed")) /\ Successor(r, Done(r))
  BY AtFollows DEF Pcs
<1>2. /\ Goes(r, "failed") \/ run'[r] # At(r, "failed")
      /\ Ends(r) \/ run'[r] # Done(r)
  BY <1>1, GoesAt
<1>3. CASE HasProgress(r)
  <2> DEFINE c == Note(ProgressId(r), k, tables)
  <2>1. c \in Notes /\ c.id = ProgressId(r) /\ c.kind = k
    <3>1. "progress" \in Names /\ k \in Names
      BY DEF Names
    <3> QED
      BY <3>1, NoteIs DEF ProgressId
  <2>2. EditCall(r, ProgressId(r), c, Done(r), At(r, "failed"))
    BY <1>3 DEF Show
  <2> HIDE DEF c
  <2>3. \/ /\ ProgressId(r) \in Ids
           /\ Did(r, WithEdit(ProgressId(r), c), Done(r), At(r, "failed"))
        \/ ProgressId(r) \notin Ids /\ Did(r, pr, Done(r), At(r, "failed"))
        \/ /\ ProgressId(r) \notin Ids /\ Moves(r) /\ run'[r] = At(r, "failed")
           /\ pr' = pr /\ failures' = failures
    BY <1>1, <2>2, EditDoes
  <2>4. Moves(r) /\ run'[r] \in {Done(r), At(r, "failed")}
    BY <2>3 DEF Did
  <2>5. \/ ProgressId(r) \in Ids /\ pr' = WithEdit(ProgressId(r), c)
        \/ ProgressId(r) \notin Ids /\ pr' = pr
        \/ pr' = pr /\ Faults
    BY <2>3 DEF Did, Faults
  <2>6. Shows(r, k)
    BY <1>3, <2>1, <2>5, Editing, Leaving DEF Shows
  <2> QED
    BY <1>2, <2>4, <2>6
<1>4. CASE ~HasProgress(r)
  <2>1. PublishCall(r, Note(<<r, k>>, k, tables), Done(r), At(r, "failed"))
    BY <1>4 DEF Show
  <2>2. Did(r, WithComment(Note(<<r, k>>, k, tables)), Done(r), At(r, "failed"))
    BY <1>1, <2>1, PublishDoes
  <2>3. k \in Names
    BY DEF Names
  <2> QED
    BY <1>2, <1>4, <2>2, <2>3, Publishing, Leaving DEF Did, Faults, Shows
<1> QED
  BY <1>3, <1>4

LEMMA PrepareImproveDoes ==
    ASSUME Typed, NEW r \in Runs, PrepareImprove(r)
    PROVE  /\ Moves(r) /\ run[r].pc = "prepare"
           /\ \/ /\ setting.host \in Gfm
                 /\ run'[r].pc = "predict" /\ run'[r].kind = "progress"
                 /\ run'[r].said = run[r].said /\ run'[r].labels = run[r].labels
                 /\ run'[r].seen = run[r].seen /\ run'[r].listed = run[r].listed
                 /\ Same \/ (~setting.auto /\ Appears(r, "progress", "progress"))
              \/ /\ setting.host \notin Gfm /\ Goes(r, "predict")
                 /\ Same \/ (~setting.auto /\ Appears(r, "temp", "temp"))
              \/ Same /\ Faults /\ Goes(r, "failed")
<1>1. /\ "predict" \in Pcs /\ Successor(r, At(r, "predict"))
      /\ "failed" \in Pcs /\ Successor(r, At(r, "failed"))
  BY AtFollows DEF Pcs
<1>2. /\ Goes(r, "predict") \/ run'[r] # At(r, "predict")
      /\ Goes(r, "failed") \/ run'[r] # At(r, "failed")
  BY <1>1, GoesAt
<1>3. CASE setting.host \in Gfm
  <2> DEFINE a == At(r, "predict")
             x == [a EXCEPT !.kind = "progress"]
  <2>1. a \in Records
    BY <1>1, AtIs
  <2>2. /\ x \in Records /\ x.tool = a.tool /\ x.met = a.met /\ x.pc = a.pc
        /\ x.kind = "progress" /\ x.said = a.said /\ x.labels = a.labels
        /\ x.seen = a.seen /\ x.listed = a.listed
    <3> HIDE DEF a
    <3> QED
      BY <2>1 DEF Records
  <2>3. Successor(r, x)
    BY <1>1, <2>2, AtIs DEF Successor
  <2>4. StartComment(r, "progress", "progress", x, At(r, "failed")) /\ run[r].pc = "prepare"
    BY <1>3 DEF PrepareImprove
  <2>5. /\ x.pc = "predict" /\ x.said = run[r].said /\ x.labels = run[r].labels
        /\ x.seen = run[r].seen /\ x.listed = run[r].listed
    BY <1>1, <2>2, AtIs
  <2> HIDE DEF x
  <2> QED
    BY <1>1, <1>2, <1>3, <2>2, <2>3, <2>4, <2>5, StartCommentDoes
<1>4. CASE setting.host \notin Gfm
  <2>1. StartComment(r, "temp", "temp", At(r, "predict"), At(r, "failed")) /\ run[r].pc = "prepare"
    BY <1>4 DEF PrepareImprove
  <2> QED
    BY <1>1, <1>2, <1>4, <2>1, StartCommentDoes
<1> QED
  BY <1>3, <1>4

LEMMA PredictImproveDoes ==
    ASSUME Typed, NEW r \in Runs, PredictImprove(r)
    PROVE  /\ Moves(r) /\ Same /\ failures' = failures /\ run[r].pc = "predict"
           /\ \/ Goes(r, "failed")
              \/ /\ run'[r].kind = run[r].kind /\ run'[r].labels = run[r].labels
                 /\ run'[r].seen = run[r].seen /\ run'[r].listed = run[r].listed
                 /\ \/ run'[r].pc = "none" /\ run'[r].said = "nothing"
                    \/ run'[r].pc = "found" /\ run'[r].said \in {"plain", "tick"}
<1>1. \A p \in {"failed", "none", "found"} : p \in Pcs /\ Successor(r, At(r, p))
  BY AtFollows DEF Pcs
<1>2. run[r].pc = "predict"
  BY DEF PredictImprove
<1>3. CASE Local(r, At(r, "failed"))
  BY <1>1, <1>2, <1>3, LocalDoes, GoesAt, Leaving
<1>4. ASSUME NEW p \in {"none", "found"}, NEW said \in {"nothing", "plain", "tick"},
             Local(r, [At(r, p) EXCEPT !.said = said])
      PROVE  /\ Moves(r) /\ Same /\ failures' = failures
             /\ run'[r].pc = p /\ run'[r].said = said
             /\ run'[r].kind = run[r].kind /\ run'[r].labels = run[r].labels
             /\ run'[r].seen = run[r].seen /\ run'[r].listed = run[r].listed
  <2> DEFINE a == At(r, p)
             x == [a EXCEPT !.said = said]
  <2>1. a \in Records
    BY <1>1, AtIs
  <2>2. /\ x \in Records /\ x.tool = a.tool /\ x.met = a.met /\ x.pc = a.pc
        /\ x.kind = a.kind /\ x.said = said /\ x.labels = a.labels
        /\ x.seen = a.seen /\ x.listed = a.listed
    <3> HIDE DEF a
    <3> QED
      BY <2>1 DEF Records
  <2>3. Successor(r, x)
    BY <1>1, <2>2, AtIs DEF Successor
  <2>4. Local(r, x)
    BY <1>4
  <2> HIDE DEF x
  <2> QED
    BY <1>1, <2>2, <2>3, <2>4, AtIs, LocalDoes, Leaving
<1> QED
  BY <1>2, <1>3, <1>4 DEF PredictImprove

LEMMA NoSuggestionsDoes ==
    ASSUME Typed, NEW r \in Runs, NoSuggestions(r)
    PROVE  /\ Moves(r) /\ run[r].pc = "none"
           /\ \/ setting.quiet /\ Same /\ Ends(r)
              \/ ~setting.quiet /\ Shows(r, "none") /\ (Ends(r) \/ Goes(r, "failed"))
<1>1. CASE setting.quiet
  BY <1>1, AtFollows, LocalDoes, GoesAt, Leaving DEF NoSuggestions
<1>2. CASE ~setting.quiet
  <2>1. Show(r, "none", <<>>, Done(r), At(r, "failed")) /\ run[r].pc = "none"
    BY <1>2 DEF NoSuggestions
  <2>2. <<>> \in Seq(Entries)
    OBVIOUS
  <2> QED
    BY <1>2, <2>1, <2>2, ShowDoes
<1> QED
  BY <1>1, <1>2

LEMMA FoundSuggestionsDoes ==
    ASSUME Typed, NEW r \in Runs, FoundSuggestions(r)
    PROVE  /\ Moves(r) /\ run[r].pc = "found"
           /\ Goes(r, "inline") \/ Goes(r, "look") \/ Goes(r, "single")
           /\ Removed(<<r, "temp">>) \/ (Same /\ Faults)
<1> DEFINE p == IF setting.commitable \/ setting.host \notin Gfm THEN "inline"
                ELSE IF setting.persistent THEN "look" ELSE "single"
<1>1. p \in {"inline", "look", "single"}
  OBVIOUS
<1>2. CleanupCall(r, At(r, p)) /\ run[r].pc = "found"
  BY DEF FoundSuggestions
<1> HIDE DEF p
<1>3. p \in Pcs /\ Successor(r, At(r, p))
  BY <1>1, AtFollows DEF Pcs
<1>4. Did(r, Without(<<r, "temp">>), At(r, p), At(r, p))
  BY <1>2, <1>3, CleanupDoes
<1>5. Goes(r, p)
  BY <1>3, <1>4, GoesAt DEF Did
<1> QED
  BY <1>1, <1>2, <1>4, <1>5, Removing, Leaving DEF Did, Faults

LEMMA PushInlineDoes ==
    ASSUME Typed, NEW r \in Runs, PushInline(r)
    PROVE  /\ Moves(r)
           /\ \/ /\ run[r].pc = "inline" /\ Same
                 /\ \/ HasProgress(r) /\ Goes(r, "unprogress")
                    \/ ~HasProgress(r) /\ Ends(r)
                    \/ Goes(r, "failed") /\ Faults
              \/ /\ run[r].pc = "unprogress"
                 /\ \/ Removed(ProgressId(r)) /\ Ends(r)
                    \/ Same /\ Faults /\ (Ends(r) \/ Goes(r, "failed"))
<1>1. /\ \A p \in {"failed", "unprogress"} : p \in Pcs /\ Successor(r, At(r, p))
      /\ Successor(r, Done(r))
  BY AtFollows DEF Pcs
<1>2. /\ \A p \in {"failed", "unprogress"} : Goes(r, p) \/ run'[r] # At(r, p)
      /\ Ends(r) \/ run'[r] # Done(r)
  BY <1>1, GoesAt
<1>3. CASE run[r].pc = "inline"
  <2> DEFINE x == IF HasProgress(r) THEN At(r, "unprogress") ELSE Done(r)
  <2>1. Call(r, "inline", pr, x, At(r, "failed"))
    BY <1>3 DEF PushInline
  <2>2. Successor(r, x)
    BY <1>1
  <2> HIDE DEF x
  <2>3. Did(r, pr, x, At(r, "failed"))
    BY <1>1, <2>1, <2>2, CallDoes
  <2> QED
    BY <1>2, <1>3, <2>3, Leaving DEF Did, Faults, x
<1>4. CASE run[r].pc = "unprogress"
  <2>1. Call(r, "remove", Without(ProgressId(r)), Done(r), At(r, "failed"))
    BY <1>4 DEF PushInline
  <2>2. Did(r, Without(ProgressId(r)), Done(r), At(r, "failed"))
    BY <1>1, <2>1, CallDoes
  <2> QED
    BY <1>2, <1>4, <2>2, Removing, Leaving DEF Did, Faults
<1> QED
  BY <1>3, <1>4 DEF PushInline

\* The two steps that show the table of the run alone.
LEMMA PublishTablesDo ==
    ASSUME Typed, NEW r \in Runs, PublishSingle(r) \/ PublishTable(r)
    PROVE  /\ Moves(r) /\ run[r].pc \in {"single", "whole"}
           /\ Shows(r, "table") /\ (Ends(r) \/ Goes(r, "failed"))
<1>1. PICK linked \in BOOLEAN : Show(r, "table", <<Table(r, linked)>>, Done(r), At(r, "failed"))
  BY DEF PublishSingle, PublishTable
<1>2. run[r].pc \in {"single", "whole"}
  BY DEF PublishSingle, PublishTable
<1>3. <<Table(r, linked)>> \in Seq(Entries) /\ <<Table(r, linked)>> # <<>>
  BY TablesAre
<1> QED
  BY <1>1, <1>2, <1>3, ShowDoes

\* The run goes on with the listing S.
GoesWith(r, p, S) ==
    /\ run'[r].pc = p /\ run'[r].kind = run[r].kind /\ run'[r].said = run[r].said
    /\ run'[r].labels = run[r].labels /\ run'[r].seen = run[r].seen
    /\ run'[r].listed = S

LEMMA LookForSuggestionsDoes ==
    ASSUME Typed, NEW r \in Runs, LookForSuggestions(r)
    PROVE  /\ Moves(r) /\ Same /\ run[r].pc = "look"
           /\ \/ GoesWith(r, "merge", Headed(pr.comments, "suggestions"))
              \/ Goes(r, "whole") /\ Faults
<1> DEFINE S == Headed(pr.comments, "suggestions")
           a == At(r, "merge")
           x == [a EXCEPT !.listed = S]
<1>1. /\ "merge" \in Pcs /\ "whole" \in Pcs /\ Successor(r, At(r, "whole"))
      /\ a \in Records /\ S \in Listings
  BY AtFollows, AtIs, CommentsAre, HeadedAre DEF Pcs
<1>2. /\ Successor(r, x) /\ x.pc = "merge" /\ x.kind = run[r].kind /\ x.said = run[r].said
      /\ x.labels = run[r].labels /\ x.seen = run[r].seen /\ x.listed = S
  <2> HIDE DEF S
  <2> QED
    BY <1>1, AtIs, Relisted DEF Successor
<1>3. Call(r, "list", pr, x, At(r, "whole")) /\ run[r].pc = "look"
  BY DEF LookForSuggestions
<1> HIDE DEF x, S
<1>4. Did(r, pr, x, At(r, "whole"))
  BY <1>1, <1>2, <1>3, CallDoes
<1> QED
  BY <1>1, <1>2, <1>3, <1>4, GoesAt, Leaving DEF Did, Faults, GoesWith, S

\* A note that r has overwritten.
LEMMA OverwrittenIs ==
    ASSUME Typed, NEW r \in Runs, NEW id \in Runs \X Names,
           NEW tables \in Seq(Entries) \ {<<>>}
    PROVE  LET e == [Note(id, "table", tables) EXCEPT !.by = r]
           IN  e \in Notes /\ e.id = id /\ e.kind = "table" /\ e.tables = tables
<1> DEFINE d == Note(id, "table", tables)
<1>1. PICK q \in Runs, n \in Names : id = <<q, n>>
  OBVIOUS
<1>2. "table" \in Names
  BY DEF Names
<1>3. d \in Notes /\ d.id = id /\ d.kind = "table" /\ d.tables = tables
  BY <1>1, <1>2, NoteIs
<1> HIDE DEF d
<1>4. /\ [d EXCEPT !.by = r] \in Notes /\ [d EXCEPT !.by = r].id = d.id
      /\ [d EXCEPT !.by = r].kind = d.kind /\ [d EXCEPT !.by = r].tables = d.tables
  BY <1>3 DEF Notes
<1> QED
  BY <1>3, <1>4 DEF d

LEMMA OverwriteNoneDoes ==
    ASSUME Typed, NEW r \in Runs, OverwriteNone(r)
    PROVE  /\ Moves(r) /\ run[r].pc = "merge"
           /\ \E c \in run[r].listed :
                 /\ c.kind = "none"
                 /\ Edited(c.id, "table") \/ Same
                 /\ Goes(r, "whole") \/ GoesWith(r, "merge", run[r].listed \ {c})
<1> DEFINE S == run[r].listed
           c == First(S)
           x == [run[r] EXCEPT !.listed = S \ {c}]
           e == [Note(c.id, "table", <<Table(r, FALSE)>>) EXCEPT !.by = r]
<1>1. run[r] \in Records /\ S \in Listings /\ S # {} /\ c.kind = "none" /\ run[r].pc = "merge"
  BY DEF Typed, Records, OverwriteNone
<1>2. c \in S /\ c.id \in Runs \X Names
  <2> HIDE DEF S
  <2> QED
    BY <1>1, FirstIs DEF Listings, Notes
<1>3. EditCall(r, c.id, e, x, At(r, "whole"))
  BY DEF OverwriteNone
<1>4. S \ {c} \in Listings
  <2> HIDE DEF S, c
  <2> QED
    BY <1>1, FS_RemoveElement DEF Listings
<1>5. /\ Successor(r, x) /\ x.pc = "merge" /\ x.kind = run[r].kind /\ x.said = run[r].said
      /\ x.labels = run[r].labels /\ x.seen = run[r].seen /\ x.listed = S \ {c}
  <2> HIDE DEF S, c
  <2> QED
    BY <1>1, <1>4, Relisted DEF Successor
<1>6. e \in Notes /\ e.id = c.id /\ e.kind = "table"
  <2> HIDE DEF c
  <2> DEFINE tables == <<Table(r, FALSE)>>
             d == [Note(c.id, "table", tables) EXCEPT !.by = r]
  <2>1. tables \in Seq(Entries) \ {<<>>}
    BY TablesAre
  <2>2. d = e
    OBVIOUS
  <2> HIDE DEF tables, e
  <2>3. d \in Notes /\ d.id = c.id /\ d.kind = "table"
    BY <1>2, <2>1, OverwrittenIs
  <2> QED
    BY <2>2, <2>3
<1> HIDE DEF S, c, x, e
<1>7. "whole" \in Pcs /\ Successor(r, At(r, "whole"))
  BY AtFollows DEF Pcs
<1>8. \/ c.id \in Ids /\ Did(r, WithEdit(c.id, e), x, At(r, "whole"))
      \/ c.id \notin Ids /\ Did(r, pr, x, At(r, "whole"))
      \/ /\ c.id \notin Ids /\ Moves(r) /\ run'[r] = At(r, "whole")
         /\ pr' = pr /\ failures' = failures
  BY <1>3, <1>5, <1>7, EditDoes
<1>9. Moves(r) /\ run'[r] \in {x, At(r, "whole")}
  BY <1>8 DEF Did
<1>10. \/ c.id \in Ids /\ pr' = WithEdit(c.id, e)
       \/ pr' = pr
  BY <1>8 DEF Did
<1>11. Edited(c.id, "table") \/ Same
  BY <1>6, <1>10, Editing, Leaving
<1>12. Goes(r, "whole") \/ GoesWith(r, "merge", S \ {c})
  BY <1>5, <1>7, <1>9, GoesAt DEF GoesWith
<1> QED
  BY <1>1, <1>2, <1>9, <1>11, <1>12 DEF S

LEMMA MergeIntoDoes ==
    ASSUME Typed, NEW r \in Runs, MergeInto(r)
    PROVE  /\ Moves(r) /\ run[r].pc = "merge"
           /\ \E c \in run[r].listed :
                 /\ c.kind = "table"
                 /\ \/ /\ HasProgress(r)
                       /\ \/ Edited(ProgressId(r), "table") /\ Goes(r, "unlist")
                          \/ /\ Same /\ (Faults \/ ProgressId(r) \notin Ids)
                             /\ Goes(r, "unlist") \/ Goes(r, "whole")
                    \/ /\ ~HasProgress(r)
                       /\ Edited(c.id, "table") \/ Same
                       /\ Ends(r) \/ Goes(r, "whole")
<1> DEFINE S == run[r].listed
           c == First(S)
           id == IF HasProgress(r) THEN ProgressId(r) ELSE c.id
           x == IF HasProgress(r) THEN At(r, "unlist") ELSE Done(r)
           e == [Note(id, "table", Merged(r, c.tables)) EXCEPT !.by = r]
<1>1. S \in Listings /\ S # {} /\ c.kind = "table" /\ run[r].pc = "merge"
  BY DEF Typed, Records, MergeInto
<1>2. c \in S /\ c \in Notes
  <2> HIDE DEF S
  <2> QED
    BY <1>1, FirstIs DEF Listings
<1>3. EditCall(r, id, e, x, At(r, "whole"))
  BY DEF MergeInto
<1> HIDE DEF c
<1>4. e \in Notes /\ e.id = id /\ e.kind = "table"
  <2>1. id \in Runs \X Names
    BY <1>2 DEF Notes, ProgressId, Names
  <2>2. c.tables \in Seq(Entries) \ {<<>>}
    BY <1>1, <1>2 DEF Notes
  <2>3. Merged(r, c.tables) \in Seq(Entries) \ {<<>>}
    BY <2>2, TablesAre
  <2> HIDE DEF id
  <2> QED
    BY <2>1, <2>3, OverwrittenIs
<1> HIDE DEF S, x, e, id
<1>5. /\ "whole" \in Pcs /\ Successor(r, At(r, "whole"))
      /\ "unlist" \in Pcs /\ Successor(r, At(r, "unlist")) /\ Successor(r, Done(r))
  BY AtFollows DEF Pcs
<1>6. Successor(r, x)
  BY <1>5 DEF x
<1>7. \/ id \in Ids /\ Did(r, WithEdit(id, e), x, At(r, "whole"))
      \/ id \notin Ids /\ Did(r, pr, x, At(r, "whole"))
      \/ /\ id \notin Ids /\ Moves(r) /\ run'[r] = At(r, "whole")
         /\ pr' = pr /\ failures' = failures
  BY <1>3, <1>5, <1>6, EditDoes
<1>8. Moves(r) /\ run'[r] \in {x, At(r, "whole")}
  BY <1>7 DEF Did
<1>9. \/ Edited(id, "table") /\ run'[r] = x
      \/ Same /\ (Faults \/ id \notin Ids)
  <2>1. \/ id \in Ids /\ pr' = WithEdit(id, e) /\ run'[r] = x
        \/ pr' = pr /\ (Faults \/ id \notin Ids)
    BY <1>7 DEF Did, Faults
  <2> QED
    BY <1>4, <2>1, Editing, Leaving
<1>10. Goes(r, "whole") \/ run'[r] = x
  BY <1>5, <1>8, GoesAt
<1>11. CASE HasProgress(r)
  <2>1. Goes(r, "unlist") \/ run'[r] # x
    BY <1>5, <1>11, GoesAt DEF x
  <2> QED
    BY <1>1, <1>2, <1>8, <1>9, <1>10, <1>11, <2>1 DEF S, id
<1>12. CASE ~HasProgress(r)
  <2>1. Ends(r) \/ run'[r] # x
    BY <1>5, <1>12, GoesAt DEF x
  <2> QED
    BY <1>1, <1>2, <1>8, <1>9, <1>10, <1>12, <2>1 DEF S, id
<1> QED
  BY <1>11, <1>12

LEMMA RemoveMergedDoes ==
    ASSUME Typed, NEW r \in Runs, RemoveMerged(r), run[r].listed # {}
    PROVE  /\ Moves(r) /\ run[r].pc = "unlist"
           /\ \E c \in run[r].listed :
                 \/ Removed(c.id) /\ Ends(r)
                 \/ Same /\ Faults /\ (Ends(r) \/ Goes(r, "whole"))
<1> DEFINE c == First(run[r].listed)
<1>1. c \in run[r].listed
  BY FirstIs DEF Typed, Records
<1>2. "whole" \in Pcs /\ Successor(r, At(r, "whole")) /\ Successor(r, Done(r))
  BY AtFollows DEF Pcs
<1>3. Did(r, Without(c.id), Done(r), At(r, "whole"))
  BY <1>2, CallDoes DEF RemoveMerged
<1> HIDE DEF c
<1> QED
  BY <1>1, <1>2, <1>3, GoesAt, Removing, Leaving DEF Did, Faults, RemoveMerged

LEMMA NothingToMergeDoes ==
    ASSUME Typed, NEW r \in Runs, NothingToMerge(r)
    PROVE  Moves(r) /\ Same /\ run[r].pc = "merge" /\ Goes(r, "whole")
<1>1. "whole" \in Pcs /\ Successor(r, At(r, "whole"))
  BY AtFollows DEF Pcs
<1> QED
  BY <1>1, LocalDoes, GoesAt, Leaving DEF NothingToMerge

LEMMA ImproveFailedDoes ==
    ASSUME Typed, NEW r \in Runs, ImproveFailed(r)
    PROVE  /\ Moves(r)
           /\ \/ /\ run[r].pc = "failed" /\ HasProgress(r) /\ Ends(r)
                 /\ Removed(ProgressId(r)) \/ (Same /\ Faults)
              \/ /\ run[r].pc = "failed" /\ ~HasProgress(r) /\ Goes(r, "tell")
                 /\ Removed(<<r, "temp">>) \/ (Same /\ Faults)
              \/ /\ run[r].pc = "tell" /\ Ends(r)
                 /\ Appears(r, "failed", "failed") \/ (Same /\ Faults)
<1>1. /\ "tell" \in Pcs /\ Successor(r, At(r, "tell")) /\ Successor(r, Done(r))
      /\ "failed" \in Names /\ <<>> \in Seq(Entries)
  BY AtFollows DEF Pcs, Names
<1>2. CASE run[r].pc = "failed" /\ HasProgress(r)
  <2>1. Call(r, "remove", Without(ProgressId(r)), Done(r), Done(r))
    BY <1>2 DEF ImproveFailed
  <2>2. Did(r, Without(ProgressId(r)), Done(r), Done(r))
    BY <1>1, <2>1, CallDoes
  <2> QED
    BY <1>2, <2>2, GoesAt, Removing, Leaving DEF Did, Faults
<1>3. CASE run[r].pc = "failed" /\ ~HasProgress(r)
  <2>1. CleanupCall(r, At(r, "tell"))
    BY <1>3 DEF ImproveFailed
  <2>2. Did(r, Without(<<r, "temp">>), At(r, "tell"), At(r, "tell"))
    BY <1>1, <2>1, CleanupDoes
  <2> QED
    BY <1>1, <1>3, <2>2, GoesAt, Removing, Leaving DEF Did, Faults
<1>4. CASE run[r].pc = "tell"
  <2>1. PublishCall(r, Note(<<r, "failed">>, "failed", <<>>), Done(r), Done(r))
    BY <1>4 DEF ImproveFailed
  <2>2. Did(r, WithComment(Note(<<r, "failed">>, "failed", <<>>)), Done(r), Done(r))
    BY <1>1, <2>1, PublishDoes
  <2> QED
    BY <1>1, <1>4, <2>2, GoesAt, Publishing, Leaving DEF Did, Faults
<1> QED
  BY <1>2, <1>3, <1>4 DEF ImproveFailed

-----------------------------------------------------------------------------
(* The start of a run, and the users.                                      *)

LEMMA StartDoes ==
    ASSUME Typed, NEW r \in Runs, Start(r)
    PROVE  /\ setting' = setting /\ Same /\ failures' = failures
           /\ run' \in [Runs -> Records]
           /\ run[r].pc = "idle" /\ \A q \in Runs : q < r => run[q].pc # "idle"
           /\ run'[r].pc = "prepare" /\ run'[r].seen = pr.labels
           /\ run'[r].met = {q \in Runs : Active(q)}
           /\ \A q \in Runs \ {r} :
                 /\ run'[q].pc = run[q].pc /\ run'[q].seen = run[q].seen
                 /\ run'[q].met = IF Active(q) THEN run[q].met \cup {r} ELSE run[q].met
           /\ \A q \in Runs :
                 /\ run'[q].tool = run[q].tool /\ run'[q].kind = run[q].kind
                 /\ run'[q].said = run[q].said /\ run'[q].labels = run[q].labels
                 /\ run'[q].listed = run[q].listed
<1> DEFINE first == [run[r] EXCEPT !.pc = "prepare", !.seen = pr.labels,
                                   !.read = pr.body, !.met = {p \in Runs : Active(p)}]
           meets(q) == [run[q] EXCEPT !.met = @ \cup {r}]
           next(q) == IF q = r THEN first ELSE IF Active(q) THEN meets(q) ELSE run[q]
<1>1. /\ first \in Records /\ first.pc = "prepare" /\ first.seen = pr.labels
      /\ first.met = {p \in Runs : Active(p)} /\ first.tool = run[r].tool
      /\ first.kind = run[r].kind /\ first.said = run[r].said
      /\ first.labels = run[r].labels /\ first.listed = run[r].listed
  <2>1. /\ run[r] \in Records /\ "prepare" \in Pcs /\ pr.labels \in SUBSET Labels
        /\ pr.body \in Seq(Parts) /\ {p \in Runs : Active(p)} \in SUBSET Runs
    BY DEF Typed, Requests, Pcs
  <2> QED
    BY <2>1 DEF Records
<1>2. ASSUME NEW q \in Runs
      PROVE  /\ meets(q) \in Records /\ meets(q).pc = run[q].pc
             /\ meets(q).seen = run[q].seen /\ meets(q).met = run[q].met \cup {r}
             /\ meets(q).tool = run[q].tool /\ meets(q).kind = run[q].kind
             /\ meets(q).said = run[q].said /\ meets(q).labels = run[q].labels
             /\ meets(q).listed = run[q].listed
  <2>1. run[q] \in Records
    BY DEF Typed
  <2> QED
    BY <2>1 DEF Records
<1>3. /\ run' = [q \in Runs |-> next(q)] /\ UNCHANGED <<setting, pr, failures, acts>>
      /\ run[r].pc = "idle" /\ \A q \in Runs : q < r => run[q].pc # "idle"
  BY DEF Start
<1> HIDE DEF first, meets
<1>4. \A q \in Runs : run[q] \in Records
  BY DEF Typed
<1>5. run' \in [Runs -> Records] /\ \A q \in Runs : run'[q] = next(q)
  BY <1>1, <1>2, <1>3, <1>4
<1> QED
  BY <1>1, <1>2, <1>3, <1>5, Leaving

\* Most of what the start of a run leaves alone.
LEMMA StartKeeps ==
    ASSUME Typed, NEW r \in Runs, Start(r)
    PROVE  /\ pr' = pr /\ run[r].pc = "idle" /\ run'[r].pc = "prepare"
           /\ \A q \in Runs \ {r} : run'[q].pc = run[q].pc /\ run'[q].seen = run[q].seen
           /\ \A q \in Runs :
                 /\ run'[q].tool = run[q].tool /\ run'[q].kind = run[q].kind
                 /\ run'[q].said = run[q].said /\ run'[q].labels = run[q].labels
                 /\ run'[q].listed = run[q].listed
<1>1. pr' = pr /\ run[r].pc = "idle"
  BY DEF Start
<1>2. run'[r].pc = "prepare"
  BY StartDoes
<1>3. ASSUME NEW q \in Runs \ {r} PROVE run'[q].pc = run[q].pc /\ run'[q].seen = run[q].seen
  <2>1. run'[q].pc = run[q].pc
    BY StartDoes
  <2>2. /\ run[q] \in Records
        /\ run'[q] = IF Active(q) THEN [run[q] EXCEPT !.met = @ \cup {r}] ELSE run[q]
    BY DEF Typed, Start
  <2> QED
    BY <2>1, <2>2 DEF Records
<1>4. ASSUME NEW q \in Runs
      PROVE  /\ run'[q].tool = run[q].tool /\ run'[q].kind = run[q].kind
             /\ run'[q].said = run[q].said /\ run'[q].labels = run[q].labels
             /\ run'[q].listed = run[q].listed
  BY StartDoes
<1> QED
  BY <1>1, <1>2, <1>3, <1>4

\* Users change labels of theirs, or the description.
LEMMA UsersDo ==
    ASSUME Typed, Users
    PROVE  /\ UNCHANGED <<setting, run, failures>> /\ acts' # acts
           /\ pr' \in Requests /\ pr'.comments = pr.comments
           /\ pr'.labels \ UserLabels = pr.labels \ UserLabels
<1>1. CASE Relabel
  <2>1. PICK l \in UserLabels :
           pr' = [pr EXCEPT !.labels = IF l \in @ THEN @ \ {l} ELSE @ \cup {l}]
    BY <1>1 DEF Relabel
  <2> DEFINE L == IF l \in pr.labels THEN pr.labels \ {l} ELSE pr.labels \cup {l}
  <2>2. L \in SUBSET Labels /\ L \ UserLabels = pr.labels \ UserLabels
    BY DEF Typed, Requests, Labels
  <2>3. pr' = [pr EXCEPT !.labels = L]
    BY <2>1
  <2> HIDE DEF L
  <2>4. pr' \in Requests /\ pr'.comments = pr.comments /\ pr'.labels = L
    BY <2>2, <2>3 DEF Typed, Requests
  <2> QED
    BY <1>1, <2>2, <2>4, RunsAssumption DEF Typed, Relabel
<1>2. ASSUME NEW body \in Seq(Parts), pr' = [pr EXCEPT !.body = body]
      PROVE  pr' \in Requests /\ pr'.comments = pr.comments /\ pr'.labels = pr.labels
  BY <1>2 DEF Typed, Requests
<1>3. CASE EditDescription
  <2>1. PICK t \in Texts : \E body \in {<<t>> \o pr.body, Append(pr.body, t), <<t>>} :
           pr' = [pr EXCEPT !.body = body]
    BY <1>3 DEF EditDescription
  <2>2. t \in Parts /\ pr.body \in Seq(Parts)
    BY DEF Parts, Typed, Requests
  <2>3. <<t>> \o pr.body \in Seq(Parts) /\ Append(pr.body, t) \in Seq(Parts) /\ <<t>> \in Seq(Parts)
    <3>1. Len(<<t>> \o pr.body) = 1 + Len(pr.body) /\ Len(pr.body) \in Nat
      BY <2>2
    <3>2. <<t>> \in Seq(Parts)
      BY <2>2
    <3> QED
      BY <2>2, <3>2
  <2>4. PICK body \in {<<t>> \o pr.body, Append(pr.body, t), <<t>>} : pr' = [pr EXCEPT !.body = body]
    BY <2>1
  <2>5. body \in Seq(Parts)
    BY <2>3
  <2>6. pr' \in Requests /\ pr'.comments = pr.comments /\ pr'.labels = pr.labels
    BY <1>2, <2>4, <2>5
  <2> QED
    BY <1>3, <2>6 DEF Typed, EditDescription
<1>4. CASE DeleteGenerated
  <2> DEFINE n == FirstOf(pr.body, "generated")
             body == RemoveAt(pr.body, n)
  <2>1. pr.body \in Seq(Parts) /\ "generated" \in ToSet(pr.body)
    BY <1>4 DEF Typed, Requests, DeleteGenerated
  <2>2. n \in 1..Len(pr.body) /\ Len(pr.body) \in Nat
    BY <2>1, FirstOfIs
  <2> HIDE DEF n
  <2>3. SubSeq(pr.body, 1, n - 1) \in Seq(Parts) /\ SubSeq(pr.body, n + 1, Len(pr.body)) \in Seq(Parts)
    BY <2>1, <2>2, PartIs
  <2>4. body \in Seq(Parts)
    BY <2>3 DEF RemoveAt
  <2> HIDE DEF body
  <2>5. pr' = [pr EXCEPT !.body = body]
    BY <1>4 DEF DeleteGenerated, body, n
  <2> QED
    BY <1>2, <1>4, <2>4, <2>5, RunsAssumption DEF Typed, DeleteGenerated
<1> QED
  BY <1>1, <1>3, <1>4 DEF Users
-----------------------------------------------------------------------------
(* The inductive invariant, in its parts.                                  *)

\* A run is of the tool its setting says, and there is no other.
Tooled ==
    /\ \A r \in DOMAIN setting.tools : run[r].tool = setting.tools[r]
    /\ \A r \in Runs : run[r].tool = "none" => run[r].pc = "idle"

\* What a run knows at its steps.
ReviewKnows(r) ==
    /\ run[r].labels \in ReviewAnswers
    /\ run[r].pc \in {"getLabels", "putLabels", "report", "list", "update", "notice", "publish"}
          => run[r].kind = "review"
DescribeKnows(r) ==
    /\ run[r].labels \in DescribeAnswers \cup {{}}
    /\ run[r].pc \in {"getLabels", "putLabels", "list", "update", "notice", "publish"}
          => run[r].kind = "title"
ImproveKnows(r) ==
    /\ run[r].pc = "none" => run[r].said = "nothing"
    /\ \A c \in run[r].listed : c.kind \in {"none", "table"}
    /\ run[r].pc = "unlist" => run[r].listed # {}
    /\ run[r].pc \notin {"update", "publish"}
Knows(r) ==
    /\ run[r].pc = "idle" => run[r].met = {}
    /\ run[r].pc \in {"idle", "prepare", "predict"} => run[r].said = "none"
    /\ run[r].tool = "review" => ReviewKnows(r)
    /\ run[r].tool = "describe" => DescribeKnows(r)
    /\ run[r].tool = "improve" => ImproveKnows(r)

Known == Typed /\ Tooled /\ \A r \in Runs : Knows(r)

\* The steps of a run after its start.
Works(r) == Step(r) /\ ~Start(r)

LEMMA InitIs ==
    ASSUME Init
    PROVE  /\ Typed /\ setting \in Settings /\ pr.comments = {} /\ pr.labels = {}
           /\ failures = 0
           /\ DOMAIN setting.tools \subseteq Runs
           /\ \A r \in Runs :
                 /\ run[r].tool = IF r \in DOMAIN setting.tools THEN setting.tools[r] ELSE "none"
                 /\ run[r].pc = "idle" /\ run[r].said = "none" /\ run[r].listed = {}
                 /\ run[r].seen = {} /\ run[r].labels = {} /\ run[r].met = {}
<1>1. \A r \in DOMAIN setting.tools : setting.tools[r] \in {"review", "improve", "describe"}
  BY SettingsAssumption DEF Init
<1>2. DOMAIN setting.tools \subseteq Runs
  BY SettingsAssumption DEF Init
<1>3. {} \in Listings /\ {} \in SUBSET Labels /\ <<>> \in Seq(Parts) /\ "idle" \in Pcs
  BY FS_EmptySet DEF Listings, Pcs
<1>4. \A r \in Runs : run[r] \in Records
  BY <1>1, <1>3 DEF Init, Records
<1>5. run \in [Runs -> Records]
  BY <1>4 DEF Init
<1>6. Opened \subseteq Seq(Parts)
  <2>1. \A t \in Texts : <<t>> \in Seq(Parts) /\ <<t, "marker">> \in Seq(Parts)
    <3>1. \A t \in Texts : t \in Parts /\ "marker" \in Parts
      BY DEF Parts, Written
    <3> QED
      BY <3>1
  <2> QED
    BY <1>3, <2>1 DEF Opened
<1>7. pr \in Requests
  BY <1>3, <1>6 DEF Init, Requests
<1> QED
  BY <1>2, <1>5, <1>7, RunsAssumption DEF Init, Typed

\* The steps of the review and of the describe tool that publish their comment.
LEMMA PersistKnows ==
    ASSUME Known, NEW r \in Runs, run[r].tool # "improve", Persist(r) \/ Cleanup(r)
    PROVE  Moves(r) /\ Keeps /\ Active(r) /\ run'[r].pc # "idle" /\ Knows(r)'
<1> USE DEF Known
<1>1. run[r].tool \in {"review", "describe", "none"} /\ Knows(r)
  BY DEF Typed, Records
<1>2. CASE ListComments(r)
  <2>1. /\ Moves(r) /\ Keeps /\ run[r].pc = "list" /\ run'[r].pc \in {"publish", "update"}
        /\ run'[r].kind = run[r].kind /\ run'[r].labels = run[r].labels
    BY <1>2, ListCommentsDoes, Leaving DEF Goes, Same
  <2> QED
    BY <1>1, <2>1 DEF Knows, ReviewKnows, DescribeKnows, Moves, Active, Tooled
<1>3. CASE UpdatePersistent(r)
  <2>1. /\ Moves(r) /\ Keeps /\ run[r].pc = "update"
        /\ run'[r].pc \in {"publish", "notice", "cleanup"}
        /\ run'[r].kind = run[r].kind /\ run'[r].labels = run[r].labels
    BY <1>3, UpdatePersistentDoes, Leaving DEF Goes, Same, Edited
  <2> QED
    BY <1>1, <2>1 DEF Knows, ReviewKnows, DescribeKnows, Moves, Active, Tooled
<1>4. CASE AnnounceUpdate(r)
  <2>1. /\ Moves(r) /\ Keeps /\ run[r].pc = "notice"
        /\ run'[r].pc \in {"publish", "cleanup"}
        /\ run'[r].kind = run[r].kind /\ run'[r].labels = run[r].labels
    BY <1>4, AnnounceUpdateDoes, Leaving DEF Goes, Same, Appears
  <2> QED
    BY <1>1, <2>1 DEF Knows, ReviewKnows, DescribeKnows, Moves, Active, Tooled
<1>5. CASE PublishWhole(r)
  <2>1. run[r].pc = "publish" /\ run[r].kind \in {"review", "title"}
    BY <1>1, <1>5 DEF PublishWhole, Knows, ReviewKnows, DescribeKnows, Tooled
  <2>2. /\ Moves(r) /\ Keeps /\ run'[r].pc \in {"cleanup", "done"}
        /\ run'[r].kind = run[r].kind /\ run'[r].labels = run[r].labels
    BY <1>5, <2>1, PublishWholeDoes, Leaving DEF Goes, Ends, Same, Appears
  <2> QED
    BY <1>1, <2>1, <2>2 DEF Knows, ReviewKnows, DescribeKnows, Moves, Active, Tooled
<1>6. CASE Cleanup(r)
  <2>1. /\ Moves(r) /\ Keeps /\ run[r].pc = "cleanup" /\ run'[r].pc = "done"
        /\ run'[r].kind = run[r].kind /\ run'[r].labels = run[r].labels
    BY <1>6, CleanupStepDoes, Leaving DEF Ends, Same, Removed
  <2> QED
    BY <1>1, <2>1 DEF Knows, ReviewKnows, DescribeKnows, Moves, Active, Tooled
<1> QED
  BY <1>2, <1>3, <1>4, <1>5, <1>6 DEF Persist

LEMMA ReviewStepKnows ==
    ASSUME Known, NEW r \in Runs, run[r].tool = "review", ReviewStep(r)
    PROVE  Moves(r) /\ pr' \in Requests /\ Active(r) /\ run'[r].pc # "idle" /\ Knows(r)'
<1> USE DEF Known
<1>1. Knows(r)
  OBVIOUS
<1>2. CASE PrepareReview(r)
  <2>1. /\ Moves(r) /\ pr' \in Requests /\ run[r].pc = "prepare"
        /\ run'[r].pc \in {"predict", "done"} /\ run'[r].said = run[r].said
        /\ run'[r].labels = run[r].labels
    BY <1>2, PrepareDoes DEF Goes, Ends, Same, Appears, Keeps
  <2> QED
    BY <1>1, <2>1 DEF Knows, ReviewKnows, Moves, Active
<1>3. CASE PredictReview(r)
  <2>1. /\ Moves(r) /\ pr' \in Requests /\ run[r].pc = "predict"
        /\ \/ run'[r].pc \in {"cleanup", "done"} /\ run'[r].labels = run[r].labels
           \/ run'[r].pc = "getLabels" /\ run'[r].kind = "review" /\ run'[r].labels \in ReviewAnswers
    BY <1>3, PredictReviewDoes DEF Goes, Errs, Answers, Same
  <2> QED
    BY <1>1, <2>1 DEF Knows, ReviewKnows, Moves, Active
<1>4. CASE SetReviewLabels(r)
  <2>1. /\ Moves(r) /\ pr' \in Requests /\ run[r].pc \in {"getLabels", "putLabels"}
        /\ run'[r].pc \in {"putLabels", "report"} /\ run'[r].kind = run[r].kind
        /\ run'[r].labels = run[r].labels
    BY <1>4, SetReviewLabelsDoes DEF Goes, Reads, Writes, Relabels, Same
  <2> QED
    BY <1>1, <2>1 DEF Knows, ReviewKnows, Moves, Active
<1>5. CASE ReportReview(r)
  <2>1. /\ Moves(r) /\ pr' \in Requests /\ run[r].pc = "report"
        /\ run'[r].pc \in {"list", "done"} /\ run'[r].kind = run[r].kind
        /\ run'[r].labels = run[r].labels
    BY <1>5, ReportReviewDoes DEF Goes, Ends, Same
  <2> QED
    BY <1>1, <2>1 DEF Knows, ReviewKnows, Moves, Active
<1> QED
  BY <1>2, <1>3, <1>4, <1>5 DEF ReviewStep

LEMMA DescribeStepKnows ==
    ASSUME Known, NEW r \in Runs, run[r].tool = "describe", DescribeStep(r)
    PROVE  Moves(r) /\ pr' \in Requests /\ Active(r) /\ run'[r].pc # "idle" /\ Knows(r)'
<1> USE DEF Known
<1>1. Knows(r)
  OBVIOUS
<1>2. CASE PrepareDescribe(r)
  <2>1. /\ Moves(r) /\ pr' \in Requests /\ run[r].pc = "prepare"
        /\ run'[r].pc \in {"predict", "done"} /\ run'[r].said = run[r].said
        /\ run'[r].labels = run[r].labels
    BY <1>2, PrepareDoes DEF Goes, Ends, Same, Appears, Keeps
  <2> QED
    BY <1>1, <2>1 DEF Knows, DescribeKnows, Moves, Active
<1>3. CASE PredictDescribe(r)
  <2>1. /\ Moves(r) /\ pr' \in Requests /\ run[r].pc = "predict"
        /\ \/ run'[r].pc \in {"cleanup", "done"} /\ run'[r].labels = run[r].labels
           \/ run'[r].pc = "getLabels" /\ run'[r].kind = "title" /\ run'[r].labels \in DescribeAnswers
    BY <1>3, PredictDescribeDoes DEF Goes, Errs, Answers, Same
  <2> QED
    BY <1>1, <2>1 DEF Knows, DescribeKnows, Moves, Active
<1>4. CASE SetTypeLabels(r)
  <2>1. /\ Moves(r) /\ pr' \in Requests /\ run[r].pc \in {"getLabels", "putLabels"}
        /\ run'[r].pc \in {"putLabels", "list", "write", "done"} /\ run'[r].kind = run[r].kind
        /\ run'[r].labels = run[r].labels
    BY <1>4, SetTypeLabelsDoes DEF Goes, Ends, Reads, Writes, Relabels, Same
  <2> QED
    BY <1>1, <2>1 DEF Knows, DescribeKnows, Moves, Active
<1>5. CASE WriteDescription(r)
  <2>1. /\ Moves(r) /\ pr' \in Requests /\ run[r].pc = "write"
        /\ run'[r].pc \in {"cleanup", "tell", "done"} /\ run'[r].labels = run[r].labels
    BY <1>5, WriteDescriptionDoes DEF Goes, Ends, Keeps
  <2> QED
    BY <1>1, <2>1 DEF Knows, DescribeKnows, Moves, Active
<1>6. CASE TellDescription(r)
  <2>1. /\ Moves(r) /\ pr' \in Requests /\ run[r].pc = "tell"
        /\ run'[r].pc \in {"cleanup", "done"} /\ run'[r].labels = run[r].labels
    BY <1>6, TellDescriptionDoes DEF Goes, Ends, Keeps, Appears, Same
  <2> QED
    BY <1>1, <2>1 DEF Knows, DescribeKnows, Moves, Active
<1> QED
  BY <1>2, <1>3, <1>4, <1>5, <1>6 DEF DescribeStep

LEMMA ImproveStepKnows ==
    ASSUME Known, NEW r \in Runs, run[r].tool = "improve", ImproveStep(r)
    PROVE  Moves(r) /\ Keeps /\ Active(r) /\ run'[r].pc # "idle" /\ Knows(r)'
<1> USE DEF Known
<1>1. /\ Knows(r) /\ ImproveKnows(r)
      /\ \A c \in Headed(pr.comments, "suggestions") : c.kind \in {"none", "table"}
  BY CommentsAre DEF Knows, Headed, Header, Notes, Names
\* Where the run goes on, and with which comments.
<1> DEFINE To(S) == /\ Moves(r) /\ Keeps /\ Active(r) /\ run'[r].pc \in S
                    /\ run'[r].listed \in {run[r].listed, {}}
<1>2. ASSUME To({"failed", "predict"}), run'[r].said = run[r].said, run[r].pc = "prepare"
      PROVE  Moves(r) /\ Keeps /\ Active(r) /\ run'[r].pc # "idle" /\ Knows(r)'
  BY <1>1, <1>2 DEF Knows, ImproveKnows, Moves, Active
<1>3. ASSUME To(Pcs \ {"idle", "prepare", "predict", "none", "unlist", "update", "publish"})
      PROVE  Moves(r) /\ Keeps /\ Active(r) /\ run'[r].pc # "idle" /\ Knows(r)'
  BY <1>1, <1>3 DEF Knows, ImproveKnows, Moves, Active
<1>4. CASE PrepareImprove(r)
  <2>1. To({"failed", "predict"}) /\ run'[r].said = run[r].said /\ run[r].pc = "prepare"
    BY <1>4, PrepareImproveDoes DEF Goes, Same, Appears, Keeps, Active
  <2> QED
    BY <1>2, <2>1
<1>5. CASE PredictImprove(r)
  <2>1. /\ To({"failed", "none", "found"})
        /\ run'[r].pc = "none" => run'[r].said = "nothing"
    BY <1>5, PredictImproveDoes, Leaving DEF Goes, Same, Active
  <2> QED
    BY <1>1, <2>1 DEF Knows, ImproveKnows, Moves
<1>6. ASSUME NEW k, Shows(r, k) PROVE Keeps
  BY <1>6, Leaving DEF Shows, Same, Edited, Appears
<1>7. CASE NoSuggestions(r)
  <2>1. To({"failed", "done"})
    BY <1>6, <1>7, NoSuggestionsDoes, Leaving DEF Goes, Ends, Same, Active
  <2> QED
    BY <1>3, <2>1 DEF Pcs
<1>8. CASE FoundSuggestions(r)
  <2>1. To({"inline", "look", "single"})
    BY <1>8, FoundSuggestionsDoes, Leaving DEF Goes, Same, Removed, Active
  <2> QED
    BY <1>3, <2>1 DEF Pcs
<1>9. CASE PushInline(r)
  <2>1. To({"unprogress", "failed", "done"})
    BY <1>9, PushInlineDoes, Leaving DEF Goes, Ends, Same, Removed, Active
  <2> QED
    BY <1>3, <2>1 DEF Pcs
<1>10. CASE PublishSingle(r) \/ PublishTable(r)
  <2>1. To({"failed", "done"})
    BY <1>6, <1>10, PublishTablesDo DEF Goes, Ends, Active
  <2> QED
    BY <1>3, <2>1 DEF Pcs
<1>11. CASE LookForSuggestions(r)
  <2>1. /\ Moves(r) /\ Same /\ run[r].pc = "look"
        /\ GoesWith(r, "merge", Headed(pr.comments, "suggestions")) \/ Goes(r, "whole")
    BY <1>11, LookForSuggestionsDoes
  <2>2. /\ Keeps /\ Active(r) /\ run'[r].pc \in {"merge", "whole"}
        /\ run'[r].listed \in {run[r].listed, Headed(pr.comments, "suggestions")}
    BY <2>1, Leaving DEF Goes, GoesWith, Active, Same
  <2> QED
    BY <1>1, <2>1, <2>2 DEF Knows, ImproveKnows, Moves
<1>12. CASE OverwriteNone(r)
  <2>1. PICK c \in run[r].listed :
           /\ Edited(c.id, "table") \/ Same
           /\ Goes(r, "whole") \/ GoesWith(r, "merge", run[r].listed \ {c})
    BY <1>12, OverwriteNoneDoes
  <2>2. Moves(r) /\ run[r].pc = "merge"
    BY <1>12, OverwriteNoneDoes
  <2>3. /\ Keeps /\ Active(r) /\ run'[r].pc \in {"merge", "whole"}
        /\ run'[r].listed \subseteq run[r].listed
    BY <2>1, <2>2, Leaving DEF Goes, GoesWith, Active, Edited, Same
  <2> QED
    BY <1>1, <2>2, <2>3 DEF Knows, ImproveKnows, Moves
<1>13. CASE MergeInto(r)
  <2>1. PICK c \in run[r].listed :
           \/ /\ Edited(ProgressId(r), "table") \/ Same
              /\ Goes(r, "unlist") \/ Goes(r, "whole")
           \/ /\ Edited(c.id, "table") \/ Same
              /\ Ends(r) \/ Goes(r, "whole")
    BY <1>13, MergeIntoDoes
  <2>2. Moves(r) /\ run[r].pc = "merge"
    BY <1>13, MergeIntoDoes
  <2>3. Keeps /\ Active(r)
    BY <2>1, <2>2, Leaving DEF Active, Edited, Same
  <2>4. /\ run'[r].pc \in {"unlist", "whole", "done"}
        /\ run'[r].listed \in {run[r].listed, {}}
        /\ run'[r].pc = "unlist" => run'[r].listed # {}
    BY <2>1 DEF Goes, Ends
  <2> QED
    BY <1>1, <2>2, <2>3, <2>4 DEF Knows, ImproveKnows, Moves
<1>14. CASE RemoveMerged(r)
  <2>1. run[r].pc = "unlist" /\ run[r].listed # {}
    BY <1>1, <1>14 DEF RemoveMerged, ImproveKnows
  <2>2. PICK c \in run[r].listed :
           \/ Removed(c.id) /\ Ends(r)
           \/ Same /\ Faults /\ (Ends(r) \/ Goes(r, "whole"))
    BY <1>14, <2>1, RemoveMergedDoes
  <2>3. To({"done", "whole"})
    BY <1>14, <2>1, <2>2, RemoveMergedDoes, Leaving DEF Goes, Ends, Same, Removed, Active
  <2> QED
    BY <1>3, <2>3 DEF Pcs
<1>15. CASE NothingToMerge(r)
  <2>1. To({"whole"})
    BY <1>15, NothingToMergeDoes, Leaving DEF Goes, Same, Active
  <2> QED
    BY <1>3, <2>1 DEF Pcs
<1>16. CASE ImproveFailed(r)
  <2>1. To({"tell", "done"})
    BY <1>16, ImproveFailedDoes, Leaving DEF Goes, Ends, Same, Removed, Appears, Active
  <2> QED
    BY <1>3, <2>1 DEF Pcs
<1> QED
  BY <1>4, <1>5, <1>7, <1>8, <1>9, <1>10, <1>11, <1>12, <1>13, <1>14, <1>15, <1>16 DEF ImproveStep

\* Whatever a run does, it knows what it should, and others know what they did.
LEMMA WorkKnows ==
    ASSUME Known, NEW r \in Runs, Works(r)
    PROVE  Moves(r) /\ pr' \in Requests /\ Active(r) /\ run'[r].pc # "idle" /\ Knows(r)'
<1>1. CASE run[r].tool = "review" /\ ReviewStep(r)
  BY <1>1, ReviewStepKnows
<1>2. CASE run[r].tool = "improve" /\ ImproveStep(r)
  BY <1>2, ImproveStepKnows DEF Keeps
<1>3. CASE run[r].tool = "describe" /\ DescribeStep(r)
  BY <1>3, DescribeStepKnows
<1>4. CASE run[r].tool # "improve" /\ (Persist(r) \/ Cleanup(r))
  BY <1>4, PersistKnows DEF Keeps
<1> QED
  BY <1>1, <1>2, <1>3, <1>4 DEF Works, Step

LEMMA KnownInit ==
    ASSUME Init PROVE Known
<1>1. Typed /\ Tooled
  BY InitIs DEF Tooled
<1>2. \A r \in Runs : Knows(r)
  BY InitIs DEF Knows, ReviewKnows, DescribeKnows, ImproveKnows, ReviewAnswers
<1> QED
  BY <1>1, <1>2 DEF Known

LEMMA KnownNext ==
    ASSUME Known, [Next]_vars PROVE Known'
<1> USE DEF Known
<1>1. ASSUME NEW r \in Runs, Works(r) PROVE Known'
  <2>1. Moves(r) /\ pr' \in Requests /\ Knows(r)'
    BY <1>1, WorkKnows
  <2>2. Typed'
    <3>1. failures' \in 0..MaxFailures /\ acts' \in 0..MaxActs
      BY <2>1, RunsAssumption DEF Typed, Moves
    <3> QED
      BY <2>1, <3>1 DEF Typed, Moves
  <2>3. \A q \in Runs : run'[q].tool = run[q].tool /\ (q # r => run'[q] = run[q])
    BY <2>1 DEF Moves
  <2>4. Tooled'
    <3>1. run[r].pc # "idle" /\ setting' = setting
      BY <1>1, WorkKnows DEF Active, Moves
    <3>2. DOMAIN setting.tools \subseteq Runs
      BY SettingsAssumption DEF Typed
    <3> QED
      BY <2>3, <3>1, <3>2 DEF Tooled
  <2>5. \A q \in Runs \ {r} : Knows(q)'
    BY <2>3 DEF Knows, ReviewKnows, DescribeKnows, ImproveKnows
  <2> QED
    BY <2>1, <2>2, <2>4, <2>5
<1>2. ASSUME NEW r \in Runs, Start(r) PROVE Known'
  <2>1. /\ setting' = setting /\ Same /\ failures' = failures /\ run' \in [Runs -> Records]
        /\ run[r].pc = "idle" /\ run'[r].pc = "prepare"
        /\ \A q \in Runs \ {r} :
              /\ run'[q].pc = run[q].pc
              /\ run'[q].met = IF Active(q) THEN run[q].met \cup {r} ELSE run[q].met
        /\ \A q \in Runs : /\ run'[q].tool = run[q].tool /\ run'[q].kind = run[q].kind
                           /\ run'[q].said = run[q].said /\ run'[q].labels = run[q].labels
                           /\ run'[q].listed = run[q].listed
    <3>1. \A q \in Runs \ {r} :
             run'[q].met = IF Active(q) THEN run[q].met \cup {r} ELSE run[q].met
      BY <1>2, StartDoes
    <3>2. run' \in [Runs -> Records] /\ setting' = setting /\ Same /\ failures' = failures
      BY <1>2, StartDoes
    <3> QED
      BY <1>2, <3>1, <3>2, StartKeeps
  <2>2. Typed'
    BY <1>2, <2>1 DEF Typed, Same, Start
  <2>3. Tooled'
    <3>1. DOMAIN setting.tools \subseteq Runs /\ r \in DOMAIN setting.tools
          /\ setting.tools[r] \in {"review", "improve", "describe"}
      BY <1>2, SettingsAssumption DEF Typed, Start
    <3> QED
      BY <2>1, <3>1 DEF Tooled
  <2>4. ASSUME NEW q \in Runs PROVE Knows(q)'
    <3>1. CASE q = r
      <4>1. /\ run'[q].pc = "prepare" /\ run[q].pc = "idle" /\ run'[q].tool = run[q].tool
            /\ run'[q].kind = run[q].kind /\ run'[q].said = run[q].said
            /\ run'[q].labels = run[q].labels /\ run'[q].listed = run[q].listed
            /\ Knows(q)
        BY <2>1, <3>1
      <4> QED
        BY <4>1 DEF Knows, ReviewKnows, DescribeKnows, ImproveKnows
    <3>2. CASE q # r
      <4>1. run'[q].pc = "idle" => run'[q].met = run[q].met
        BY <2>1, <3>2 DEF Active
      <4>2. /\ run'[q].pc = run[q].pc /\ run'[q].tool = run[q].tool
            /\ run'[q].kind = run[q].kind /\ run'[q].said = run[q].said
            /\ run'[q].labels = run[q].labels /\ run'[q].listed = run[q].listed
            /\ Knows(q)
        BY <2>1, <3>2
      <4> QED
        BY <4>1, <4>2 DEF Knows, ReviewKnows, DescribeKnows, ImproveKnows
    <3> QED
      BY <3>1, <3>2
  <2> QED
    BY <2>2, <2>3, <2>4
<1>3. CASE Users
  <2>1. Typed'
    <3>1. /\ setting' \in Settings /\ pr' \in Requests /\ run' \in [Runs -> Records]
          /\ failures' \in 0..MaxFailures
      BY <1>3, UsersDo DEF Typed
    <3>2. acts' \in 0..MaxActs
      BY <1>3, RunsAssumption DEF Typed, Users, Relabel, EditDescription, DeleteGenerated
    <3> QED
      BY <3>1, <3>2 DEF Typed
  <2>2. UNCHANGED <<setting, run>>
    BY <1>3, UsersDo
  <2> QED
    BY <2>1, <2>2 DEF Tooled, Knows, ReviewKnows, DescribeKnows, ImproveKnows
<1>4. CASE UNCHANGED vars
  BY <1>4 DEF vars, Typed, Tooled, Knows, ReviewKnows, DescribeKnows, ImproveKnows
<1> QED
  BY <1>1, <1>2, <1>3, <1>4 DEF Next, Works

-----------------------------------------------------------------------------
(* Labels.                                                                 *)

\* The steps of a run until it has written its labels.
ToWrite == {"idle", "prepare", "predict", "getLabels", "putLabels"}

\* The labels r writes.
Publishes(r) ==
    run[r].labels \cup
        IF run[r].tool = "review" THEN OthersLabels(r) ELSE UsersLabels(r)

LEMMA PersistLabels ==
    ASSUME Known, NEW r \in Runs, run[r].tool # "improve", Persist(r) \/ Cleanup(r)
    PROVE  /\ pr'.labels = pr.labels /\ run'[r].seen \in {run[r].seen, {}}
           /\ run'[r].said = run[r].said /\ run'[r].labels = run[r].labels
           /\ run[r].pc \notin ToWrite /\ run'[r].pc \notin ToWrite
<1>1. Typed /\ Keeps
  BY PersistKnows DEF Known
<1>2. pr'.labels = pr.labels
  BY <1>1 DEF Keeps
<1>3. CASE ListComments(r)
  BY <1>1, <1>2, <1>3, ListCommentsDoes DEF Goes, ToWrite
<1>4. CASE UpdatePersistent(r)
  BY <1>1, <1>2, <1>4, UpdatePersistentDoes DEF Goes, ToWrite
<1>5. CASE AnnounceUpdate(r)
  BY <1>1, <1>2, <1>5, AnnounceUpdateDoes DEF Goes, ToWrite
<1>6. CASE PublishWhole(r)
  <2>1. run[r].pc = "publish" /\ run[r].kind \in {"review", "title"}
    <3>1. run[r].tool \in {"review", "describe", "none"} /\ Knows(r)
      BY DEF Known, Typed, Records
    <3> QED
      BY <1>6, <3>1 DEF PublishWhole, Knows, ReviewKnows, DescribeKnows, Tooled, Known
  <2> QED
    BY <1>1, <1>2, <1>6, <2>1, PublishWholeDoes DEF Goes, Ends, ToWrite
<1>7. CASE Cleanup(r)
  BY <1>1, <1>2, <1>7, CleanupStepDoes DEF Ends, ToWrite
<1> QED
  BY <1>3, <1>4, <1>5, <1>6, <1>7 DEF Persist

LEMMA ImproveLabels ==
    ASSUME Known, NEW r \in Runs, run[r].tool = "improve", ImproveStep(r)
    PROVE  /\ pr'.labels = pr.labels /\ run'[r].seen \in {run[r].seen, {}}
           /\ run'[r].pc \in ToWrite => run[r].pc = "prepare" /\ run'[r].seen = run[r].seen
<1>1. Typed /\ Keeps
  BY ImproveStepKnows DEF Known
<1>2. pr'.labels = pr.labels
  BY <1>1 DEF Keeps
<1> SUFFICES /\ run'[r].seen \in {run[r].seen, {}}
             /\ run'[r].pc \in ToWrite => run[r].pc = "prepare" /\ run'[r].seen = run[r].seen
  BY <1>2
<1>3. CASE PrepareImprove(r)
  BY <1>1, <1>3, PrepareImproveDoes DEF Goes
<1>4. CASE PredictImprove(r)
  BY <1>1, <1>4, PredictImproveDoes DEF Goes, ToWrite
<1>5. CASE NoSuggestions(r)
  BY <1>1, <1>5, NoSuggestionsDoes DEF Goes, Ends, ToWrite
<1>6. CASE FoundSuggestions(r)
  BY <1>1, <1>6, FoundSuggestionsDoes DEF Goes, ToWrite
<1>7. CASE PushInline(r)
  BY <1>1, <1>7, PushInlineDoes DEF Goes, Ends, ToWrite
<1>8. CASE PublishSingle(r) \/ PublishTable(r)
  BY <1>1, <1>8, PublishTablesDo DEF Goes, Ends, ToWrite
<1>9. CASE LookForSuggestions(r)
  BY <1>1, <1>9, LookForSuggestionsDoes DEF Goes, GoesWith, ToWrite
<1>10. CASE OverwriteNone(r)
  BY <1>1, <1>10, OverwriteNoneDoes DEF Goes, GoesWith, ToWrite
<1>11. CASE MergeInto(r)
  BY <1>1, <1>11, MergeIntoDoes DEF Goes, Ends, ToWrite
<1>12. CASE RemoveMerged(r)
  <2>1. run[r].listed # {}
    BY <1>12 DEF RemoveMerged, Known, Knows, ImproveKnows
  <2> QED
    BY <1>1, <1>12, <2>1, RemoveMergedDoes DEF Goes, Ends, ToWrite
<1>13. CASE NothingToMerge(r)
  BY <1>1, <1>13, NothingToMergeDoes DEF Goes, ToWrite
<1>14. CASE ImproveFailed(r)
  BY <1>1, <1>14, ImproveFailedDoes DEF Goes, Ends, ToWrite
<1> QED
  BY <1>3, <1>4, <1>5, <1>6, <1>7, <1>8, <1>9, <1>10, <1>11, <1>12, <1>13, <1>14
     DEF ImproveStep

\* What a step of a run does to labels: what it reads, and what it writes; and
\* while no call fails, what it knows before it writes and once it has written.
Labels1(r) ==
    /\ run'[r].seen \in {run[r].seen, {}, pr.labels}
    /\ \/ pr'.labels = pr.labels
       \/ /\ run[r].tool \in {"review", "describe"} /\ run[r].pc = "putLabels"
          /\ run'[r].pc # "putLabels" /\ pr'.labels = Labelling(Publishes(r))
Labels2(r) ==
    failures' = 0 =>
        /\ run'[r].pc \in ToWrite =>
              /\ run[r].pc \in ToWrite \ {"idle"} /\ run'[r].seen \in {run[r].seen, pr.labels}
              /\ pr'.labels = pr.labels
        /\ /\ run[r].tool = "review" /\ setting.host \in Labelled
           /\ run'[r].pc \notin ToWrite /\ run'[r].said \in {"issues", "nothing"}
           => /\ run'[r].labels = run[r].labels
              /\ \/ /\ run[r].pc \notin ToWrite /\ run[r].said = run'[r].said
                    /\ pr'.labels = pr.labels
                 \/ /\ run[r].pc = "putLabels"
                    /\ \/ run[r].seen = Publishes(r) /\ pr'.labels = pr.labels
                       \/ pr'.labels = Labelling(Publishes(r))

LEMMA ReviewLabelled ==
    ASSUME Known, NEW r \in Runs, run[r].tool = "review", ReviewStep(r)
    PROVE  Labels1(r) /\ Labels2(r)
<1>1. Typed /\ Knows(r) /\ Publishes(r) = run[r].labels \cup OthersLabels(r)
      /\ failures \in Nat /\ ~(failures' = 0 /\ Faults)
  BY DEF Known, Typed, Publishes, Faults
<1>2. CASE PrepareReview(r)
  <2>1. /\ run[r].pc = "prepare" /\ run[r].said = "none" /\ pr'.labels = pr.labels
        /\ \/ Goes(r, "predict")
           \/ Ends(r)
    BY <1>1, <1>2, PrepareDoes DEF Same, Appears, Keeps, Knows
  <2> QED
    BY <2>1 DEF Goes, Ends, Labels1, Labels2, ToWrite
<1>3. CASE PredictReview(r)
  <2>1. /\ run[r].pc = "predict" /\ run[r].said = "none" /\ pr'.labels = pr.labels
        /\ \/ Errs(r) \/ Goes(r, "cleanup") \/ Answers(r, "review", ReviewAnswers)
    BY <1>1, <1>3, PredictReviewDoes DEF Same, Knows
  <2> QED
    BY <2>1 DEF Goes, Errs, Answers, Labels1, Labels2, ToWrite
<1>4. CASE SetReviewLabels(r)
  <2>1. CASE run[r].pc = "getLabels" /\ Same /\ Reads(r)
    BY <1>1, <2>1 DEF Reads, Same, Labels1, Labels2, ToWrite
  <2>2. CASE /\ run[r].pc = "getLabels" /\ Same /\ Goes(r, "report")
             /\ Faults \/ setting.host \notin Labelled
    BY <1>1, <2>2 DEF Goes, Same, Labels1, Labels2, ToWrite
  <2>3. CASE /\ run[r].pc = "putLabels" /\ Goes(r, "report")
             /\ Writes(r, run[r].labels \cup OthersLabels(r))
    BY <1>1, <2>3 DEF Goes, Writes, Relabels, Same, Labels1, Labels2, ToWrite
  <2> QED
    BY <1>1, <1>4, <2>1, <2>2, <2>3, SetReviewLabelsDoes
<1>5. CASE ReportReview(r)
  <2>1. run[r].pc = "report" /\ pr'.labels = pr.labels /\ (Goes(r, "list") \/ Ends(r))
    BY <1>1, <1>5, ReportReviewDoes DEF Same
  <2> QED
    BY <2>1 DEF Goes, Ends, Labels1, Labels2, ToWrite
<1> QED
  BY <1>2, <1>3, <1>4, <1>5 DEF ReviewStep

LEMMA DescribeLabelled ==
    ASSUME Known, NEW r \in Runs, run[r].tool = "describe", DescribeStep(r)
    PROVE  Labels1(r) /\ Labels2(r)
<1>1. Typed /\ Publishes(r) = run[r].labels \cup UsersLabels(r)
      /\ failures \in Nat /\ ~(failures' = 0 /\ Faults)
  BY DEF Known, Typed, Publishes, Faults
<1>2. CASE PrepareDescribe(r)
  <2>1. /\ run[r].pc = "prepare" /\ pr'.labels = pr.labels
        /\ Goes(r, "predict") \/ Ends(r)
    BY <1>1, <1>2, PrepareDoes DEF Same, Appears, Keeps
  <2> QED
    BY <2>1 DEF Goes, Ends, Labels1, Labels2, ToWrite
<1>3. CASE PredictDescribe(r)
  <2>1. /\ run[r].pc = "predict" /\ pr'.labels = pr.labels
        /\ \/ Errs(r) \/ Goes(r, "cleanup") \/ Answers(r, "title", DescribeAnswers)
    BY <1>1, <1>3, PredictDescribeDoes DEF Same
  <2> QED
    BY <2>1 DEF Goes, Errs, Answers, Labels1, Labels2, ToWrite
<1>4. CASE SetTypeLabels(r)
  <2>1. CASE run[r].pc = "getLabels" /\ Same /\ Reads(r)
    BY <1>1, <2>1 DEF Reads, Same, Labels1, Labels2, ToWrite
  <2>2. CASE run[r].pc = "getLabels" /\ Same /\ (Ends(r) \/ Goes(r, "list") \/ Goes(r, "write"))
    BY <2>2 DEF Goes, Ends, Same, Labels1, Labels2, ToWrite
  <2>3. CASE /\ run[r].pc = "putLabels"
             /\ Writes(r, run[r].labels \cup UsersLabels(r))
             /\ Goes(r, "list") \/ Goes(r, "write") \/ Ends(r)
    BY <1>1, <2>3 DEF Goes, Ends, Writes, Relabels, Same, Labels1, Labels2, ToWrite
  <2> QED
    BY <1>1, <1>4, <2>1, <2>2, <2>3, SetTypeLabelsDoes
<1>5. CASE WriteDescription(r)
  <2>1. run[r].pc = "write" /\ pr'.labels = pr.labels
        /\ (Goes(r, "cleanup") \/ Goes(r, "tell") \/ Ends(r))
    BY <1>1, <1>5, WriteDescriptionDoes DEF Keeps
  <2> QED
    BY <2>1 DEF Goes, Ends, Labels1, Labels2, ToWrite
<1>6. CASE TellDescription(r)
  <2>1. run[r].pc = "tell" /\ pr'.labels = pr.labels /\ (Goes(r, "cleanup") \/ Ends(r))
    BY <1>1, <1>6, TellDescriptionDoes DEF Same, Appears, Keeps
  <2> QED
    BY <2>1 DEF Goes, Ends, Labels1, Labels2, ToWrite
<1> QED
  BY <1>2, <1>3, <1>4, <1>5, <1>6 DEF DescribeStep

LEMMA WorkLabels ==
    ASSUME Known, NEW r \in Runs, Works(r)
    PROVE  Labels1(r) /\ Labels2(r)
<1>1. CASE run[r].tool = "review" /\ ReviewStep(r)
  BY <1>1, ReviewLabelled
<1>2. CASE run[r].tool = "improve" /\ ImproveStep(r)
  BY <1>2, ImproveLabels DEF Labels1, Labels2, ToWrite
<1>3. CASE run[r].tool = "describe" /\ DescribeStep(r)
  BY <1>3, DescribeLabelled
<1>4. CASE run[r].tool # "improve" /\ (Persist(r) \/ Cleanup(r))
  BY <1>4, PersistLabels DEF Labels1, Labels2
<1> QED
  BY <1>1, <1>2, <1>3, <1>4 DEF Works, Step

\* What a step writes holds the labels of users that the run has read.
LEMMA UserLabelsWritten ==
    ASSUME Known, NEW r \in Runs, Works(r), NEW l \in UserLabels,
           l \in pr.labels, l \notin pr'.labels
    PROVE  run'[r] # run[r] /\ l \notin run[r].seen
<1>1. /\ run[r].pc = "putLabels" /\ run'[r].pc # "putLabels"
      /\ pr'.labels = Labelling(Publishes(r))
  BY WorkLabels DEF Labels1
<1>2. l \notin Publishes(r)
  BY <1>1 DEF Labelling
<1>3. l \notin ReviewLabels /\ l \notin TypeLabels
  BY LabelsAssumption
<1>4. l \notin run[r].seen
  BY <1>2, <1>3 DEF Publishes, OthersLabels, UsersLabels
<1> QED
  BY <1>1, <1>4

\* A run takes away a label of a user only if it was not there when the run
\* read the labels (set_labels of pr_reviewer.py and pr_description.py, which
\* write the labels as a whole).
THEOREM UserLabelsAreKept == Spec => UserLabelsKept
<1> DEFINE Kept == \A l \in UserLabels :
              l \in pr.labels /\ l \notin pr'.labels =>
                  \/ acts' # acts
                  \/ \E r \in Runs : run'[r] # run[r] /\ l \notin run[r].seen
<1>1. ASSUME Known, [Next]_vars PROVE [Kept]_vars
  <2>1. ASSUME NEW r \in Runs, Works(r) PROVE Kept
    BY <1>1, <2>1, UserLabelsWritten
  <2>2. ASSUME NEW r \in Runs, Start(r) PROVE Kept
    BY <1>1, <2>2, StartDoes DEF Known, Same
  <2>3. CASE Users
    BY <1>1, <2>3, UsersDo DEF Known
  <2>4. CASE UNCHANGED vars
    BY <2>4
  <2> HIDE DEF Kept
  <2> QED
    BY <1>1, <2>1, <2>2, <2>3, <2>4 DEF Next, Works
<1>2. UserLabelsKept <=> [][Kept]_vars
  BY DEF UserLabelsKept
<1> HIDE DEF Kept
<1> QED
  BY <1>1, <1>2, KnownInit, KnownNext, PTL DEF Spec

-----------------------------------------------------------------------------
(* The order of the runs.                                                  *)

\* The runs start in their order, and the ones that overlap have met.
InOrder == \A q, r \in Runs : q < r /\ run[r].pc # "idle" => run[q].pc # "idle"
Meetings ==
    \A q, r \in Runs :
        q < r /\ Active(q) /\ run[r].pc # "idle" => q \in run[r].met /\ r \in run[q].met
Ordered == InOrder /\ Meetings

\* No run that has begun becomes idle, and none forgets whom it has met.
LEMMA Onward ==
    ASSUME Known, [Next]_vars, NEW r \in Runs
    PROVE  /\ run[r].met \subseteq run'[r].met
           /\ run[r].pc # "idle" => run'[r].pc # "idle"
           /\ Active(r)' => Active(r) \/ Start(r)
           /\ run[r].pc = "idle" /\ run'[r].pc # "idle" => Start(r)
           /\ run'[r].tool = run[r].tool /\ setting' = setting /\ failures <= failures'
<1>0. Typed /\ failures \in Nat
  BY DEF Known, Typed
<1>2. CASE \E p \in Runs : Works(p)
  <2>1. PICK p \in Runs : Works(p)
    BY <1>2
  <2>2. Moves(p) /\ Active(p) /\ run'[p].pc # "idle"
    BY <2>1, WorkKnows
  <2>3. CASE r = p
    BY <1>0, <2>2, <2>3 DEF Moves, Active
  <2>4. CASE r # p
    BY <1>0, <2>2, <2>4 DEF Moves, Active
  <2> QED
    BY <2>3, <2>4
<1>3. CASE \E p \in Runs : Start(p)
  <2>1. PICK p \in Runs : Start(p)
    BY <1>3
  <2>2. /\ setting' = setting /\ failures' = failures
        /\ run[p].pc = "idle" /\ run'[p].pc = "prepare"
        /\ \A q \in Runs : run'[q].tool = run[q].tool
    BY <1>0, <2>1, StartDoes
  <2>0. \A q \in Runs \ {p} :
              /\ run'[q].pc = run[q].pc
              /\ run'[q].met = IF Active(q) THEN run[q].met \cup {p} ELSE run[q].met
    BY <1>0, <2>1, StartDoes
  <2>3. CASE r = p
    <3>1. run[r].met = {} /\ Start(r)
      BY <2>1, <2>2, <2>3 DEF Known, Knows
    <3> QED
      BY <1>0, <2>2, <2>3, <3>1
  <2>4. CASE r # p
    <3>1. run[r].met \subseteq run'[r].met /\ run'[r].pc = run[r].pc
      BY <2>0, <2>4
    <3> QED
      BY <1>0, <2>2, <3>1 DEF Active
  <2> QED
    BY <2>3, <2>4
<1>4. CASE UNCHANGED <<setting, run, failures>>
  BY <1>0, <1>4 DEF Active
<1> QED
  BY <1>0, <1>2, <1>3, <1>4, UsersDo DEF Next, Works, vars

LEMMA OrderedNext ==
    ASSUME Known, Ordered, [Next]_vars PROVE Ordered'
<1> SUFFICES ASSUME NEW q \in Runs, NEW r \in Runs, q < r, run'[r].pc # "idle"
             PROVE  /\ run'[q].pc # "idle"
                    /\ Active(q)' => q \in run'[r].met /\ r \in run'[q].met
  BY DEF Ordered, InOrder, Meetings
<1>1. CASE Start(r)
  <2>1. /\ run[q].pc # "idle" /\ run'[q].pc = run[q].pc /\ q # r
        /\ run'[r].met = {p \in Runs : Active(p)}
        /\ run'[q].met = IF Active(q) THEN run[q].met \cup {r} ELSE run[q].met
    <3>1. q # r
      BY RunsAssumption
    <3>2. run[q].pc # "idle" /\ run'[r].met = {p \in Runs : Active(p)}
      BY <1>1, StartDoes DEF Known
    <3>3. run'[q].met = IF Active(q) THEN run[q].met \cup {r} ELSE run[q].met
      BY <1>1, <3>1, StartDoes DEF Known
    <3> QED
      BY <1>1, <3>1, <3>2, <3>3, StartKeeps DEF Known
  <2> QED
    BY <2>1 DEF Active
<1>2. CASE ~Start(r)
  <2>1. run[r].pc # "idle"
    BY <1>2, Onward
  <2>2. run[q].pc # "idle" /\ ~Start(q)
    BY <2>1 DEF Ordered, InOrder, Start
  <2>3. run'[q].pc # "idle" /\ (Active(q)' => Active(q))
    BY <2>2, Onward
  <2>4. run[q].met \subseteq run'[q].met /\ run[r].met \subseteq run'[r].met
    BY Onward
  <2> QED
    BY <2>1, <2>3, <2>4 DEF Ordered, Meetings
<1> QED
  BY <1>1, <1>2

\* Two runs under way have met.
LEMMA UnderWay ==
    ASSUME Known, Ordered, NEW q \in Runs, NEW r \in Runs, q # r, Active(q), Active(r)
    PROVE  q \in run[r].met /\ r \in run[q].met /\ ~Apart(q, r) /\ ~Apart(r, q)
<1>1. q < r \/ r < q
  BY RunsAssumption
<1> QED
  BY <1>1 DEF Ordered, Meetings, Active, Apart

LEMMA SameSetting ==
    ASSUME Known, [Next]_vars
    PROVE  setting' = setting /\ failures \in Nat /\ failures' \in {failures, failures + 1}
<1>1. ASSUME NEW r \in Runs, Works(r) PROVE setting' = setting /\ failures' \in {failures, failures + 1}
  BY <1>1, WorkKnows DEF Moves
<1>2. ASSUME NEW r \in Runs, Start(r) PROVE setting' = setting /\ failures' = failures
  BY <1>2, StartDoes DEF Known
<1> QED
  BY <1>1, <1>2, UsersDo DEF Known, Typed, Next, Works, vars

-----------------------------------------------------------------------------
(* The labels of reviews.                                                  *)

\* One label of the effort, on the pull request and as the runs have read it.
OneEffort(L) == \A a, b \in L \cap EffortLabels : a = b
EffortsOnce ==
    setting.host \notin AddsLabels =>
        OneEffort(pr.labels) /\ \A r \in Runs : OneEffort(run[r].seen)

\* No runs have overlapped, and no call has failed, where labels are written as
\* a whole: a run knows the labels of the reviews that are there, and they are
\* the ones of the latest review that has written them.
Undisturbed ==
    /\ \A r \in Runs : run[r].met = {}
    /\ failures = 0 /\ setting.host \in Labelled \ AddsLabels
SeenCurrent ==
    Undisturbed =>
        \A r \in Runs : run[r].pc \in ToWrite \ {"idle"} =>
            run[r].seen \cap ReviewLabels = pr.labels \cap ReviewLabels
Latest(r) ==
    /\ run[r].tool = "review" /\ run[r].said \in {"issues", "nothing"}
    /\ run[r].pc \notin ToWrite
    /\ \A q \in Runs : q > r => run[q].tool # "review" \/ run[q].pc \in ToWrite
LatestDecides ==
    Undisturbed => \A r \in Runs : Latest(r) => pr.labels \cap ReviewLabels = run[r].labels

Current == SeenCurrent /\ LatestDecides

\* What is written of the reviews' labels.
LEMMA PublishesIs ==
    ASSUME Known, NEW r \in Runs, run[r].tool \in {"review", "describe"}
    PROVE  /\ Publishes(r) \cap ReviewLabels =
                 IF run[r].tool = "review" THEN run[r].labels ELSE run[r].seen \cap ReviewLabels
           /\ OneEffort(run[r].seen) => OneEffort(Publishes(r))
<1>1. CASE run[r].tool = "review"
  <2>1. run[r].labels \in ReviewAnswers
    BY <1>1 DEF Known, Knows, ReviewKnows
  <2>2. run[r].labels \subseteq ReviewLabels /\ OneEffort(run[r].labels)
    BY <2>1 DEF ReviewAnswers, ReviewLabels, EffortLabels, OneEffort
  <2>3. Publishes(r) = run[r].labels \cup (run[r].seen \ ReviewLabels)
    BY <1>1 DEF Publishes, OthersLabels
  <2> QED
    BY <1>1, <2>2, <2>3 DEF OneEffort, ReviewLabels
<1>2. CASE run[r].tool = "describe"
  <2>1. run[r].labels \in DescribeAnswers \cup {{}}
    BY <1>2 DEF Known, Knows, DescribeKnows
  <2>2. run[r].labels \subseteq TypeLabels /\ TypeLabels \cap ReviewLabels = {}
    BY <2>1 DEF DescribeAnswers, TypeLabels, ReviewLabels, EffortLabels
  <2>3. Publishes(r) = run[r].labels \cup (run[r].seen \ TypeLabels)
    BY <1>2 DEF Publishes, UsersLabels
  <2> QED
    BY <1>2, <2>2, <2>3 DEF OneEffort, ReviewLabels
<1> QED
  BY <1>1, <1>2

\* Users set no label of a review.
LEMMA UsersLabel ==
    ASSUME Known, Users
    PROVE  pr'.labels \cap ReviewLabels = pr.labels \cap ReviewLabels
<1>1. pr'.labels \ UserLabels = pr.labels \ UserLabels
  BY UsersDo DEF Known
<1> QED
  BY <1>1, LabelsAssumption

LEMMA EffortsNext ==
    ASSUME Known, EffortsOnce, [Next]_vars PROVE EffortsOnce'
<1> SUFFICES ASSUME setting.host \notin AddsLabels
             PROVE  OneEffort(pr'.labels) /\ \A r \in Runs : OneEffort(run'[r].seen)
  BY SameSetting DEF EffortsOnce, OneEffort
<1>1. OneEffort(pr.labels) /\ \A r \in Runs : OneEffort(run[r].seen)
  BY DEF EffortsOnce
<1>2. OneEffort({})
  BY DEF OneEffort
<1>3. ASSUME NEW r \in Runs, Works(r)
      PROVE  OneEffort(pr'.labels) /\ \A q \in Runs : OneEffort(run'[q].seen)
  <2>1. /\ run'[r].seen \in {run[r].seen, {}, pr.labels}
        /\ \/ pr'.labels = pr.labels
           \/ run[r].tool \in {"review", "describe"} /\ pr'.labels = Publishes(r)
    BY <1>3, WorkLabels DEF Labels1, Labelling
  <2>2. OneEffort(pr'.labels)
    BY <1>1, <2>1, PublishesIs
  <2>3. \A q \in Runs \ {r} : run'[q] = run[q]
    BY <1>3, WorkKnows DEF Moves
  <2> QED
    BY <1>1, <1>2, <2>1, <2>2, <2>3
<1>4. ASSUME NEW r \in Runs, Start(r)
      PROVE  OneEffort(pr'.labels) /\ \A q \in Runs : OneEffort(run'[q].seen)
  <2>1. pr' = pr /\ run'[r].seen = pr.labels /\ \A q \in Runs \ {r} : run'[q].seen = run[q].seen
    BY <1>4, StartDoes DEF Known, Same
  <2> QED
    BY <1>1, <2>1
<1>5. CASE Users
  <2>1. run' = run /\ pr'.labels \cap ReviewLabels = pr.labels \cap ReviewLabels
    BY <1>5, UsersLabel, UsersDo DEF Known
  <2>2. pr'.labels \cap EffortLabels = pr.labels \cap EffortLabels
    BY <2>1 DEF ReviewLabels
  <2> QED
    BY <1>1, <2>1, <2>2 DEF OneEffort
<1>6. CASE UNCHANGED vars
  BY <1>1, <1>6 DEF vars
<1> QED
  BY <1>3, <1>4, <1>5, <1>6 DEF Next, Works

\* Runs that have met nobody are not under way at once.
LEMMA Alone ==
    ASSUME Known, Ordered, Undisturbed, NEW r \in Runs, Active(r), NEW q \in Runs \ {r}
    PROVE  run[q].pc \in {"idle", "done"} /\ (q > r => run[q].pc = "idle")
<1>1. ~Active(q)
  BY UnderWay DEF Undisturbed
<1>2. q > r => run[q].pc = "idle"
  BY RunsAssumption DEF Ordered, Meetings, Undisturbed
<1> QED
  BY <1>1, <1>2 DEF Active

LEMMA UndisturbedBefore ==
    ASSUME Known, [Next]_vars, Undisturbed' PROVE Undisturbed
<1>1. \A r \in Runs : run[r].met = {}
  BY Onward DEF Undisturbed
<1> QED
  BY <1>1, SameSetting DEF Undisturbed

LEMMA CurrentNext ==
    ASSUME Known, Ordered, Current, [Next]_vars PROVE Current'
<1> SUFFICES ASSUME Undisturbed'
             PROVE  /\ \A p \in Runs : run'[p].pc \in ToWrite \ {"idle"} =>
                          run'[p].seen \cap ReviewLabels = pr'.labels \cap ReviewLabels
                    /\ \A p \in Runs : Latest(p)' =>
                          pr'.labels \cap ReviewLabels = run'[p].labels
  BY DEF Current, SeenCurrent, LatestDecides
<1>1. Undisturbed /\ failures' = 0 /\ setting.host \in Labelled \ AddsLabels
  BY UndisturbedBefore DEF Undisturbed
<1>2. /\ \A p \in Runs : run[p].pc \in ToWrite \ {"idle"} =>
            run[p].seen \cap ReviewLabels = pr.labels \cap ReviewLabels
      /\ \A p \in Runs : Latest(p) => pr.labels \cap ReviewLabels = run[p].labels
  BY <1>1 DEF Current, SeenCurrent, LatestDecides
<1>3. ASSUME NEW r \in Runs, Works(r), NEW p \in Runs
      PROVE  /\ run'[p].pc \in ToWrite \ {"idle"} =>
                   run'[p].seen \cap ReviewLabels = pr'.labels \cap ReviewLabels
             /\ Latest(p)' => pr'.labels \cap ReviewLabels = run'[p].labels
  <2>1. /\ Active(r) /\ run'[r].tool = run[r].tool
        /\ \A q \in Runs \ {r} : run'[q] = run[q]
    BY <1>3, WorkKnows DEF Moves
  <2>2. Labels1(r) /\ Labels2(r)
    BY <1>3, WorkLabels
  <2>3. Labelling(Publishes(r)) = Publishes(r)
    BY <1>1 DEF Labelling
  <2>4. CASE p = r
    <3>1. ASSUME run'[r].pc \in ToWrite \ {"idle"}
          PROVE  run'[r].seen \cap ReviewLabels = pr'.labels \cap ReviewLabels
      BY <1>1, <1>2, <2>2, <3>1 DEF Labels2
    <3>2. ASSUME Latest(r)' PROVE pr'.labels \cap ReviewLabels = run'[r].labels
      <4>1. run[r].tool = "review" /\ run'[r].pc \notin ToWrite /\ run'[r].said \in {"issues", "nothing"}
        BY <2>1, <3>2 DEF Latest
      <4>2. /\ run'[r].labels = run[r].labels
            /\ \/ /\ run[r].pc \notin ToWrite /\ run[r].said = run'[r].said
                  /\ pr'.labels = pr.labels
               \/ /\ run[r].pc = "putLabels"
                  /\ \/ run[r].seen = Publishes(r) /\ pr'.labels = pr.labels
                     \/ pr'.labels = Publishes(r)
        BY <1>1, <2>2, <2>3, <4>1 DEF Labels2
      <4>3. Publishes(r) \cap ReviewLabels = run[r].labels
        BY <4>1, PublishesIs
      <4>4. CASE run[r].pc \notin ToWrite
        <5>1. Latest(r)
          BY <2>1, <3>2, <4>1, <4>2, <4>4, RunsAssumption DEF Latest, ToWrite
        <5> QED
          BY <1>2, <4>2, <4>4, <5>1 DEF ToWrite
      <4>5. CASE run[r].pc = "putLabels"
        BY <1>2, <4>2, <4>3, <4>5 DEF ToWrite
      <4> QED
        BY <4>2, <4>4, <4>5
    <3> QED
      BY <2>4, <3>1, <3>2
  <2>5. CASE p # r
    <3>1. run'[p] = run[p] /\ run[p].pc \in {"idle", "done"} /\ (p > r => run[p].pc = "idle")
      BY <1>1, <2>1, <2>5, Alone
    <3>2. ASSUME Latest(p)' PROVE pr'.labels \cap ReviewLabels = run'[p].labels
      <4>1. run[p].pc = "done" /\ r > p
        BY <3>1, <3>2, <2>5, RunsAssumption DEF Latest, ToWrite
      <4>2. \A q \in Runs \ {r} : q > p => run[q].tool # "review" \/ run[q].pc \in ToWrite
        BY <2>1, <3>2 DEF Latest
      <4>3. run[p].tool = "review" /\ run[p].said \in {"issues", "nothing"} /\ run[p].pc \notin ToWrite
        BY <3>1, <3>2 DEF Latest
      <4>4. CASE run'[r].pc \in ToWrite
        <5>1. run[r].pc \in ToWrite /\ pr'.labels = pr.labels
          BY <1>1, <2>2, <4>4 DEF Labels2
        <5>2. Latest(p)
          BY <4>2, <4>3, <5>1 DEF Latest
        <5> QED
          BY <1>2, <3>1, <5>1, <5>2
      <4>5. CASE run'[r].pc \notin ToWrite
        <5>1. run[r].tool # "review"
          BY <2>1, <3>2, <4>1, <4>5 DEF Latest
        <5>2. Latest(p)
          BY <4>2, <4>3, <5>1 DEF Latest
        <5>3. pr'.labels \cap ReviewLabels = pr.labels \cap ReviewLabels
          <6>1. CASE pr'.labels = pr.labels
            BY <6>1
          <6>2. CASE /\ run[r].tool = "describe" /\ run[r].pc = "putLabels"
                     /\ pr'.labels = Publishes(r)
            BY <1>2, <6>2, PublishesIs DEF ToWrite
          <6> QED
            BY <2>2, <2>3, <5>1, <6>1, <6>2 DEF Labels1
        <5> QED
          BY <1>2, <3>1, <5>2, <5>3
      <4> QED
        BY <4>4, <4>5
    <3> QED
      BY <3>1, <3>2 DEF ToWrite
  <2> QED
    BY <2>4, <2>5
<1>4. ASSUME NEW r \in Runs, Start(r), NEW p \in Runs
      PROVE  /\ run'[p].pc \in ToWrite \ {"idle"} =>
                   run'[p].seen \cap ReviewLabels = pr'.labels \cap ReviewLabels
             /\ Latest(p)' => pr'.labels \cap ReviewLabels = run'[p].labels
  <2>1. /\ pr' = pr /\ run[r].pc = "idle" /\ run'[r].pc = "prepare" /\ run'[r].seen = pr.labels
        /\ \A q \in Runs \ {r} : run'[q].pc = run[q].pc /\ run'[q].seen = run[q].seen
    <3>1. run'[r].seen = pr.labels
      BY <1>4, StartDoes DEF Known
    <3> QED
      BY <1>4, <3>1, StartKeeps DEF Known
  <2>2. \A q \in Runs : /\ run'[q].tool = run[q].tool /\ run'[q].said = run[q].said
                        /\ run'[q].labels = run[q].labels
    BY <1>4, StartKeeps DEF Known
  <2>3. ASSUME Latest(p)' PROVE p # r /\ Latest(p)
    <3>1. p # r
      BY <2>1, <2>2, <2>3 DEF Latest, ToWrite
    <3>2. \A q \in Runs : q > p => run[q].tool # "review" \/ run[q].pc \in ToWrite
      BY <2>1, <2>2, <2>3 DEF Latest, ToWrite
    <3> QED
      BY <2>1, <2>2, <2>3, <3>1, <3>2 DEF Latest
  <2> QED
    BY <1>2, <2>1, <2>2, <2>3
<1>5. CASE Users
  <2>1. run' = run /\ pr'.labels \cap ReviewLabels = pr.labels \cap ReviewLabels
    BY <1>5, UsersLabel, UsersDo DEF Known
  <2> QED
    BY <1>2, <2>1 DEF Latest
<1>6. CASE UNCHANGED vars
  BY <1>2, <1>6 DEF vars, Latest
<1> QED
  BY <1>3, <1>4, <1>5, <1>6 DEF Next, Works

LEMMA LabelsInit ==
    ASSUME Init PROVE Ordered /\ EffortsOnce /\ Current
<1>1. Ordered
  BY InitIs DEF Ordered, InOrder, Meetings
<1>2. EffortsOnce
  BY InitIs DEF EffortsOnce, OneEffort
<1>3. Current
  BY InitIs DEF Current, SeenCurrent, LatestDecides, Latest, ToWrite
<1> QED
  BY <1>1, <1>2, <1>3

\* At most one label tells the effort of the review where labels are written as
\* a whole, however the runs interleave and whatever calls fail; and when no
\* runs overlap and no call fails, the labels of reviews are those of the latest
\* review (set_review_labels, pr_reviewer.py:387).
THEOREM LabelsOfReviewsAre == Spec => []LabelsOfReviews
<1>1. Init => Known /\ Ordered /\ EffortsOnce /\ Current
  BY KnownInit, LabelsInit
<1>2. Known /\ Ordered /\ EffortsOnce /\ Current /\ [Next]_vars
         => (Known /\ Ordered /\ EffortsOnce /\ Current)'
  BY KnownNext, OrderedNext, EffortsNext, CurrentNext
<1>3. ASSUME Known, Ordered, EffortsOnce, Current PROVE LabelsOfReviews
  <2>1. OneEffortLabel
    BY <1>3 DEF EffortsOnce, OneEffort, OneEffortLabel
  <2>2. LabelsOfLatestReview
    <3> SUFFICES ASSUME NEW r \in Runs,
                    run[r].tool = "review", Ended(r), run[r].said \in {"issues", "nothing"},
                    \A q \in Runs : run[q].met = {},
                    \A q \in Runs : q > r => run[q].tool # "review" \/ run[q].pc \in {"idle", "prepare", "predict"},
                    failures = 0, setting.host \in Labelled \ AddsLabels
                 PROVE  pr.labels \cap ReviewLabels = run[r].labels
      BY DEF LabelsOfLatestReview
    <3>1. Undisturbed /\ Latest(r)
      BY DEF Undisturbed, Latest, Ended, ToWrite
    <3> QED
      BY <1>3, <3>1 DEF Current, LatestDecides
  <2> QED
    BY <2>1, <2>2 DEF LabelsOfReviews
<1> QED
  BY <1>1, <1>2, <1>3, PTL DEF Spec

-----------------------------------------------------------------------------
(* The texts of users.                                                     *)

LEMMA AtWrite ==
    ASSUME NEW r \in Runs, Works(r), run[r].pc = "write"
    PROVE  WriteDescription(r)
<1>1. ~ReviewStep(r)
  BY DEF ReviewStep, PrepareReview, PredictReview, SetReviewLabels, ReportReview
<1>2. ~ImproveStep(r)
  BY DEF ImproveStep, PrepareImprove, PredictImprove, NoSuggestions, FoundSuggestions,
         PushInline, PublishSingle, LookForSuggestions, OverwriteNone, MergeInto,
         RemoveMerged, NothingToMerge, PublishTable, ImproveFailed
<1>3. ~Persist(r) /\ ~Cleanup(r)
  BY DEF Persist, ListComments, UpdatePersistent, AnnounceUpdate, PublishWhole, Cleanup
<1>4. ~(PrepareDescribe(r) \/ PredictDescribe(r) \/ SetTypeLabels(r) \/ TellDescription(r))
  BY DEF PrepareDescribe, PredictDescribe, SetTypeLabels, TellDescription
<1> QED
  BY <1>1, <1>2, <1>3, <1>4 DEF Works, Step, DescribeStep

\* A run writes the texts that it has read, but for the ones that it takes for
\* its own.
LEMMA TextsWritten ==
    ASSUME Known, NEW r \in Runs, WriteDescription(r), pr'.body # pr.body,
           NEW t \in Texts, t \in ToSet(run[r].read)
    PROVE  \/ t \in ToSet(pr'.body)
           \/ IsGenerated(run[r].read)
              /\ \/ FirstOf(run[r].read, t) > FirstOf(run[r].read, "generated")
                 \/ FirstOf(run[r].read, t) > FirstOf(run[r].read, "rule")
<1> DEFINE text == UserDescription(run[r].read)
           body == IF setting.markers THEN AnswerInMarkers(text) ELSE Answer(text)
<1>1. run[r].read \in Seq(Parts)
  BY DEF Known, Typed, Records
<1>2. text \in Seq(Parts)
  BY <1>1, UserDescriptionIs
<1>3. t \in ToSet(text) => t \in ToSet(body)
  BY <1>2, AnswersAre
<1>4. pr' = [pr EXCEPT !.body = body] \/ pr' = pr
  BY DEF WriteDescription, Call, Refused
<1> HIDE DEF body
<1>5. pr'.body = body
  BY <1>4 DEF Known, Typed, Requests
<1> QED
  BY <1>1, <1>3, <1>5, UserDescriptionIs

\* What a user wrote, and the describe tool has read, survives what the tool
\* writes, unless it stands behind the generated part or behind a rule
\* (get_user_description and _prepare_pr_answer).
THEOREM TextsDoSurvive == Spec => TextsSurvive
<1> DEFINE Survives == \A r \in Runs, t \in Texts :
          /\ run[r].pc = "write" /\ run'[r].pc # "write" /\ pr'.body # pr.body
          /\ t \in ToSet(run[r].read)
          => \/ t \in ToSet(pr'.body)
             \/ IsGenerated(run[r].read)
                /\ \/ FirstOf(run[r].read, t) > FirstOf(run[r].read, "generated")
                   \/ FirstOf(run[r].read, t) > FirstOf(run[r].read, "rule")
<1>1. ASSUME Known, [Next]_vars PROVE [Survives]_vars
  <2>1. ASSUME NEW r \in Runs, run[r].pc = "write", run'[r].pc # "write", pr'.body # pr.body
        PROVE  WriteDescription(r)
    <3>1. CASE \E p \in Runs : Works(p)
      <4>1. PICK p \in Runs : Works(p)
        BY <3>1
      <4>2. p = r
        BY <1>1, <2>1, <4>1, WorkKnows DEF Moves
      <4> QED
        BY <2>1, <4>1, <4>2, AtWrite
    <3>2. CASE \E p \in Runs : Start(p)
      BY <1>1, <2>1, <3>2, StartDoes DEF Known, Same
    <3>3. CASE Users \/ UNCHANGED vars
      BY <1>1, <2>1, <3>3, UsersDo DEF Known, vars
    <3> QED
      BY <1>1, <3>1, <3>2, <3>3 DEF Next, Works
  <2>2. Survives
    BY <1>1, <2>1, TextsWritten
  <2> QED
    BY <2>2
<1>2. TextsSurvive <=> [][Survives]_vars
  BY DEF TextsSurvive
<1> HIDE DEF Survives
<1> QED
  BY <1>1, <1>2, KnownInit, KnownNext, PTL DEF Spec

-----------------------------------------------------------------------------
(* The comments a run touches.                                             *)

\* The comments of the review and of the describe tool.
Whole == {"review", "title"}

\* The comments that r may remove, or put suggestions in.
Touches(r, id) ==
    \/ id \in {<<r, "temp">>, ProgressId(r)}
    \/ run[r].tool = "improve" /\ \E c \in run[r].listed : id = c.id

\* What a step of a run does to comments, and which ones it then knows of.
Comments1(r) ==
    \/ pr'.comments = pr.comments
    \/ \E k \in Names :
          /\ Appears(r, k, k)
          /\ k \in Whole => run[r].pc = "publish" /\ run[r].kind = k
          /\ IF k \in {"temp", "progress"} THEN run[r].pc = "prepare"
             ELSE run[r].pc # "cleanup" /\ run'[r].pc \in {"cleanup", "done"}
          /\ k = "table" => run[r].tool = "improve"
    \/ \E id, k : /\ Edited(id, k) /\ k \in {"none", "table"} /\ Touches(r, id)
                  /\ run[r].tool = "improve"
    \/ \E c \in Previous(r) :
          Edited(c.id, c.kind) /\ c.kind \in Whole /\ run[r].pc = "update"
    \/ \E id : Removed(id) /\ Touches(r, id)

LEMMA PersistComments ==
    ASSUME Known, NEW r \in Runs, run[r].tool # "improve", Persist(r) \/ Cleanup(r)
    PROVE  /\ Comments1(r) /\ run'[r].listed \in {run[r].listed, pr.comments, {}}
           /\ run[r].pc \in {"list", "update", "publish"} => run[r].kind \in Whole
           /\ run'[r].kind = run[r].kind
<1>1. Typed /\ Knows(r) /\ Tooled
  BY DEF Known
<1>2. run[r].pc \in {"list", "update", "publish"} => run[r].kind \in Whole
  <2>1. run[r].tool \in {"review", "describe", "none"}
    BY DEF Known, Typed, Records
  <2> QED
    BY <1>1, <2>1 DEF Knows, ReviewKnows, DescribeKnows, Tooled, Whole
<1>3. CASE ListComments(r)
  <2>1. /\ pr'.comments = pr.comments /\ run'[r].listed \in {run[r].listed, pr.comments}
        /\ run'[r].kind = run[r].kind
    BY <1>1, <1>3, ListCommentsDoes DEF Goes, Same
  <2> QED
    BY <1>2, <2>1 DEF Comments1
<1>4. CASE UpdatePersistent(r)
  <2>1. /\ run[r].pc = "update"
        /\ \/ Goes(r, "publish") /\ Same
           \/ \E c \in Previous(r) :
                 /\ Goes(r, "notice") \/ Goes(r, "cleanup") \/ Goes(r, "publish")
                 /\ Edited(c.id, c.kind) \/ Same
    BY <1>1, <1>4, UpdatePersistentDoes
  <2>2. run'[r].listed = run[r].listed /\ run'[r].kind = run[r].kind
    BY <2>1 DEF Goes
  <2>3. \A c \in Previous(r) : c.kind \in Whole
    <3>1. run[r].kind \in Whole
      BY <1>2, <2>1
    <3> QED
      BY <3>1 DEF Previous, Headed, Header, Whole
  <2>4. pr'.comments = pr.comments \/ \E c \in Previous(r) : Edited(c.id, c.kind)
    BY <2>1 DEF Same
  <2> QED
    BY <1>2, <2>1, <2>2, <2>3, <2>4 DEF Comments1
<1>5. CASE AnnounceUpdate(r)
  <2>1. /\ Appears(r, "notice", "notice") \/ pr'.comments = pr.comments
        /\ run'[r].listed = run[r].listed /\ run'[r].kind = run[r].kind
        /\ run[r].pc = "notice" /\ (pr'.comments = pr.comments \/ run'[r].pc = "cleanup")
    BY <1>1, <1>5, AnnounceUpdateDoes DEF Goes, Same
  <2> QED
    BY <1>2, <2>1 DEF Comments1, Names, Whole
<1>6. CASE PublishWhole(r)
  <2>1. run[r].pc = "publish" /\ run[r].kind \in {"review", "title"}
    BY <1>2, <1>6 DEF PublishWhole, Whole
  <2>2. /\ Appears(r, run[r].kind, run[r].kind) \/ pr'.comments = pr.comments
        /\ run'[r].listed \in {run[r].listed, {}} /\ run'[r].kind = run[r].kind
        /\ run'[r].pc \in {"cleanup", "done"}
    BY <1>1, <1>6, <2>1, PublishWholeDoes DEF Goes, Ends, Same
  <2> QED
    BY <1>2, <2>1, <2>2 DEF Comments1, Names, Whole
<1>7. CASE Cleanup(r)
  <2>1. /\ Removed(<<r, "temp">>) \/ pr'.comments = pr.comments
        /\ run'[r].listed = {} /\ run'[r].kind = run[r].kind
    BY <1>1, <1>7, CleanupStepDoes DEF Ends, Same
  <2> QED
    BY <1>2, <2>1 DEF Comments1, Touches
<1> QED
  BY <1>3, <1>4, <1>5, <1>6, <1>7 DEF Persist

LEMMA ReviewComments ==
    ASSUME Known, NEW r \in Runs, run[r].tool = "review", ReviewStep(r)
    PROVE  /\ Comments1(r) /\ run'[r].listed \in {run[r].listed, {}}
           /\ run'[r].pc \notin {"update", "publish"}
<1>1. Typed
  BY DEF Known
<1>2. CASE PrepareReview(r)
  <2>1. /\ run[r].pc = "prepare" /\ (Appears(r, "temp", "temp") \/ pr'.comments = pr.comments)
        /\ run'[r].listed \in {run[r].listed, {}} /\ run'[r].pc \in {"predict", "done"}
    BY <1>1, <1>2, PrepareDoes DEF Goes, Ends, Same
  <2> QED
    BY <2>1 DEF Comments1, Names, Whole
<1>3. CASE PredictReview(r)
  BY <1>1, <1>3, PredictReviewDoes DEF Goes, Errs, Answers, Same, Comments1
<1>4. CASE SetReviewLabels(r)
  BY <1>1, <1>4, SetReviewLabelsDoes DEF Goes, Reads, Writes, Relabels, Same, Comments1
<1>5. CASE ReportReview(r)
  BY <1>1, <1>5, ReportReviewDoes DEF Goes, Ends, Same, Comments1
<1> QED
  BY <1>2, <1>3, <1>4, <1>5 DEF ReviewStep

LEMMA DescribeComments ==
    ASSUME Known, NEW r \in Runs, run[r].tool = "describe", DescribeStep(r)
    PROVE  /\ Comments1(r) /\ run'[r].listed \in {run[r].listed, {}}
           /\ run'[r].pc \notin {"update", "publish"}
<1>1. Typed
  BY DEF Known
<1>2. CASE PrepareDescribe(r)
  <2>1. /\ run[r].pc = "prepare" /\ (Appears(r, "temp", "temp") \/ pr'.comments = pr.comments)
        /\ run'[r].listed \in {run[r].listed, {}} /\ run'[r].pc \in {"predict", "done"}
    BY <1>1, <1>2, PrepareDoes DEF Goes, Ends, Same
  <2> QED
    BY <2>1 DEF Comments1, Names, Whole
<1>3. CASE PredictDescribe(r)
  BY <1>1, <1>3, PredictDescribeDoes DEF Goes, Errs, Answers, Same, Comments1
<1>4. CASE SetTypeLabels(r)
  BY <1>1, <1>4, SetTypeLabelsDoes DEF Goes, Ends, Reads, Writes, Relabels, Same, Comments1
<1>5. CASE WriteDescription(r)
  BY <1>1, <1>5, WriteDescriptionDoes DEF Goes, Ends, Same, Comments1
<1>6. CASE TellDescription(r)
  <2>1. /\ Appears(r, "notice", "notice") \/ pr'.comments = pr.comments
        /\ run'[r].listed \in {run[r].listed, {}} /\ run'[r].pc \in {"cleanup", "done"}
        /\ run[r].pc = "tell"
    BY <1>1, <1>6, TellDescriptionDoes DEF Goes, Ends, Same
  <2> QED
    BY <2>1 DEF Comments1, Names, Whole
<1> QED
  BY <1>2, <1>3, <1>4, <1>5, <1>6 DEF DescribeStep

LEMMA ImproveComments ==
    ASSUME Known, NEW r \in Runs, run[r].tool = "improve", ImproveStep(r)
    PROVE  /\ Comments1(r)
           /\ \/ run'[r].listed \subseteq run[r].listed
              \/ run[r].pc = "look" /\ run'[r].listed \subseteq pr.comments
<1>1. Typed /\ ProgressId(r) = <<r, "progress">>
  BY DEF Known, ProgressId
<1>2. ASSUME pr'.comments = pr.comments PROVE Comments1(r)
  BY <1>2 DEF Comments1
<1>3. ASSUME NEW k \in Names, Appears(r, k, k), k \notin Whole,
             IF k \in {"temp", "progress"} THEN run[r].pc = "prepare"
             ELSE run[r].pc # "cleanup" /\ run'[r].pc = "done"
      PROVE  Comments1(r)
  BY <1>3 DEF Comments1
<1>4. ASSUME NEW id, NEW k \in {"none", "table"}, Edited(id, k), Touches(r, id)
      PROVE  Comments1(r)
  BY <1>4 DEF Comments1
<1>5. ASSUME NEW id, Removed(id), Touches(r, id) PROVE Comments1(r)
  BY <1>5 DEF Comments1
<1>6. Touches(r, <<r, "temp">>) /\ Touches(r, ProgressId(r))
      /\ \A c \in run[r].listed : Touches(r, c.id)
  BY DEF Touches
<1>7. \A k \in {"temp", "progress", "notice", "failed", "none", "table"} : k \in Names \ Whole
  BY DEF Names, Whole
<1>8. ASSUME NEW k \in {"none", "table"}, Shows(r, k), run[r].pc # "cleanup"
      PROVE  Comments1(r)
  BY <1>2, <1>3, <1>4, <1>6, <1>7, <1>8 DEF Shows, Same, Ends
<1>9. CASE PrepareImprove(r)
  <2>1. /\ run[r].pc = "prepare" /\ run'[r].listed = run[r].listed
        /\ \/ pr'.comments = pr.comments
           \/ Appears(r, "progress", "progress") \/ Appears(r, "temp", "temp")
    BY <1>1, <1>9, PrepareImproveDoes DEF Goes, Same
  <2> QED
    BY <1>2, <1>3, <1>7, <2>1
<1>10. CASE PredictImprove(r)
  BY <1>1, <1>2, <1>10, PredictImproveDoes DEF Goes, Same
<1>11. CASE NoSuggestions(r)
  <2>1. /\ run[r].pc = "none" /\ (Shows(r, "none") \/ pr'.comments = pr.comments)
        /\ run'[r].listed \in {run[r].listed, {}}
    BY <1>1, <1>11, NoSuggestionsDoes DEF Goes, Ends, Same
  <2> QED
    BY <1>2, <1>8, <2>1
<1>12. CASE FoundSuggestions(r)
  <2>1. /\ Removed(<<r, "temp">>) \/ pr'.comments = pr.comments
        /\ run'[r].listed = run[r].listed
    BY <1>1, <1>12, FoundSuggestionsDoes DEF Goes, Same
  <2> QED
    BY <1>2, <1>5, <1>6, <2>1
<1>13. CASE PushInline(r)
  <2>1. /\ Removed(ProgressId(r)) \/ pr'.comments = pr.comments
        /\ run'[r].listed \in {run[r].listed, {}}
    BY <1>1, <1>13, PushInlineDoes DEF Goes, Ends, Same
  <2> QED
    BY <1>2, <1>5, <1>6, <2>1
<1>14. CASE PublishSingle(r) \/ PublishTable(r)
  <2>1. Shows(r, "table") /\ run[r].pc # "cleanup" /\ run'[r].listed \in {run[r].listed, {}}
    BY <1>1, <1>14, PublishTablesDo DEF Goes, Ends
  <2> QED
    BY <1>8, <2>1
<1>15. CASE LookForSuggestions(r)
  <2>1. /\ pr'.comments = pr.comments /\ run[r].pc = "look"
        /\ run'[r].listed \in {run[r].listed, Headed(pr.comments, "suggestions")}
    BY <1>1, <1>15, LookForSuggestionsDoes DEF Goes, GoesWith, Same
  <2> QED
    BY <1>2, <2>1 DEF Headed
<1>16. CASE OverwriteNone(r)
  <2>1. \E c \in run[r].listed :
           /\ Edited(c.id, "table") \/ pr'.comments = pr.comments
           /\ run'[r].listed \subseteq run[r].listed
    BY <1>1, <1>16, OverwriteNoneDoes DEF Goes, GoesWith, Same
  <2> QED
    BY <1>2, <1>4, <1>6, <2>1
<1>17. CASE MergeInto(r)
  <2>1. \E c \in run[r].listed :
           /\ \/ Edited(ProgressId(r), "table") \/ Edited(c.id, "table")
              \/ pr'.comments = pr.comments
           /\ run'[r].listed \subseteq run[r].listed
    BY <1>1, <1>17, MergeIntoDoes DEF Goes, Ends, Same
  <2> QED
    BY <1>2, <1>4, <1>6, <2>1
<1>18. CASE RemoveMerged(r)
  <2>1. run[r].listed # {}
    BY <1>18 DEF RemoveMerged, Known, Knows, ImproveKnows
  <2>2. \E c \in run[r].listed :
           /\ Removed(c.id) \/ pr'.comments = pr.comments
           /\ run'[r].listed \subseteq run[r].listed
    BY <1>1, <1>18, <2>1, RemoveMergedDoes DEF Goes, Ends, Same
  <2> QED
    BY <1>2, <1>5, <1>6, <2>2
<1>19. CASE NothingToMerge(r)
  BY <1>1, <1>2, <1>19, NothingToMergeDoes DEF Goes, Same
<1>20. CASE ImproveFailed(r)
  <2>1. /\ run[r].pc # "cleanup" /\ run'[r].listed \in {run[r].listed, {}}
        /\ \/ Removed(ProgressId(r)) \/ Removed(<<r, "temp">>)
           \/ Appears(r, "failed", "failed") /\ run'[r].pc = "done"
           \/ pr'.comments = pr.comments
    BY <1>1, <1>20, ImproveFailedDoes DEF Goes, Ends, Same
  <2> QED
    BY <1>2, <1>3, <1>5, <1>6, <1>7, <2>1
<1> QED
  BY <1>9, <1>10, <1>11, <1>12, <1>13, <1>14, <1>15, <1>16, <1>17, <1>18, <1>19, <1>20
     DEF ImproveStep

LEMMA WorkComments ==
    ASSUME Known, NEW r \in Runs, Works(r)
    PROVE  /\ Comments1(r) /\ run'[r].listed \subseteq run[r].listed \cup pr.comments
           /\ \/ run'[r].listed \subseteq run[r].listed
              \/ run[r].tool = "improve" => run[r].pc = "look"
<1>1. CASE run[r].tool = "review" /\ ReviewStep(r)
  BY <1>1, ReviewComments
<1>2. CASE run[r].tool = "improve" /\ ImproveStep(r)
  BY <1>2, ImproveComments
<1>3. CASE run[r].tool = "describe" /\ DescribeStep(r)
  BY <1>3, DescribeComments
<1>4. CASE run[r].tool # "improve" /\ (Persist(r) \/ Cleanup(r))
  BY <1>4, PersistComments
<1> QED
  BY <1>1, <1>2, <1>3, <1>4 DEF Works, Step


-----------------------------------------------------------------------------
(* The temporary comments.                                                 *)

\* The comments of the review and of the describe tool, and what was read of
\* them, keep their kind.
Shape(c) == c.kind \in Whole \/ c.id[2] \in Whole => c.id[2] = c.kind
Shaped ==
    /\ \A c \in pr.comments : Shape(c)
    /\ \A r \in Runs : \A c \in run[r].listed : Shape(c)

LEMMA TouchesIs ==
    ASSUME Known, Shaped, NEW r \in Runs, NEW id, Touches(r, id)
    PROVE  id[2] \notin Whole
<1>1. CASE id \in {<<r, "temp">>, ProgressId(r)}
  BY <1>1 DEF ProgressId, Whole
<1>2. CASE run[r].tool = "improve" /\ \E c \in run[r].listed : id = c.id
  BY <1>2 DEF Known, Knows, ImproveKnows, Shaped, Shape, Whole
<1> QED
  BY <1>1, <1>2 DEF Touches

LEMMA ShapedNext ==
    ASSUME Known, Shaped, [Next]_vars PROVE Shaped'
<1>1. ASSUME NEW r \in Runs, Works(r) PROVE Shaped'
  <2>1. ASSUME NEW e \in pr'.comments PROVE Shape(e)
    <3>1. CASE pr'.comments = pr.comments
      BY <3>1 DEF Shaped
    <3>2. ASSUME NEW k \in Names, Appears(r, k, k) PROVE Shape(e)
      BY <3>2 DEF Appears, Shaped, Shape
    <3>3. ASSUME NEW id, NEW k \in {"none", "table"}, Edited(id, k), Touches(r, id) PROVE Shape(e)
      <4>1. id[2] \notin Whole
        BY <3>3, TouchesIs
      <4>2. e \in pr.comments \/ (e.id = id /\ e.kind = k)
        BY <3>3 DEF Edited
      <4> QED
        BY <4>1, <4>2 DEF Shaped, Shape, Whole
    <3>4. ASSUME NEW c \in Previous(r), Edited(c.id, c.kind) PROVE Shape(e)
      <4>1. Shape(c)
        BY DEF Shaped, Previous, Headed
      <4>2. e \in pr.comments \/ (e.id = c.id /\ e.kind = c.kind)
        BY <3>4 DEF Edited
      <4> QED
        BY <4>1, <4>2 DEF Shaped, Shape
    <3>5. ASSUME NEW id, Removed(id) PROVE Shape(e)
      BY <3>5 DEF Removed, Shaped
    <3> QED
      BY <1>1, <3>1, <3>2, <3>3, <3>4, <3>5, WorkComments DEF Comments1
  <2>2. ASSUME NEW q \in Runs, NEW c \in run'[q].listed PROVE Shape(c)
    <3>1. c \in run[q].listed \cup pr.comments
      BY <1>1, <2>2, WorkComments, WorkKnows DEF Moves
    <3> QED
      BY <3>1 DEF Shaped
  <2> QED
    BY <2>1, <2>2 DEF Shaped, Shape
<1>2. ASSUME NEW r \in Runs, Start(r) PROVE Shaped'
  <2>1. pr' = pr /\ \A q \in Runs : run'[q].listed = run[q].listed
    BY <1>2, StartDoes DEF Known, Same
  <2> QED
    BY <2>1 DEF Shaped, Shape
<1>3. CASE Users
  BY <1>3, UsersDo DEF Known, Shaped, Shape
<1>4. CASE UNCHANGED vars
  BY <1>4 DEF vars, Shaped, Shape
<1> QED
  BY <1>1, <1>2, <1>3, <1>4 DEF Next, Works

\* While no call fails a temporary comment is of a run that will remove it, or
\* of one that ended as the property says.
TempOf(r) ==
    IF run[r].tool = "improve"
    THEN /\ setting.host \notin Gfm
         /\ \/ run[r].pc \in {"predict", "found", "none", "failed"}
            \/ run[r].pc = "done" /\ run[r].said = "nothing"
    ELSE /\ run[r].pc \notin {"idle", "prepare"}
         /\ run[r].pc = "done" =>
               run[r].said = "error" \/ (run[r].said = "nothing" /\ setting.quiet)
ProgressOf(r) ==
    /\ run[r].tool = "improve" /\ HasProgress(r)
    /\ \/ run[r].pc \in {"predict", "none", "found", "inline", "unprogress",
                         "single", "look", "merge", "whole", "failed"}
       \/ run[r].pc = "done" /\ run[r].said = "nothing" /\ setting.quiet
Temporary(c) ==
    /\ c.kind = "temp" => c.id = <<c.id[1], "temp">> /\ TempOf(c.id[1])
    /\ c.kind = "progress" => c.id = ProgressId(c.id[1]) /\ ProgressOf(c.id[1])
Temporaries == failures = 0 => \A c \in pr.comments : Temporary(c)

\* A run of the review or of the describe tool removes its temporary comment at
\* its end, or has nothing to say or no answer.
EndsClean(r) ==
    /\ run'[r].pc \notin {"idle", "prepare"}
    /\ run'[r].pc = "done" =>
          \/ run'[r].said = "error"
          \/ run'[r].said = "nothing" /\ setting.quiet
          \/ Removed(<<r, "temp">>)

LEMMA OthersEndClean ==
    ASSUME Known, NEW r \in Runs, Works(r), run[r].tool # "improve", failures' = 0
    PROVE  EndsClean(r)
<1>1. Typed /\ ~Faults
  BY DEF Known, Typed, Faults
<1>2. CASE ListComments(r)
  BY <1>1, <1>2, ListCommentsDoes DEF Goes, EndsClean
<1>3. CASE UpdatePersistent(r)
  BY <1>1, <1>3, UpdatePersistentDoes DEF Goes, EndsClean
<1>4. CASE AnnounceUpdate(r)
  BY <1>1, <1>4, AnnounceUpdateDoes DEF Goes, EndsClean
<1>5. CASE PublishWhole(r)
  <2>1. run[r].kind \in {"review", "title"}
    BY <1>5, PersistComments DEF PublishWhole, Persist, Whole
  <2> QED
    BY <1>1, <1>5, <2>1, PublishWholeDoes DEF Goes, EndsClean
<1>6. CASE Cleanup(r)
  BY <1>1, <1>6, CleanupStepDoes DEF Ends, EndsClean
<1>7. CASE ReviewStep(r)
  <2>1. CASE PrepareReview(r)
    BY <1>1, <2>1, PrepareDoes DEF Goes, EndsClean
  <2>2. CASE PredictReview(r)
    BY <1>1, <2>2, PredictReviewDoes DEF Goes, Errs, Answers, EndsClean
  <2>3. CASE SetReviewLabels(r)
    BY <1>1, <2>3, SetReviewLabelsDoes DEF Goes, Reads, EndsClean
  <2>4. CASE ReportReview(r)
    BY <1>1, <2>4, ReportReviewDoes DEF Goes, Ends, EndsClean
  <2> QED
    BY <1>7, <2>1, <2>2, <2>3, <2>4 DEF ReviewStep
<1>8. CASE DescribeStep(r)
  <2>1. CASE PrepareDescribe(r)
    BY <1>1, <2>1, PrepareDoes DEF Goes, EndsClean
  <2>2. CASE PredictDescribe(r)
    BY <1>1, <2>2, PredictDescribeDoes DEF Goes, Errs, Answers, EndsClean
  <2>3. CASE SetTypeLabels(r)
    BY <1>1, <2>3, SetTypeLabelsDoes DEF Goes, Reads, EndsClean
  <2>4. CASE WriteDescription(r)
    BY <1>1, <2>4, WriteDescriptionDoes DEF Goes, EndsClean
  <2>5. CASE TellDescription(r)
    BY <1>1, <2>5, TellDescriptionDoes DEF Goes, EndsClean
  <2> QED
    BY <1>8, <2>1, <2>2, <2>3, <2>4, <2>5 DEF DescribeStep
<1> QED
  BY <1>2, <1>3, <1>4, <1>5, <1>6, <1>7, <1>8 DEF Works, Step, Persist

\* No call has failed: what is shown in the progress comment takes its place.
LEMMA ShownInPlace ==
    ASSUME Known, NEW r \in Runs, NEW k \in {"none", "table"}, Shows(r, k), HasProgress(r), ~Faults,
           NEW c \in pr.comments, c \in pr'.comments, c.id = ProgressId(r)
    PROVE  c.kind = k
<1>1. Edited(ProgressId(r), k)
  BY DEF Shows, Ids
<1> QED
  BY <1>1 DEF Edited

\* While no call fails the improve tool removes its comment, or shows what it
\* has to say in it.
LEMMA ImproveEndsClean ==
    ASSUME Known, NEW r \in Runs, ImproveStep(r), run[r].tool = "improve", failures' = 0,
           NEW c \in pr.comments, c \in pr'.comments
    PROVE  /\ c.kind = "temp" /\ c.id = <<r, "temp">> /\ TempOf(r) => TempOf(r)'
           /\ c.kind = "progress" /\ c.id = ProgressId(r) /\ ProgressOf(r) => ProgressOf(r)'
<1>1. Typed /\ ~Faults /\ setting.quiet \in BOOLEAN
      /\ (run[r].pc = "none" => run[r].said = "nothing")
  BY OptionsAreBoolean DEF Known, Typed, Faults, Knows, ImproveKnows
<1>2. Moves(r) /\ run'[r].tool = "improve" /\ setting' = setting
  BY ImproveStepKnows DEF Moves
<1>3. ASSUME c.kind = "temp", c.id = <<r, "temp">>, TempOf(r) PROVE TempOf(r)'
  <2>1. /\ setting.host \notin Gfm /\ ~HasProgress(r)
        /\ run[r].pc \in {"predict", "found", "none", "failed"}
    BY <1>3, ImproveStepKnows DEF TempOf, HasProgress, Active
  <2>2. ~Removed(<<r, "temp">>)
    BY <1>3 DEF Removed
  <2> SUFFICES \/ run'[r].pc \in {"predict", "found", "none", "failed"}
               \/ run'[r].pc = "done" /\ run'[r].said = "nothing"
    BY <1>2, <2>1 DEF TempOf
  <2>3. CASE PredictImprove(r)
    BY <1>1, <2>3, PredictImproveDoes DEF Goes
  <2>4. CASE NoSuggestions(r)
    BY <1>1, <2>4, NoSuggestionsDoes DEF Goes, Ends
  <2>5. CASE FoundSuggestions(r)
    BY <1>1, <2>2, <2>5, FoundSuggestionsDoes
  <2>6. CASE ImproveFailed(r)
    BY <1>1, <2>1, <2>2, <2>6, ImproveFailedDoes
  <2> QED
    BY <2>1, <2>3, <2>4, <2>5, <2>6
       DEF ImproveStep, PrepareImprove, PushInline, PublishSingle, LookForSuggestions,
           OverwriteNone, MergeInto, RemoveMerged, NothingToMerge, PublishTable
<1>4. ASSUME c.kind = "progress", c.id = ProgressId(r), ProgressOf(r) PROVE ProgressOf(r)'
  <2>1. /\ HasProgress(r)
        /\ run[r].pc \in {"predict", "none", "found", "inline", "unprogress",
                          "single", "look", "merge", "whole", "failed"}
    BY <1>4, ImproveStepKnows DEF ProgressOf, Active
  <2>2. /\ ~Removed(ProgressId(r)) /\ ProgressId(r) \in Ids
        /\ \A k \in {"none", "table"} : ~Edited(ProgressId(r), k) /\ ~Shows(r, k)
    <3>1. ~Removed(ProgressId(r)) /\ ProgressId(r) \in Ids
      BY <1>4 DEF Removed, Ids
    <3>2. \A k \in {"none", "table"} : ~Edited(ProgressId(r), k)
      BY <1>4 DEF Edited
    <3>3. \A k \in {"none", "table"} : ~Shows(r, k)
      BY <1>1, <1>4, <2>1, ShownInPlace
    <3> QED
      BY <3>1, <3>2, <3>3
  <2>3. ASSUME run'[r].kind = run[r].kind,
               \/ run'[r].pc \in {"predict", "none", "found", "inline", "unprogress",
                                  "single", "look", "merge", "whole", "failed"}
               \/ run'[r].pc = "done" /\ run'[r].said = "nothing" /\ setting.quiet
        PROVE  ProgressOf(r)'
    BY <1>2, <2>1, <2>3 DEF ProgressOf, HasProgress
  <2>4. CASE PredictImprove(r)
    BY <1>1, <2>3, <2>4, PredictImproveDoes DEF Goes
  <2>5. CASE NoSuggestions(r)
    BY <1>1, <2>2, <2>3, <2>5, NoSuggestionsDoes DEF Ends
  <2>6. CASE FoundSuggestions(r)
    BY <1>1, <2>3, <2>6, FoundSuggestionsDoes DEF Goes
  <2>7. CASE PushInline(r)
    BY <1>1, <2>1, <2>2, <2>3, <2>7, PushInlineDoes DEF Goes
  <2>8. CASE PublishSingle(r) \/ PublishTable(r)
    BY <1>1, <2>2, <2>8, PublishTablesDo
  <2>9. CASE LookForSuggestions(r)
    BY <1>1, <2>3, <2>9, LookForSuggestionsDoes DEF Goes, GoesWith
  <2>10. CASE OverwriteNone(r)
    BY <1>1, <2>3, <2>10, OverwriteNoneDoes DEF Goes, GoesWith
  <2>11. CASE MergeInto(r)
    BY <1>1, <2>1, <2>2, <2>11, MergeIntoDoes
  <2>12. CASE NothingToMerge(r)
    BY <1>1, <2>3, <2>12, NothingToMergeDoes DEF Goes
  <2>13. CASE ImproveFailed(r)
    BY <1>1, <2>1, <2>2, <2>13, ImproveFailedDoes
  <2> QED
    BY <2>1, <2>4, <2>5, <2>6, <2>7, <2>8, <2>9, <2>10, <2>11, <2>12, <2>13
       DEF ImproveStep, PrepareImprove, RemoveMerged
<1> QED
  BY <1>3, <1>4

LEMMA ImprovePrepares ==
    ASSUME Known, NEW r \in Runs, PrepareImprove(r), run[r].tool = "improve", failures' = 0,
           NEW e \in pr'.comments, e \notin pr.comments
    PROVE  Temporary(e)'
<1>1. Typed /\ ~Faults
  BY DEF Known, Typed, Faults
<1>2. Moves(r) /\ run'[r].tool = "improve" /\ setting' = setting
  BY ImproveStepKnows DEF ImproveStep, Moves
<1>3. CASE /\ setting.host \in Gfm /\ run'[r].pc = "predict" /\ run'[r].kind = "progress"
           /\ ~setting.auto /\ Appears(r, "progress", "progress")
  <2>1. e.id = <<r, "progress">> /\ e.kind = "progress"
    BY <1>3 DEF Appears
  <2>2. HasProgress(r)'
    BY <1>2, <1>3 DEF HasProgress
  <2> QED
    BY <1>2, <1>3, <2>1, <2>2 DEF Temporary, ProgressId, ProgressOf
<1>4. CASE /\ setting.host \notin Gfm /\ Goes(r, "predict")
           /\ ~setting.auto /\ Appears(r, "temp", "temp")
  <2>1. e.id = <<r, "temp">> /\ e.kind = "temp"
    BY <1>4 DEF Appears
  <2> QED
    BY <1>2, <1>4, <2>1 DEF Temporary, TempOf, Goes
<1> QED
  BY <1>1, <1>3, <1>4, PrepareImproveDoes DEF Same

LEMMA TemporariesNext ==
    ASSUME Known, Temporaries, [Next]_vars PROVE Temporaries'
<1> SUFFICES ASSUME failures' = 0, NEW e \in pr'.comments PROVE Temporary(e)'
  BY DEF Temporaries
<1>1. failures = 0 /\ setting' = setting
  BY SameSetting
<1>2. \A c \in pr.comments : Temporary(c) /\ c \in Notes
  BY <1>1, CommentsAre DEF Temporaries, Known
<1>3. ASSUME NEW r \in Runs, Works(r) PROVE Temporary(e)'
  <2>1. /\ setting' = setting /\ run'[r].tool = run[r].tool
        /\ \A q \in Runs \ {r} : run'[q] = run[q]
    BY <1>3, WorkKnows DEF Moves
  <2>2. CASE e \in pr.comments
    <3>1. Temporary(e) /\ e.id[1] \in Runs
      BY <1>2, <2>2 DEF Notes
    <3>2. CASE e.id[1] # r
      BY <2>1, <3>1, <3>2 DEF Temporary, TempOf, ProgressOf, HasProgress, ProgressId
    <3>3. CASE e.id[1] = r /\ run[r].tool = "improve"
      <4>1. ImproveStep(r)
        BY <1>3, <3>3 DEF Works, Step
      <4> QED
        BY <2>2, <3>1, <3>3, <4>1, ImproveEndsClean DEF Temporary
    <3>4. CASE e.id[1] = r /\ run[r].tool # "improve"
      <4>1. EndsClean(r)
        BY <1>3, <3>4, OthersEndClean
      <4>2. e.kind # "progress" /\ (e.kind = "temp" => e.id = <<r, "temp">>)
        BY <3>1, <3>4 DEF Temporary, ProgressOf
      <4>3. e.kind = "temp" => ~Removed(<<r, "temp">>)
        BY <4>2 DEF Removed
      <4> QED
        BY <2>1, <3>4, <4>1, <4>2, <4>3 DEF Temporary, TempOf, EndsClean
    <3> QED
      BY <3>2, <3>3, <3>4
  <2>3. CASE e \notin pr.comments
    <3>1. CASE e.kind \in {"temp", "progress"}
      <4>1. PICK k \in Names : Appears(r, k, k) /\ (k \in {"temp", "progress"} => run[r].pc = "prepare")
        BY <1>3, <2>3, <3>1, WorkComments DEF Comments1, Edited, Removed, Whole
      <4>2. e.id = <<r, k>> /\ e.kind = k
        BY <2>3, <4>1 DEF Appears
      <4>3. run[r].pc = "prepare"
        BY <3>1, <4>1, <4>2
      <4>4. CASE run[r].tool = "improve"
        <5>1. PrepareImprove(r)
          BY <1>3, <4>3, <4>4 DEF Works, Step, ImproveStep, PredictImprove, NoSuggestions,
             FoundSuggestions, PushInline, PublishSingle, LookForSuggestions, OverwriteNone,
             MergeInto, RemoveMerged, NothingToMerge, PublishTable, ImproveFailed
        <5> QED
          BY <2>3, <4>4, <5>1, ImprovePrepares
      <4>5. CASE run[r].tool # "improve"
        <5>1. EndsClean(r)
          BY <1>3, <4>5, OthersEndClean
        <5>2. k = "temp"
          <6>1. PrepareReview(r) \/ PrepareDescribe(r)
            BY <1>3, <4>3, <4>5 DEF Works, Step, ReviewStep, PredictReview, SetReviewLabels,
               ReportReview, DescribeStep, PredictDescribe, SetTypeLabels, WriteDescription,
               TellDescription, Persist, ListComments, UpdatePersistent, AnnounceUpdate,
               PublishWhole, Cleanup
          <6>2. Same \/ Appears(r, "temp", "temp")
            BY <6>1, PrepareDoes DEF Known
          <6> QED
            BY <2>3, <4>2, <6>2 DEF Same, Appears
        <5>3. ~Removed(<<r, "temp">>)
          BY <4>2, <5>2 DEF Removed
        <5> QED
          BY <2>1, <4>2, <4>5, <5>1, <5>2, <5>3 DEF Temporary, TempOf, EndsClean
      <4> QED
        BY <4>4, <4>5
    <3>2. CASE e.kind \notin {"temp", "progress"}
      BY <3>2 DEF Temporary
    <3> QED
      BY <3>1, <3>2
  <2> QED
    BY <2>2, <2>3
<1>4. ASSUME NEW r \in Runs, Start(r) PROVE Temporary(e)'
  <2>1. /\ run[r].pc = "idle" /\ run[r].said = "none" /\ run'[r].pc = "prepare" /\ pr' = pr
        /\ \A q \in Runs \ {r} : run'[q].pc = run[q].pc
    BY <1>4, StartKeeps DEF Known, Knows
  <2>2. \A q \in Runs : /\ run'[q].tool = run[q].tool /\ run'[q].kind = run[q].kind
                        /\ run'[q].said = run[q].said
    BY <1>4, StartKeeps DEF Known
  <2>3. Temporary(e) /\ e.id[1] \in Runs
    BY <1>2, <2>1 DEF Notes
  <2>4. CASE e.id[1] = r
    <3>1. ~TempOf(r) /\ ~ProgressOf(r)
      BY <2>1 DEF TempOf, ProgressOf
    <3> QED
      BY <2>3, <2>4, <3>1 DEF Temporary
  <2>5. CASE e.id[1] # r
    BY <1>1, <2>1, <2>2, <2>3, <2>5 DEF Temporary, TempOf, ProgressOf, HasProgress, ProgressId
  <2> QED
    BY <2>4, <2>5
<1>5. CASE Users \/ UNCHANGED vars
  <2>1. UNCHANGED <<setting, run>> /\ pr'.comments = pr.comments
    BY <1>5, UsersDo DEF Known, vars
  <2> QED
    BY <1>2, <2>1 DEF Temporary, TempOf, ProgressOf, HasProgress, ProgressId
<1> QED
  BY <1>3, <1>4, <1>5 DEF Next, Works

\* The comment "Preparing ..." or "Generating ..." of a run that has ended is
\* gone, unless a call failed, the model failed, or there was nothing to say
\* (remove_initial_comment and the handlers of exceptions of the tools).
THEOREM TemporaryIsRemoved == Spec => []TemporaryRemoved
<1>1. Init => Known /\ Temporaries
  BY KnownInit, InitIs DEF Temporaries
<1>2. Known /\ Temporaries /\ [Next]_vars => (Known /\ Temporaries)'
  BY KnownNext, TemporariesNext
<1>3. ASSUME Known, Temporaries PROVE TemporaryRemoved
  <2> SUFFICES ASSUME NEW c \in pr.comments, Ended(c.id[1]), c.kind \in {"temp", "progress"},
                      ~(failures > 0)
               PROVE  LET r == c.id[1]
                      IN  \/ run[r].said = "error"
                          \/ run[r].said = "nothing"
                                /\ (setting.quiet \/ (run[r].tool = "improve" /\ setting.host \notin Gfm))
    BY DEF TemporaryRemoved
  <2>1. failures = 0
    BY <1>3 DEF Known, Typed
  <2>2. Temporary(c)
    BY <1>3, <2>1 DEF Temporaries
  <2> QED
    BY <2>2 DEF Temporary, TempOf, ProgressOf, Ended
<1> QED
  BY <1>1, <1>2, <1>3, PTL DEF Spec

-----------------------------------------------------------------------------
(* The persistent comments.                                                *)

\* While no call fails a run that is to update the comment of its kind has
\* found the ones of the runs it has not met, and a run that is to publish one
\* has found none.
Persisting == failures = 0 /\ setting.persistent /\ setting.host \notin NeverPersistent
Single ==
    \A c, d \in pr.comments :
        c.kind = d.kind /\ c.kind \in Whole /\ c.id # d.id => ~Apart(c.id[1], d.id[1])
Others(r) == {c \in pr.comments : c.kind = run[r].kind /\ c.id[1] # r /\ Apart(c.id[1], r)}
Updating(r) ==
    /\ \A c \in Others(r) : \E d \in run[r].listed : d.id = c.id
    /\ \A d \in Previous(r) : d.id \in Ids
Persists(r) ==
    run[r].kind \in Whole =>
        /\ run[r].pc = "update" => Updating(r)
        /\ run[r].pc = "publish" => Others(r) = {}
Persistent == Persisting => Single /\ \A r \in Runs : Persists(r)

\* How a run comes to look for a comment, and to publish one.
LEMMA IntoPersist ==
    ASSUME Known, NEW r \in Runs, Works(r), Persisting, failures' = 0,
           run'[r].pc \in {"update", "publish"}
    PROVE  /\ pr' = pr /\ run'[r].kind = run[r].kind
           /\ run'[r].pc = "update" => run'[r].listed = pr.comments
           /\ run'[r].pc = "publish" =>
                 /\ run[r].pc = "update"
                 /\ Previous(r) = {} \/ \E c \in Previous(r) : c.id \notin Ids
<1>1. Typed /\ ~Faults /\ setting.persistent /\ setting.host \notin NeverPersistent
  BY DEF Known, Typed, Faults, Persisting
<1>2. run[r].tool # "improve"
  <2>1. Knows(r)' /\ run'[r].tool = run[r].tool
    BY WorkKnows DEF Moves
  <2> QED
    BY <2>1 DEF Knows, ImproveKnows
<1>3. Persist(r) \/ Cleanup(r)
  BY <1>2, ReviewComments, DescribeComments DEF Works, Step
<1>4. CASE ListComments(r)
  BY <1>1, <1>4, ListCommentsDoes DEF Goes, Same
<1>5. CASE UpdatePersistent(r)
  BY <1>1, <1>5, UpdatePersistentDoes DEF Goes, Same
<1>6. CASE AnnounceUpdate(r)
  BY <1>1, <1>6, AnnounceUpdateDoes DEF Goes
<1>7. CASE PublishWhole(r)
  <2>1. run[r].kind \in {"review", "title"}
    BY <1>2, <1>7, PersistComments DEF PublishWhole, Persist, Whole
  <2> QED
    BY <1>1, <1>7, <2>1, PublishWholeDoes DEF Goes
<1>8. CASE Cleanup(r)
  BY <1>1, <1>8, CleanupStepDoes DEF Ends
<1> QED
  BY <1>3, <1>4, <1>5, <1>6, <1>7, <1>8 DEF Persist

\* A comment of the review or of the describe tool has been there before, by its
\* identity, or its run was to publish it; and none goes away.
LEMMA WholeComments ==
    ASSUME Known, Shaped, NEW r \in Runs, Works(r)
    PROVE  /\ \A e \in pr'.comments : e.kind \in Whole =>
                 \/ \E c \in pr.comments : c.id = e.id /\ c.kind = e.kind
                 \/ run[r].pc = "publish" /\ e.id = <<r, run[r].kind>> /\ e.kind = run[r].kind
           /\ \A c \in pr.comments : c.kind \in Whole => \E e \in pr'.comments : e.id = c.id
<1>1. ASSUME NEW e \in pr'.comments, e.kind \in Whole
      PROVE  \/ \E c \in pr.comments : c.id = e.id /\ c.kind = e.kind
             \/ run[r].pc = "publish" /\ e.id = <<r, run[r].kind>> /\ e.kind = run[r].kind
  <2>1. CASE e \in pr.comments
    BY <2>1
  <2>2. ASSUME NEW k \in Names, Appears(r, k, k), e \notin pr.comments,
               k \in Whole => run[r].pc = "publish" /\ run[r].kind = k
        PROVE  run[r].pc = "publish" /\ e.id = <<r, run[r].kind>> /\ e.kind = run[r].kind
    BY <1>1, <2>2 DEF Appears
  <2>3. ASSUME NEW c \in Previous(r), Edited(c.id, c.kind), c.kind \in Whole, e \notin pr.comments
        PROVE  \E d \in pr.comments : d.id = e.id /\ d.kind = e.kind
    <3>1. e.id = c.id /\ e.kind = c.kind /\ c.id \in Ids
      BY <2>3 DEF Edited
    <3>2. PICK d \in pr.comments : d.id = c.id
      BY <3>1 DEF Ids
    <3>3. Shape(c) /\ Shape(d)
      BY DEF Shaped, Previous, Headed
    <3>4. d.kind = c.kind
      BY <2>3, <3>2, <3>3 DEF Shape
    <3> QED
      BY <3>1, <3>2, <3>4
  <2>4. ASSUME NEW id, NEW k \in {"none", "table"}, Edited(id, k) PROVE e \in pr.comments
    BY <1>1, <2>4 DEF Edited, Whole
  <2> QED
    BY <2>1, <2>2, <2>3, <2>4, WorkComments DEF Comments1, Removed
<1>2. ASSUME NEW c \in pr.comments, c.kind \in Whole
      PROVE  \E e \in pr'.comments : e.id = c.id
  <2>1. ASSUME NEW id, Removed(id), Touches(r, id) PROVE c \in pr'.comments
    <3>1. id[2] \notin Whole /\ c.id[2] \in Whole
      BY <1>2, <2>1, TouchesIs DEF Shaped, Shape
    <3> QED
      BY <2>1, <3>1 DEF Removed
  <2> QED
    BY <2>1, WorkComments DEF Comments1, Appears, Edited
<1> QED
  BY <1>1, <1>2

\* A comment of one of these kinds has its kind in its identity.
LEMMA IdOfWhole ==
    ASSUME Known, Shaped, NEW c \in pr.comments, c.kind \in Whole
    PROVE  c.id = <<c.id[1], c.kind>> /\ c.id[1] \in Runs
<1>1. c \in Notes /\ c.id[2] = c.kind
  BY CommentsAre DEF Known, Shaped, Shape
<1> QED
  BY <1>1 DEF Notes

LEMMA PersistentNext ==
    ASSUME Known, Ordered, Shaped, Persistent, [Next]_vars PROVE Persistent'
<1> SUFFICES ASSUME Persisting' PROVE Single' /\ \A q \in Runs : Persists(q)'
  BY DEF Persistent
<1>1. Persisting /\ failures' = 0 /\ setting' = setting
  BY SameSetting DEF Persisting
<1>2. Single /\ \A q \in Runs : Persists(q)
  BY <1>1 DEF Persistent
<1>3. \A p, q \in Runs : Apart(p, q)' => Apart(p, q)
  BY Onward DEF Apart
<1>4. Shaped' /\ Known'
  BY ShapedNext, KnownNext
<1>5. ASSUME NEW r \in Runs, Works(r) PROVE Single' /\ \A q \in Runs : Persists(q)'
  <2>1. Active(r) /\ \A q \in Runs \ {r} : run'[q] = run[q]
    BY <1>5, WorkKnows DEF Moves
  <2> DEFINE Old(e) == \E c \in pr.comments : c.id = e.id /\ c.kind = e.kind
             New(e) == /\ run[r].pc = "publish"
                       /\ e.id = <<r, run[r].kind>> /\ e.kind = run[r].kind
  <2>2. \A e \in pr'.comments : e.kind \in Whole =>
           (Old(e) \/ New(e)) /\ e.id = <<e.id[1], e.kind>> /\ e.id[1] \in Runs
    <3>1. \A e \in pr'.comments : e.kind \in Whole => Old(e) \/ New(e)
      BY <1>5, WholeComments
    <3>2. ASSUME NEW e \in pr'.comments, e.kind \in Whole
          PROVE  e.id = <<e.id[1], e.kind>> /\ e.id[1] \in Runs
      <4>1. CASE Old(e)
        BY <3>2, <4>1, IdOfWhole
      <4>2. CASE New(e)
        BY <4>2
      <4> QED
        BY <3>1, <3>2, <4>1, <4>2
    <3> QED
      BY <3>1, <3>2
  <2>3. ASSUME NEW e \in pr'.comments, NEW d \in pr'.comments, e.kind = d.kind, e.kind \in Whole,
               e.id # d.id, Apart(e.id[1], d.id[1])
        PROVE  FALSE
    <3>1. CASE Old(e) /\ Old(d)
      BY <1>2, <2>3, <3>1 DEF Single
    <3>2. ASSUME NEW a \in pr'.comments, NEW b \in pr'.comments, a.kind = b.kind, a.kind \in Whole,
                 a.id # b.id, Apart(b.id[1], a.id[1]), New(a), Old(b)
          PROVE  FALSE
      <4>1. PICK c \in pr.comments : c.id = b.id /\ c.kind = b.kind
        BY <3>2
      <4>2. c.id = <<c.id[1], c.kind>>
        BY <3>2, <4>1, IdOfWhole
      <4>3. c.id[1] # r
        BY <3>2, <4>1, <4>2
      <4>4. a.id[1] = r
        BY <3>2
      <4>5. c \in Others(r)
        BY <3>2, <4>1, <4>3, <4>4 DEF Others
      <4>6. Others(r) = {}
        BY <1>2, <3>2 DEF Persists
      <4> QED
        BY <4>5, <4>6
    <3>3. CASE New(e) /\ Old(d)
      <4>1. Apart(d.id[1], e.id[1])
        BY <2>3 DEF Apart
      <4> QED
        BY <2>3, <3>2, <3>3, <4>1
    <3>4. CASE Old(e) /\ New(d)
      BY <2>3, <3>2, <3>4
    <3>5. CASE New(e) /\ New(d)
      BY <2>3, <3>5
    <3> QED
      BY <2>2, <2>3, <3>1, <3>3, <3>4, <3>5
  <2>4. Single'
    <3> SUFFICES ASSUME NEW e \in pr'.comments, NEW d \in pr'.comments,
                        e.kind = d.kind, e.kind \in Whole, e.id # d.id, Apart(e.id[1], d.id[1])'
                 PROVE  FALSE
      BY DEF Single
    <3>1. Apart(e.id[1], d.id[1])
      BY <1>3, <2>2
    <3> QED
      BY <2>3, <3>1
  <2>5. Persists(r)'
    <3>1. CASE run'[r].pc \notin {"update", "publish"}
      BY <3>1 DEF Persists
    <3>2. CASE run'[r].pc \in {"update", "publish"}
      <4>1. /\ pr' = pr /\ run'[r].kind = run[r].kind
            /\ run'[r].pc = "update" => run'[r].listed = pr.comments
            /\ run'[r].pc = "publish" =>
                  /\ run[r].pc = "update"
                  /\ Previous(r) = {} \/ \E c \in Previous(r) : c.id \notin Ids
        BY <1>1, <1>5, <3>2, IntoPersist
      <4>2. ASSUME run'[r].pc = "update" PROVE Updating(r)'
        BY <4>1, <4>2 DEF Updating, Others, Previous, Headed, Ids
      <4>3. ASSUME run'[r].pc = "publish", run[r].kind \in Whole PROVE Others(r)' = {}
        <5>1. Updating(r) /\ Previous(r) = {}
          BY <1>2, <4>1, <4>3 DEF Persists, Updating
        <5>2. ASSUME NEW c \in Others(r)' PROVE FALSE
          <6>1. c \in Others(r)
            <7>1. /\ c \in pr.comments /\ c.kind = run[r].kind /\ c.id[1] # r
                  /\ Apart(c.id[1], r)'
              BY <4>1 DEF Others
            <7>2. c.id[1] \in Runs
              BY <4>3, <7>1, IdOfWhole
            <7> QED
              BY <1>3, <7>1, <7>2 DEF Others
          <6>2. PICK d \in run[r].listed : d.id = c.id
            BY <5>1, <6>1 DEF Updating
          <6>3. Shape(c) /\ Shape(d) /\ c.kind = run[r].kind
            BY <6>1 DEF Shaped, Others
          <6>4. d.kind = run[r].kind
            BY <4>3, <6>2, <6>3 DEF Shape
          <6>5. d \in Previous(r)
            BY <4>3, <6>4 DEF Previous, Headed, Header, Whole
          <6> QED
            BY <5>1, <6>5
        <5> QED
          BY <5>2
      <4> QED
        BY <4>1, <4>2, <4>3 DEF Persists
    <3> QED
      BY <3>1, <3>2
  <2>6. ASSUME NEW q \in Runs \ {r} PROVE Persists(q)'
    <3> SUFFICES ASSUME run[q].kind \in Whole, run[q].pc \in {"update", "publish"}
                 PROVE  /\ run[q].pc = "update" => Updating(q)'
                        /\ run[q].pc = "publish" => Others(q)' = {}
      BY <2>1 DEF Persists
    <3>1. run'[q] = run[q] /\ Active(q) /\ ~Apart(q, r) /\ ~Apart(r, q)
      <4>1. run'[q] = run[q] /\ Active(q)
        BY <2>1 DEF Active
      <4> QED
        BY <2>1, <4>1, UnderWay
    <3>2. \A e \in Others(q)' : \E c \in Others(q) : c.id = e.id
      <4> SUFFICES ASSUME NEW e \in Others(q)' PROVE \E c \in Others(q) : c.id = e.id
        OBVIOUS
      <4>1. /\ e \in pr'.comments /\ e.kind = run[q].kind /\ e.id[1] # q
            /\ Apart(e.id[1], q)'
        BY <3>1 DEF Others
      <4>2. (Old(e) \/ New(e)) /\ e.id[1] \in Runs
        BY <2>2, <4>1
      <4>3. Apart(e.id[1], q)
        BY <1>3, <4>1, <4>2
      <4>4. ~New(e)
        BY <3>1, <4>3
      <4>5. PICK c \in pr.comments : c.id = e.id /\ c.kind = e.kind
        BY <4>2, <4>4
      <4> QED
        BY <4>1, <4>3, <4>5 DEF Others
    <3>3. Previous(q)' = Previous(q)
      BY <3>1 DEF Previous, Headed
    <3>4. ASSUME NEW d \in Previous(q), d.id \in Ids PROVE d.id \in Ids'
      <4>1. PICK c \in pr.comments : c.id = d.id
        BY <3>4 DEF Ids
      <4>2. Shape(d) /\ Shape(c) /\ d.kind \in Whole
        BY DEF Shaped, Previous, Headed, Header, Whole
      <4>3. c.kind \in Whole
        BY <4>1, <4>2 DEF Shape
      <4> QED
        BY <1>5, <4>1, <4>3, WholeComments DEF Ids
    <3>5. ASSUME run[q].pc = "update" PROVE Updating(q)'
      <4>1. Updating(q)
        BY <1>2, <3>5 DEF Persists
      <4>2. \A c \in Others(q)' : \E d \in run[q].listed : d.id = c.id
        BY <3>2, <4>1 DEF Updating
      <4>3. \A d \in Previous(q)' : d.id \in Ids'
        BY <3>3, <3>4, <4>1 DEF Updating
      <4> QED
        BY <3>1, <4>2, <4>3 DEF Updating
    <3>6. ASSUME run[q].pc = "publish" PROVE Others(q)' = {}
      BY <1>2, <3>2, <3>6 DEF Persists
    <3> QED
      BY <3>5, <3>6
  <2> QED
    BY <2>4, <2>5, <2>6
<1>6. ASSUME pr'.comments = pr.comments,
             \A q \in Runs : run'[q].listed = run[q].listed /\ run'[q].kind = run[q].kind,
             \A q \in Runs : run'[q].pc = run[q].pc \/ run'[q].pc = "prepare"
      PROVE  Single' /\ \A q \in Runs : Persists(q)'
  <2>1. \A c \in pr.comments : c.id[1] \in Runs
    BY CommentsAre DEF Known, Notes
  <2>2. Single'
    BY <1>2, <1>3, <1>6, <2>1 DEF Single
  <2>3. ASSUME NEW q \in Runs PROVE Persists(q)'
    <3>1. Others(q)' \subseteq Others(q)
      <4>1. ASSUME NEW c \in Others(q)' PROVE c \in Others(q)
        <5>1. /\ c \in pr.comments /\ c.kind = run[q].kind /\ c.id[1] # q
              /\ Apart(c.id[1], q)'
          BY <1>6 DEF Others
        <5> QED
          BY <1>3, <2>1, <5>1 DEF Others
      <4> QED
        BY <4>1
    <3>2. Previous(q)' = Previous(q) /\ Ids' = Ids
      BY <1>6 DEF Previous, Headed, Ids
    <3>3. Updating(q) => Updating(q)'
      BY <1>6, <3>1, <3>2 DEF Updating
    <3> QED
      BY <1>2, <1>6, <3>1, <3>3 DEF Persists
  <2> QED
    BY <2>2, <2>3
<1>7. ASSUME NEW r \in Runs, Start(r) PROVE Single' /\ \A q \in Runs : Persists(q)'
  <2>1. pr' = pr /\ \A q \in Runs : run'[q].listed = run[q].listed /\ run'[q].kind = run[q].kind
    BY <1>7, StartDoes DEF Known, Same
  <2>2. \A q \in Runs : run'[q].pc = run[q].pc \/ run'[q].pc = "prepare"
    BY <1>7, StartDoes DEF Known
  <2> QED
    BY <1>6, <2>1, <2>2
<1>8. CASE Users \/ UNCHANGED vars
  <2>1. run' = run /\ pr'.comments = pr.comments
    BY <1>8, UsersDo DEF Known, vars
  <2> QED
    BY <1>6, <2>1
<1> QED
  BY <1>5, <1>7, <1>8 DEF Next, Works

\* There is one persistent comment of the review and one of the describe tool,
\* unless a call failed or the runs that published them overlapped
\* (publish_persistent_comment_full of the clients).
THEOREM PersistentCommentIsOne == Spec => []OnePersistentComment
<1> DEFINE Inv == Known /\ Ordered /\ Shaped /\ Persistent
<1>1. Init => Inv
  <2> SUFFICES ASSUME Init PROVE Inv
    OBVIOUS
  <2>1. Known /\ Ordered
    BY KnownInit, LabelsInit
  <2>2. Shaped /\ Persistent
    BY InitIs DEF Shaped, Persistent, Single, Persists
  <2> QED
    BY <2>1, <2>2
<1>2. Inv /\ [Next]_vars => Inv'
  BY KnownNext, OrderedNext, ShapedNext, PersistentNext
<1>3. Inv => OnePersistentComment
  <2> SUFFICES ASSUME Inv, setting.persistent, setting.host \notin NeverPersistent,
                      NEW c \in pr.comments, NEW d \in pr.comments,
                      c.kind = d.kind, c.kind \in {"review", "title"}, c.id # d.id, ~(failures > 0)
               PROVE  ~Apart(c.id[1], d.id[1])
    BY DEF OnePersistentComment
  <2>1. Persisting
    BY DEF Known, Typed, Persisting
  <2> QED
    BY <2>1 DEF Persistent, Single, Whole
<1> HIDE DEF Inv
<1> QED
  BY <1>1, <1>2, <1>3, PTL DEF Spec

-----------------------------------------------------------------------------
(* The history of suggestions.                                             *)

\* The steps of the improve tool before it has anything to show.
Early == {"idle", "prepare", "predict", "found", "look"}

LEMMA WorkOnward ==
    ASSUME Known, NEW r \in Runs, Works(r)
    PROVE  /\ run[r].pc # "done" /\ run'[r].pc \notin {"idle", "prepare"}
           /\ run[r].pc = "cleanup" => run'[r].pc = "done"
           /\ run[r].tool = "improve" /\ run[r].pc \notin Early => run'[r].pc \notin Early
<1>1. Typed /\ run[r].pc # "done" /\ run'[r].pc # "idle"
  BY WorkKnows DEF Known, Active
<1>2. CASE run[r].tool # "improve"
  <2> SUFFICES run'[r].pc # "prepare" /\ (run[r].pc = "cleanup" => run'[r].pc = "done")
    BY <1>1, <1>2
  <2>1. CASE ListComments(r)
    BY <1>1, <2>1, ListCommentsDoes DEF Goes
  <2>2. CASE UpdatePersistent(r)
    BY <1>1, <2>2, UpdatePersistentDoes DEF Goes
  <2>3. CASE AnnounceUpdate(r)
    BY <1>1, <2>3, AnnounceUpdateDoes DEF Goes
  <2>4. CASE PublishWhole(r)
    <3>1. run[r].kind \in {"review", "title"}
      BY <1>2, <2>4, PersistComments DEF PublishWhole, Persist, Whole
    <3> QED
      BY <1>1, <2>4, <3>1, PublishWholeDoes DEF Goes, Ends
  <2>5. CASE Cleanup(r)
    BY <1>1, <2>5, CleanupStepDoes DEF Ends
  <2>6. CASE ReviewStep(r)
    <3>1. CASE PrepareReview(r)
      BY <1>1, <3>1, PrepareDoes DEF Goes, Ends
    <3>2. CASE PredictReview(r)
      BY <1>1, <3>2, PredictReviewDoes DEF Goes, Errs, Answers
    <3>3. CASE SetReviewLabels(r)
      BY <1>1, <3>3, SetReviewLabelsDoes DEF Goes, Reads
    <3>4. CASE ReportReview(r)
      BY <1>1, <3>4, ReportReviewDoes DEF Goes, Ends
    <3> QED
      BY <2>6, <3>1, <3>2, <3>3, <3>4 DEF ReviewStep
  <2>7. CASE DescribeStep(r)
    <3>1. CASE PrepareDescribe(r)
      BY <1>1, <3>1, PrepareDoes DEF Goes, Ends
    <3>2. CASE PredictDescribe(r)
      BY <1>1, <3>2, PredictDescribeDoes DEF Goes, Errs, Answers
    <3>3. CASE SetTypeLabels(r)
      BY <1>1, <3>3, SetTypeLabelsDoes DEF Goes, Ends, Reads
    <3>4. CASE WriteDescription(r)
      BY <1>1, <3>4, WriteDescriptionDoes DEF Goes, Ends
    <3>5. CASE TellDescription(r)
      BY <1>1, <3>5, TellDescriptionDoes DEF Goes, Ends
    <3> QED
      BY <2>7, <3>1, <3>2, <3>3, <3>4, <3>5 DEF DescribeStep
  <2> QED
    BY <1>2, <2>1, <2>2, <2>3, <2>4, <2>5, <2>6, <2>7 DEF Works, Step, Persist
<1>3. CASE run[r].tool = "improve"
  <2> SUFFICES /\ run'[r].pc # "prepare" /\ run[r].pc # "cleanup"
               /\ run[r].pc \notin Early => run'[r].pc \notin Early
    BY <1>1
  <2>1. CASE PrepareImprove(r)
    BY <1>1, <2>1, PrepareImproveDoes DEF Goes, Early
  <2>2. CASE PredictImprove(r)
    BY <1>1, <2>2, PredictImproveDoes DEF Goes, Early
  <2>3. CASE NoSuggestions(r)
    BY <1>1, <2>3, NoSuggestionsDoes DEF Goes, Ends, Early
  <2>4. CASE FoundSuggestions(r)
    BY <1>1, <2>4, FoundSuggestionsDoes DEF Goes, Early
  <2>5. CASE PushInline(r)
    BY <1>1, <2>5, PushInlineDoes DEF Goes, Ends, Early
  <2>6. CASE PublishSingle(r) \/ PublishTable(r)
    BY <1>1, <2>6, PublishTablesDo DEF Goes, Ends, Early
  <2>7. CASE LookForSuggestions(r)
    BY <1>1, <2>7, LookForSuggestionsDoes DEF Goes, GoesWith, Early
  <2>8. CASE OverwriteNone(r)
    BY <1>1, <2>8, OverwriteNoneDoes DEF Goes, GoesWith, Early
  <2>9. CASE MergeInto(r)
    BY <1>1, <2>9, MergeIntoDoes DEF Goes, Ends, Early
  <2>10. CASE RemoveMerged(r)
    <3>1. run[r].listed # {}
      BY <1>3, <2>10 DEF RemoveMerged, Known, Knows, ImproveKnows
    <3> QED
      BY <1>1, <2>10, <3>1, RemoveMergedDoes DEF Goes, Ends, Early
  <2>11. CASE NothingToMerge(r)
    BY <1>1, <2>11, NothingToMergeDoes DEF Goes, Early
  <2>12. CASE ImproveFailed(r)
    BY <1>1, <2>12, ImproveFailedDoes DEF Goes, Ends, Early
  <2> QED
    BY <1>3, <2>1, <2>2, <2>3, <2>4, <2>5, <2>6, <2>7, <2>8, <2>9, <2>10, <2>11, <2>12
       DEF Works, Step, ImproveStep
<1> QED
  BY <1>2, <1>3

\* A run that has not come to a comment yet has none of its identity.
Fresh(c) ==
    IF c.id[2] \in {"temp", "progress"} THEN run[c.id[1]].pc \notin {"idle", "prepare"}
    ELSE run[c.id[1]].pc \in {"cleanup", "done"}
Identified == Distinct(pr.comments) /\ \A c \in pr.comments : Fresh(c)

LEMMA IdentifiedNext ==
    ASSUME Known, Identified, [Next]_vars PROVE Identified'
<1>0. \A c \in pr.comments : c.id \in Runs \X Names
  BY CommentsAre DEF Known, Notes
<1>1. ASSUME NEW r \in Runs, Works(r) PROVE Identified'
  <2>1. /\ Moves(r) /\ Active(r) /\ Comments1(r) /\ run'[r].pc \notin {"idle", "prepare"}
        /\ run[r].pc # "done"
        /\ run[r].pc = "cleanup" => run'[r].pc = "done"
    BY <1>1, WorkKnows, WorkComments, WorkOnward
  <2>2. \A c \in pr.comments : Fresh(c)'
    <3> SUFFICES ASSUME NEW c \in pr.comments PROVE Fresh(c)'
      OBVIOUS
    <3>1. Fresh(c) /\ c.id[1] \in Runs
      <4>1. c.id \in Runs \X Names
        BY <1>0
      <4> QED
        BY <4>1 DEF Identified
    <3>2. CASE c.id[1] = r
      BY <2>1, <3>1, <3>2 DEF Fresh
    <3>3. CASE c.id[1] # r
      BY <2>1, <3>1, <3>3 DEF Fresh, Moves
    <3> QED
      BY <3>2, <3>3
  <2>3. CASE pr'.comments = pr.comments
    BY <2>2, <2>3 DEF Identified, Distinct
  <2>4. ASSUME NEW k \in Names, Appears(r, k, k),
               IF k \in {"temp", "progress"} THEN run[r].pc = "prepare"
               ELSE run[r].pc # "cleanup" /\ run'[r].pc \in {"cleanup", "done"}
        PROVE  Identified'
    <3>1. PICK c \in Notes : c.id = <<r, k>> /\ pr'.comments = pr.comments \cup {c}
      BY <2>4 DEF Appears
    <3>2. \A d \in pr.comments : d.id # c.id
      BY <2>1, <2>4, <3>1 DEF Identified, Fresh
    <3>3. Fresh(c)'
      BY <2>1, <2>4, <3>1 DEF Fresh
    <3> QED
      BY <2>2, <3>1, <3>2, <3>3 DEF Identified, Distinct
  <2>5. ASSUME NEW id, NEW k, Edited(id, k) PROVE Identified'
    <3>1. Distinct(pr'.comments)
      BY <2>5 DEF Edited, Identified
    <3>2. ASSUME NEW e \in pr'.comments PROVE Fresh(e)'
      <4>1. PICK d \in pr.comments : d.id = e.id
        BY <2>5, <3>2 DEF Edited, Ids
      <4> QED
        BY <2>2, <4>1 DEF Fresh
    <3> QED
      BY <3>1, <3>2 DEF Identified
  <2>6. ASSUME NEW id, Removed(id) PROVE Identified'
    BY <2>2, <2>6 DEF Removed, Identified, Distinct
  <2> QED
    BY <2>1, <2>3, <2>4, <2>5, <2>6 DEF Comments1
<1>2. ASSUME NEW r \in Runs, Start(r) PROVE Identified'
  <2>1. /\ pr' = pr /\ run[r].pc = "idle" /\ run'[r].pc = "prepare"
        /\ \A q \in Runs \ {r} : run'[q].pc = run[q].pc
    BY <1>2, StartKeeps DEF Known
  <2>2. \A c \in pr.comments : c.id[1] \in Runs \ {r} /\ Fresh(c)
    BY <1>0, <2>1 DEF Identified, Fresh
  <2> QED
    BY <2>1, <2>2 DEF Identified, Fresh
<1>3. CASE Users
  BY <1>3, UsersDo DEF Known, Identified, Fresh
<1>4. CASE UNCHANGED vars
  BY <1>4 DEF vars, Identified, Fresh
<1> QED
  BY <1>1, <1>2, <1>3, <1>4 DEF Next, Works

LEMMA EditTables ==
    ASSUME Typed, NEW c \in Notes, NEW r, NEW id, NEW x, NEW y, EditCall(r, id, c, x, y)
    PROVE  \A e \in pr'.comments : e \in pr.comments \/ e.tables = c.tables
<1>1. pr' \in {pr, WithEdit(id, c)}
  BY DEF EditCall, Call, Refused
<1> QED
  BY <1>1, WithEditIs

LEMMA ShowTables ==
    ASSUME Typed, NEW r \in Runs, NEW k \in {"table", "none"}, NEW tables \in Seq(Entries),
           k = "table" <=> tables # <<>>, NEW x, NEW y, Show(r, k, tables, x, y)
    PROVE  \A e \in pr'.comments : e \in pr.comments \/ e.tables = tables
<1>1. k \in Names /\ "progress" \in Names
  BY DEF Names
<1>2. CASE HasProgress(r)
  <2> DEFINE c == Note(ProgressId(r), k, tables)
  <2>1. c \in Notes /\ c.tables = tables
    BY <1>1, NoteIs DEF ProgressId
  <2>2. EditCall(r, ProgressId(r), c, x, y)
    BY <1>2 DEF Show
  <2> HIDE DEF c
  <2> QED
    BY <2>1, <2>2, EditTables
<1>3. CASE ~HasProgress(r)
  <2> DEFINE c == Note(<<r, k>>, k, tables)
  <2>1. c \in Notes /\ c.tables = tables
    BY <1>1, NoteIs
  <2>2. PublishCall(r, c, x, y)
    BY <1>3 DEF Show
  <2> HIDE DEF c
  <2>3. pr' \in {pr, WithComment(c)}
    BY <2>2 DEF PublishCall, Call, Refused
  <2> QED
    BY <2>1, <2>3, WithCommentIs
<1> QED
  BY <1>2, <1>3

\* The tables a step of r publishes: its own, alone or merged with earlier ones.
OwnTables(r, tables) ==
    /\ run[r].tool = "improve" /\ run[r].pc \notin Early
    /\ \/ \E linked \in BOOLEAN : tables = <<Table(r, linked)>>
       \/ \E c \in run[r].listed :
             c \in Notes /\ c.tables # <<>> /\ tables = Merged(r, c.tables)

LEMMA NewTables ==
    ASSUME Known, NEW r \in Runs, Works(r), NEW e \in pr'.comments, e.tables # <<>>
    PROVE  e \in pr.comments \/ OwnTables(r, e.tables)
<1> SUFFICES ASSUME e \notin pr.comments PROVE OwnTables(r, e.tables)
  OBVIOUS
<1>1. Typed /\ e \in Notes /\ e.kind = "table"
  BY WorkKnows DEF Known, Requests, Listings, Notes
<1>2. \A k \in Names \ {"table"} : ~Appears(r, k, k)
  BY <1>1 DEF Appears
<1>3. pr'.comments # pr.comments /\ (\A id : ~Removed(id)) /\ \A id, k : k \in {"none", "review", "title"} => ~Edited(id, k)
  BY <1>1 DEF Removed, Edited
<1>4. run[r].tool = "improve"
  BY <1>2, <1>3, WorkComments DEF Comments1, Whole
<1>5. ImproveStep(r)
  BY <1>4 DEF Works, Step
<1>6. ~Same
  BY <1>3 DEF Same
<1>7. \A k \in {"temp", "progress", "failed", "none"} : ~Appears(r, k, k)
  BY <1>2 DEF Names
<1>8. \A linked \in BOOLEAN : <<Table(r, linked)>> \in Seq(Entries) /\ <<Table(r, linked)>> # <<>>
  BY <1>1, TablesAre
<1>9. CASE PublishSingle(r) \/ PublishTable(r)
  <2>1. PICK linked \in BOOLEAN : Show(r, "table", <<Table(r, linked)>>, Done(r), At(r, "failed"))
    BY <1>9 DEF PublishSingle, PublishTable
  <2>2. e.tables = <<Table(r, linked)>>
    <3> DEFINE tables == <<Table(r, linked)>>
    <3>1. tables \in Seq(Entries) /\ tables # <<>>
      BY <1>8
    <3>2. Show(r, "table", tables, Done(r), At(r, "failed"))
      BY <2>1
    <3> HIDE DEF tables
    <3>3. e.tables = tables
      BY <1>1, <3>1, <3>2, ShowTables
    <3> QED
      BY <3>3 DEF tables
  <2>3. run[r].pc \notin Early
    BY <1>9 DEF PublishSingle, PublishTable, Early
  <2> QED
    BY <1>4, <2>2, <2>3 DEF OwnTables
<1>10. CASE OverwriteNone(r)
  <2> DEFINE S == run[r].listed
             c == First(S)
             tables == <<Table(r, FALSE)>>
             d == [Note(c.id, "table", tables) EXCEPT !.by = r]
  <2>1. S \in Listings /\ S # {} /\ run[r].pc \notin Early
    BY <1>1, <1>10 DEF Typed, Records, OverwriteNone, Early
  <2>2. c \in S /\ c.id \in Runs \X Names
    <3> HIDE DEF S
    <3> QED
      BY <2>1, FirstIs DEF Listings, Notes
  <2>3. \E x, y : EditCall(r, c.id, d, x, y)
    BY <1>10 DEF OverwriteNone
  <2> HIDE DEF c
  <2>4. tables \in Seq(Entries) \ {<<>>}
    BY <1>8
  <2> HIDE DEF tables
  <2>5. d \in Notes /\ d.tables = tables
    BY <1>1, <2>2, <2>4, OverwrittenIs
  <2> HIDE DEF d
  <2>6. e.tables = tables
    BY <1>1, <2>3, <2>5, EditTables
  <2> QED
    BY <1>4, <2>1, <2>6 DEF OwnTables, tables
<1>11. CASE MergeInto(r)
  <2> DEFINE S == run[r].listed
             c == First(S)
             id == IF HasProgress(r) THEN ProgressId(r) ELSE c.id
             tables == Merged(r, c.tables)
             d == [Note(id, "table", tables) EXCEPT !.by = r]
  <2>1. S \in Listings /\ S # {} /\ run[r].pc \notin Early /\ c.kind = "table"
    BY <1>1, <1>11 DEF Typed, Records, MergeInto, Early
  <2>2. c \in S /\ c \in Notes
    <3> HIDE DEF S
    <3> QED
      BY <2>1, FirstIs DEF Listings
  <2>3. \E x, y : EditCall(r, id, d, x, y)
    BY <1>11 DEF MergeInto
  <2> HIDE DEF c
  <2>4. id \in Runs \X Names
    BY <2>2 DEF Notes, ProgressId, Names
  <2>5. c.tables \in Seq(Entries) \ {<<>>}
    BY <2>1, <2>2 DEF Notes
  <2>6. tables \in Seq(Entries) \ {<<>>}
    BY <1>1, <2>5, TablesAre
  <2> HIDE DEF tables, id
  <2>7. d \in Notes /\ d.tables = tables
    BY <1>1, <2>4, <2>6, OverwrittenIs
  <2> HIDE DEF d
  <2>8. e.tables = tables
    BY <1>1, <2>3, <2>7, EditTables
  <2> QED
    BY <1>4, <2>1, <2>2, <2>5, <2>8 DEF OwnTables, tables
<1>12. CASE NoSuggestions(r)
  <2>1. Shows(r, "none") \/ Same
    BY <1>1, <1>12, NoSuggestionsDoes
  <2> QED
    BY <1>3, <1>6, <1>7, <2>1 DEF Shows
<1>13. ~PrepareImprove(r)
  BY <1>1, <1>6, <1>7, PrepareImproveDoes
<1>14. ~PredictImprove(r)
  BY <1>1, <1>6, PredictImproveDoes
<1>15. ~FoundSuggestions(r)
  BY <1>1, <1>3, <1>6, FoundSuggestionsDoes
<1>16. ~PushInline(r)
  BY <1>1, <1>3, <1>6, PushInlineDoes
<1>17. ~LookForSuggestions(r)
  BY <1>1, <1>6, LookForSuggestionsDoes
<1>18. ~RemoveMerged(r)
  <2>1. RemoveMerged(r) => run[r].listed # {}
    BY <1>4 DEF RemoveMerged, Known, Knows, ImproveKnows
  <2> QED
    BY <1>1, <1>3, <1>6, <2>1, RemoveMergedDoes
<1>19. ~NothingToMerge(r)
  BY <1>1, <1>6, NothingToMergeDoes
<1>20. ~ImproveFailed(r)
  BY <1>1, <1>3, <1>6, <1>7, ImproveFailedDoes
<1> QED
  BY <1>5, <1>9, <1>10, <1>11, <1>12, <1>13, <1>14, <1>15, <1>16, <1>17, <1>18, <1>19, <1>20
     DEF ImproveStep

\* A history is cut before an entry it can be cut at, or is short, or has none.
LEMMA CutIs ==
    ASSUME NEW h \in Seq(Entries)
    PROVE  LET g == Cut(h)
           IN  /\ g \in Seq(Entries) /\ Len(g) \in 0..Len(h)
               /\ \A n \in 1..Len(g) : g[n] = h[n]
               /\ \/ Len(h) < MaxHistory
                  \/ \A n \in 1..Len(h) : ~Cuttable(h[n])
                  \/ Len(g) + 1 \in 1..Len(h) /\ Cuttable(h[Len(g) + 1])
<1> DEFINE at == {n \in DOMAIN h : Cuttable(h[n])}
           last == Max(at)
<1>1. DOMAIN h = 1..Len(h) /\ Len(h) \in Nat
  OBVIOUS
<1>2. CASE Len(h) < MaxHistory \/ at = {}
  <2>1. Cut(h) = h
    BY <1>2 DEF Cut
  <2>2. Len(h) < MaxHistory \/ \A n \in 1..Len(h) : ~Cuttable(h[n])
    BY <1>1, <1>2
  <2> QED
    BY <1>1, <2>1, <2>2
<1>3. CASE ~(Len(h) < MaxHistory) /\ at # {}
  <2>1. IsFiniteSet(1..Len(h))
    BY <1>1, FS_Interval
  <2>2. at \in SUBSET (1..Len(h))
    BY <1>1
  <2>3. IsFiniteSet(at) /\ at \subseteq Nat
    BY <2>1, <2>2, FS_Subset
  <2>4. last \in at
    <3> HIDE DEF at
    <3> QED
      BY <1>3, <2>3, MaxIs
  <2>5. last \in 1..Len(h) /\ Cuttable(h[last])
    <3> HIDE DEF last
    <3> QED
      BY <1>1, <2>4
  <2>6. Cut(h) = SubSeq(h, 1, last - 1)
    BY <1>3 DEF Cut
  <2> HIDE DEF last, at
  <2>7. /\ SubSeq(h, 1, last - 1) \in Seq(Entries) /\ Len(SubSeq(h, 1, last - 1)) = last - 1
        /\ \A n \in 1..(last - 1) : SubSeq(h, 1, last - 1)[n] = h[n]
    BY <1>1, <2>5
  <2> QED
    BY <1>1, <2>5, <2>6, <2>7
<1> QED
  BY <1>2, <1>3

LEMMA TwoOnTop ==
    ASSUME NEW S, NEW a \in S, NEW b \in S, NEW g \in Seq(S)
    PROVE  LET u == <<a, b>> \o g
           IN  /\ u \in Seq(S) /\ Len(u) = Len(g) + 2
               /\ u[1] = a /\ u[2] = b /\ \A n \in 1..Len(g) : u[n + 2] = g[n]
<1> DEFINE top == <<a, b>>
<1>1. top \in Seq(S) /\ Len(top) = 2 /\ top[1] = a /\ top[2] = b
  OBVIOUS
<1> HIDE DEF top
<1>2. top \o g \in Seq(S) /\ Len(top \o g) = 2 + Len(g) /\ Len(g) \in Nat
  BY <1>1 DEF top
<1>3. (top \o g)[1] = a /\ (top \o g)[2] = b
  BY <1>1, <1>2
<1>4. \A n \in 1..Len(g) : (top \o g)[n + 2] = g[n]
  BY <1>1, <1>2
<1> QED
  BY <1>2, <1>3, <1>4 DEF top

LEMMA MergedIs ==
    ASSUME NEW r \in Runs, NEW t \in Seq(Entries), t # <<>>, Table(r, TRUE) \in Entries
    PROVE  LET u == Merged(r, t)
           IN  /\ u \in Seq(Entries) /\ Len(u) \in 2..(Len(t) + 1)
               /\ u[1] = Table(r, TRUE) /\ \A n \in 2..Len(u) : u[n] = t[n - 1]
               /\ \/ Len(t) <= MaxHistory
                  \/ \A n \in 2..Len(t) : ~Cuttable(t[n])
                  \/ Len(u) \in 2..Len(t) /\ Cuttable(t[Len(u)])
<1> DEFINE h == Tail(t)
           g == Cut(h)
           a == Table(r, TRUE)
           b == Head(t)
           u == <<a, b>> \o g
<1>1. /\ Len(t) \in Nat \ {0} /\ h \in Seq(Entries) /\ Len(h) = Len(t) - 1
      /\ Head(t) = t[1] /\ \A n \in 1..Len(h) : h[n] = t[n + 1]
  OBVIOUS
<1>2. a \in Entries /\ b \in Entries
  BY FirstAndRest
<1> HIDE DEF h
<1>3. /\ g \in Seq(Entries) /\ Len(g) \in 0..Len(h)
      /\ \A n \in 1..Len(g) : g[n] = h[n]
      /\ \/ Len(h) < MaxHistory
         \/ \A n \in 1..Len(h) : ~Cuttable(h[n])
         \/ Len(g) + 1 \in 1..Len(h) /\ Cuttable(h[Len(g) + 1])
  BY <1>1, CutIs
<1> HIDE DEF g, a, b
<1>4. /\ u \in Seq(Entries) /\ Len(u) = Len(g) + 2
      /\ u[1] = a /\ u[2] = b /\ \A n \in 1..Len(g) : u[n + 2] = g[n]
  BY <1>2, <1>3, TwoOnTop
<1>5. Merged(r, t) = u
  BY DEF Merged, a, b, g, h
<1> HIDE DEF u
<1>6. \A n \in 2..Len(u) : u[n] = t[n - 1]
  <2> SUFFICES ASSUME NEW n \in 2..Len(u) PROVE u[n] = t[n - 1]
    OBVIOUS
  <2>1. CASE n = 2
    BY <1>1, <1>4, <2>1 DEF b
  <2>2. CASE n # 2
    <3>1. n - 2 \in 1..Len(g) /\ n - 2 \in 1..Len(h)
      BY <1>3, <1>4, <2>2, <1>1
    <3>2. u[(n - 2) + 2] = h[n - 2] /\ h[n - 2] = t[(n - 2) + 1]
      BY <1>1, <1>3, <1>4, <3>1
    <3>3. (n - 2) + 2 = n /\ (n - 2) + 1 = n - 1
      BY <3>1
    <3> QED
      BY <3>2, <3>3
  <2> QED
    BY <2>1, <2>2
<1>7. \/ Len(t) <= MaxHistory
      \/ \A n \in 2..Len(t) : ~Cuttable(t[n])
      \/ Len(u) \in 2..Len(t) /\ Cuttable(t[Len(u)])
  <2>1. CASE Len(h) < MaxHistory
    BY <1>1, <2>1, HistoryAssumption
  <2>2. CASE \A n \in 1..Len(h) : ~Cuttable(h[n])
    <3>1. ASSUME NEW n \in 2..Len(t) PROVE ~Cuttable(t[n])
      <4>1. n - 1 \in 1..Len(h) /\ (n - 1) + 1 = n
        BY <1>1
      <4> QED
        BY <1>1, <2>2, <4>1
    <3> QED
      BY <3>1
  <2>3. CASE Len(g) + 1 \in 1..Len(h) /\ Cuttable(h[Len(g) + 1])
    <3>1. (Len(g) + 1) + 1 = Len(u) /\ Len(u) \in 2..Len(t)
      BY <1>1, <1>3, <1>4, <2>3
    <3> QED
      BY <1>1, <2>3, <3>1
  <2> QED
    BY <1>3, <2>1, <2>2, <2>3
<1>8. Len(u) \in 2..(Len(t) + 1)
  BY <1>1, <1>3, <1>4
<1> QED
  BY <1>4, <1>5, <1>6, <1>7, <1>8 DEF a

\* How many entries of a history there are that it can be cut at.
Cuts(t) == {n \in 2..Len(t) : Cuttable(t[n])}
Bound(t) == t # <<>> => Cardinality(Cuts(t)) <= MaxHistory

LEMMA CutsAre ==
    ASSUME NEW t \in Seq(Entries)
    PROVE  /\ IsFiniteSet(Cuts(t)) /\ Cuts(t) \subseteq 2..Len(t) /\ Cardinality(Cuts(t)) \in Nat
           /\ t # <<>> => Cardinality(Cuts(t)) <= Len(t) - 1
<1>1. Len(t) \in Nat
  OBVIOUS
<1>2. IsFiniteSet(2..Len(t)) /\ Cardinality(2..Len(t)) = IF 2 > Len(t) THEN 0 ELSE Len(t) - 1
  BY <1>1, FS_Interval
<1>3. Cuts(t) \in SUBSET (2..Len(t))
  BY DEF Cuts
<1>4. IsFiniteSet(Cuts(t)) /\ Cardinality(Cuts(t)) <= Cardinality(2..Len(t))
  BY <1>2, <1>3, FS_Subset
<1>5. Cardinality(Cuts(t)) \in Nat
  BY <1>4, FS_CardinalityType
<1> QED
  BY <1>1, <1>2, <1>3, <1>4, <1>5

LEMMA MergedBound ==
    ASSUME NEW r \in Runs, NEW t \in Seq(Entries), t # <<>>, Table(r, TRUE) \in Entries, Bound(t)
    PROVE  Bound(Merged(r, t))
<1> DEFINE u == Merged(r, t)
           old == {n \in Cuts(t) : n < Len(u)}
           new == Cuts(u) \ {2}
           f == [n \in new |-> n - 1]
<1>1. /\ u \in Seq(Entries) /\ Len(u) \in 2..(Len(t) + 1) /\ Len(t) \in Nat /\ Len(u) \in Nat
      /\ \A n \in 2..Len(u) : u[n] = t[n - 1]
      /\ \/ Len(t) <= MaxHistory
         \/ Cuts(t) = {}
         \/ Len(u) \in Cuts(t)
  <2>1. /\ u \in Seq(Entries) /\ Len(u) \in 2..(Len(t) + 1)
        /\ \A n \in 2..Len(u) : u[n] = t[n - 1]
        /\ \/ Len(t) <= MaxHistory
           \/ \A n \in 2..Len(t) : ~Cuttable(t[n])
           \/ Len(u) \in 2..Len(t) /\ Cuttable(t[Len(u)])
    BY MergedIs
  <2> HIDE DEF u
  <2> QED
    BY <2>1 DEF Cuts
<1> HIDE DEF u
<1>2. /\ IsFiniteSet(Cuts(t)) /\ Cuts(t) \subseteq 2..Len(t) /\ Cardinality(Cuts(t)) \in Nat
      /\ Cardinality(Cuts(t)) <= Len(t) - 1 /\ Cardinality(Cuts(t)) <= MaxHistory
  BY CutsAre DEF Bound
<1>3. IsFiniteSet(old) /\ Cardinality(old) \in Nat /\ Cardinality(old) <= Cardinality(Cuts(t))
  <2>1. IsFiniteSet(old) /\ Cardinality(old) <= Cardinality(Cuts(t))
    BY <1>2, FS_Subset
  <2> QED
    BY <2>1, FS_CardinalityType
<1>4. Cardinality(old) + 1 <= MaxHistory
  <2>1. CASE Len(t) <= MaxHistory
    BY <1>1, <1>2, <1>3, <2>1, HistoryAssumption
  <2>2. CASE Cuts(t) = {}
    <3>1. old = {}
      BY <2>2
    <3>2. Cardinality(old) = 0
      BY <3>1, FS_EmptySet
    <3> QED
      BY <3>2, HistoryAssumption
  <2>3. CASE Len(u) \in Cuts(t)
    <3>1. IsFiniteSet(Cuts(t) \ {Len(u)}) /\ Cardinality(Cuts(t) \ {Len(u)}) = Cardinality(Cuts(t)) - 1
      BY <1>2, <2>3, FS_RemoveElement
    <3>2. old \in SUBSET (Cuts(t) \ {Len(u)})
      BY <1>1, <1>2
    <3>3. Cardinality(old) <= Cardinality(Cuts(t)) - 1
      BY <3>1, <3>2, FS_Subset
    <3> QED
      BY <1>2, <1>3, <3>3, HistoryAssumption
  <2> QED
    BY <1>1, <2>1, <2>2, <2>3
<1>5. f \in Injection(new, old)
  <2>1. ASSUME NEW n \in new PROVE n - 1 \in old /\ n \in Nat
    <3>1. n \in 3..Len(u) /\ Cuttable(u[n])
      BY <1>1 DEF Cuts
    <3>2. n - 1 \in 2..Len(t) /\ n - 1 < Len(u) /\ u[n] = t[n - 1]
      BY <1>1, <3>1
    <3> QED
      BY <3>1, <3>2 DEF Cuts
  <2> HIDE DEF new, old
  <2>2. f \in [new -> old]
    BY <2>1
  <2>3. \A m, n \in new : f[m] = f[n] => m = n
    BY <2>1
  <2> QED
    BY <2>2, <2>3 DEF Injection, IsInjective
<1>6. IsFiniteSet(new) /\ Cardinality(new) <= Cardinality(old)
  <2> HIDE DEF f, new, old
  <2> QED
    BY <1>3, <1>5, FS_Injection
<1>7. IsFiniteSet(new \cup {2}) /\ Cardinality(new \cup {2}) <= Cardinality(new) + 1
      /\ Cardinality(new) \in Nat
  <2>1. Cardinality(new) \in Nat
    <3> HIDE DEF new
    <3> QED
      BY <1>6, FS_CardinalityType
  <2>2. /\ IsFiniteSet(new \cup {2})
        /\ Cardinality(new \cup {2}) = IF 2 \in new THEN Cardinality(new) ELSE Cardinality(new) + 1
    <3> HIDE DEF new
    <3> QED
      BY <1>6, FS_AddElement
  <2> QED
    BY <2>1, <2>2
<1>8. Cuts(u) \in SUBSET (new \cup {2})
  OBVIOUS
<1>9. Cardinality(Cuts(u)) <= Cardinality(new \cup {2}) /\ Cardinality(Cuts(u)) \in Nat
  <2>1. Cardinality(Cuts(u)) <= Cardinality(new \cup {2})
    <3> HIDE DEF new
    <3> QED
      BY <1>7, <1>8, FS_Subset
  <2> QED
    BY <1>1, <2>1, CutsAre
<1>10. Cardinality(new \cup {2}) \in Nat
  <2> HIDE DEF new
  <2> QED
    BY <1>7, FS_CardinalityType
<1> HIDE DEF new, old
<1>11. Cardinality(Cuts(u)) <= MaxHistory
  BY <1>3, <1>4, <1>6, <1>7, <1>9, <1>10, HistoryAssumption
<1> QED
  BY <1>11 DEF Bound, u

\* The tables of a history are newest first, each once, and of runs of the
\* improve tool that have come to publish.
Sorted(t) ==
    \A m, n \in 1..Len(t) :
        m < n => /\ t[m].of # t[n].of
                 /\ t[m].of > t[n].of \/ ~Apart(t[m].of, t[n].of)
Begun(t) ==
    \A n \in 1..Len(t) : run[t[n].of].tool = "improve" /\ run[t[n].of].pc \notin Early
Good(t) == Bound(t) /\ Sorted(t) /\ Begun(t)

\* What is on the pull request, and what runs have read of it, is in order; and
\* no run has read a table of its own.
Unlike(r, t) == \A n \in 1..Len(t) : t[n].of # r
Histories ==
    /\ \A c \in pr.comments : Good(c.tables)
    /\ \A r \in Runs : \A c \in run[r].listed : Good(c.tables) /\ Unlike(r, c.tables)

LEMMA OfIs ==
    ASSUME NEW t \in Seq(Entries)
    PROVE  Len(t) \in Nat /\ \A n \in 1..Len(t) : t[n].of \in Runs
<1>1. Len(t) \in Nat /\ \A n \in 1..Len(t) : t[n] \in Entries
  BY Elements
<1> QED
  BY <1>1 DEF Entries

\* Runs go on and meet others, and a history stays in order.
LEMMA GoodStays ==
    ASSUME Known, NEW t \in Seq(Entries), Good(t),
           \A q \in Runs : /\ run'[q].tool = run[q].tool /\ run[q].met \subseteq run'[q].met
                           /\ run[q].tool = "improve" /\ run[q].pc \notin Early
                                 => run'[q].pc \notin Early
    PROVE  Good(t)'
<1>1. Len(t) \in Nat /\ \A n \in 1..Len(t) : t[n].of \in Runs
  BY OfIs
<1>2. Sorted(t)'
  BY <1>1 DEF Good, Sorted, Apart
<1>3. Begun(t)'
  BY <1>1 DEF Good, Begun
<1> QED
  BY <1>2, <1>3 DEF Good, Bound, Cuts, Cuttable

\* A table on top of a history that its run has read.
LEMMA GoodMerged ==
    ASSUME Known, Ordered, NEW r \in Runs, Active(r), run[r].tool = "improve", run[r].pc \notin Early,
           NEW t \in Seq(Entries), t # <<>>, Good(t), Unlike(r, t)
    PROVE  Good(Merged(r, t))
<1> DEFINE u == Merged(r, t)
<1>1. Table(r, TRUE) \in Entries /\ Table(r, TRUE).of = r
  BY DEF Table, Entries
<1>2. /\ u \in Seq(Entries) /\ Len(u) \in 2..(Len(t) + 1)
      /\ u[1] = Table(r, TRUE) /\ \A n \in 2..Len(u) : u[n] = t[n - 1]
  BY <1>1, MergedIs
<1>3. Bound(u)
  BY <1>1, MergedBound DEF Good
<1> HIDE DEF u
<1>4. /\ u \in Seq(Entries) /\ Len(u) \in 2..(Len(t) + 1) /\ Len(t) \in Nat /\ Len(u) \in Nat
      /\ u[1].of = r /\ \A n \in 2..Len(u) : u[n] = t[n - 1] /\ n - 1 \in 1..Len(t)
  <2>1. Len(t) \in Nat /\ Len(u) \in Nat
    BY <1>2, OfIs
  <2>2. u[1].of = r
    BY <1>2, <1>1
  <2>3. ASSUME NEW n \in 2..Len(u) PROVE n - 1 \in 1..Len(t)
    BY <1>2, <2>1, <2>3
  <2> QED
    BY <1>2, <2>1, <2>2, <2>3
<1>5. \A n \in 1..Len(t) :
         /\ t[n].of \in Runs /\ t[n].of # r
         /\ run[t[n].of].tool = "improve" /\ run[t[n].of].pc \notin Early
  BY OfIs DEF Good, Begun, Unlike
<1>6. \A n \in 1..Len(t) : r > t[n].of \/ ~Apart(r, t[n].of)
  <2> SUFFICES ASSUME NEW n \in 1..Len(t), ~(r > t[n].of) PROVE ~Apart(r, t[n].of)
    OBVIOUS
  <2>1. r < t[n].of /\ run[t[n].of].pc # "idle"
    BY <1>5, RunsAssumption DEF Early
  <2> QED
    BY <1>5, <2>1 DEF Ordered, Meetings, Apart
<1>7. Begun(u)
  <2> SUFFICES ASSUME NEW n \in 1..Len(u)
               PROVE  run[u[n].of].tool = "improve" /\ run[u[n].of].pc \notin Early
    BY DEF Begun
  <2>1. CASE n = 1
    BY <1>4, <2>1
  <2>2. CASE n # 1
    <3>1. n \in 2..Len(u)
      BY <1>4, <2>2
    <3> QED
      BY <1>4, <1>5, <3>1
  <2> QED
    BY <2>1, <2>2
<1>8. Sorted(u)
  <2> SUFFICES ASSUME NEW m \in 1..Len(u), NEW n \in 1..Len(u), m < n
               PROVE  /\ u[m].of # u[n].of
                      /\ u[m].of > u[n].of \/ ~Apart(u[m].of, u[n].of)
    BY DEF Sorted
  <2>1. n \in 2..Len(u) /\ u[n] = t[n - 1] /\ n - 1 \in 1..Len(t)
    BY <1>4
  <2>2. CASE m = 1
    BY <1>4, <1>5, <1>6, <2>1, <2>2
  <2>3. CASE m # 1
    <3>1. m \in 2..Len(u) /\ u[m] = t[m - 1] /\ m - 1 \in 1..Len(t) /\ m - 1 < n - 1
      BY <1>4, <2>3
    <3> QED
      BY <2>1, <3>1 DEF Good, Sorted
  <2> QED
    BY <2>2, <2>3
<1> QED
  BY <1>3, <1>7, <1>8 DEF Good, u

LEMMA GoodSingle ==
    ASSUME Known, NEW r \in Runs, run[r].tool = "improve", run[r].pc \notin Early,
           NEW linked \in BOOLEAN
    PROVE  Good(<<Table(r, linked)>>)
<1> DEFINE a == Table(r, linked)
           t == <<a>>
<1>1. a.of = r /\ a \in Entries
  BY DEF Table, Entries
<1> HIDE DEF a
<1>2. t \in Seq(Entries) /\ Len(t) = 1 /\ t[1] = a
  BY <1>1
<1> HIDE DEF t
<1>3. Sorted(t) /\ Begun(t)
  BY <1>1, <1>2 DEF Sorted, Begun
<1>4. Bound(t)
  <2>1. Cuts(t) = {}
    BY <1>2 DEF Cuts
  <2>2. Cardinality(Cuts(t)) = 0
    BY <2>1, FS_EmptySet
  <2> QED
    BY <2>2, HistoryAssumption DEF Bound
<1> QED
  BY <1>3, <1>4 DEF Good, t, a

LEMMA GoodEmpty == Good(<<>>)
  BY DEF Good, Bound, Sorted, Begun

LEMMA HistoriesNext ==
    ASSUME Known, Ordered, Histories, [Next]_vars PROVE Histories'
<1>0. /\ \A c \in pr.comments : c.tables \in Seq(Entries)
      /\ \A q \in Runs : \A c \in run[q].listed : c.tables \in Seq(Entries)
  BY DEF Known, Typed, Requests, Records, Listings, Notes
<1>1. ASSUME NEW r \in Runs, Works(r) PROVE Histories'
  <2>1. /\ Moves(r) /\ pr' \in Requests /\ Active(r)
        /\ run[r].tool = "improve" /\ run[r].pc \notin Early => run'[r].pc \notin Early
    BY <1>1, WorkKnows, WorkOnward
  <2>2. \A t \in Seq(Entries) : Good(t) => Good(t)'
    <3>1. \A q \in Runs : /\ run'[q].tool = run[q].tool /\ run[q].met \subseteq run'[q].met
                          /\ run[q].tool = "improve" /\ run[q].pc \notin Early
                                => run'[q].pc \notin Early
      BY <2>1 DEF Moves
    <3> QED
      BY <3>1, GoodStays
  <2>3. ASSUME NEW e \in pr'.comments PROVE Good(e.tables)'
    <3>1. CASE e \in pr.comments
      BY <1>0, <2>2, <3>1 DEF Histories
    <3>2. CASE e.tables = <<>>
      <4>1. e.tables \in Seq(Entries)
        BY <2>1 DEF Requests, Listings, Notes
      <4>2. Good(e.tables)
        BY <3>2, GoodEmpty
      <4> QED
        BY <2>2, <4>1, <4>2
    <3>3. CASE OwnTables(r, e.tables)
      <4>1. e.tables \in Seq(Entries)
        BY <2>1 DEF Requests, Listings, Notes
      <4>2. ASSUME NEW linked \in BOOLEAN, e.tables = <<Table(r, linked)>> PROVE Good(e.tables)
        BY <3>3, <4>2, GoodSingle DEF OwnTables
      <4>3. ASSUME NEW c \in run[r].listed, c.tables # <<>>, e.tables = Merged(r, c.tables)
            PROVE  Good(e.tables)
        BY <1>0, <2>1, <3>3, <4>3, GoodMerged DEF OwnTables, Histories
      <4> QED
        BY <2>2, <3>3, <4>1, <4>2, <4>3 DEF OwnTables
    <3> QED
      BY <1>1, <3>1, <3>2, <3>3, NewTables
  <2>4. ASSUME NEW q \in Runs, NEW c \in run'[q].listed
        PROVE  Good(c.tables)' /\ Unlike(q, c.tables)
    <3>1. CASE c \in run[q].listed
      BY <1>0, <2>2, <3>1 DEF Histories
    <3>2. CASE c \notin run[q].listed
      <4>1. q = r /\ c \in pr.comments /\ (run[r].tool = "improve" => run[r].pc \in Early)
        BY <1>1, <2>1, <3>2, WorkComments DEF Moves, Early
      <4>2. Good(c.tables)' /\ Begun(c.tables)
        BY <1>0, <2>2, <4>1 DEF Histories, Good
      <4> QED
        BY <4>1, <4>2 DEF Begun, Unlike
    <3> QED
      BY <3>1, <3>2
  <2> QED
    BY <2>3, <2>4 DEF Histories, Unlike
<1>2. ASSUME NEW r \in Runs, Start(r) PROVE Histories'
  <2>1. /\ pr' = pr /\ \A q \in Runs : run'[q].listed = run[q].listed
        /\ \A q \in Runs : /\ run'[q].tool = run[q].tool /\ run[q].met \subseteq run'[q].met
                           /\ run[q].tool = "improve" /\ run[q].pc \notin Early
                                 => run'[q].pc \notin Early
    <3>1. /\ Typed /\ pr' = pr /\ \A q \in Runs : run'[q].listed = run[q].listed
          /\ \A q \in Runs : run'[q].tool = run[q].tool /\ run[q].met \subseteq run'[q].met
      BY <1>2, StartDoes, Onward DEF Known, Same, Next, Step
    <3>2. /\ run[r].pc = "idle" /\ \A q \in Runs \ {r} : run'[q].pc = run[q].pc
      BY <1>2, <3>1, StartKeeps
    <3> QED
      BY <3>1, <3>2 DEF Early
  <2>2. \A t \in Seq(Entries) : Good(t) => Good(t)'
    BY <2>1, GoodStays
  <2> QED
    BY <1>0, <2>1, <2>2 DEF Histories, Unlike
<1>3. ASSUME UNCHANGED run, pr'.comments = pr.comments PROVE Histories'
  <2>1. run' = run
    BY <1>3
  <2>2. \A t \in Seq(Entries) : Good(t) => Good(t)'
    BY <2>1, GoodStays
  <2>3. \A c \in pr'.comments : Good(c.tables)'
    BY <1>0, <1>3, <2>2 DEF Histories
  <2>4. \A q \in Runs : \A c \in run'[q].listed : Good(c.tables)' /\ Unlike(q, c.tables)
    BY <1>0, <2>1, <2>2 DEF Histories
  <2> QED
    BY <2>3, <2>4 DEF Histories, Unlike
<1> QED
  BY <1>1, <1>2, <1>3, UsersDo DEF Known, Next, Works, vars

\* The history of suggestions is newest on top, has each table once and is
\* bounded (HistoryInOrder), for any number of runs and any bound.  The tables
\* that runs have read and not yet merged are part of the invariant, with the
\* fact that a run's own table is not among them.
THEOREM HistoryIsInOrder == Spec => []HistoryInOrder
<1> DEFINE Inv == Known /\ Ordered /\ Identified /\ Histories
<1>1. Init => Inv
  <2> SUFFICES ASSUME Init PROVE Inv
    OBVIOUS
  <2>1. Known /\ Ordered /\ pr.comments = {} /\ \A r \in Runs : run[r].listed = {}
    BY KnownInit, LabelsInit, InitIs
  <2> QED
    BY <2>1 DEF Identified, Distinct, Histories
<1>2. Inv /\ [Next]_vars => Inv'
  BY KnownNext, OrderedNext, IdentifiedNext, HistoriesNext
<1>3. Inv => HistoryInOrder
  <2> SUFFICES ASSUME Inv PROVE TypeOK /\ HistoryBounded /\ NewestOnTop
    BY DEF HistoryInOrder
  <2>1. /\ pr.comments \subseteq Notes /\ pr.labels \subseteq Labels /\ Typed
        /\ \A r \in Runs : run[r].pc \in Pcs /\ run[r].seen \subseteq Labels
    BY DEF Known, Typed, Requests, Records, Listings
  <2>2. TypeOK
    <3>1. \A c \in pr.comments :
             /\ c.by \in Runs /\ c.id[1] \in Runs
             /\ c.tables # <<>> <=> c.kind = "table"
      BY <2>1 DEF Notes
    <3>2. \A c \in pr.comments : \A n \in DOMAIN c.tables : c.tables[n].of \in Runs
      <4> SUFFICES ASSUME NEW c \in pr.comments, NEW n \in DOMAIN c.tables
                   PROVE  c.tables[n].of \in Runs
        OBVIOUS
      <4>1. c.tables \in Seq(Entries)
        BY <2>1 DEF Notes
      <4> QED
        BY <4>1, OfIs
    <3> QED
      BY <2>1, <3>1, <3>2 DEF TypeOK, Typed, Labels, Identified, Distinct
  <2>3. ASSUME NEW c \in pr.comments
        PROVE  Bound(c.tables) /\ Sorted(c.tables) /\ DOMAIN c.tables = 1..Len(c.tables)
    BY <2>1 DEF Notes, Histories, Good
  <2>4. HistoryBounded
    BY <2>3 DEF HistoryBounded, Bound, Cuts
  <2>5. NewestOnTop
    BY <2>3 DEF NewestOnTop, Sorted
  <2> QED
    BY <2>2, <2>4, <2>5
<1> HIDE DEF Inv
<1> QED
  BY <1>1, <1>2, <1>3, PTL DEF Spec

-----------------------------------------------------------------------------
(* The suggestions that are kept.                                          *)

\* An edit of a progress comment may have been lost on this host.
Slips == failures > 0 /\ "edit" \in Swallows[setting.host] /\ ~setting.auto

\* How many runs after r have suggestions.
Newer(r) == Cardinality({q \in Tables : q > r})

\* r is one of the exceptions of the property.
Excused(r) ==
    \/ run[r].met # {}
    \/ Newer(r) > MaxHistory - Uncounted
    \/ \E q \in Tables : run[q].said = "tick"
    \/ Slips

\* The steps of a run before its table is in a comment, and those at which it
\* has one to publish.
Unshown == {"predict", "none", "found", "inline", "unprogress", "single", "look", "merge",
            "whole", "failed"}
ToPublish == {"found", "inline", "unprogress", "single", "look", "merge", "unlist", "whole"}

\* The way of a run of the improve tool, as the options direct it.
Directed(r) ==
    /\ run[r].pc \in {"idle", "prepare"} => run[r].kind = "none"
    /\ run[r].pc \in ToPublish => r \in Tables
    /\ run[r].pc \in {"look", "merge", "unlist", "whole"} =>
          setting.persistent /\ setting.host \in Gfm
    /\ run[r].pc \in {"predict", "found", "look", "merge"} /\ setting.host \in Gfm =>
          run[r].kind = "progress"
    /\ run[r].pc = "single" => ~setting.persistent
    /\ run[r].pc \in {"unprogress", "unlist"} => HasProgress(r)
    /\ ~Active(r) => run[r].listed = {}

\* What a history tells of its runs is so, and only its last entry may have no
\* commit, where a run had nothing to say.
Noted(t) ==
    \A n \in 1..Len(t) :
        /\ t[n].of \in Tables
        /\ t[n].tick => run[t[n].of].said = "tick"
        /\ setting.persistent /\ ~t[n].linked => n = Len(t) /\ Uncounted = 1

\* A comment, and one that the run q has read as the improve tool's.
Plain(c) ==
    /\ c.id[2] = "temp" => c.kind = "temp"
    /\ c.id[2] = "progress" => ~setting.auto
    /\ c.kind = "none" => Uncounted = 1
    /\ Noted(c.tables)

\* The progress comment of a run is there until its table is, and no run has
\* read it before.
Pending(r) ==
    HasProgress(r) /\ run[r].pc \in Unshown =>
        /\ \E c \in pr.comments : c.id = ProgressId(r) /\ c.kind = "progress"
        /\ \A q \in Runs : run[q].tool = "improve" =>
              \A c \in run[q].listed : c.id # ProgressId(r)

\* Where no edit has slipped, the comments and what is read of them are plain,
\* and every run of the tool is on its way.
Improves ==
    /\ \A c \in pr.comments : Plain(c)
    /\ \A q \in Runs : run[q].tool = "improve" =>
          /\ Directed(q) /\ Pending(q)
          /\ \A c \in run[q].listed : Plain(c) /\ Fresh(c) /\ c.id[1] # q

\* What other runs have read of a comment agrees with it about r, and not every
\* comment with the table of r is about to be removed.
Agree(r) ==
    \A q \in Runs \ {r} : run[q].tool = "improve" =>
        \A c \in run[q].listed : \A d \in pr.comments :
            c.id = d.id => (Unlike(r, c.tables) <=> Unlike(r, d.tables))
Target(q, c) ==
    run[q].tool = "improve" /\ run[q].pc = "unlist" /\ First(run[q].listed).id = c.id
Safe(r) ==
    Shown(r) => \E c \in pr.comments :
                   ~Unlike(r, c.tables) /\ \A q \in Runs : ~Target(q, c)
Guarded(r) == Excused(r) \/ (Agree(r) /\ Safe(r))

\* What a run has to say it says once.
LEMMA SaidOnce ==
    ASSUME Known, NEW r \in Runs, Works(r), run[r].said # "none"
    PROVE  run'[r].said = run[r].said
<1>1. Typed /\ Knows(r)
  BY DEF Known
<1>2. run[r].pc # "predict"
  BY <1>1 DEF Knows
<1>3. CASE ListComments(r)
  BY <1>1, <1>3, ListCommentsDoes DEF Goes
<1>4. CASE UpdatePersistent(r)
  BY <1>1, <1>4, UpdatePersistentDoes DEF Goes
<1>5. CASE AnnounceUpdate(r)
  BY <1>1, <1>5, AnnounceUpdateDoes DEF Goes
<1>6. CASE PublishWhole(r) /\ run[r].tool # "improve"
  <2>1. run[r].kind \in {"review", "title"}
    BY <1>6, PersistComments DEF PublishWhole, Persist, Whole
  <2> QED
    BY <1>1, <1>6, <2>1, PublishWholeDoes DEF Goes, Ends
<1>7. CASE Cleanup(r)
  BY <1>1, <1>7, CleanupStepDoes DEF Ends
<1>8. CASE ReviewStep(r)
  <2>1. CASE PrepareReview(r)
    BY <1>1, <2>1, PrepareDoes DEF Goes, Ends
  <2>2. ~PredictReview(r)
    BY <1>2 DEF PredictReview
  <2>3. CASE SetReviewLabels(r)
    BY <1>1, <2>3, SetReviewLabelsDoes DEF Goes, Reads
  <2>4. CASE ReportReview(r)
    BY <1>1, <2>4, ReportReviewDoes DEF Goes, Ends
  <2> QED
    BY <1>8, <2>1, <2>2, <2>3, <2>4 DEF ReviewStep
<1>9. CASE DescribeStep(r)
  <2>1. CASE PrepareDescribe(r)
    BY <1>1, <2>1, PrepareDoes DEF Goes, Ends
  <2>2. ~PredictDescribe(r)
    BY <1>2 DEF PredictDescribe
  <2>3. CASE SetTypeLabels(r)
    BY <1>1, <2>3, SetTypeLabelsDoes DEF Goes, Ends, Reads
  <2>4. CASE WriteDescription(r)
    BY <1>1, <2>4, WriteDescriptionDoes DEF Goes, Ends
  <2>5. CASE TellDescription(r)
    BY <1>1, <2>5, TellDescriptionDoes DEF Goes, Ends
  <2> QED
    BY <1>9, <2>1, <2>2, <2>3, <2>4, <2>5 DEF DescribeStep
<1>10. CASE run[r].tool = "improve" /\ ImproveStep(r)
  <2>1. CASE PrepareImprove(r)
    BY <1>1, <2>1, PrepareImproveDoes DEF Goes
  <2>2. ~PredictImprove(r)
    BY <1>2 DEF PredictImprove
  <2>3. CASE NoSuggestions(r)
    BY <1>1, <2>3, NoSuggestionsDoes DEF Goes, Ends
  <2>4. CASE FoundSuggestions(r)
    BY <1>1, <2>4, FoundSuggestionsDoes DEF Goes
  <2>5. CASE PushInline(r)
    BY <1>1, <2>5, PushInlineDoes DEF Goes, Ends
  <2>6. CASE PublishSingle(r) \/ PublishTable(r)
    BY <1>1, <2>6, PublishTablesDo DEF Goes, Ends
  <2>7. CASE LookForSuggestions(r)
    BY <1>1, <2>7, LookForSuggestionsDoes DEF Goes, GoesWith
  <2>8. CASE OverwriteNone(r)
    BY <1>1, <2>8, OverwriteNoneDoes DEF Goes, GoesWith
  <2>9. CASE MergeInto(r)
    BY <1>1, <2>9, MergeIntoDoes DEF Goes, Ends
  <2>10. CASE RemoveMerged(r)
    <3>1. run[r].listed # {}
      BY <1>1, <1>10, <2>10 DEF RemoveMerged, Knows, ImproveKnows
    <3> QED
      BY <1>1, <2>10, <3>1, RemoveMergedDoes DEF Goes, Ends
  <2>11. CASE NothingToMerge(r)
    BY <1>1, <2>11, NothingToMergeDoes DEF Goes
  <2>12. CASE ImproveFailed(r)
    BY <1>1, <2>12, ImproveFailedDoes DEF Goes, Ends
  <2> QED
    BY <1>10, <2>1, <2>2, <2>3, <2>4, <2>5, <2>6, <2>7, <2>8, <2>9, <2>10, <2>11, <2>12
       DEF ImproveStep
<1> QED
  BY <1>3, <1>4, <1>5, <1>6, <1>7, <1>8, <1>9, <1>10 DEF Works, Step, Persist

LEMMA SaidStays ==
    ASSUME Known, [Next]_vars, NEW q \in Runs
    PROVE  /\ run'[q].tool = run[q].tool
           /\ run[q].said # "none" => run'[q].said = run[q].said
<1>1. ASSUME NEW r \in Runs, Works(r) PROVE run[q].said # "none" => run'[q].said = run[q].said
  BY <1>1, SaidOnce, WorkKnows DEF Moves
<1>2. ASSUME NEW r \in Runs, Start(r) PROVE run'[q].said = run[q].said
  BY <1>2, StartDoes DEF Known
<1> QED
  BY <1>1, <1>2, Onward, UsersDo DEF Known, Next, Works, vars

\* What is published, and what is not counted, stays so.
LEMMA TablesStay ==
    ASSUME Known, [Next]_vars
    PROVE  /\ Tables \subseteq Tables' /\ \A q \in Tables : run'[q].said = run[q].said
           /\ Uncounted \in {0, 1} /\ Uncounted' \in {0, 1}
           /\ Uncounted = 1 => Uncounted' = 1
<1>1. /\ Tables \subseteq Tables' /\ \A q \in Tables : run'[q].said = run[q].said
  BY SaidStays DEF Tables
<1>2. Uncounted \in {0, 1} /\ Uncounted' \in {0, 1}
  BY DEF Uncounted
<1>3. ASSUME Uncounted = 1 PROVE Uncounted' = 1
  <2>1. PICK q \in Runs : run[q].tool = "improve" /\ run[q].said = "nothing"
    BY <1>3 DEF Uncounted
  <2>2. run'[q].tool = "improve" /\ run'[q].said = "nothing"
    BY <2>1, SaidStays
  <2> QED
    BY <2>2 DEF Uncounted
<1> QED
  BY <1>1, <1>2, <1>3

LEMMA NotedStays ==
    ASSUME Known, [Next]_vars, NEW t, Noted(t)
    PROVE  Noted(t)'
<1>1. setting' = setting
  BY SameSetting
<1> QED
  BY <1>1, TablesStay DEF Noted

LEMMA SlipsStay ==
    ASSUME Known, [Next]_vars, Slips
    PROVE  Slips'
  BY SameSetting DEF Slips

LEMMA NewerStay ==
    ASSUME Known, [Next]_vars, NEW r \in Runs
    PROVE  Newer(r) \in Nat /\ Newer(r)' \in Nat /\ Newer(r) <= Newer(r)'
<1> DEFINE old == {q \in Tables : q > r}
           new == {q \in Tables' : q > r}
<1>1. old \subseteq new /\ new \subseteq Runs
  BY TablesStay DEF Tables
<1> HIDE DEF old, new
<1>2. IsFiniteSet(new)
  BY <1>1, RunsAssumption, FS_Subset
<1>3. IsFiniteSet(old) /\ Cardinality(old) <= Cardinality(new)
  BY <1>1, <1>2, FS_Subset
<1>4. Cardinality(old) \in Nat /\ Cardinality(new) \in Nat
  BY <1>2, <1>3, FS_CardinalityType
<1> QED
  BY <1>3, <1>4 DEF Newer, old, new

LEMMA ExcusedStays ==
    ASSUME Known, [Next]_vars, NEW r \in Runs, Excused(r)
    PROVE  Excused(r)'
<1>1. CASE run[r].met # {}
  BY <1>1, Onward DEF Excused
<1>2. CASE Newer(r) > MaxHistory - Uncounted
  <2>1. Newer(r) \in Nat /\ Newer(r)' \in Nat /\ Newer(r) <= Newer(r)'
    BY NewerStay
  <2>2. /\ Uncounted \in {0, 1} /\ Uncounted' \in {0, 1}
        /\ Uncounted = 1 => Uncounted' = 1
    BY TablesStay
  <2>3. Newer(r)' > MaxHistory - Uncounted'
    BY <1>2, <2>1, <2>2, HistoryAssumption
  <2> QED
    BY <2>3 DEF Excused
<1>3. CASE \E q \in Tables : run[q].said = "tick"
  BY <1>3, TablesStay DEF Excused
<1>4. CASE Slips
  BY <1>4, SlipsStay DEF Excused
<1> QED
  BY <1>1, <1>2, <1>3, <1>4 DEF Excused

LEMMA FreshStays ==
    ASSUME Known, [Next]_vars, NEW c \in Notes, Fresh(c)
    PROVE  Fresh(c)'
<1> DEFINE q == c.id[1]
<1>1. q \in Runs
  BY DEF Notes
<1>2. run'[q].pc = "idle" => run[q].pc = "idle"
  BY <1>1, Onward
<1> HIDE DEF q
<1>3. ASSUME NEW r \in Runs, Works(r)
      PROVE  /\ run[q].pc \notin {"idle", "prepare"} => run'[q].pc \notin {"idle", "prepare"}
             /\ run[q].pc \in {"cleanup", "done"} => run'[q].pc \in {"cleanup", "done"}
  BY <1>1, <1>3, WorkOnward, WorkKnows DEF Moves
<1>4. ASSUME NEW r \in Runs, Start(r)
      PROVE  /\ run[q].pc \notin {"idle", "prepare"} => run'[q].pc \notin {"idle", "prepare"}
             /\ run[q].pc \in {"cleanup", "done"} => run'[q].pc \in {"cleanup", "done"}
  BY <1>1, <1>4, StartDoes DEF Known
<1>5. CASE UNCHANGED run
  BY <1>5 DEF Fresh
<1> QED
  BY <1>3, <1>4, <1>5, UsersDo DEF Known, Next, Works, vars, Fresh, q

LEMMA PlainStays ==
    ASSUME Known, [Next]_vars, NEW c, Plain(c)
    PROVE  Plain(c)'
<1>1. Uncounted = 1 => Uncounted' = 1
  BY TablesStay
<1>2. Noted(c.tables)'
  BY NotedStays DEF Plain
<1>3. setting' = setting
  BY SameSetting
<1> QED
  BY <1>1, <1>2, <1>3 DEF Plain

-----------------------------------------------------------------------------
(* The comments of the improve tool, with their tables.                    *)

\* A comment of r appears with tables.
Puts(r, k, tables) ==
    \E c \in Notes : /\ c.id = <<r, k>> /\ c.kind = k /\ c.tables = tables
                     /\ pr'.comments = pr.comments \cup {c}

\* The comment of an identity is overwritten.
Becomes(id, k, tables) ==
    /\ id \in Ids
    /\ \A e \in pr'.comments :
          \/ e \in pr.comments /\ e.id # id
          \/ e.id = id /\ e.kind = k /\ e.tables = tables
    /\ \A d \in pr.comments : \E e \in pr'.comments :
          IF d.id = id THEN e.id = id /\ e.kind = k /\ e.tables = tables ELSE e = d

LEMMA Putting ==
    ASSUME Typed, NEW r \in Runs, NEW k \in Names, NEW tables \in Seq(Entries),
           k = "table" <=> tables # <<>>, pr' = WithComment(Note(<<r, k>>, k, tables))
    PROVE  Puts(r, k, tables)
  BY NoteIs, WithCommentIs DEF Puts

LEMMA Becoming ==
    ASSUME Typed, NEW c \in Notes, NEW id, c.id = id, id \in Ids, pr' = WithEdit(id, c)
    PROVE  Becomes(id, c.kind, c.tables)
<1>1. \A e \in pr'.comments :
         \/ e \in pr.comments /\ e.id # id
         \/ e.id = id /\ e.kind = c.kind /\ e.tables = c.tables
  BY WithEditIs
<1>2. ASSUME NEW d \in pr.comments
      PROVE  \E e \in pr'.comments :
                IF d.id = id THEN e.id = id /\ e.kind = c.kind /\ e.tables = c.tables ELSE e = d
  <2>1. PICK e \in pr'.comments : IF d.id = id THEN e.id = id ELSE e = d
    BY WithEditIs
  <2>2. d.id = id => e.kind = c.kind /\ e.tables = c.tables
    BY <1>1, <2>1
  <2> QED
    BY <2>1, <2>2
<1> QED
  BY <1>1, <1>2 DEF Becomes

\* An appearing comment that is not a table shows none.
LEMMA PutsNothing ==
    ASSUME NEW r \in Runs, NEW k \in Names \ {"table"}, Appears(r, k, k)
    PROVE  Puts(r, k, <<>>)
  BY DEF Appears, Puts, Notes

LEMMA TablesShown ==
    ASSUME Typed, NEW r \in Runs, NEW k \in {"table", "none"}, NEW tables \in Seq(Entries),
           k = "table" <=> tables # <<>>,
           Show(r, k, tables, Done(r), At(r, "failed"))
    PROVE  /\ Ends(r) \/ Goes(r, "failed")
           /\ \/ HasProgress(r) /\ Becomes(ProgressId(r), k, tables) /\ Ends(r)
              \/ ~HasProgress(r) /\ Puts(r, k, tables) /\ Ends(r)
              \/ Same
<1>1. "failed" \in Pcs /\ Successor(r, At(r, "failed")) /\ Successor(r, Done(r))
  BY AtFollows DEF Pcs
<1>2. /\ Goes(r, "failed") \/ run'[r] # At(r, "failed")
      /\ Ends(r) \/ run'[r] # Done(r)
  BY <1>1, GoesAt
<1>3. k \in Names /\ "progress" \in Names
  BY DEF Names
<1>4. CASE HasProgress(r)
  <2> DEFINE c == Note(ProgressId(r), k, tables)
  <2>1. c \in Notes /\ c.id = ProgressId(r) /\ c.kind = k /\ c.tables = tables
    BY <1>3, NoteIs DEF ProgressId
  <2>2. EditCall(r, ProgressId(r), c, Done(r), At(r, "failed"))
    BY <1>4 DEF Show
  <2> HIDE DEF c
  <2>3. \/ ProgressId(r) \in Ids /\ Did(r, WithEdit(ProgressId(r), c), Done(r), At(r, "failed"))
        \/ Did(r, pr, Done(r), At(r, "failed"))
        \/ pr' = pr /\ run'[r] = At(r, "failed")
    BY <1>1, <2>2, EditDoes
  <2>4. CASE ProgressId(r) \in Ids /\ pr' = WithEdit(ProgressId(r), c) /\ run'[r] = Done(r)
    <3>1. Becomes(ProgressId(r), c.kind, c.tables)
      BY <2>1, <2>4, Becoming
    <3> QED
      BY <1>2, <1>4, <2>1, <2>4, <3>1
  <2>5. CASE pr' = pr /\ run'[r] \in {Done(r), At(r, "failed")}
    BY <1>2, <2>5, Leaving
  <2> QED
    BY <2>3, <2>4, <2>5 DEF Did
<1>5. CASE ~HasProgress(r)
  <2>1. PublishCall(r, Note(<<r, k>>, k, tables), Done(r), At(r, "failed"))
    BY <1>5 DEF Show
  <2>2. Did(r, WithComment(Note(<<r, k>>, k, tables)), Done(r), At(r, "failed"))
    BY <1>1, <2>1, PublishDoes
  <2>3. CASE pr' = WithComment(Note(<<r, k>>, k, tables)) /\ run'[r] = Done(r)
    <3>1. Puts(r, k, tables)
      BY <1>3, <2>3, Putting
    <3> QED
      BY <1>2, <1>5, <2>3, <3>1
  <2>4. CASE pr' = pr /\ run'[r] \in {Done(r), At(r, "failed")}
    BY <1>2, <2>4, Leaving
  <2> QED
    BY <2>2, <2>3, <2>4 DEF Did
<1> QED
  BY <1>4, <1>5

\* What the clients of the hosts swallow.
LEMMA Swallowing ==
    ASSUME Typed
    PROVE  /\ "publish" \notin Swallows[setting.host]
           /\ setting.host \in Gfm /\ "remove" \notin Swallows[setting.host]
                 => "edit" \in Swallows[setting.host]
           /\ setting.host \in Gfm => setting.host # "bitbucket_server"
<1>1. setting.host \in Hosts
  BY SettingsAssumption DEF Typed
<1> QED
  BY <1>1 DEF Hosts, Gfm, Swallows, GithubSwallows, GitlabSwallows, AzureSwallows,
              GiteaSwallows, BitbucketSwallows, BitbucketServerSwallows

\* The progress comment is there from the start, or the run has failed.
LEMMA PrepareShows ==
    ASSUME Typed, NEW r \in Runs, PrepareImprove(r), setting.host \in Gfm
    PROVE  \/ Puts(r, "progress", <<>>) /\ ~setting.auto /\ run'[r].pc = "predict"
           \/ pr' = pr /\ setting.auto
           \/ pr' = pr /\ Goes(r, "failed")
<1> DEFINE x == [At(r, "predict") EXCEPT !.kind = "progress"]
           c == Note(<<r, "progress">>, "progress", <<>>)
<1>1. StartComment(r, "progress", "progress", x, At(r, "failed"))
  BY DEF PrepareImprove
<1>2. "predict" \in Pcs /\ "failed" \in Pcs /\ "progress" \in Names /\ <<>> \in Seq(Entries)
  BY DEF Pcs, Names
<1>3. x.pc = "predict" /\ run \in [Runs -> Records]
  <2>1. At(r, "predict") \in Records /\ At(r, "predict").pc = "predict"
    BY <1>2, AtIs
  <2> QED
    BY <2>1 DEF Typed, Records
<1>4. pr' = WithComment(c) => Puts(r, "progress", <<>>)
  BY <1>2, Putting
<1> HIDE DEF x, c
<1>5. CASE setting.auto
  BY <1>1, <1>5 DEF StartComment, Local
<1>6. CASE ~setting.auto
  <2>1. PublishCall(r, c, x, At(r, "failed"))
    BY <1>1, <1>6, Swallowing DEF StartComment, c
  <2>2. CASE pr' = WithComment(c) /\ run' = [run EXCEPT ![r] = x]
    BY <1>3, <1>4, <1>6, <2>2
  <2>3. CASE Refused(r, "publish", x, At(r, "failed"))
    <3>1. pr' = pr /\ run'[r] = At(r, "failed")
      BY <1>3, <2>3, Swallowing DEF Refused
    <3> QED
      BY <1>2, <3>1, GoesAt
  <2> QED
    BY <2>1, <2>2, <2>3 DEF PublishCall, Call
<1> QED
  BY <1>5, <1>6, OptionsAreBoolean

\* Where the options direct a run with suggestions.
LEMMA FoundDirects ==
    ASSUME Typed, NEW r \in Runs, FoundSuggestions(r)
    PROVE  /\ run'[r].pc = "look" => setting.persistent /\ setting.host \in Gfm
           /\ run'[r].pc = "single" => ~setting.persistent
<1> DEFINE p == IF setting.commitable \/ setting.host \notin Gfm THEN "inline"
                ELSE IF setting.persistent THEN "look" ELSE "single"
<1>1. CleanupCall(r, At(r, p))
  BY DEF FoundSuggestions
<1>2. /\ p \in {"inline", "look", "single"}
      /\ p = "look" => setting.persistent /\ setting.host \in Gfm
      /\ p = "single" => ~setting.persistent
  OBVIOUS
<1> HIDE DEF p
<1>3. p \in Pcs /\ Successor(r, At(r, p)) /\ At(r, p).pc = p
  BY <1>2, AtFollows, AtIs DEF Pcs
<1>4. run'[r] = At(r, p)
  BY <1>1, <1>3, CleanupDoes DEF Did
<1> QED
  BY <1>2, <1>3, <1>4

\* What becomes of a comment without a table.
LEMMA OverwriteShows ==
    ASSUME Typed, NEW r \in Runs, OverwriteNone(r)
    PROVE  \E c \in run[r].listed :
              /\ c.kind = "none"
              /\ \/ /\ Becomes(c.id, "table", <<Table(r, FALSE)>>)
                    /\ GoesWith(r, "merge", run[r].listed \ {c})
                 \/ pr' = pr
<1> DEFINE S == run[r].listed
           c == First(S)
           x == [run[r] EXCEPT !.listed = S \ {c}]
           tables == <<Table(r, FALSE)>>
           e == [Note(c.id, "table", tables) EXCEPT !.by = r]
<1>1. run[r] \in Records /\ S \in Listings /\ S # {} /\ c.kind = "none" /\ run[r].pc = "merge"
  BY DEF Typed, Records, OverwriteNone
<1>2. c \in S /\ c.id \in Runs \X Names
  <2> HIDE DEF S
  <2> QED
    BY <1>1, FirstIs DEF Listings, Notes
<1>3. EditCall(r, c.id, e, x, At(r, "whole"))
  BY DEF OverwriteNone
<1>4. S \ {c} \in Listings
  <2> HIDE DEF S, c
  <2> QED
    BY <1>1, FS_RemoveElement DEF Listings
<1>5. /\ Successor(r, x) /\ x.pc = "merge" /\ x.kind = run[r].kind /\ x.said = run[r].said
      /\ x.labels = run[r].labels /\ x.seen = run[r].seen /\ x.listed = S \ {c}
  <2> HIDE DEF S, c
  <2> QED
    BY <1>1, <1>4, Relisted DEF Successor
<1>6. tables \in Seq(Entries) \ {<<>>}
  BY TablesAre
<1> HIDE DEF tables
<1>7. e \in Notes /\ e.id = c.id /\ e.kind = "table" /\ e.tables = tables
  <2> HIDE DEF c
  <2> QED
    BY <1>2, <1>6, OverwrittenIs
<1> HIDE DEF S, c, x, e
<1>8. Successor(r, At(r, "whole"))
  BY AtFollows DEF Pcs
<1>9. \/ c.id \in Ids /\ pr' = WithEdit(c.id, e) /\ run'[r] = x
      \/ pr' = pr
  BY <1>3, <1>5, <1>8, EditDoes DEF Did
<1>10. CASE c.id \in Ids /\ pr' = WithEdit(c.id, e) /\ run'[r] = x
  <2>1. Becomes(c.id, "table", tables)
    BY <1>7, <1>10, Becoming
  <2>2. GoesWith(r, "merge", S \ {c})
    BY <1>5, <1>10 DEF GoesWith
  <2> QED
    BY <1>1, <1>2, <2>1, <2>2 DEF S, tables
<1> QED
  BY <1>1, <1>2, <1>9, <1>10 DEF S

\* What becomes of the tables of a comment.
LEMMA MergeShows ==
    ASSUME Typed, NEW r \in Runs, MergeInto(r)
    PROVE  LET c == First(run[r].listed)
           IN  /\ c \in run[r].listed /\ c \in Notes /\ c.kind = "table"
               /\ \/ /\ HasProgress(r) /\ Becomes(ProgressId(r), "table", Merged(r, c.tables))
                     /\ Goes(r, "unlist")
                  \/ /\ ~HasProgress(r) /\ Becomes(c.id, "table", Merged(r, c.tables))
                     /\ Ends(r)
                  \/ /\ pr' = pr
                     /\ \/ Goes(r, "whole") \/ Ends(r)
                        \/ /\ Goes(r, "unlist") /\ HasProgress(r)
                           /\ ProgressId(r) \notin Ids
                                 \/ (Faults /\ "edit" \in Swallows[setting.host])
<1> DEFINE S == run[r].listed
           c == First(S)
           id == IF HasProgress(r) THEN ProgressId(r) ELSE c.id
           x == IF HasProgress(r) THEN At(r, "unlist") ELSE Done(r)
           tables == Merged(r, c.tables)
           e == [Note(id, "table", tables) EXCEPT !.by = r]
<1>1. S \in Listings /\ S # {} /\ c.kind = "table" /\ run[r].pc = "merge"
  BY DEF Typed, Records, MergeInto
<1>2. c \in S /\ c \in Notes
  <2> HIDE DEF S
  <2> QED
    BY <1>1, FirstIs DEF Listings
<1>3. EditCall(r, id, e, x, At(r, "whole"))
  BY DEF MergeInto
<1> HIDE DEF c
<1>4. id \in Runs \X Names
  BY <1>2 DEF Notes, ProgressId, Names
<1>5. tables \in Seq(Entries) \ {<<>>}
  <2>1. c.tables \in Seq(Entries) \ {<<>>}
    BY <1>1, <1>2 DEF Notes
  <2> QED
    BY <2>1, TablesAre
<1> HIDE DEF tables, id
<1>6. e \in Notes /\ e.id = id /\ e.kind = "table" /\ e.tables = tables
  BY <1>4, <1>5, OverwrittenIs
<1> HIDE DEF S, x, e
<1>7. /\ "whole" \in Pcs /\ Successor(r, At(r, "whole"))
      /\ "unlist" \in Pcs /\ Successor(r, At(r, "unlist")) /\ Successor(r, Done(r))
  BY AtFollows DEF Pcs
<1>8. Successor(r, x)
  BY <1>7 DEF x
<1>9. \/ id \in Ids /\ pr' = WithEdit(id, e) /\ run'[r] = x
      \/ pr' = pr /\ run'[r] = At(r, "whole")
      \/ /\ pr' = pr /\ run'[r] = x
         /\ id \notin Ids \/ (Faults /\ "edit" \in Swallows[setting.host])
  <2>1. run \in [Runs -> Records]
    BY DEF Typed
  <2>2. CASE id \in Ids
    BY <1>3, <2>1, <2>2 DEF EditCall, Call, Refused, Fails, Faults
  <2>3. CASE id \notin Ids
    BY <1>3, <2>1, <2>3 DEF EditCall, Refused
  <2> QED
    BY <2>2, <2>3
<1>10. CASE id \in Ids /\ pr' = WithEdit(id, e) /\ run'[r] = x
  <2>1. Becomes(id, "table", tables)
    BY <1>6, <1>10, Becoming
  <2>2. CASE HasProgress(r)
    BY <1>1, <1>2, <1>7, <1>10, <2>1, <2>2, GoesAt DEF S, c, id, x, tables
  <2>3. CASE ~HasProgress(r)
    BY <1>1, <1>2, <1>7, <1>10, <2>1, <2>3, GoesAt DEF S, c, id, x, tables
  <2> QED
    BY <2>2, <2>3
<1>11. CASE pr' = pr /\ run'[r] = At(r, "whole")
  BY <1>1, <1>2, <1>7, <1>11, GoesAt DEF S, c
<1>12. CASE /\ pr' = pr /\ run'[r] = x
            /\ id \notin Ids \/ (Faults /\ "edit" \in Swallows[setting.host])
  <2>1. CASE HasProgress(r)
    BY <1>1, <1>2, <1>7, <1>12, <2>1, GoesAt DEF S, c, id, x
  <2>2. CASE ~HasProgress(r)
    BY <1>1, <1>2, <1>7, <1>12, <2>2, GoesAt DEF S, c, x
  <2> QED
    BY <2>1, <2>2
<1> QED
  BY <1>9, <1>10, <1>11, <1>12

\* What becomes of the comment whose tables have been merged.
LEMMA RemoveShows ==
    ASSUME Typed, NEW r \in Runs, RemoveMerged(r), run[r].listed # {}
    PROVE  \/ Removed(First(run[r].listed).id) /\ Ends(r)
           \/ pr' = pr /\ Ends(r)
           \/ pr' = pr /\ Goes(r, "whole") /\ Faults /\ "remove" \notin Swallows[setting.host]
<1> DEFINE id == First(run[r].listed).id
<1>1. "whole" \in Pcs /\ run \in [Runs -> Records]
  BY DEF Pcs, Typed
<1>2. Call(r, "remove", Without(id), Done(r), At(r, "whole"))
  BY DEF RemoveMerged
<1> HIDE DEF id
<1>3. \/ pr' = Without(id) /\ run'[r] = Done(r)
      \/ pr' = pr /\ run'[r] = Done(r)
      \/ /\ pr' = pr /\ run'[r] = At(r, "whole") /\ Faults
         /\ "remove" \notin Swallows[setting.host]
  BY <1>1, <1>2 DEF Call, Refused, Fails, Faults
<1>4. pr' = Without(id) => Removed(id)
  BY Removing
<1> QED
  BY <1>1, <1>3, <1>4, GoesAt DEF id

-----------------------------------------------------------------------------
(* Tables on top of a history.                                             *)

\* A history is cut, if it is, before the last entry it can be cut at.
LEMMA CutLate ==
    ASSUME NEW h \in Seq(Entries)
    PROVE  \/ Cut(h) = h
           \/ /\ Len(h) >= MaxHistory
              /\ \A n \in 1..Len(h) : n > Len(Cut(h)) + 1 => ~Cuttable(h[n])
<1> DEFINE at == {n \in DOMAIN h : Cuttable(h[n])}
           last == Max(at)
<1>1. DOMAIN h = 1..Len(h) /\ Len(h) \in Nat /\ MaxHistory \in Nat
  BY HistoryAssumption
<1>2. CASE Len(h) < MaxHistory \/ at = {}
  BY <1>2 DEF Cut
<1>3. CASE ~(Len(h) < MaxHistory) /\ at # {}
  <2>1. IsFiniteSet(1..Len(h)) /\ at \in SUBSET (1..Len(h))
    BY <1>1, FS_Interval
  <2>2. IsFiniteSet(at) /\ at \subseteq Nat
    BY <2>1, FS_Subset
  <2>3. last \in at /\ \A n \in at : n <= last
    <3> HIDE DEF at
    <3> QED
      BY <1>3, <2>2, MaxIs
  <2>4. last \in 1..Len(h) /\ \A n \in 1..Len(h) : n > last => ~Cuttable(h[n])
    <3>1. last \in 1..Len(h)
      BY <2>1, <2>3
    <3>2. \A n \in 1..Len(h) : Cuttable(h[n]) => n <= last
      BY <1>1, <2>3
    <3> HIDE DEF last
    <3> QED
      BY <1>1, <3>1, <3>2
  <2>5. Cut(h) = SubSeq(h, 1, last - 1)
    BY <1>3 DEF Cut
  <2> HIDE DEF last, at
  <2>6. Len(SubSeq(h, 1, last - 1)) = last - 1
    BY <1>1, <2>4
  <2> QED
    BY <1>1, <1>3, <2>4, <2>5, <2>6
<1> QED
  BY <1>2, <1>3

LEMMA MergedLate ==
    ASSUME NEW r \in Runs, NEW t \in Seq(Entries), t # <<>>, Table(r, TRUE) \in Entries
    PROVE  LET u == Merged(r, t)
           IN  \/ Len(u) = Len(t) + 1
               \/ /\ Len(t) > MaxHistory
                  /\ \A n \in 2..Len(t) : n > Len(u) => ~Cuttable(t[n])
<1> DEFINE h == Tail(t)
           g == Cut(h)
           a == Table(r, TRUE)
           b == Head(t)
           u == <<a, b>> \o g
<1>1. /\ Len(t) \in Nat \ {0} /\ h \in Seq(Entries) /\ Len(h) = Len(t) - 1
      /\ \A n \in 1..Len(h) : h[n] = t[n + 1]
  OBVIOUS
<1>2. a \in Entries /\ b \in Entries
  BY FirstAndRest
<1> HIDE DEF h
<1>3. /\ g \in Seq(Entries) /\ Len(g) \in Nat
      /\ \/ g = h
         \/ /\ Len(h) >= MaxHistory
            /\ \A n \in 1..Len(h) : n > Len(g) + 1 => ~Cuttable(h[n])
  <2>1. g \in Seq(Entries) /\ Len(g) \in 0..Len(h)
    BY <1>1, CutIs
  <2>2. \/ g = h
        \/ /\ Len(h) >= MaxHistory
           /\ \A n \in 1..Len(h) : n > Len(g) + 1 => ~Cuttable(h[n])
    BY <1>1, CutLate
  <2> QED
    BY <1>1, <2>1, <2>2
<1> HIDE DEF g, a, b
<1>4. Len(u) = Len(g) + 2
  BY <1>2, <1>3, TwoOnTop
<1>5. Merged(r, t) = u
  BY DEF Merged, a, b, g, h
<1> HIDE DEF u
<1>6. CASE g = h
  BY <1>1, <1>4, <1>5, <1>6
<1>7. CASE /\ Len(h) >= MaxHistory
           /\ \A n \in 1..Len(h) : n > Len(g) + 1 => ~Cuttable(h[n])
  <2>1. ASSUME NEW n \in 2..Len(t), n > Len(u) PROVE ~Cuttable(t[n])
    <3>1. n - 1 \in 1..Len(h) /\ n - 1 > Len(g) + 1 /\ (n - 1) + 1 = n
      BY <1>1, <1>3, <1>4, <2>1
    <3> QED
      BY <1>1, <1>7, <3>1
  <2>2. Len(t) > MaxHistory
    BY <1>1, <1>7, HistoryAssumption
  <2> QED
    BY <1>5, <2>1, <2>2
<1> QED
  BY <1>3, <1>6, <1>7

\* The runs above r in a history, with one more run after r, have suggestions.
LEMMA AboveAre ==
    ASSUME Known, NEW r \in Runs, NEW p \in Tables, p > r,
           NEW t \in Seq(Entries), Unlike(p, t), NEW k \in 1..Len(t),
           \A n \in 1..(k - 1) : t[n].of \in Tables /\ t[n].of > r,
           \A m, n \in 1..(k - 1) : m < n => t[m].of # t[n].of
    PROVE  Newer(r) \in Nat /\ k <= Newer(r)
<1> DEFINE S == 1..k
           T == {q \in Tables : q > r}
           f == [n \in S |-> IF n = k THEN p ELSE t[n].of]
<1>1. k \in Nat /\ Len(t) \in Nat /\ \A n \in S : n # k => n \in 1..(k - 1) /\ n \in 1..Len(t)
  OBVIOUS
<1>2. IsFiniteSet(T)
  BY RunsAssumption, FS_Subset DEF Tables
<1>3. IsFiniteSet(S) /\ Cardinality(S) = k
  BY <1>1, FS_Interval
<1>4. f \in Injection(S, T)
  <2>1. f \in [S -> T]
    BY <1>1
  <2>2. \A m, n \in S : f[m] = f[n] => m = n
    <3> SUFFICES ASSUME NEW m \in S, NEW n \in S, m < n PROVE f[m] # f[n]
      BY <1>1
    <3>1. m \in 1..(k - 1) /\ m \in 1..Len(t) /\ f[m] = t[m].of
      BY <1>1
    <3>2. CASE n = k
      BY <3>1, <3>2 DEF Unlike
    <3>3. CASE n # k
      BY <1>1, <3>1, <3>3
    <3> QED
      BY <3>2, <3>3
  <2> HIDE DEF f, S, T
  <2> QED
    BY <2>1, <2>2 DEF Injection, IsInjective
<1>5. k <= Cardinality(T) /\ Cardinality(T) \in Nat
  <2> HIDE DEF f, S, T
  <2> QED
    BY <1>2, <1>3, <1>4, FS_Injection, FS_CardinalityType
<1> QED
  BY <1>5 DEF Newer

\* Runs meet each other.
Mutual == \A q, r \in Runs : q \in run[r].met => r \in run[q].met

LEMMA MutualNext ==
    ASSUME Known, Mutual, [Next]_vars PROVE Mutual'
<1>1. ASSUME \A q \in Runs : run'[q].met = run[q].met PROVE Mutual'
  BY <1>1 DEF Mutual
<1>2. ASSUME NEW r \in Runs, Works(r) PROVE Mutual'
  <2>1. \A q \in Runs : run'[q].met = run[q].met
    BY <1>2, WorkKnows DEF Moves
  <2> QED
    BY <1>1, <2>1
<1>3. ASSUME NEW r \in Runs, Start(r) PROVE Mutual'
  <2>1. /\ run[r].pc = "idle" /\ run'[r].met = {q \in Runs : Active(q)}
        /\ \A q \in Runs \ {r} :
              run'[q].met = IF Active(q) THEN run[q].met \cup {r} ELSE run[q].met
    BY <1>3, StartDoes DEF Known
  <2>2. run[r].met = {} /\ ~Active(r)
    BY <2>1 DEF Known, Knows, Active
  <2>3. \A q \in Runs : r \notin run[q].met
    BY <2>2 DEF Mutual
  <2> SUFFICES ASSUME NEW p \in Runs, NEW q \in Runs, p \in run'[q].met
               PROVE  q \in run'[p].met
    BY DEF Mutual
  <2>4. CASE q = r
    <3>1. Active(p) /\ p # r
      BY <2>1, <2>2, <2>4
    <3> QED
      BY <2>1, <2>4, <3>1
  <2>5. CASE q # r /\ p = r
    BY <2>1, <2>3, <2>5
  <2>6. CASE q # r /\ p # r
    <3>1. p \in run[q].met
      BY <2>1, <2>6
    <3>2. q \in run[p].met
      BY <3>1 DEF Mutual
    <3> QED
      BY <2>1, <2>6, <3>2
  <2> QED
    BY <2>4, <2>5, <2>6
<1>4. CASE UNCHANGED run
  BY <1>1, <1>4
<1> QED
  BY <1>2, <1>3, <1>4, UsersDo DEF Known, Next, Works, vars

\* A run that met no other stays in a history it is in, unless enough runs
\* after it have suggestions.
LEMMA KeptMerged ==
    ASSUME Known, Ordered, Mutual, NEW r \in Runs, ~Excused(r),
           NEW p \in Runs \ {r}, Active(p), p \in Tables, setting.persistent,
           NEW t \in Seq(Entries), t # <<>>, Good(t), Unlike(p, t), Noted(t)
    PROVE  Unlike(r, t) <=> Unlike(r, Merged(p, t))
<1> DEFINE u == Merged(p, t)
<1>1. Table(p, TRUE) \in Entries /\ Table(p, TRUE).of = p
  BY DEF Table, Entries
<1>2. /\ u \in Seq(Entries) /\ Len(u) \in 2..(Len(t) + 1)
      /\ u[1] = Table(p, TRUE) /\ \A n \in 2..Len(u) : u[n] = t[n - 1]
      /\ Len(t) \in Nat /\ Len(u) \in Nat
  BY <1>1, MergedIs, OfIs
<1>3. \/ Len(u) = Len(t) + 1
      \/ /\ Len(t) > MaxHistory
         /\ \A n \in 2..Len(t) : n > Len(u) => ~Cuttable(t[n])
  BY <1>1, MergedLate
<1> HIDE DEF u
<1>4. ASSUME Unlike(r, t) PROVE Unlike(r, u)
  <2> SUFFICES ASSUME NEW n \in 1..Len(u) PROVE u[n].of # r
    BY DEF Unlike
  <2>1. CASE n = 1
    BY <1>1, <1>2, <2>1
  <2>2. CASE n # 1
    <3>1. n \in 2..Len(u) /\ n - 1 \in 1..Len(t)
      BY <1>2, <2>2
    <3> QED
      BY <1>2, <1>4, <3>1 DEF Unlike
  <2> QED
    BY <2>1, <2>2
<1>5. ASSUME NEW k \in 1..Len(t), t[k].of = r PROVE ~Unlike(r, u)
  <2>1. CASE k + 1 <= Len(u)
    <3>1. k + 1 \in 2..Len(u) /\ k + 1 \in 1..Len(u) /\ (k + 1) - 1 = k
      BY <1>2, <2>1
    <3>2. u[k + 1].of = r
      BY <1>2, <1>5, <3>1
    <3> QED
      BY <3>1, <3>2 DEF Unlike
  <2>2. CASE k >= Len(u)
    <3>1. run[r].met = {} /\ run[r].pc # "idle"
      BY <1>5 DEF Excused, Good, Begun, Early
    <3>2. p > r
      <4>1. p \in Nat /\ r \in Nat
        BY RunsAssumption
      <4>2. ~(p < r)
        BY <3>1 DEF Ordered, Meetings
      <4> QED
        BY <4>1, <4>2
    <3>3. \A n \in 1..Len(t) : t[n].of \in Tables /\ t[n].of \in Runs
      BY DEF Noted, Tables
    <3>4. \A n \in 1..(k - 1) : t[n].of \in Tables /\ t[n].of > r
      <4> SUFFICES ASSUME NEW n \in 1..(k - 1) PROVE t[n].of > r
        BY <1>2, <3>3
      <4>1. n \in 1..Len(t) /\ n < k /\ t[n].of \in Runs
        BY <1>2, <3>3
      <4>2. t[n].of > r \/ ~Apart(t[n].of, r)
        BY <1>5, <4>1 DEF Good, Sorted
      <4>3. Apart(t[n].of, r)
        BY <3>1, <4>1 DEF Apart, Mutual
      <4> QED
        BY <4>2, <4>3
    <3>5. \A m, n \in 1..(k - 1) : m < n => t[m].of # t[n].of
      <4>1. \A n \in 1..(k - 1) : n \in 1..Len(t)
        BY <1>2
      <4> QED
        BY <4>1 DEF Good, Sorted
    <3>6. Newer(r) \in Nat /\ k <= Newer(r)
      BY <3>2, <3>3, <3>4, <3>5, AboveAre
    <3>7. Len(t) > MaxHistory /\ \A n \in 2..Len(t) : n > Len(u) => ~Cuttable(t[n])
      BY <1>2, <1>3, <2>2
    <3>8. ASSUME NEW n \in 2..Len(t), n > Len(u) PROVE n = Len(t) /\ Uncounted = 1
      <4>1. ~t[n].tick
        BY <3>3 DEF Noted, Excused
      <4>2. ~t[n].linked
        BY <3>7, <3>8, <4>1 DEF Cuttable
      <4> QED
        BY <1>2, <4>2 DEF Noted
    <3>9. Uncounted \in {0, 1}
      BY DEF Uncounted
    <3>10. Len(u) >= Len(t) - Uncounted
      <4>1. CASE Len(u) >= Len(t)
        BY <1>2, <3>9, <4>1
      <4>2. CASE Len(u) < Len(t)
        <5>1. Len(u) + 1 \in 2..Len(t) /\ Len(u) + 1 > Len(u)
          BY <1>2, <4>2
        <5>2. Len(u) + 1 = Len(t) /\ Uncounted = 1
          BY <3>8, <5>1
        <5> QED
          BY <1>2, <5>2
      <4> QED
        BY <1>2, <4>1, <4>2
    <3>11. ~(Newer(r) > MaxHistory - Uncounted)
      BY DEF Excused
    <3> QED
      BY <1>2, <2>2, <3>6, <3>7, <3>9, <3>10, <3>11, HistoryAssumption
  <2> QED
    BY <1>2, <2>1, <2>2
<1> QED
  BY <1>4, <1>5 DEF Unlike, u

\* What the tables of a run tell of it.
LEMMA NotedSingle ==
    ASSUME NEW p \in Tables, NEW linked \in BOOLEAN,
           setting.persistent /\ ~linked => Uncounted = 1
    PROVE  Noted(<<Table(p, linked)>>)
<1> DEFINE a == Table(p, linked)
           t == <<a>>
<1>1. a.of = p /\ a.linked = linked /\ (a.tick => run[p].said = "tick")
  BY DEF Table
<1> HIDE DEF a
<1>2. Len(t) = 1 /\ t[1] = a
  OBVIOUS
<1> HIDE DEF t
<1>3. Noted(t)
  BY <1>1, <1>2 DEF Noted
<1> QED
  BY <1>3 DEF t, a

LEMMA NotedMerged ==
    ASSUME NEW p \in Tables, NEW t \in Seq(Entries), t # <<>>, Noted(t)
    PROVE  Noted(Merged(p, t))
<1> DEFINE a == Table(p, TRUE)
           u == Merged(p, t)
<1>1. p \in Runs /\ a \in Entries /\ a.of = p /\ a.linked /\ (a.tick => run[p].said = "tick")
  BY DEF Table, Entries, Tables
<1>2. /\ u \in Seq(Entries) /\ Len(u) \in 2..(Len(t) + 1)
      /\ u[1] = a /\ \A n \in 2..Len(u) : u[n] = t[n - 1]
      /\ Len(t) \in Nat /\ Len(u) \in Nat
  BY <1>1, MergedIs, OfIs
<1> HIDE DEF u, a
<1>3. ASSUME NEW n \in 1..Len(u)
      PROVE  /\ u[n].of \in Tables
             /\ u[n].tick => run[u[n].of].said = "tick"
             /\ setting.persistent /\ ~u[n].linked => n = Len(u) /\ Uncounted = 1
  <2>1. CASE n = 1
    BY <1>1, <1>2, <2>1
  <2>2. CASE n # 1
    <3>1. n - 1 \in 1..Len(t) /\ u[n] = t[n - 1] /\ (n - 1 = Len(t) => n = Len(u))
      BY <1>2, <2>2
    <3> QED
      BY <3>1 DEF Noted
  <2> QED
    BY <2>1, <2>2
<1> QED
  BY <1>3 DEF Noted, u

-----------------------------------------------------------------------------
(* What a step of the improve tool does to comments.                       *)

\* What r has to show, in a comment of the kind k.
Result(r, k, tables) ==
    \/ k = "none" /\ tables = <<>> /\ Uncounted = 1
    \/ /\ k = "table" /\ r \in Tables
       /\ \E linked \in BOOLEAN :
             /\ tables = <<Table(r, linked)>>
             /\ setting.persistent /\ ~linked => Uncounted = 1

\* Nothing but the temporary comment goes.
Leaves(r) ==
    /\ pr'.comments = pr.comments \/ Removed(<<r, "temp">>)
    /\ run'[r].pc # "unlist"

\* A comment appears that tells of the run alone.
Tells(r) ==
    \E k \in {"temp", "progress", "failed"} :
        /\ Puts(r, k, <<>>)
        /\ IF k = "failed" THEN run[r].pc = "tell" ELSE run[r].pc = "prepare"
        /\ k = "progress" => ~setting.auto
        /\ run'[r].pc # "unlist"

Displays(r) ==
    \E k \in {"none", "table"}, tables \in Seq(Entries) :
        /\ Result(r, k, tables) /\ Ends(r) /\ run[r].pc \in Unshown
        /\ \/ HasProgress(r) /\ Becomes(ProgressId(r), k, tables)
           \/ Puts(r, k, tables)

Overwrites(r) ==
    \E c \in run[r].listed :
        /\ run[r].pc = "merge" /\ c.kind = "none"
        /\ Becomes(c.id, "table", <<Table(r, FALSE)>>)
        /\ GoesWith(r, "merge", run[r].listed \ {c})

Merges(r) ==
    LET c == First(run[r].listed)
    IN  /\ run[r].pc = "merge" /\ c \in run[r].listed /\ c \in Notes /\ c.kind = "table"
        /\ \/ /\ HasProgress(r) /\ Becomes(ProgressId(r), "table", Merged(r, c.tables))
              /\ Goes(r, "unlist")
           \/ /\ ~HasProgress(r) /\ Becomes(c.id, "table", Merged(r, c.tables))
              /\ Ends(r)

Removes(r) ==
    /\ Ends(r)
    /\ \/ HasProgress(r) /\ run[r].pc \in Unshown /\ Removed(ProgressId(r))
       \/ run[r].pc = "unlist" /\ Removed(First(run[r].listed).id)

Effects(r) ==
    Leaves(r) \/ Tells(r) \/ Displays(r) \/ Overwrites(r) \/ Merges(r) \/ Removes(r)

LEMMA ImproveEffects ==
    ASSUME Known, Improves, NEW r \in Runs, Works(r), run[r].tool = "improve"
    PROVE  Slips' \/ Effects(r)
<1>1. /\ Typed /\ Knows(r) /\ ImproveKnows(r) /\ Directed(r) /\ ImproveStep(r)
      /\ Slips \/ Pending(r)
  BY DEF Known, Knows, Improves, Works, Step
<1>2. ASSUME pr' = pr, run'[r].pc # "unlist" PROVE Leaves(r)
  BY <1>2 DEF Leaves
<1>3. ASSUME NEW k \in {"temp", "failed"}, Appears(r, k, k), run'[r].pc # "unlist",
             IF k = "failed" THEN run[r].pc = "tell" ELSE run[r].pc = "prepare"
      PROVE  Tells(r)
  <2>1. Puts(r, k, <<>>)
    BY <1>3, PutsNothing DEF Names
  <2> QED
    BY <1>3, <2>1 DEF Tells
<1>4. ASSUME NEW k \in {"table", "none"}, NEW tables \in Seq(Entries), Result(r, k, tables),
             k = "table" <=> tables # <<>>, run[r].pc \in Unshown,
             Show(r, k, tables, Done(r), At(r, "failed"))
      PROVE  Effects(r)
  <2>1. /\ Ends(r) \/ Goes(r, "failed")
        /\ \/ HasProgress(r) /\ Becomes(ProgressId(r), k, tables) /\ Ends(r)
           \/ ~HasProgress(r) /\ Puts(r, k, tables) /\ Ends(r)
           \/ Same
    BY <1>1, <1>4, TablesShown
  <2>2. CASE Same
    <3>1. run'[r].pc # "unlist" /\ pr' = pr
      BY <2>1, <2>2 DEF Ends, Goes, Same
    <3> QED
      BY <1>2, <3>1 DEF Effects
  <2>3. CASE Ends(r) /\ ((HasProgress(r) /\ Becomes(ProgressId(r), k, tables)) \/ Puts(r, k, tables))
    <3>1. Displays(r)
      BY <1>4, <2>3 DEF Displays
    <3> QED
      BY <3>1 DEF Effects
  <2> QED
    BY <2>1, <2>2, <2>3
<1>5. CASE PrepareImprove(r)
  <2>1. run[r].pc = "prepare" /\ run'[r].pc # "unlist"
    BY <1>1, <1>5, PrepareImproveDoes DEF Goes
  <2>2. CASE setting.host \in Gfm
    <3>1. pr' = pr \/ (Puts(r, "progress", <<>>) /\ ~setting.auto)
      BY <1>1, <1>5, <2>2, PrepareShows
    <3>2. Leaves(r) \/ Tells(r)
      BY <1>2, <2>1, <3>1 DEF Tells
    <3> QED
      BY <3>2 DEF Effects
  <2>3. CASE setting.host \notin Gfm
    <3>1. pr' = pr \/ Appears(r, "temp", "temp")
      BY <1>1, <1>5, <2>3, PrepareImproveDoes DEF Same
    <3> QED
      BY <1>2, <1>3, <2>1, <3>1 DEF Effects
  <2> QED
    BY <2>2, <2>3
<1>6. CASE PredictImprove(r)
  <2>1. pr' = pr /\ run'[r].pc # "unlist"
    BY <1>1, <1>6, PredictImproveDoes DEF Goes, Same
  <2> QED
    BY <1>2, <2>1 DEF Effects
<1>7. CASE NoSuggestions(r)
  <2>1. CASE setting.quiet
    <3>1. pr' = pr /\ run'[r].pc # "unlist"
      <4>1. Moves(r) /\ ((Same /\ Ends(r)) \/ ~setting.quiet)
        BY <1>1, <1>7, NoSuggestionsDoes
      <4> QED
        BY <2>1, <4>1 DEF Ends, Same
    <3> QED
      BY <1>2, <3>1 DEF Effects
  <2>2. CASE ~setting.quiet
    <3> DEFINE tables == <<>>
    <3>1. /\ Show(r, "none", tables, Done(r), At(r, "failed"))
          /\ run[r].pc = "none" /\ tables \in Seq(Entries) /\ tables = <<>>
      BY <1>7, <2>2 DEF NoSuggestions
    <3>2. Uncounted = 1
      BY <1>1, <3>1 DEF ImproveKnows, Uncounted
    <3>3. Result(r, "none", tables) /\ run[r].pc \in Unshown
      BY <3>1, <3>2 DEF Result, Unshown
    <3> HIDE DEF tables
    <3> QED
      BY <1>4, <3>1, <3>3
  <2> QED
    BY <2>1, <2>2
<1>8. CASE FoundSuggestions(r)
  <2>1. Leaves(r)
    BY <1>1, <1>8, FoundSuggestionsDoes DEF Leaves, Goes, Same
  <2> QED
    BY <2>1 DEF Effects
<1>9. CASE PushInline(r)
  <2>1. \/ pr' = pr /\ run'[r].pc # "unlist"
        \/ run[r].pc = "unprogress" /\ Removed(ProgressId(r)) /\ Ends(r)
    BY <1>1, <1>9, PushInlineDoes DEF Goes, Ends, Same
  <2>2. run[r].pc = "unprogress" => HasProgress(r) /\ run[r].pc \in Unshown
    BY <1>1 DEF Directed, Unshown
  <2> QED
    BY <1>2, <2>1, <2>2 DEF Effects, Removes
<1>10. CASE PublishSingle(r) \/ PublishTable(r)
  <2>1. PICK linked \in BOOLEAN :
           /\ Show(r, "table", <<Table(r, linked)>>, Done(r), At(r, "failed"))
           /\ linked \/ run[r].pc = "single"
    BY <1>10 DEF PublishSingle, PublishTable
  <2>2. run[r].pc \in {"single", "whole"}
    BY <1>10 DEF PublishSingle, PublishTable
  <2>3. r \in Tables /\ (setting.persistent /\ ~linked => Uncounted = 1)
    BY <1>1, <2>1, <2>2 DEF Directed, ToPublish
  <2> DEFINE tables == <<Table(r, linked)>>
  <2>4. tables \in Seq(Entries) /\ tables # <<>>
    BY <1>1, TablesAre
  <2>5. Result(r, "table", tables) /\ run[r].pc \in Unshown
    BY <2>2, <2>3 DEF Result, Unshown
  <2>6. Show(r, "table", tables, Done(r), At(r, "failed"))
    BY <2>1
  <2> HIDE DEF tables
  <2> QED
    BY <1>4, <2>4, <2>5, <2>6
<1>11. CASE LookForSuggestions(r)
  <2>1. pr' = pr /\ run'[r].pc # "unlist"
    BY <1>1, <1>11, LookForSuggestionsDoes DEF Goes, GoesWith, Same
  <2> QED
    BY <1>2, <2>1 DEF Effects
<1>12. CASE OverwriteNone(r)
  <2>1. /\ run[r].pc = "merge" /\ run'[r].pc # "unlist"
    BY <1>1, <1>12, OverwriteNoneDoes DEF Goes, GoesWith
  <2>2. pr' = pr \/ Overwrites(r)
    BY <1>1, <1>12, <2>1, OverwriteShows DEF Overwrites
  <2> QED
    BY <1>2, <2>1, <2>2 DEF Effects
<1>13. CASE MergeInto(r)
  <2>1. Moves(r) /\ run[r].pc = "merge"
    BY <1>1, <1>13, MergeIntoDoes
  <2>2. \/ Merges(r)
        \/ pr' = pr /\ run'[r].pc # "unlist"
        \/ HasProgress(r) /\ ProgressId(r) \notin Ids
        \/ HasProgress(r) /\ Faults /\ "edit" \in Swallows[setting.host]
    <3> DEFINE c == First(run[r].listed)
    <3>1. /\ c \in run[r].listed /\ c \in Notes /\ c.kind = "table"
          /\ \/ /\ HasProgress(r) /\ Becomes(ProgressId(r), "table", Merged(r, c.tables))
                /\ Goes(r, "unlist")
             \/ /\ ~HasProgress(r) /\ Becomes(c.id, "table", Merged(r, c.tables))
                /\ Ends(r)
             \/ /\ pr' = pr
                /\ \/ Goes(r, "whole") \/ Ends(r)
                   \/ /\ Goes(r, "unlist") /\ HasProgress(r)
                      /\ ProgressId(r) \notin Ids
                            \/ (Faults /\ "edit" \in Swallows[setting.host])
      BY <1>1, <1>13, MergeShows
    <3>2. (Goes(r, "whole") \/ Ends(r)) => run'[r].pc # "unlist"
      BY DEF Goes, Ends
    <3> QED
      BY <2>1, <3>1, <3>2 DEF Merges
  <2>3. ASSUME HasProgress(r), ProgressId(r) \notin Ids PROVE Slips
    BY <1>1, <2>1, <2>3 DEF Pending, Unshown, Ids
  <2>4. ASSUME HasProgress(r), Faults, "edit" \in Swallows[setting.host] PROVE Slips'
    BY <1>1, <2>1, <2>4, RunsAssumption DEF HasProgress, Faults, Slips, Moves, Typed
  <2>5. Slips => Slips'
    BY <1>1, <2>1, RunsAssumption DEF Slips, Moves, Typed
  <2> QED
    BY <1>2, <2>2, <2>3, <2>4, <2>5 DEF Effects
<1>14. CASE RemoveMerged(r)
  <2>1. run[r].pc = "unlist" /\ run[r].listed # {}
    BY <1>1, <1>14 DEF RemoveMerged, ImproveKnows
  <2>2. \/ Removed(First(run[r].listed).id) /\ Ends(r)
        \/ pr' = pr /\ run'[r].pc # "unlist"
    BY <1>1, <1>14, <2>1, RemoveShows DEF Goes, Ends
  <2> QED
    BY <1>2, <2>1, <2>2 DEF Effects, Removes
<1>15. CASE NothingToMerge(r)
  <2>1. pr' = pr /\ run'[r].pc # "unlist"
    BY <1>1, <1>15, NothingToMergeDoes DEF Goes, Same
  <2> QED
    BY <1>2, <2>1 DEF Effects
<1>16. CASE ImproveFailed(r)
  <2>1. \/ /\ run[r].pc = "failed" /\ HasProgress(r) /\ Ends(r)
           /\ Removed(ProgressId(r)) \/ pr' = pr
        \/ /\ run[r].pc = "failed" /\ Goes(r, "tell")
           /\ Removed(<<r, "temp">>) \/ pr' = pr
        \/ /\ run[r].pc = "tell" /\ Ends(r)
           /\ Appears(r, "failed", "failed") \/ pr' = pr
    BY <1>1, <1>16, ImproveFailedDoes DEF Same
  <2>2. run'[r].pc # "unlist"
    BY <2>1 DEF Goes, Ends
  <2>3. Leaves(r) \/ Tells(r) \/ Removes(r)
    BY <1>2, <1>3, <2>1, <2>2 DEF Leaves, Removes, Unshown
  <2> QED
    BY <2>3 DEF Effects
<1> QED
  BY <1>1, <1>5, <1>6, <1>7, <1>8, <1>9, <1>10, <1>11, <1>12, <1>13, <1>14, <1>15, <1>16
     DEF ImproveStep

\* The way of a run, and when it comes to have a progress comment to fill.
LEMMA ImproveDirects ==
    ASSUME Known, Improves, NEW r \in Runs, Works(r), run[r].tool = "improve"
    PROVE  /\ Directed(r)'
           /\ HasProgress(r)' /\ run'[r].pc \in Unshown =>
                 \/ HasProgress(r) /\ run[r].pc \in Unshown
                 \/ run[r].pc = "prepare" /\ Puts(r, "progress", <<>>)
                 \/ Slips'
<1>1. /\ Typed /\ Knows(r) /\ ImproveKnows(r) /\ Directed(r) /\ ImproveStep(r)
      /\ Moves(r) /\ setting' = setting /\ (r \in Tables => r \in Tables')
  <2>1. Moves(r)
    BY WorkKnows
  <2>2. Next
    BY DEF Works, Next
  <2> QED
    BY <2>1, <2>2, TablesStay DEF Known, Knows, Improves, Works, Step, Moves
<1> DEFINE Goal == /\ Directed(r)'
                   /\ HasProgress(r)' /\ run'[r].pc \in Unshown =>
                         \/ HasProgress(r) /\ run[r].pc \in Unshown
                         \/ run[r].pc = "prepare" /\ Puts(r, "progress", <<>>)
                         \/ Slips'
           late == {"look", "merge", "unlist", "whole"}
           progressing == {"predict", "found", "look", "merge"}
<1>2. ASSUME run'[r].kind = run[r].kind, run'[r].pc \notin {"idle", "prepare", "predict"},
             run'[r].pc \in ToPublish => run[r].pc \in ToPublish \/ r \in Tables',
             run'[r].pc \in late =>
                run[r].pc \in late \/ (setting.persistent /\ setting.host \in Gfm),
             run'[r].pc \in progressing => run[r].pc \in progressing,
             run'[r].pc = "single" => ~setting.persistent,
             run'[r].pc \in {"unprogress", "unlist"} => HasProgress(r),
             run'[r].pc = "done" => run'[r].listed = {},
             run'[r].pc \in Unshown => run[r].pc \in Unshown \/ Slips' \/ ~HasProgress(r)
      PROVE  Goal
  <2>1. HasProgress(r)' <=> HasProgress(r)
    BY <1>1, <1>2 DEF HasProgress
  <2>2. Directed(r)'
    BY <1>1, <1>2, <2>1 DEF Directed, Active
  <2> QED
    BY <1>2, <2>1, <2>2
<1> HIDE DEF Goal
<1> SUFFICES Goal
  BY DEF Goal
<1>3. CASE PrepareImprove(r)
  <2>1. run[r].pc = "prepare" /\ run[r].kind = "none"
    BY <1>1, <1>3, PrepareImproveDoes DEF Directed
  <2>2. CASE run'[r].pc = "predict" /\ setting.host \in Gfm /\ run'[r].kind = "progress"
    <3>1. Directed(r)'
      BY <1>1, <2>2 DEF Directed, ToPublish, Active
    <3>2. setting.auto \/ Puts(r, "progress", <<>>)
      BY <1>1, <1>3, <2>2, PrepareShows DEF Goes
    <3>3. setting.auto => ~HasProgress(r)'
      BY <1>1 DEF HasProgress
    <3> QED
      BY <2>1, <3>1, <3>2, <3>3 DEF Goal
  <2>3. CASE /\ run'[r].kind = run[r].kind
             /\ run'[r].pc = "failed" \/ (run'[r].pc = "predict" /\ setting.host \notin Gfm)
    <3>1. ~HasProgress(r)'
      BY <1>1, <2>1, <2>3 DEF HasProgress
    <3>2. Directed(r)'
      BY <1>1, <2>3 DEF Directed, ToPublish, Active
    <3> QED
      BY <3>1, <3>2 DEF Goal
  <2>4. \/ setting.host \in Gfm /\ run'[r].pc = "predict" /\ run'[r].kind = "progress"
        \/ setting.host \notin Gfm /\ Goes(r, "predict")
        \/ Goes(r, "failed")
    BY <1>1, <1>3, PrepareImproveDoes
  <2> QED
    BY <2>2, <2>3, <2>4 DEF Goes
<1>4. CASE PredictImprove(r)
  <2>1. /\ run[r].pc = "predict" /\ run'[r].kind = run[r].kind
        /\ run'[r].pc \in {"failed", "none", "found"}
        /\ run'[r].pc = "found" => run'[r].said \in {"plain", "tick"}
    BY <1>1, <1>4, PredictImproveDoes DEF Goes
  <2>2. run'[r].pc = "found" => r \in Tables'
    BY <2>1 DEF Tables
  <2> QED
    BY <1>2, <2>1, <2>2 DEF ToPublish, Unshown
<1>5. CASE NoSuggestions(r)
  <2>1. /\ run[r].pc = "none" /\ run'[r].kind = run[r].kind
        /\ run'[r].pc \in {"failed", "done"} /\ (run'[r].pc = "done" => run'[r].listed = {})
    BY <1>1, <1>5, NoSuggestionsDoes DEF Goes, Ends
  <2> QED
    BY <1>2, <2>1 DEF ToPublish, Unshown
<1>6. CASE FoundSuggestions(r)
  <2>1. /\ run[r].pc = "found" /\ run'[r].kind = run[r].kind
        /\ run'[r].pc \in {"inline", "look", "single"}
    BY <1>1, <1>6, FoundSuggestionsDoes DEF Goes
  <2>2. /\ run'[r].pc = "look" => setting.persistent /\ setting.host \in Gfm
        /\ run'[r].pc = "single" => ~setting.persistent
    BY <1>1, <1>6, FoundDirects
  <2> QED
    BY <1>2, <2>1, <2>2 DEF ToPublish, Unshown
<1>7. CASE PushInline(r)
  <2>1. /\ run[r].pc \in {"inline", "unprogress"} /\ run'[r].kind = run[r].kind
        /\ run'[r].pc \in {"unprogress", "failed", "done"}
        /\ run'[r].pc = "unprogress" => HasProgress(r)
        /\ run'[r].pc = "done" => run'[r].listed = {}
    BY <1>1, <1>7, PushInlineDoes DEF Goes, Ends
  <2> QED
    BY <1>2, <2>1 DEF ToPublish, Unshown
<1>8. CASE PublishSingle(r) \/ PublishTable(r)
  <2>1. /\ run[r].pc \in {"single", "whole"} /\ run'[r].kind = run[r].kind
        /\ run'[r].pc \in {"failed", "done"} /\ (run'[r].pc = "done" => run'[r].listed = {})
    BY <1>1, <1>8, PublishTablesDo DEF Goes, Ends
  <2> QED
    BY <1>2, <2>1 DEF ToPublish, Unshown
<1>9. CASE LookForSuggestions(r)
  <2>1. /\ run[r].pc = "look" /\ run'[r].kind = run[r].kind
        /\ run'[r].pc \in {"merge", "whole"}
    BY <1>1, <1>9, LookForSuggestionsDoes DEF Goes, GoesWith
  <2> QED
    BY <1>2, <2>1 DEF ToPublish, Unshown
<1>10. CASE OverwriteNone(r)
  <2>1. /\ run[r].pc = "merge" /\ run'[r].kind = run[r].kind
        /\ run'[r].pc \in {"merge", "whole"}
    BY <1>1, <1>10, OverwriteNoneDoes DEF Goes, GoesWith
  <2> QED
    BY <1>2, <2>1 DEF ToPublish, Unshown
<1>11. CASE MergeInto(r)
  <2>1. /\ run[r].pc = "merge" /\ run'[r].kind = run[r].kind
        /\ run'[r].pc \in {"unlist", "whole", "done"}
        /\ run'[r].pc = "unlist" => HasProgress(r)
        /\ run'[r].pc = "done" => run'[r].listed = {}
    BY <1>1, <1>11, MergeIntoDoes DEF Goes, Ends
  <2> QED
    BY <1>2, <2>1 DEF ToPublish, Unshown
<1>12. CASE RemoveMerged(r)
  <2>1. run[r].pc = "unlist" /\ run[r].listed # {} /\ setting.host \in Gfm
    BY <1>1, <1>12 DEF RemoveMerged, ImproveKnows, Directed
  <2>2. /\ run'[r].kind = run[r].kind /\ run'[r].pc \in {"done", "whole"}
        /\ run'[r].pc = "done" => run'[r].listed = {}
        /\ run'[r].pc = "whole" => Faults /\ "remove" \notin Swallows[setting.host]
    BY <1>1, <1>12, <2>1, RemoveShows DEF Goes, Ends
  <2>3. run'[r].pc = "whole" => Slips' \/ ~HasProgress(r)
    BY <1>1, <2>1, <2>2, Swallowing, RunsAssumption DEF Slips, Faults, HasProgress, Typed
  <2> QED
    BY <1>2, <2>1, <2>2, <2>3 DEF ToPublish, Unshown
<1>13. CASE NothingToMerge(r)
  <2>1. run[r].pc = "merge" /\ run'[r].kind = run[r].kind /\ run'[r].pc = "whole"
    BY <1>1, <1>13, NothingToMergeDoes DEF Goes
  <2> QED
    BY <1>2, <2>1 DEF ToPublish, Unshown
<1>14. CASE ImproveFailed(r)
  <2>1. /\ run'[r].kind = run[r].kind /\ run'[r].pc \in {"tell", "done"}
        /\ run'[r].pc = "done" => run'[r].listed = {}
    BY <1>1, <1>14, ImproveFailedDoes DEF Goes, Ends
  <2> QED
    BY <1>2, <2>1 DEF ToPublish, Unshown
<1> QED
  BY <1>1, <1>3, <1>4, <1>5, <1>6, <1>7, <1>8, <1>9, <1>10, <1>11, <1>12, <1>13, <1>14
     DEF ImproveStep

-----------------------------------------------------------------------------
(* The steps of the other tools and of the users.                          *)

\* What the other tools do to comments.
LEMMA OtherComments ==
    ASSUME Known, NEW p \in Runs, Works(p), run[p].tool # "improve"
    PROVE  \/ pr'.comments = pr.comments
           \/ \E k \in {"temp", "review", "title", "notice"} :
                 /\ Appears(p, k, k)
                 /\ IF k = "temp" THEN run[p].pc = "prepare"
                    ELSE run[p].pc \notin {"cleanup", "done"}
           \/ \E c \in Previous(p) : Edited(c.id, c.kind) /\ c.kind \in Whole
           \/ Removed(<<p, "temp">>)
<1>1. Typed
  BY DEF Known
<1>2. CASE ListComments(p)
  BY <1>1, <1>2, ListCommentsDoes DEF Same
<1>3. CASE UpdatePersistent(p)
  <2>1. run[p].kind \in Whole
    BY <1>3, PersistComments DEF Persist, UpdatePersistent
  <2>2. \A c \in Previous(p) : c.kind \in Whole
    BY <2>1 DEF Previous, Headed, Header, Whole
  <2>3. pr'.comments = pr.comments \/ \E c \in Previous(p) : Edited(c.id, c.kind)
    BY <1>1, <1>3, UpdatePersistentDoes DEF Same
  <2> QED
    BY <2>2, <2>3
<1>4. CASE AnnounceUpdate(p)
  BY <1>1, <1>4, AnnounceUpdateDoes DEF Same
<1>5. CASE PublishWhole(p)
  <2>1. run[p].kind \in {"review", "title"}
    BY <1>5, PersistComments DEF PublishWhole, Persist, Whole
  <2> QED
    BY <1>1, <1>5, <2>1, PublishWholeDoes DEF Same
<1>6. CASE Cleanup(p)
  BY <1>1, <1>6, CleanupStepDoes DEF Same
<1>7. CASE ReviewStep(p)
  <2>1. CASE PrepareReview(p)
    BY <1>1, <2>1, PrepareDoes DEF Same
  <2>2. CASE PredictReview(p)
    BY <1>1, <2>2, PredictReviewDoes DEF Same
  <2>3. CASE SetReviewLabels(p)
    BY <1>1, <2>3, SetReviewLabelsDoes DEF Writes, Relabels, Same
  <2>4. CASE ReportReview(p)
    BY <1>1, <2>4, ReportReviewDoes DEF Same
  <2> QED
    BY <1>7, <2>1, <2>2, <2>3, <2>4 DEF ReviewStep
<1>8. CASE DescribeStep(p)
  <2>1. CASE PrepareDescribe(p)
    BY <1>1, <2>1, PrepareDoes DEF Same
  <2>2. CASE PredictDescribe(p)
    BY <1>1, <2>2, PredictDescribeDoes DEF Same
  <2>3. CASE SetTypeLabels(p)
    BY <1>1, <2>3, SetTypeLabelsDoes DEF Writes, Relabels, Same
  <2>4. CASE WriteDescription(p)
    BY <1>1, <2>4, WriteDescriptionDoes
  <2>5. CASE TellDescription(p)
    BY <1>1, <2>5, TellDescriptionDoes DEF Same
  <2> QED
    BY <1>8, <2>1, <2>2, <2>3, <2>4, <2>5 DEF DescribeStep
<1> QED
  BY <1>2, <1>3, <1>4, <1>5, <1>6, <1>7, <1>8 DEF Works, Step, Persist

\* The step is none of the improve tool: what appears or goes has no tables,
\* and nothing that a run of it has read.
Aside ==
    /\ \A q \in Runs : run[q].tool = "improve" =>
          /\ run'[q].kind = run[q].kind /\ run'[q].listed = run[q].listed
          /\ run'[q].pc = run[q].pc \/ (run[q].pc = "idle" /\ run'[q].pc = "prepare")
    /\ \A e \in pr'.comments :
          \/ e \in pr.comments
          \/ /\ e.tables = <<>> /\ Plain(e)
             /\ \A q \in Runs : run[q].tool = "improve" =>
                   \A c \in run[q].listed : c.id # e.id
    /\ \A d \in pr.comments :
          d \in pr'.comments \/ (d.tables = <<>> /\ d.kind # "progress")

LEMMA NotedEmpty == Noted(<<>>)
  BY DEF Noted

LEMMA AsideOrImprove ==
    ASSUME Known, Identified, Shaped, Improves, [Next]_vars
    PROVE  Aside \/ \E p \in Runs : Works(p) /\ run[p].tool = "improve"
<1>1. ASSUME pr'.comments = pr.comments,
             \A q \in Runs :
                /\ run'[q].kind = run[q].kind /\ run'[q].listed = run[q].listed
                /\ run'[q].pc = run[q].pc \/ (run[q].pc = "idle" /\ run'[q].pc = "prepare")
      PROVE  Aside
  BY <1>1 DEF Aside
<1>2. ASSUME NEW p \in Runs, Works(p), run[p].tool # "improve" PROVE Aside
  <2>1. \A q \in Runs : run[q].tool = "improve" => run'[q] = run[q]
    BY <1>2, WorkKnows DEF Moves
  <2>2. pr'.comments \subseteq Notes
    BY <1>2, WorkKnows DEF Requests, Listings
  <2>3. pr.comments \subseteq Notes
    BY CommentsAre DEF Known
  <2>4. \A q \in Runs : run[q].tool = "improve" =>
           \A c \in run[q].listed :
              Fresh(c) /\ c.id[2] # "temp" /\ c.id[2] \notin Whole
    <3> SUFFICES ASSUME NEW q \in Runs, run[q].tool = "improve", NEW c \in run[q].listed
                 PROVE  Fresh(c) /\ c.id[2] # "temp" /\ c.id[2] \notin Whole
      OBVIOUS
    <3>1. c.kind \in {"none", "table"} /\ Shape(c) /\ Plain(c) /\ Fresh(c)
      BY DEF Known, Knows, ImproveKnows, Shaped, Improves
    <3> QED
      BY <3>1 DEF Plain, Shape, Whole
  <2>5. CASE pr'.comments = pr.comments
    BY <1>1, <2>1, <2>5 DEF Aside
  <2>6. ASSUME NEW k \in {"temp", "review", "title", "notice"}, Appears(p, k, k),
               IF k = "temp" THEN run[p].pc = "prepare" ELSE run[p].pc \notin {"cleanup", "done"}
        PROVE  Aside
    <3>1. PICK e \in Notes : /\ e.id = <<p, k>> /\ e.kind = k
                             /\ pr'.comments = pr.comments \cup {e}
      BY <2>6 DEF Appears
    <3>2. e.tables = <<>> /\ e.id[1] = p /\ e.id[2] = k
      BY <3>1 DEF Notes
    <3>3. Plain(e)
      BY <3>1, <3>2, NotedEmpty DEF Plain
    <3>4. \A q \in Runs : run[q].tool = "improve" => \A c \in run[q].listed : c.id # e.id
      BY <2>4, <2>6, <3>2 DEF Fresh
    <3> QED
      BY <2>1, <3>1, <3>2, <3>3, <3>4 DEF Aside
  <2>7. ASSUME NEW c \in Previous(p), Edited(c.id, c.kind), c.kind \in Whole PROVE Aside
    <3>1. c.id[2] = c.kind /\ c.kind \in {"review", "title"}
      BY <2>7 DEF Shaped, Shape, Previous, Headed, Whole
    <3>2. ASSUME NEW e \in pr'.comments
          PROVE  \/ e \in pr.comments
                 \/ /\ e.tables = <<>> /\ Plain(e)
                    /\ \A q \in Runs : run[q].tool = "improve" =>
                          \A d \in run[q].listed : d.id # e.id
      <4>1. CASE e.id = c.id /\ e.kind = c.kind
        <5>1. e.tables = <<>>
          BY <2>2, <3>1, <4>1 DEF Notes
        <5>2. Plain(e)
          BY <3>1, <4>1, <5>1, NotedEmpty DEF Plain
        <5>3. \A q \in Runs : run[q].tool = "improve" => \A d \in run[q].listed : d.id # e.id
          BY <2>4, <2>7, <3>1, <4>1
        <5> QED
          BY <5>1, <5>2, <5>3
      <4> QED
        BY <2>7, <4>1 DEF Edited
    <3>3. ASSUME NEW d \in pr.comments
          PROVE  d \in pr'.comments \/ (d.tables = <<>> /\ d.kind # "progress")
      <4>1. PICK e \in pr'.comments : e.id = d.id
        BY <2>7 DEF Edited
      <4>2. CASE e \in pr.comments
        BY <4>1, <4>2 DEF Identified, Distinct
      <4>3. CASE e.id = c.id /\ e.kind = c.kind
        <5>1. d.kind \in {"review", "title"}
          BY <2>7, <3>1, <4>1, <4>3 DEF Shaped, Shape
        <5> QED
          BY <2>3, <5>1 DEF Notes
      <4> QED
        BY <2>7, <4>2, <4>3 DEF Edited
    <3> QED
      BY <2>1, <3>2, <3>3 DEF Aside
  <2>8. CASE Removed(<<p, "temp">>)
    <3>1. pr'.comments = {c \in pr.comments : c.id # <<p, "temp">>}
      BY <2>8 DEF Removed
    <3>2. ASSUME NEW d \in pr.comments, d.id = <<p, "temp">>
          PROVE  d.tables = <<>> /\ d.kind # "progress"
      <4>1. d.kind = "temp"
        BY <3>2 DEF Improves, Plain
      <4> QED
        BY <2>3, <4>1 DEF Notes
    <3> QED
      BY <2>1, <3>1, <3>2 DEF Aside
  <2> QED
    BY <1>2, <2>5, <2>6, <2>7, <2>8, OtherComments
<1>3. ASSUME NEW p \in Runs, Start(p) PROVE Aside
  <2>1. /\ pr'.comments = pr.comments
        /\ \A q \in Runs : run'[q].kind = run[q].kind /\ run'[q].listed = run[q].listed
    BY <1>3, StartDoes DEF Known, Same
  <2>2. run[p].pc = "idle" /\ run'[p].pc = "prepare"
    BY <1>3, StartDoes DEF Known
  <2>3. \A q \in Runs \ {p} : run'[q].pc = run[q].pc
    BY <1>3, StartDoes DEF Known
  <2> QED
    BY <1>1, <2>1, <2>2, <2>3
<1>4. CASE UNCHANGED run /\ pr'.comments = pr.comments
  BY <1>1, <1>4
<1> QED
  BY <1>2, <1>3, <1>4, UsersDo DEF Known, Next, Works, vars

LEMMA ImprovesAside ==
    ASSUME Known, Improves, [Next]_vars, Aside
    PROVE  Improves'
<1>1. setting' = setting
  BY SameSetting
<1>2. \A e \in pr'.comments : Plain(e)'
  BY PlainStays DEF Aside, Improves
<1> SUFFICES ASSUME NEW q \in Runs, run[q].tool = "improve"
             PROVE  /\ Directed(q)' /\ Pending(q)'
                    /\ \A c \in run'[q].listed : Plain(c)' /\ Fresh(c)' /\ c.id[1] # q
  BY <1>2, Onward DEF Improves
<1>3. /\ run'[q].kind = run[q].kind /\ run'[q].listed = run[q].listed
      /\ run'[q].pc = run[q].pc \/ (run[q].pc = "idle" /\ run'[q].pc = "prepare")
      /\ HasProgress(q)' <=> HasProgress(q)
  BY <1>1 DEF Aside, HasProgress
<1>4. Directed(q) /\ Pending(q)
      /\ \A c \in run[q].listed : Plain(c) /\ Fresh(c) /\ c.id[1] # q
  BY DEF Improves
<1>5. Directed(q)'
  <2>1. q \in Tables => q \in Tables'
    BY TablesStay
  <2> QED
    BY <1>1, <1>3, <1>4, <2>1 DEF Directed, ToPublish, Active
<1>6. Pending(q)'
  <2> SUFFICES ASSUME HasProgress(q)', run'[q].pc \in Unshown
               PROVE  /\ \E c \in pr'.comments : c.id = ProgressId(q) /\ c.kind = "progress"
                      /\ \A p \in Runs : run'[p].tool = "improve" =>
                            \A c \in run'[p].listed : c.id # ProgressId(q)
    BY DEF Pending, ProgressId
  <2>1. HasProgress(q) /\ run[q].pc \in Unshown
    BY <1>3 DEF Unshown
  <2>2. PICK c \in pr.comments : c.id = ProgressId(q) /\ c.kind = "progress"
    BY <1>4, <2>1 DEF Pending
  <2>3. c \in pr'.comments
    BY <2>2 DEF Aside
  <2>4. \A p \in Runs : run'[p].tool = run[p].tool
    BY Onward
  <2> QED
    BY <1>4, <2>1, <2>2, <2>3, <2>4 DEF Pending, Aside
<1>7. \A c \in run[q].listed : Plain(c)' /\ Fresh(c)'
  <2>1. run[q].listed \subseteq Notes
    BY DEF Known, Typed, Records, Listings
  <2> QED
    BY <1>4, <2>1, PlainStays, FreshStays
<1> QED
  BY <1>3, <1>4, <1>5, <1>6, <1>7

-----------------------------------------------------------------------------
(* The steps of the improve tool.                                          *)

\* What a run has read of comments, it has of comments of the tool.
LEMMA ListedAre ==
    ASSUME Known, NEW q \in Runs
    PROVE  /\ run[q].listed \in Listings /\ run[q].listed \subseteq Notes
           /\ run[q].tool = "improve" =>
                 /\ \A c \in run[q].listed : c.kind \in {"none", "table"}
                 /\ run[q].pc = "unlist" => First(run[q].listed) \in run[q].listed
<1>1. run[q].listed \in Listings
  BY DEF Known, Typed, Records
<1>2. run[q].tool = "improve" /\ run[q].pc = "unlist" => run[q].listed # {}
  BY DEF Known, Knows, ImproveKnows
<1> QED
  BY <1>1, <1>2, FirstIs DEF Listings, Known, Knows, ImproveKnows

\* A comment that no run of the tool is about to change stays.
LEMMA EffectKeeps ==
    ASSUME Known, Improves, NEW p \in Runs, run[p].tool = "improve", Effects(p),
           NEW d \in pr.comments, d.id # <<p, "temp">>,
           d.id = ProgressId(p) => ~(HasProgress(p) /\ run[p].pc \in Unshown),
           \A c \in run[p].listed : c.id # d.id
    PROVE  d \in pr'.comments
<1>1. run[p].pc = "unlist" => First(run[p].listed) \in run[p].listed
  BY ListedAre
<1>2. ASSUME NEW id, NEW k, NEW tables, Becomes(id, k, tables), d.id # id PROVE d \in pr'.comments
  BY <1>2 DEF Becomes
<1>3. ASSUME NEW id, Removed(id), d.id # id PROVE d \in pr'.comments
  BY <1>3 DEF Removed
<1>4. ASSUME NEW k, NEW tables, Puts(p, k, tables) PROVE d \in pr'.comments
  BY <1>4 DEF Puts
<1>5. CASE Leaves(p)
  BY <1>3, <1>5 DEF Leaves
<1>6. CASE Tells(p)
  BY <1>4, <1>6 DEF Tells
<1>7. CASE Displays(p)
  BY <1>2, <1>4, <1>7 DEF Displays
<1>8. CASE Overwrites(p)
  BY <1>2, <1>8 DEF Overwrites
<1>9. CASE Merges(p)
  BY <1>2, <1>9 DEF Merges, Unshown
<1>10. CASE Removes(p)
  BY <1>1, <1>3, <1>10 DEF Removes
<1> QED
  BY <1>5, <1>6, <1>7, <1>8, <1>9, <1>10 DEF Effects

\* The progress comment stays while the run has yet to show its table.
LEMMA EffectKeepsOwn ==
    ASSUME Known, Improves, NEW p \in Runs, run[p].tool = "improve", Effects(p),
           HasProgress(p), run[p].pc \in Unshown, run'[p].pc \in Unshown,
           NEW d \in pr.comments, d.id = ProgressId(p)
    PROVE  d \in pr'.comments
<1>1. run'[p].pc \notin {"done", "unlist"} /\ d.id # <<p, "temp">>
  BY DEF Unshown, ProgressId
<1>2. ~Displays(p) /\ ~Merges(p) /\ ~Removes(p)
  BY <1>1 DEF Displays, Merges, Removes, Ends, Goes
<1>3. CASE Leaves(p)
  BY <1>1, <1>3 DEF Leaves, Removed
<1>4. CASE Tells(p)
  BY <1>4 DEF Tells, Puts
<1>5. CASE Overwrites(p)
  <2>1. \A c \in run[p].listed : c.id # ProgressId(p)
    BY DEF Improves, Pending
  <2> QED
    BY <1>5, <2>1 DEF Overwrites, Becomes
<1> QED
  BY <1>2, <1>3, <1>4, <1>5 DEF Effects

\* The comments of the improve tool stay plain.
LEMMA EffectPlain ==
    ASSUME Known, Improves, NEW p \in Runs, run[p].tool = "improve", Effects(p),
           NEW e \in pr'.comments
    PROVE  Plain(e)
<1>1. \A d \in pr.comments : Plain(d)
  BY DEF Improves
<1>2. Directed(p) /\ \A c \in run[p].listed : Plain(c)
  BY DEF Improves
<1>3. ASSUME NEW id, NEW k, NEW tables, Becomes(id, k, tables),
             id[2] = "temp" => k = "temp", id[2] = "progress" => ~setting.auto,
             k = "none" => Uncounted = 1, Noted(tables)
      PROVE  Plain(e)
  BY <1>1, <1>3 DEF Becomes, Plain
<1>4. ASSUME NEW k, NEW tables, Puts(p, k, tables),
             k = "progress" => ~setting.auto, k = "none" => Uncounted = 1, Noted(tables)
      PROVE  Plain(e)
  <2>1. PICK c \in Notes : /\ c.id = <<p, k>> /\ c.kind = k /\ c.tables = tables
                           /\ pr'.comments = pr.comments \cup {c}
    BY <1>4 DEF Puts
  <2>2. Plain(c)
    BY <1>4, <2>1 DEF Plain
  <2> QED
    BY <1>1, <2>1, <2>2
<1>5. CASE Leaves(p)
  BY <1>1, <1>5 DEF Leaves, Removed
<1>6. CASE Tells(p)
  <2>1. PICK k \in {"temp", "progress", "failed"} :
           Puts(p, k, <<>>) /\ (k = "progress" => ~setting.auto)
    BY <1>6 DEF Tells
  <2> DEFINE none == <<>>
  <2>2. Noted(none) /\ Puts(p, k, none)
    BY <2>1, NotedEmpty
  <2> HIDE DEF none
  <2> QED
    BY <1>4, <2>1, <2>2
<1>7. CASE Displays(p)
  <2>1. PICK k \in {"none", "table"}, tables \in Seq(Entries) :
           /\ Result(p, k, tables)
           /\ \/ HasProgress(p) /\ Becomes(ProgressId(p), k, tables)
              \/ Puts(p, k, tables)
    BY <1>7 DEF Displays
  <2>2. k = "none" => Uncounted = 1
    BY <2>1 DEF Result
  <2>3. Noted(tables)
    <3>1. CASE k = "none"
      BY <2>1, <3>1, NotedEmpty DEF Result
    <3>2. CASE k = "table"
      <4>1. p \in Tables
        BY <2>1, <3>2 DEF Result
      <4>2. PICK linked \in BOOLEAN : /\ tables = <<Table(p, linked)>>
                                      /\ setting.persistent /\ ~linked => Uncounted = 1
        BY <2>1, <3>2 DEF Result
      <4> QED
        BY <4>1, <4>2, NotedSingle
    <3> QED
      BY <3>1, <3>2
  <2>4. CASE HasProgress(p) /\ Becomes(ProgressId(p), k, tables)
    <3>1. ProgressId(p)[2] = "progress" /\ ~setting.auto
      BY <2>4 DEF ProgressId, HasProgress
    <3> QED
      BY <1>3, <2>2, <2>3, <2>4, <3>1
  <2>5. CASE Puts(p, k, tables)
    BY <1>4, <2>2, <2>3, <2>5
  <2> QED
    BY <2>1, <2>4, <2>5
<1>8. CASE Overwrites(p)
  <2>1. PICK c \in run[p].listed :
           /\ run[p].pc = "merge" /\ c.kind = "none"
           /\ Becomes(c.id, "table", <<Table(p, FALSE)>>)
    BY <1>8 DEF Overwrites
  <2>2. p \in Tables
    BY <1>2, <2>1 DEF Directed, ToPublish
  <2>3. Plain(c) /\ Uncounted = 1
    BY <1>2, <2>1 DEF Plain
  <2> DEFINE tables == <<Table(p, FALSE)>>
  <2>4. Noted(tables) /\ Becomes(c.id, "table", tables)
    BY <2>1, <2>2, <2>3, NotedSingle
  <2>5. c.id[2] # "temp" /\ (c.id[2] = "progress" => ~setting.auto)
    BY <2>1, <2>3 DEF Plain
  <2> HIDE DEF tables
  <2> QED
    BY <1>3, <2>4, <2>5
<1>9. CASE Merges(p)
  <2> DEFINE c == First(run[p].listed)
             tables == Merged(p, c.tables)
  <2>1. /\ run[p].pc = "merge" /\ c \in run[p].listed /\ c \in Notes /\ c.kind = "table"
        /\ \/ HasProgress(p) /\ Becomes(ProgressId(p), "table", tables)
           \/ Becomes(c.id, "table", tables)
    BY <1>9 DEF Merges
  <2>2. p \in Tables
    BY <1>2, <2>1 DEF Directed, ToPublish
  <2>3. Plain(c)
    BY <1>2, <2>1
  <2> HIDE DEF c
  <2>4. Noted(tables)
    <3>1. c.tables \in Seq(Entries) /\ c.tables # <<>> /\ Noted(c.tables)
      BY <2>1, <2>3 DEF Notes, Plain
    <3> QED
      BY <2>2, <3>1, NotedMerged
  <2> HIDE DEF tables
  <2>5. CASE HasProgress(p) /\ Becomes(ProgressId(p), "table", tables)
    <3>1. ProgressId(p)[2] = "progress" /\ ~setting.auto
      BY <2>5 DEF ProgressId, HasProgress
    <3> QED
      BY <1>3, <2>4, <2>5, <3>1
  <2>6. CASE Becomes(c.id, "table", tables)
    <3>1. c.id[2] # "temp" /\ (c.id[2] = "progress" => ~setting.auto)
      BY <2>1, <2>3 DEF Plain
    <3> QED
      BY <1>3, <2>4, <2>6, <3>1
  <2> QED
    BY <2>1, <2>5, <2>6
<1>10. CASE Removes(p)
  BY <1>1, <1>10 DEF Removes, Removed
<1> QED
  BY <1>5, <1>6, <1>7, <1>8, <1>9, <1>10 DEF Effects

\* What a run of the tool reads is the comments of others, as they are.
LEMMA ImproveReads ==
    ASSUME Known, Identified, Improves, NEW p \in Runs, Works(p), run[p].tool = "improve"
    PROVE  \/ run'[p].listed \subseteq run[p].listed
           \/ /\ run[p].pc = "look" /\ run'[p].listed \subseteq pr.comments
              /\ \A c \in run'[p].listed :
                    c.kind \in {"none", "table"} /\ Plain(c) /\ Fresh(c) /\ c.id[1] # p
<1>1. \/ run'[p].listed \subseteq run[p].listed
      \/ run[p].pc = "look" /\ run'[p].listed \subseteq pr.comments
  BY ImproveComments DEF Works, Step
<1>2. ASSUME run[p].pc = "look", run'[p].listed \subseteq pr.comments,
             NEW c \in run'[p].listed
      PROVE  c.kind \in {"none", "table"} /\ Plain(c) /\ Fresh(c) /\ c.id[1] # p
  <2>1. c.kind \in {"none", "table"}
    <3>1. Knows(p)' /\ run'[p].tool = "improve"
      BY WorkKnows DEF Moves
    <3> QED
      BY <3>1 DEF Knows, ImproveKnows
  <2>2. c \in pr.comments /\ Plain(c) /\ Fresh(c)
    BY <1>2 DEF Improves, Identified
  <2>3. ASSUME c.id[1] = p PROVE FALSE
    <3>1. c.id \in Runs \X Names
      BY <2>2, CommentsAre DEF Known, Notes
    <3>2. c.id[2] = "progress"
      BY <1>2, <2>1, <2>2, <2>3 DEF Fresh, Plain
    <3>3. c.id = ProgressId(p) /\ ~setting.auto
      BY <2>2, <2>3, <3>1, <3>2 DEF ProgressId, Plain
    <3>4. HasProgress(p) /\ run[p].pc \in Unshown
      BY <1>2, <3>3 DEF Improves, Directed, HasProgress, Unshown
    <3>5. PICK d \in pr.comments : d.id = ProgressId(p) /\ d.kind = "progress"
      BY <3>4 DEF Improves, Pending
    <3>6. c = d
      BY <2>2, <3>3, <3>5 DEF Identified, Distinct
    <3> QED
      BY <2>1, <3>5, <3>6
  <2> QED
    BY <2>1, <2>2, <2>3
<1> QED
  BY <1>1, <1>2

LEMMA ImprovesWork ==
    ASSUME Known, Identified, Improves, NEW p \in Runs, Works(p), run[p].tool = "improve",
           ~Slips'
    PROVE  Improves'
<1>1. /\ Moves(p) /\ Effects(p) /\ Typed /\ [Next]_vars
      /\ setting' = setting /\ \A q \in Runs \ {p} : run'[q] = run[q]
  BY WorkKnows, ImproveEffects DEF Moves, Works, Next, Known
<1>2. \A e \in pr'.comments : Plain(e)'
  BY <1>1, EffectPlain, PlainStays
<1>3. ASSUME NEW q \in Runs, run[q].tool = "improve", NEW c \in run'[q].listed
      PROVE  /\ Plain(c)' /\ Fresh(c)' /\ c.id[1] # q
             /\ c \in run[q].listed \/ (c \in pr.comments /\ c.kind \in {"none", "table"})
  <2>1. \/ c \in run[q].listed
        \/ /\ c \in pr.comments /\ c.kind \in {"none", "table"}
           /\ Plain(c) /\ Fresh(c) /\ c.id[1] # q
    BY <1>1, <1>3, ImproveReads
  <2>2. c \in Notes
    BY <2>1, ListedAre, CommentsAre DEF Known
  <2>3. Plain(c) /\ Fresh(c) /\ c.id[1] # q
    BY <1>3, <2>1 DEF Improves
  <2> QED
    BY <1>1, <2>1, <2>2, <2>3, PlainStays, FreshStays
<1>4. ASSUME NEW q \in Runs, NEW d \in pr.comments, d.id = ProgressId(q), d.kind = "progress",
             \A r \in Runs : run[r].tool = "improve" =>
                \A c \in run[r].listed : c.id # ProgressId(q)
      PROVE  \A r \in Runs : run'[r].tool = "improve" =>
                \A c \in run'[r].listed : c.id # ProgressId(q)
  <2> SUFFICES ASSUME NEW r \in Runs, run'[r].tool = "improve", NEW c \in run'[r].listed,
                      c.id = ProgressId(q)
               PROVE  FALSE
    OBVIOUS
  <2>1. run[r].tool = "improve"
    BY <1>1, Onward
  <2>2. c \in run[r].listed \/ (c \in pr.comments /\ c.kind \in {"none", "table"})
    BY <1>3, <2>1
  <2>3. c \in pr.comments => c = d
    BY <1>4 DEF Identified, Distinct
  <2> QED
    BY <1>4, <2>1, <2>2, <2>3
<1>5. ASSUME NEW q \in Runs \ {p}, run[q].tool = "improve"
      PROVE  Directed(q)' /\ Pending(q)'
  <2>1. Directed(q) /\ Pending(q) /\ run'[q] = run[q]
    BY <1>1, <1>5 DEF Improves
  <2>2. q \in Tables => q \in Tables'
    BY <1>1, TablesStay
  <2>3. HasProgress(q)' <=> HasProgress(q)
    BY <1>1, <2>1 DEF HasProgress
  <2>4. Directed(q)'
    BY <1>1, <2>1, <2>2, <2>3 DEF Directed, Active
  <2>5. Pending(q)'
    <3> SUFFICES ASSUME HasProgress(q), run[q].pc \in Unshown
                 PROVE  /\ \E c \in pr'.comments : c.id = ProgressId(q) /\ c.kind = "progress"
                        /\ \A r \in Runs : run'[r].tool = "improve" =>
                              \A c \in run'[r].listed : c.id # ProgressId(q)
      BY <2>1, <2>3 DEF Pending, ProgressId
    <3>1. PICK d \in pr.comments : d.id = ProgressId(q) /\ d.kind = "progress"
      BY <2>1 DEF Pending
    <3>2. \A r \in Runs : run[r].tool = "improve" => \A c \in run[r].listed : c.id # ProgressId(q)
      BY <2>1 DEF Pending
    <3>3. d.id # <<p, "temp">> /\ d.id # ProgressId(p)
      BY <1>5, <3>1 DEF ProgressId
    <3>4. d \in pr'.comments
      BY <1>1, <3>1, <3>2, <3>3, EffectKeeps
    <3> QED
      BY <1>4, <3>1, <3>2, <3>4
  <2> QED
    BY <2>4, <2>5
<1>6. Directed(p)' /\ Pending(p)'
  <2>1. /\ Directed(p)'
        /\ HasProgress(p)' /\ run'[p].pc \in Unshown =>
              \/ HasProgress(p) /\ run[p].pc \in Unshown
              \/ run[p].pc = "prepare" /\ Puts(p, "progress", <<>>)
    BY ImproveDirects
  <2> SUFFICES ASSUME HasProgress(p)', run'[p].pc \in Unshown
               PROVE  /\ \E c \in pr'.comments : c.id = ProgressId(p) /\ c.kind = "progress"
                      /\ \A r \in Runs : run'[r].tool = "improve" =>
                            \A c \in run'[r].listed : c.id # ProgressId(p)
    BY <2>1 DEF Pending, ProgressId
  <2>2. CASE HasProgress(p) /\ run[p].pc \in Unshown
    <3>1. Pending(p)
      BY DEF Improves
    <3>2. PICK d \in pr.comments : d.id = ProgressId(p) /\ d.kind = "progress"
      BY <2>2, <3>1 DEF Pending
    <3>3. d \in pr'.comments
      BY <1>1, <2>2, <3>2, EffectKeepsOwn
    <3>4. \A r \in Runs : run[r].tool = "improve" => \A c \in run[r].listed : c.id # ProgressId(p)
      BY <2>2, <3>1 DEF Pending
    <3> QED
      BY <1>4, <3>2, <3>3, <3>4
  <2>3. CASE run[p].pc = "prepare" /\ Puts(p, "progress", <<>>)
    <3>1. \E c \in pr'.comments : c.id = ProgressId(p) /\ c.kind = "progress"
      BY <2>3 DEF Puts, ProgressId
    <3> SUFFICES ASSUME NEW r \in Runs, run'[r].tool = "improve", NEW c \in run'[r].listed,
                        c.id = ProgressId(p)
                 PROVE  FALSE
      BY <3>1
    <3>2. run[r].tool = "improve"
      BY <1>1, Onward
    <3>3. c \in run[r].listed
      BY <1>1, <2>3, <3>2, ImproveReads
    <3>4. Fresh(c)
      BY <3>2, <3>3 DEF Improves
    <3>5. c.id[1] = p /\ c.id[2] = "progress"
      BY DEF ProgressId
    <3> QED
      BY <2>3, <3>4, <3>5 DEF Fresh
  <2> QED
    BY <2>1, <2>2, <2>3
<1>7. \A q \in Runs : run'[q].tool = run[q].tool
  BY <1>1, Onward
<1> QED
  BY <1>2, <1>3, <1>5, <1>6, <1>7 DEF Improves

LEMMA ImprovesNext ==
    ASSUME Known, Identified, Shaped, Slips \/ Improves, [Next]_vars
    PROVE  Slips' \/ Improves'
<1>1. CASE Slips
  BY <1>1, SlipsStay
<1>2. CASE Improves /\ Aside
  BY <1>2, ImprovesAside
<1>3. CASE Improves /\ \E p \in Runs : Works(p) /\ run[p].tool = "improve"
  BY <1>3, ImprovesWork
<1> QED
  BY <1>1, <1>2, <1>3, AsideOrImprove

-----------------------------------------------------------------------------
(* A run stays shown.                                                      *)

Shows1(r, S) == \E c \in S : ~Unlike(r, c.tables)

LEMMA ShownIs ==
    ASSUME NEW S, S \subseteq Notes, NEW r
    PROVE  (\E c \in S : \E n \in DOMAIN c.tables : c.tables[n].of = r) <=> Shows1(r, S)
<1>1. \A c \in S : DOMAIN c.tables = 1..Len(c.tables)
  <2> SUFFICES ASSUME NEW c \in S PROVE DOMAIN c.tables = 1..Len(c.tables)
    OBVIOUS
  <2>1. c.tables \in Seq(Entries)
    BY DEF Notes
  <2> QED
    BY <2>1
<1> QED
  BY <1>1 DEF Shows1, Unlike

\* What a step has to keep of what is asked for r, when the step is not the
\* run's own.
Safely(r) ==
    /\ Shows1(r, pr.comments) => Shows1(r, pr'.comments)
    /\ \A q \in Runs \ {r} : run[q].tool = "improve" =>
          \A c \in run'[q].listed : \A d \in pr'.comments :
             c.id = d.id => (Unlike(r, c.tables) <=> Unlike(r, d.tables))
    /\ Shows1(r, pr'.comments) =>
          \E c \in pr'.comments : ~Unlike(r, c.tables) /\ \A q \in Runs : ~Target(q, c)'

LEMMA SafelyGuards ==
    ASSUME Known, [Next]_vars, NEW r \in Runs, Safely(r)
    PROVE  (Shown(r) => Shown(r)') /\ Agree(r)' /\ Safe(r)'
<1>1. pr.comments \subseteq Notes /\ pr'.comments \subseteq Notes
  <2>1. Known'
    BY KnownNext
  <2> QED
    BY <2>1, CommentsAre DEF Known, Typed, Requests, Listings
<1>2. (Shown(r) <=> Shows1(r, pr.comments)) /\ (Shown(r)' <=> Shows1(r, pr'.comments))
  BY <1>1, ShownIs DEF Shown
<1>3. \A q \in Runs : run'[q].tool = run[q].tool
  BY Onward
<1>4. Agree(r)'
  BY <1>3 DEF Safely, Agree, Unlike
<1> QED
  BY <1>2, <1>4 DEF Safely, Safe, Unlike

\* A run that removes what it has merged, and others, keep to it.
LEMMA TargetStays ==
    ASSUME Known, [Next]_vars, NEW q \in Runs, run'[q].listed = run[q].listed,
           run'[q].pc = "unlist" => run[q].pc = "unlist"
    PROVE  \A c : Target(q, c)' => Target(q, c)
<1>1. setting' = setting /\ run'[q].tool = run[q].tool
  BY SameSetting, Onward
<1>2. (First(run[q].listed))' = First(run[q].listed)
  BY <1>1 DEF First
<1> QED
  BY <1>1, <1>2 DEF Target

LEMMA SafelyAside ==
    ASSUME Known, [Next]_vars, Aside, NEW r \in Runs, Agree(r), Safe(r)
    PROVE  Safely(r)
<1>1. ASSUME NEW c \in pr.comments, ~Unlike(r, c.tables) PROVE c \in pr'.comments
  <2>1. c.tables # <<>>
    BY <1>1 DEF Unlike
  <2> QED
    BY <2>1 DEF Aside
<1>2. ASSUME NEW c \in pr'.comments, ~Unlike(r, c.tables) PROVE c \in pr.comments
  <2>1. c.tables # <<>>
    BY <1>2 DEF Unlike
  <2> QED
    BY <2>1 DEF Aside
<1>3. Shows1(r, pr.comments) <=> Shows1(r, pr'.comments)
  BY <1>1, <1>2 DEF Shows1
<1>4. \A q \in Runs \ {r} : run[q].tool = "improve" =>
         \A c \in run'[q].listed : \A d \in pr'.comments :
            c.id = d.id => (Unlike(r, c.tables) <=> Unlike(r, d.tables))
  BY DEF Aside, Agree
<1>5. \A q \in Runs : \A c : Target(q, c)' => Target(q, c)
  <2> SUFFICES ASSUME NEW q \in Runs PROVE \A c : Target(q, c)' => Target(q, c)
    OBVIOUS
  <2>1. CASE run[q].tool = "improve"
    BY <2>1, TargetStays DEF Aside
  <2>2. CASE run[q].tool # "improve"
    BY <2>2, Onward DEF Target
  <2> QED
    BY <2>1, <2>2
<1>6. Shown(r) <=> Shows1(r, pr.comments)
  BY ShownIs, CommentsAre DEF Shown, Known
<1> QED
  BY <1>1, <1>3, <1>4, <1>5, <1>6 DEF Safely, Safe

\* The step is the run's own: there is no other under way.
LEMMA SafelyOwn ==
    ASSUME Known, Identified, Ordered, Improves, [Next]_vars, NEW r \in Runs, Works(r),
           run[r].tool = "improve", run[r].met = {}, Effects(r), Safe(r)
    PROVE  Safely(r)
<1>1. /\ Moves(r) /\ Active(r) /\ \A q \in Runs \ {r} : run'[q] = run[q]
      /\ setting' = setting /\ \A q \in Runs : run'[q].tool = run[q].tool
  <2>1. Moves(r) /\ Active(r)
    BY WorkKnows
  <2> QED
    BY <2>1, Onward DEF Moves
<1>2. \A q \in Runs \ {r} : ~Active(q)
  BY <1>1, UnderWay
<1>3. \A q \in Runs \ {r} : run[q].tool = "improve" => run'[q].listed = {}
  BY <1>1, <1>2 DEF Improves, Directed
<1>4. \A q \in Runs \ {r} : \A c : ~Target(q, c)'
  BY <1>1, <1>2 DEF Target, Active
<1>5. pr.comments \subseteq Notes /\ Distinct(pr.comments)
  BY CommentsAre DEF Known, Identified
<1>6. Shown(r) <=> Shows1(r, pr.comments)
  BY <1>5, ShownIs DEF Shown
<1>7. ASSUME NEW linked \in BOOLEAN
      PROVE  ~Unlike(r, <<Table(r, linked)>>)
  BY DEF Unlike, Table
<1>8. ASSUME NEW t \in Seq(Entries), t # <<>>
      PROVE  ~Unlike(r, Merged(r, t))
  <2> DEFINE u == Merged(r, t)
  <2>1. Table(r, TRUE) \in Entries /\ Table(r, TRUE).of = r
    BY DEF Table, Entries
  <2>2. u \in Seq(Entries) /\ Len(u) \in 2..(Len(t) + 1) /\ u[1] = Table(r, TRUE)
    BY <1>8, <2>1, MergedIs
  <2>3. Len(u) \in Nat /\ Len(t) \in Nat
    BY <2>2, OfIs
  <2> HIDE DEF u
  <2>4. 1 \in 1..Len(u) /\ u[1].of = r
    <3>1. 1 \in 1..Len(u)
      BY <2>2, <2>3
    <3>2. u[1].of = r
      BY <2>1, <2>2
    <3> QED
      BY <3>1, <3>2
  <2> QED
    BY <2>4 DEF Unlike, u
<1>9. ASSUME NEW c \in pr.comments, ~Unlike(r, c.tables), ~Target(r, c)
      PROVE  c \in pr'.comments \/ \E e \in pr'.comments : ~Unlike(r, e.tables)
  <2>1. c.kind = "table" /\ c.id # <<r, "temp">>
    <3>1. c.tables # <<>>
      BY <1>9 DEF Unlike
    <3>2. c.kind = "table"
      BY <1>5, <3>1 DEF Notes
    <3> QED
      BY <3>2 DEF Improves, Plain
  <2>2. HasProgress(r) /\ run[r].pc \in Unshown => c.id # ProgressId(r)
    <3> SUFFICES ASSUME HasProgress(r), run[r].pc \in Unshown PROVE c.id # ProgressId(r)
      OBVIOUS
    <3>1. PICK d \in pr.comments : d.id = ProgressId(r) /\ d.kind = "progress"
      BY DEF Improves, Pending
    <3> QED
      BY <1>5, <2>1, <3>1 DEF Distinct
  <2>3. CASE Leaves(r)
    BY <2>1, <2>3 DEF Leaves, Removed
  <2>4. CASE Tells(r)
    BY <2>4 DEF Tells, Puts
  <2>5. CASE Displays(r)
    BY <2>2, <2>5 DEF Displays, Puts, Becomes
  <2>6. CASE Overwrites(r)
    <3>1. PICK d \in run[r].listed : Becomes(d.id, "table", <<Table(r, FALSE)>>)
      BY <2>6 DEF Overwrites
    <3> DEFINE tables == <<Table(r, FALSE)>>
    <3>2. Becomes(d.id, "table", tables) /\ ~Unlike(r, tables)
      BY <1>7, <3>1
    <3> HIDE DEF tables
    <3> QED
      BY <3>2 DEF Becomes
  <2>7. CASE Merges(r)
    <3> DEFINE d == First(run[r].listed)
               tables == Merged(r, d.tables)
    <3>1. /\ d \in Notes /\ d.kind = "table"
          /\ (Becomes(ProgressId(r), "table", tables) \/ Becomes(d.id, "table", tables))
      BY <2>7 DEF Merges
    <3> HIDE DEF d
    <3>2. ~Unlike(r, tables)
      BY <1>8, <3>1 DEF Notes
    <3> HIDE DEF tables
    <3> QED
      BY <3>1, <3>2 DEF Becomes
  <2>8. CASE Removes(r)
    BY <1>9, <2>2, <2>8 DEF Removes, Removed, Target
  <2> QED
    BY <2>3, <2>4, <2>5, <2>6, <2>7, <2>8 DEF Effects
<1>10. Shows1(r, pr.comments) => Shows1(r, pr'.comments)
  BY <1>6, <1>9 DEF Safe, Shows1
<1>11. ASSUME run'[r].pc = "unlist"
       PROVE  \E e \in pr'.comments : ~Unlike(r, e.tables) /\ ~Target(r, e)'
  <2>1. Merges(r) /\ HasProgress(r) /\ Goes(r, "unlist")
    BY <1>11 DEF Effects, Leaves, Tells, Displays, Overwrites, Merges, Removes, Ends, GoesWith
  <2> DEFINE d == First(run[r].listed)
             tables == Merged(r, d.tables)
  <2>2. /\ d \in run[r].listed /\ d \in Notes /\ d.kind = "table"
        /\ Becomes(ProgressId(r), "table", tables)
    BY <2>1 DEF Merges, Goes, Ends
  <2>3. d' = d
    <3>1. run'[r].listed = run[r].listed
      BY <2>1 DEF Goes
    <3> QED
      BY <1>1, <3>1 DEF First
  <2>4. \A e : Target(r, e)' => d.id = e.id
    BY <2>3 DEF Target
  <2> HIDE DEF d
  <2>5. ~Unlike(r, tables)
    BY <1>8, <2>2 DEF Notes
  <2> HIDE DEF tables
  <2>6. PICK e \in pr'.comments : e.id = ProgressId(r) /\ e.tables = tables
    <3>1. PICK c \in pr.comments : c.id = ProgressId(r)
      BY <2>2 DEF Becomes, Ids
    <3> QED
      BY <2>2, <3>1 DEF Becomes
  <2>7. d.id[1] # r
    BY <2>2 DEF Improves
  <2>8. e.id[1] = r
    BY <2>6 DEF ProgressId
  <2>9. e.id # d.id
    BY <2>7, <2>8
  <2> QED
    BY <2>4, <2>5, <2>6, <2>9
<1>12. run'[r].pc # "unlist" => \A e : ~Target(r, e)'
  BY DEF Target
<1>13. Shows1(r, pr'.comments) =>
          \E c \in pr'.comments : ~Unlike(r, c.tables) /\ \A q \in Runs : ~Target(q, c)'
  BY <1>4, <1>11, <1>12 DEF Shows1
<1>14. \A q \in Runs \ {r} : run[q].tool = "improve" =>
          \A c \in run'[q].listed : \A d \in pr'.comments :
             c.id = d.id => (Unlike(r, c.tables) <=> Unlike(r, d.tables))
  BY <1>3
<1> QED
  BY <1>10, <1>13, <1>14 DEF Safely

\* What another run has to say does not tell of r, unless it has it from a
\* comment that does.
LEMMA UnlikeResult ==
    ASSUME NEW r, NEW p \in Runs \ {r}
    PROVE  Unlike(r, <<>>) /\ \A linked \in BOOLEAN : Unlike(r, <<Table(p, linked)>>)
<1>1. ASSUME NEW linked \in BOOLEAN PROVE Unlike(r, <<Table(p, linked)>>)
  <2> DEFINE a == Table(p, linked)
             t == <<a>>
  <2>1. a.of = p
    BY DEF Table
  <2> HIDE DEF a
  <2>2. Len(t) = 1 /\ t[1] = a
    OBVIOUS
  <2> HIDE DEF t
  <2>3. Unlike(r, t)
    BY <2>1, <2>2 DEF Unlike
  <2> QED
    BY <2>3 DEF t, a
<1> QED
  BY <1>1 DEF Unlike

\* The step is that of another run p of the tool, and it changes no comment
\* that tells of r; what it shows does not tell of r.
LEMMA SafelyBeside ==
    ASSUME Known, Identified, Improves, [Next]_vars, NEW r \in Runs, Agree(r), Safe(r),
           NEW p \in Runs \ {r}, Works(p), run[p].tool = "improve",
           \A d \in pr.comments : ~Unlike(r, d.tables) => ~Target(p, d)',
           \A e \in pr'.comments :
              \/ e \in pr.comments
              \/ /\ Unlike(r, e.tables)
                 /\ \A q \in Runs \ {r} : run[q].tool = "improve" =>
                       \A c \in run'[q].listed : c.id = e.id => Unlike(r, c.tables),
           \A d \in pr.comments :
              ~Unlike(r, d.tables) /\ ~Target(p, d) => d \in pr'.comments
    PROVE  Safely(r)
<1>1. \A q \in Runs \ {p} : run'[q] = run[q]
  BY WorkKnows DEF Moves
<1>2. Distinct(pr.comments) /\ (Shown(r) <=> Shows1(r, pr.comments))
  BY ShownIs, CommentsAre DEF Known, Identified, Shown
<1>3. \A q \in Runs \ {p} : \A c : Target(q, c)' => Target(q, c)
  BY <1>1, TargetStays
<1>4. Shows1(r, pr'.comments) => Shows1(r, pr.comments)
  BY DEF Shows1
<1>5. Shows1(r, pr.comments) =>
         \E c \in pr'.comments : ~Unlike(r, c.tables) /\ \A q \in Runs : ~Target(q, c)'
  BY <1>2, <1>3 DEF Safe
<1>6. ASSUME NEW q \in Runs \ {r}, run[q].tool = "improve", NEW c \in run'[q].listed,
             NEW d \in pr'.comments, c.id = d.id
      PROVE  Unlike(r, c.tables) <=> Unlike(r, d.tables)
  <2>1. CASE d \in pr.comments
    <3>1. c \in run[q].listed \/ c \in pr.comments
      BY <1>1, <1>6, ImproveReads
    <3>2. CASE c \in run[q].listed
      BY <1>6, <2>1, <3>2 DEF Agree
    <3>3. CASE c \in pr.comments
      BY <1>2, <1>6, <2>1, <3>3 DEF Distinct
    <3> QED
      BY <3>1, <3>2, <3>3
  <2>2. CASE d \notin pr.comments
    BY <1>6, <2>2
  <2> QED
    BY <2>1, <2>2
<1> QED
  BY <1>4, <1>5, <1>6 DEF Safely, Shows1

LEMMA SafelyOther ==
    ASSUME Known, Identified, Ordered, Mutual, Histories, Improves, [Next]_vars,
           NEW r \in Runs, ~Excused(r), Agree(r), Safe(r),
           NEW p \in Runs \ {r}, Works(p), run[p].tool = "improve", Effects(p)
    PROVE  Safely(r)
<1>1. /\ Moves(p) /\ Active(p) /\ \A q \in Runs \ {p} : run'[q] = run[q]
      /\ setting' = setting /\ \A q \in Runs : run'[q].tool = run[q].tool
  <2>1. Moves(p) /\ Active(p)
    BY WorkKnows
  <2> QED
    BY <2>1, Onward DEF Moves
<1>2. pr.comments \subseteq Notes /\ Distinct(pr.comments) /\ Directed(p)
  BY CommentsAre DEF Known, Identified, Improves
<1>3. ASSUME NEW c \in pr.comments, ~Unlike(r, c.tables)
      PROVE  /\ c.kind = "table" /\ c.id # <<p, "temp">>
             /\ HasProgress(p) /\ run[p].pc \in Unshown => c.id # ProgressId(p)
  <2>1. c.kind = "table" /\ c.id # <<p, "temp">>
    <3>1. c.tables # <<>>
      BY <1>3 DEF Unlike
    <3>2. c.kind = "table"
      BY <1>2, <3>1 DEF Notes
    <3> QED
      BY <3>2 DEF Improves, Plain
  <2>2. ASSUME HasProgress(p), run[p].pc \in Unshown PROVE c.id # ProgressId(p)
    <3>1. PICK d \in pr.comments : d.id = ProgressId(p) /\ d.kind = "progress"
      BY <2>2 DEF Improves, Pending
    <3> QED
      BY <1>2, <2>1, <3>1 DEF Distinct
  <2> QED
    BY <2>1, <2>2
   \* Nobody has read the progress comment, or one that the run has yet to publish.
<1>4. ASSUME NEW q \in Runs, run[q].tool = "improve", NEW c \in run[q].listed
      PROVE  /\ HasProgress(p) /\ run[p].pc \in Unshown => c.id # ProgressId(p)
             /\ run[p].pc = "prepare" => c.id # <<p, "temp">> /\ c.id # <<p, "progress">>
             /\ run[p].pc \in Unshown \cup {"tell"} =>
                   c.id # <<p, "failed">> /\ c.id # <<p, "none">> /\ c.id # <<p, "table">>
  <2>1. Fresh(c)
    BY <1>4 DEF Improves
  <2> QED
    BY <1>4, <2>1 DEF Improves, Pending, Fresh, Unshown
<1>5. ASSUME run'[p].listed \subseteq run[p].listed
      PROVE  \A q \in Runs : run'[q].listed \subseteq run[q].listed
  BY <1>1, <1>5
<1>6. run'[p].pc # "unlist" => \A d \in pr.comments : ~Unlike(r, d.tables) => ~Target(p, d)'
  BY DEF Target
<1>7. ASSUME NEW k, NEW tables, Puts(p, k, tables), Unlike(r, tables), run'[p].pc # "unlist",
             run'[p].listed \subseteq run[p].listed,
             \A q \in Runs : run[q].tool = "improve" =>
                \A c \in run[q].listed : c.id # <<p, k>>
      PROVE  Safely(r)
  <2>1. PICK e \in Notes : /\ e.id = <<p, k>> /\ e.kind = k /\ e.tables = tables
                           /\ pr'.comments = pr.comments \cup {e}
    BY <1>7 DEF Puts
  <2>2. \A q \in Runs \ {r} : run[q].tool = "improve" =>
           \A c \in run'[q].listed : c.id = e.id => Unlike(r, c.tables)
    BY <1>5, <1>7, <2>1
  <2> QED
    BY <1>6, <1>7, <2>1, <2>2, SafelyBeside
<1>8. ASSUME NEW id, NEW k, NEW tables, Becomes(id, k, tables), Unlike(r, tables),
             \A d \in pr.comments : ~Unlike(r, d.tables) => ~Target(p, d)' /\ d.id # id,
             run'[p].listed \subseteq run[p].listed,
             \A q \in Runs \ {r} : run[q].tool = "improve" =>
                \A c \in run[q].listed : c.id = id => Unlike(r, c.tables)
      PROVE  Safely(r)
  <2>1. \A q \in Runs : run'[q].listed \subseteq run[q].listed
    BY <1>5, <1>8
  <2>2. \A e \in pr'.comments : e \in pr.comments \/ (e.id = id /\ e.tables = tables)
    BY <1>8 DEF Becomes
  <2>3. \A d \in pr.comments : ~Unlike(r, d.tables) => d \in pr'.comments
    BY <1>8 DEF Becomes
  <2>4. \A e \in pr'.comments :
           \/ e \in pr.comments
           \/ /\ Unlike(r, e.tables)
              /\ \A q \in Runs \ {r} : run[q].tool = "improve" =>
                    \A c \in run'[q].listed : c.id = e.id => Unlike(r, c.tables)
    BY <1>8, <2>1, <2>2
  <2> QED
    BY <1>8, <2>3, <2>4, SafelyBeside
   \* What p has read of a comment agrees with what the others have.
<1>9. ASSUME NEW c \in run[p].listed, c.id \in Ids
      PROVE  /\ \A d \in pr.comments : d.id = c.id => (Unlike(r, c.tables) <=> Unlike(r, d.tables))
             /\ \A q \in Runs \ {r} : run[q].tool = "improve" =>
                   \A b \in run[q].listed :
                      b.id = c.id => (Unlike(r, b.tables) <=> Unlike(r, c.tables))
  <2>1. PICK d \in pr.comments : d.id = c.id
    BY <1>9 DEF Ids
  <2> QED
    BY <2>1 DEF Agree
<1>10. CASE Leaves(p)
  <2>1. pr'.comments \subseteq pr.comments /\ run'[p].pc # "unlist"
    BY <1>10 DEF Leaves, Removed
  <2>2. \A d \in pr.comments : ~Unlike(r, d.tables) => d \in pr'.comments
    BY <1>3, <1>10 DEF Leaves, Removed
  <2> QED
    BY <1>6, <2>1, <2>2, SafelyBeside
<1>11. CASE Tells(p)
  <2>1. PICK k \in {"temp", "progress", "failed"} :
           /\ Puts(p, k, <<>>) /\ run'[p].pc # "unlist"
           /\ IF k = "failed" THEN run[p].pc = "tell" ELSE run[p].pc = "prepare"
    BY <1>11 DEF Tells
  <2> DEFINE none == <<>>
  <2>2. Unlike(r, none) /\ Puts(p, k, none)
    BY <2>1, UnlikeResult
  <2>3. run'[p].listed \subseteq run[p].listed
    BY <2>1, ImproveReads
  <2>4. \A q \in Runs : run[q].tool = "improve" => \A c \in run[q].listed : c.id # <<p, k>>
    BY <1>4, <2>1
  <2> HIDE DEF none
  <2> QED
    BY <1>7, <2>1, <2>2, <2>3, <2>4
<1>12. CASE Displays(p)
  <2>1. PICK k \in {"none", "table"}, tables \in Seq(Entries) :
           /\ Result(p, k, tables) /\ Ends(p) /\ run[p].pc \in Unshown
           /\ \/ HasProgress(p) /\ Becomes(ProgressId(p), k, tables)
              \/ Puts(p, k, tables)
    BY <1>12 DEF Displays
  <2>2. Unlike(r, tables)
    BY <2>1, UnlikeResult DEF Result
  <2>3. run'[p].pc # "unlist" /\ run'[p].listed \subseteq run[p].listed
    BY <2>1 DEF Ends
  <2>4. CASE HasProgress(p) /\ Becomes(ProgressId(p), k, tables)
    <3>1. \A d \in pr.comments :
             ~Unlike(r, d.tables) => ~Target(p, d)' /\ d.id # ProgressId(p)
      BY <1>3, <1>6, <2>1, <2>3, <2>4
    <3>2. \A q \in Runs \ {r} : run[q].tool = "improve" =>
             \A c \in run[q].listed : c.id = ProgressId(p) => Unlike(r, c.tables)
      BY <1>4, <2>1, <2>4
    <3> QED
      BY <1>8, <2>2, <2>3, <2>4, <3>1, <3>2
  <2>5. CASE Puts(p, k, tables)
    <3>1. \A q \in Runs : run[q].tool = "improve" => \A c \in run[q].listed : c.id # <<p, k>>
      BY <1>4, <2>1
    <3> QED
      BY <1>7, <2>2, <2>3, <2>5, <3>1
  <2> QED
    BY <2>1, <2>4, <2>5
<1>13. CASE Overwrites(p)
  <2> DEFINE tables == <<Table(p, FALSE)>>
  <2>1. PICK c \in run[p].listed :
           /\ c.kind = "none" /\ Becomes(c.id, "table", tables)
           /\ GoesWith(p, "merge", run[p].listed \ {c})
    BY <1>13 DEF Overwrites
  <2>2. Unlike(r, tables)
    BY UnlikeResult
  <2> HIDE DEF tables
  <2>3. run'[p].pc # "unlist" /\ run'[p].listed \subseteq run[p].listed
    BY <2>1 DEF GoesWith
  <2>4. Unlike(r, c.tables) /\ c.id \in Ids
    <3>1. c.tables = <<>>
      BY <2>1, ListedAre DEF Notes
    <3> QED
      BY <2>1, <3>1, UnlikeResult DEF Becomes
  <2>5. \A d \in pr.comments : ~Unlike(r, d.tables) => ~Target(p, d)' /\ d.id # c.id
    BY <1>6, <1>9, <2>3, <2>4
  <2>6. \A q \in Runs \ {r} : run[q].tool = "improve" =>
           \A b \in run[q].listed : b.id = c.id => Unlike(r, b.tables)
    BY <1>9, <2>4
  <2> QED
    BY <1>8, <2>1, <2>2, <2>3, <2>5, <2>6
<1>14. CASE Merges(p)
  <2> DEFINE c == First(run[p].listed)
             tables == Merged(p, c.tables)
  <2>1. /\ run[p].pc = "merge" /\ c \in run[p].listed /\ c \in Notes /\ c.kind = "table"
        /\ \/ /\ HasProgress(p) /\ Becomes(ProgressId(p), "table", tables)
              /\ Goes(p, "unlist")
           \/ /\ ~HasProgress(p) /\ Becomes(c.id, "table", tables)
              /\ Ends(p)
    BY <1>14 DEF Merges
  <2>2. run'[p].pc = "unlist" => \A d : Target(p, d)' => c.id = d.id
    <3> SUFFICES ASSUME run'[p].pc = "unlist" PROVE \A d : Target(p, d)' => c.id = d.id
      OBVIOUS
    <3>1. run'[p].listed = run[p].listed
      BY <2>1 DEF Goes, Ends
    <3>2. c' = c
      BY <1>1, <3>1 DEF First
    <3> QED
      BY <3>2 DEF Target
  <2> HIDE DEF c
  <2>3. Unlike(r, c.tables) <=> Unlike(r, tables)
    <3>1. p \in Tables /\ setting.persistent
      BY <1>2, <2>1 DEF Directed, ToPublish
    <3>2. c.tables \in Seq(Entries) /\ c.tables # <<>>
      BY <2>1 DEF Notes
    <3>3. Good(c.tables) /\ Unlike(p, c.tables) /\ Noted(c.tables)
      BY <2>1 DEF Histories, Improves, Plain
    <3> QED
      BY <1>1, <3>1, <3>2, <3>3, KeptMerged
  <2> HIDE DEF tables
  <2>4. run'[p].listed \subseteq run[p].listed
    BY <2>1 DEF Goes, Ends
  <2>5. CASE HasProgress(p) /\ Becomes(ProgressId(p), "table", tables) /\ Goes(p, "unlist")
    <3>1. run[p].pc \in Unshown
      BY <2>1 DEF Unshown
    <3>2. \A q \in Runs : run[q].tool = "improve" =>
             \A b \in run[q].listed : b.id # ProgressId(p)
      BY <1>4, <2>5, <3>1
    <3>3. \A q \in Runs : run[q].tool = "improve" =>
             \A b \in run'[q].listed : b.id # ProgressId(p)
      BY <1>5, <2>4, <3>2
    <3>4. CASE Unlike(r, c.tables)
      <4>1. \A d \in pr.comments : ~Unlike(r, d.tables) => ~Target(p, d)' /\ d.id # ProgressId(p)
        <5> SUFFICES ASSUME NEW d \in pr.comments, ~Unlike(r, d.tables)
                     PROVE  ~Target(p, d)' /\ d.id # ProgressId(p)
          OBVIOUS
        <5>1. d.id # c.id
          BY <2>1, <3>4 DEF Agree
        <5> QED
          BY <1>3, <2>2, <2>5, <3>1, <5>1 DEF Goes
      <4> QED
        BY <1>8, <2>3, <2>4, <2>5, <3>2, <3>4, <4>1
    <3>5. CASE ~Unlike(r, c.tables)
      <4>1. PICK e \in pr'.comments : e.id = ProgressId(p) /\ e.tables = tables
        <5>1. PICK d \in pr.comments : d.id = ProgressId(p)
          BY <2>5 DEF Becomes, Ids
        <5> QED
          BY <2>5, <5>1 DEF Becomes
      <4>2. ~Unlike(r, e.tables)
        BY <2>3, <3>5, <4>1
      <4>3. ~Target(p, e)'
        BY <2>1, <2>2, <2>5, <3>2, <4>1 DEF Goes
      <4>4. ASSUME NEW q \in Runs \ {p} PROVE ~Target(q, e)'
        <5>1. Target(q, e)' => Target(q, e)
          BY <1>1, TargetStays
        <5>2. ~Target(q, e)
          BY <3>2, <4>1, ListedAre DEF Target
        <5> QED
          BY <5>1, <5>2
      <4>5. ASSUME NEW q \in Runs \ {r}, run[q].tool = "improve", NEW b \in run'[q].listed,
                   NEW d \in pr'.comments, b.id = d.id
            PROVE  Unlike(r, b.tables) <=> Unlike(r, d.tables)
        <5>1. b \in run[q].listed /\ d.id # ProgressId(p)
          BY <1>5, <2>4, <3>3, <4>5
        <5>2. d \in pr.comments
          BY <2>5, <5>1 DEF Becomes
        <5> QED
          BY <4>5, <5>1, <5>2 DEF Agree
      <4> QED
        BY <4>2, <4>3, <4>4, <4>5 DEF Safely, Shows1
    <3> QED
      BY <3>4, <3>5
  <2>6. CASE ~HasProgress(p) /\ Becomes(c.id, "table", tables) /\ Ends(p)
    <3>1. c.id \in Ids /\ run'[p].pc = "done"
      BY <2>6 DEF Becomes, Ends
    <3>2. CASE Unlike(r, c.tables)
      <4>1. \A d \in pr.comments : ~Unlike(r, d.tables) => ~Target(p, d)' /\ d.id # c.id
        BY <1>6, <1>9, <2>1, <3>1, <3>2
      <4>2. \A q \in Runs \ {r} : run[q].tool = "improve" =>
               \A b \in run[q].listed : b.id = c.id => Unlike(r, b.tables)
        BY <1>9, <2>1, <3>1, <3>2
      <4> QED
        BY <1>8, <2>3, <2>4, <2>6, <3>2, <4>1, <4>2
    <3>3. CASE ~Unlike(r, c.tables)
      <4>1. PICK e \in pr'.comments : e.id = c.id /\ e.tables = tables
        <5>1. PICK d \in pr.comments : d.id = c.id
          BY <3>1 DEF Ids
        <5> QED
          BY <2>6, <5>1 DEF Becomes
      <4>2. ~Unlike(r, e.tables)
        BY <2>3, <3>3, <4>1
      <4>3. setting.auto
        <5>1. setting.host \in Gfm /\ run[p].kind = "progress"
          BY <1>2, <2>1 DEF Directed
        <5> QED
          BY <2>6, <5>1 DEF HasProgress
      <4>4. ASSUME NEW q \in Runs PROVE ~Target(q, e)'
        <5>1. run[q].tool = "improve" => run[q].pc # "unlist"
          BY <4>3 DEF Improves, Directed, HasProgress
        <5> QED
          BY <1>1, <3>1, <5>1 DEF Target
      <4>5. ASSUME NEW q \in Runs \ {r}, run[q].tool = "improve", NEW b \in run'[q].listed,
                   NEW d \in pr'.comments, b.id = d.id
            PROVE  Unlike(r, b.tables) <=> Unlike(r, d.tables)
        <5>1. b \in run[q].listed
          BY <1>5, <2>4, <4>5
        <5>2. CASE d \in pr.comments
          BY <4>5, <5>1, <5>2 DEF Agree
        <5>3. CASE d.id = c.id /\ d.tables = tables
          BY <1>9, <2>1, <2>3, <3>1, <3>3, <4>5, <5>1, <5>3
        <5> QED
          BY <2>6, <5>2, <5>3 DEF Becomes
      <4> QED
        BY <4>2, <4>4, <4>5 DEF Safely, Shows1
    <3> QED
      BY <3>2, <3>3
  <2> QED
    BY <2>1, <2>5, <2>6
<1>15. CASE Removes(p)
  <2>1. pr'.comments \subseteq pr.comments /\ run'[p].pc # "unlist"
    BY <1>15 DEF Removes, Removed, Ends
  <2>2. \A d \in pr.comments : ~Unlike(r, d.tables) /\ ~Target(p, d) => d \in pr'.comments
    BY <1>3, <1>15 DEF Removes, Removed, Target
  <2> QED
    BY <1>6, <2>1, <2>2, SafelyBeside
<1> QED
  BY <1>10, <1>11, <1>12, <1>13, <1>14, <1>15 DEF Effects

-----------------------------------------------------------------------------
(* What is shown stays.                                                    *)

\* A call of a run that fails leaves the pull request as it is.
LEMMA FailedCall ==
    ASSUME NEW r, ImproveStep(r)
    PROVE  failures' = failures \/ pr' = pr
<1> DEFINE P == failures' = failures \/ pr' = pr
<1>1. ASSUME NEW x, Local(r, x) PROVE P
  BY <1>1 DEF Local
<1>2. ASSUME NEW call, NEW after, NEW x, NEW y, Call(r, call, after, x, y) PROVE P
  BY <1>2 DEF Call, Refused
<1>3. ASSUME NEW x, CleanupCall(r, x) PROVE P
  BY <1>3 DEF CleanupCall
<1>4. ASSUME NEW c, NEW x, NEW y, PublishCall(r, c, x, y) PROVE P
  BY <1>2, <1>4 DEF PublishCall
<1>5. ASSUME NEW id, NEW c, NEW x, NEW y, EditCall(r, id, c, x, y) PROVE P
  BY <1>2, <1>5 DEF EditCall
<1>6. ASSUME NEW id, NEW kind, NEW x, NEW y, StartComment(r, id, kind, x, y) PROVE P
  BY <1>1, <1>4, <1>6 DEF StartComment
<1>7. ASSUME NEW kind, NEW tables, NEW x, NEW y, Show(r, kind, tables, x, y) PROVE P
  BY <1>4, <1>5, <1>7 DEF Show
<1>8. CASE PrepareImprove(r)
  <2> DEFINE x == [At(r, "predict") EXCEPT !.kind = "progress"]
  <2>1. \/ StartComment(r, "progress", "progress", x, At(r, "failed"))
        \/ StartComment(r, "temp", "temp", At(r, "predict"), At(r, "failed"))
    BY <1>8 DEF PrepareImprove
  <2> HIDE DEF x
  <2> QED
    BY <1>6, <2>1
<1>9. CASE PredictImprove(r)
  BY <1>1, <1>9 DEF PredictImprove
<1>10. CASE NoSuggestions(r) \/ PublishSingle(r) \/ PublishTable(r)
  BY <1>1, <1>7, <1>10 DEF NoSuggestions, PublishSingle, PublishTable
<1>11. CASE FoundSuggestions(r)
  BY <1>3, <1>11 DEF FoundSuggestions
<1>12. CASE PushInline(r) \/ LookForSuggestions(r) \/ RemoveMerged(r)
  BY <1>2, <1>12 DEF PushInline, LookForSuggestions, RemoveMerged
<1>13. CASE OverwriteNone(r) \/ MergeInto(r)
  BY <1>5, <1>13 DEF OverwriteNone, MergeInto
<1>14. CASE NothingToMerge(r)
  BY <1>1, <1>14 DEF NothingToMerge
<1>15. CASE ImproveFailed(r)
  BY <1>2, <1>3, <1>4, <1>15 DEF ImproveFailed
<1> QED
  BY <1>8, <1>9, <1>10, <1>11, <1>12, <1>13, <1>14, <1>15 DEF ImproveStep

\* The step in which an edit slips changes no comment.
LEMMA SlipsBy ==
    ASSUME Known, [Next]_vars, NEW p \in Runs, Works(p), run[p].tool = "improve",
           ~Slips, Slips'
    PROVE  pr' = pr
<1>1. failures' # failures
  BY SameSetting DEF Slips
<1>2. ImproveStep(p)
  BY DEF Works, Step
<1> QED
  BY <1>1, <1>2, FailedCall

Kept(r) == Shown(r) => Excused(r) \/ Shown(r)'

LEMMA GuardedNext ==
    ASSUME Known, Identified, Ordered, Mutual, Histories, Shaped, Slips \/ Improves,
           [Next]_vars, NEW r \in Runs, Guarded(r)
    PROVE  Guarded(r)' /\ Kept(r)
<1>1. CASE Excused(r)
  BY <1>1, ExcusedStays DEF Guarded, Kept
<1>2. ASSUME Safely(r) PROVE Guarded(r)' /\ Kept(r)
  BY <1>2, SafelyGuards DEF Guarded, Kept
<1>3. CASE ~Excused(r)
  <2>1. Improves /\ run[r].met = {} /\ Agree(r) /\ Safe(r) /\ ~Slips
    BY <1>3 DEF Excused, Guarded
  <2>2. CASE Aside
    BY <1>2, <2>1, <2>2, SafelyAside
  <2>3. ASSUME NEW p \in Runs, Works(p), run[p].tool = "improve"
        PROVE  Guarded(r)' /\ Kept(r)
    <3>1. CASE Effects(p)
      <4>1. CASE p = r
        BY <1>2, <2>1, <2>3, <3>1, <4>1, SafelyOwn
      <4>2. CASE p # r
        BY <1>2, <1>3, <2>1, <2>3, <3>1, <4>2, SafelyOther
      <4> QED
        BY <4>1, <4>2
    <3>2. CASE Slips'
      <4>1. pr' = pr
        BY <2>1, <2>3, <3>2, SlipsBy
      <4>2. Shown(r)' <=> Shown(r)
        BY <4>1 DEF Shown
      <4> QED
        BY <3>2, <4>2 DEF Guarded, Excused, Kept
    <3> QED
      BY <2>1, <2>3, <3>1, <3>2, ImproveEffects
  <2> QED
    BY <2>1, <2>2, <2>3, AsideOrImprove
<1> QED
  BY <1>1, <1>3

LEMMA KeptInit ==
    ASSUME Init
    PROVE  /\ Known /\ Identified /\ Ordered /\ Mutual /\ Histories /\ Shaped /\ Improves
           /\ \A r \in Runs : Guarded(r)
<1>1. /\ Known /\ Ordered /\ pr.comments = {} /\ MaxHistory \in Nat
      /\ \A r \in Runs : run[r].listed = {} /\ run[r].met = {} /\ run[r].pc = "idle"
  BY KnownInit, LabelsInit, InitIs, HistoryAssumption
<1>2. \A r \in Runs : run[r].kind = "none"
  BY DEF Init
<1>3. Identified /\ Mutual /\ Histories /\ Shaped
  BY <1>1 DEF Identified, Distinct, Mutual, Histories, Shaped
<1>4. \A r \in Runs : Directed(r) /\ Pending(r)
  BY <1>1, <1>2 DEF Directed, Pending, ToPublish, Unshown, HasProgress, Active
<1>5. Improves
  BY <1>1, <1>4 DEF Improves
<1>6. \A r \in Runs : Guarded(r)
  BY <1>1 DEF Guarded, Agree, Safe, Shown
<1> QED
  BY <1>1, <1>3, <1>5, <1>6

\* The suggestions of a run stay on the pull request until max_history_len
\* later ones are there, whatever the others do (pr_code_suggestions.py:199-345).
THEOREM SuggestionsAreKept == Spec => SuggestionsKept
<1> DEFINE Inv == /\ Known /\ Identified /\ Ordered /\ Mutual /\ Histories /\ Shaped
                  /\ Slips \/ Improves
                  /\ \A r \in Runs : Guarded(r)
           Keep == \A r \in Runs :
              Shown(r) /\ ~Shown(r)' =>
                  \/ run[r].met # {}
                  \/ Cardinality({q \in Tables : q > r}) > MaxHistory - Uncounted
                  \/ \E q \in Tables : run[q].said = "tick"
                  \/ failures > 0 /\ "edit" \in Swallows[setting.host] /\ ~setting.auto
<1>1. Init => Inv
  BY KeptInit
<1>2. Inv /\ [Next]_vars => Inv'
  <2> SUFFICES ASSUME Inv, [Next]_vars PROVE Inv'
    OBVIOUS
  <2>1. Known' /\ Identified' /\ Ordered' /\ Mutual' /\ Histories' /\ Shaped'
    BY KnownNext, IdentifiedNext, OrderedNext, MutualNext, HistoriesNext, ShapedNext
  <2>2. Slips' \/ Improves'
    BY ImprovesNext
  <2>3. \A r \in Runs : Guarded(r)'
    BY GuardedNext
  <2> QED
    BY <2>1, <2>2, <2>3
<1>3. Inv /\ [Next]_vars => [Keep]_vars
  <2> SUFFICES ASSUME Inv, [Next]_vars, NEW r \in Runs, Kept(r)
               PROVE  Shown(r) /\ ~Shown(r)' =>
                         \/ run[r].met # {}
                         \/ Newer(r) > MaxHistory - Uncounted
                         \/ \E q \in Tables : run[q].said = "tick"
                         \/ Slips
    BY GuardedNext DEF Newer, Slips
  <2> QED
    BY DEF Kept, Excused
<1>4. SuggestionsKept <=> [][Keep]_vars
  BY DEF SuggestionsKept
<1> HIDE DEF Inv, Keep
<1> QED
  BY <1>1, <1>2, <1>3, <1>4, PTL DEF Spec

=============================================================================
