----------------------------- MODULE Hunks_proofs -----------------------------
(***************************************************************************)
(* Proofs about the part of Pipeline that looks at the patch of one file   *)
(* (Hunks), for any change as git cuts it, any context and any settings of *)
(* the extension.                                                          *)
(***************************************************************************)
EXTENDS Pipeline, FiniteSetTheorems, SequenceTheorems, WellFoundedInduction, TLAPS

-----------------------------------------------------------------------------
(* Induction over the places of a list.                                    *)

\* A set of numbers has a least one.
LEMMA Least ==
    ASSUME NEW T, T \subseteq Nat, T # {}
    PROVE  \E k \in T : \A j \in T : k <= j
<1>1. \E k \in T : \A j \in T : ~(<<j, k>> \in OpToRel(<, Nat))
  BY NatLessThanWellFounded, WFMin
<1>2. PICK k \in T : \A j \in T : ~(<<j, k>> \in OpToRel(<, Nat))
  BY <1>1
<1>3. \A j \in T : ~(j < k)
  BY <1>2 DEF OpToRel
<1> QED
  BY <1>3

Stepwise(f, x, m, h) == f[0] = x /\ \A n \in 1..m : f[n] = h[n][f[n - 1]]

\* A function on 0..m can be given by its first value and its steps.
LEMMA StepByStep ==
    ASSUME NEW X, NEW x \in X, NEW m \in Nat, NEW h \in [1..m -> [X -> X]]
    PROVE  \E f \in [0..m -> X] : Stepwise(f, x, m, h)
<1> DEFINE From(f, n) == f[0] = x /\ \A k \in 1..n : f[k] = h[k][f[k - 1]]
           T == {n \in 0..m : ~\E f \in [0..n -> X] : From(f, n)}
<1>1. T = {}
  <2> SUFFICES ASSUME T # {} PROVE FALSE
    OBVIOUS
  <2>1. PICK n \in T : \A j \in T : n <= j
    <3>1. T \subseteq Nat
      OBVIOUS
    <3> HIDE DEF T
    <3> QED
      BY <3>1, Least
  <2>2. n \in 0..m /\ ~\E f \in [0..n -> X] : From(f, n)
    BY <2>1
  <2>3. CASE n = 0
    <3> DEFINE f == [k \in 0..0 |-> x]
    <3>1. f \in [0..0 -> X] /\ From(f, 0)
      OBVIOUS
    <3> QED
      BY <2>2, <2>3, <3>1
  <2>4. CASE n # 0
    <3>1. n \in 1..m /\ n - 1 \in 0..m /\ n - 1 \notin T
      <4> HIDE DEF T
      <4> QED
        BY <2>1, <2>2, <2>4
    <3>2. PICK f \in [0..(n - 1) -> X] : From(f, n - 1)
      BY <3>1
    <3>3. h[n] \in [X -> X] /\ f[n - 1] \in X
      BY <3>1
    <3> DEFINE g == [k \in 0..n |-> IF k = n THEN h[n][f[n - 1]] ELSE f[k]]
    <3>4. \A k \in 0..n : k # n => k \in 0..(n - 1)
      BY <3>1
    <3>5. g \in [0..n -> X]
      BY <3>3, <3>4
    <3>6. \A k \in 0..(n - 1) : g[k] = f[k]
      BY <3>1
    <3>7. g[n] = h[n][f[n - 1]]
      BY <3>1
    <3>8. From(g, n)
      <4> HIDE DEF g
      <4>1. 0 \in 0..(n - 1) /\ n - 1 \in 0..(n - 1)
        BY <3>1
      <4>2. g[0] = x
        BY <3>2, <3>6, <4>1
      <4>3. ASSUME NEW k \in 1..n PROVE g[k] = h[k][g[k - 1]]
        <5>1. CASE k = n
          BY <3>6, <3>7, <4>1, <5>1
        <5>2. CASE k # n
          <6>1. k \in 1..(n - 1) /\ k \in 0..(n - 1) /\ k - 1 \in 0..(n - 1)
            BY <3>1, <5>2
          <6> QED
            BY <3>2, <3>6, <6>1
        <5> QED
          BY <5>1, <5>2
      <4> QED
        BY <4>2, <4>3
    <3> HIDE DEF From, g
    <3> QED
      BY <2>2, <3>5, <3>8
  <2> QED
    BY <2>3, <2>4
<1>2. \E f \in [0..m -> X] : From(f, m)
  <2>1. m \in 0..m
    OBVIOUS
  <2> HIDE DEF From
  <2> QED
    BY <1>1, <2>1
<1> QED
  BY <1>2 DEF Stepwise

\* Induction up to a bound, by the places where what is to be shown fails.
LEMMA NoFirstFailure ==
    ASSUME NEW m \in Nat, NEW T, T \subseteq 0..m, 0 \notin T,
           \A n \in 1..m : n \in T => n - 1 \in T
    PROVE  T = {}
<1> SUFFICES ASSUME T # {} PROVE FALSE
  OBVIOUS
<1>1. T \subseteq Nat
  OBVIOUS
<1>2. PICK n \in T : \A j \in T : n <= j
  BY <1>1, Least
<1>3. n \in 1..m /\ n - 1 \in T /\ ~(n <= n - 1)
  BY <1>2
<1> QED
  BY <1>2, <1>3

-----------------------------------------------------------------------------
(* Places of a list and their ranks.                                       *)

\* The number of places up to one.
Rank(places, j) == Cardinality(places \cap 1..j)

LEMMA RankIs ==
    ASSUME NEW places, NEW j \in Nat
    PROVE  /\ IsFiniteSet(places \cap 1..j)
           /\ Rank(places, j) \in Nat /\ Rank(places, j) <= j
           /\ Rank(places, 0) = 0
           /\ j > 0 => Rank(places, j) = Rank(places, j - 1) + IF j \in places THEN 1 ELSE 0
<1>1. /\ IsFiniteSet(1..j) /\ Cardinality(1..j) = IF 1 > j THEN 0 ELSE j - 1 + 1
  BY FS_Interval
<1>2. IsFiniteSet(places \cap 1..j) /\ Cardinality(places \cap 1..j) <= Cardinality(1..j)
  BY <1>1, FS_Intersection
<1>3. Rank(places, j) \in Nat /\ Rank(places, j) <= j
  BY <1>1, <1>2, FS_CardinalityType DEF Rank
<1>4. Rank(places, 0) = 0
  <2>1. places \cap 1..0 = {}
    OBVIOUS
  <2> QED
    BY <2>1, FS_EmptySet DEF Rank
<1>5. ASSUME j > 0
      PROVE  Rank(places, j) = Rank(places, j - 1) + IF j \in places THEN 1 ELSE 0
  <2> DEFINE A == places \cap 1..(j - 1)
  <2>1. IsFiniteSet(A)
    <3>1. IsFiniteSet(1..(j - 1))
      BY FS_Interval
    <3> QED
      BY <3>1, FS_Intersection
  <2>2. j \notin A
    OBVIOUS
  <2>3. places \cap 1..j = IF j \in places THEN A \cup {j} ELSE A
    BY <1>5
  <2>4. Rank(places, j - 1) = Cardinality(A) /\ Cardinality(A) \in Nat
    BY <2>1, FS_CardinalityType DEF Rank
  <2>5. Cardinality(A \cup {j}) = Cardinality(A) + 1
    <3> HIDE DEF A
    <3> QED
      BY <2>1, <2>2, FS_AddElement
  <2> HIDE DEF A
  <2> QED
    BY <2>3, <2>4, <2>5 DEF Rank
<1> QED
  BY <1>2, <1>3, <1>4, <1>5

LEMMA RankGrows ==
    ASSUME NEW places, NEW i \in Nat, NEW j \in Nat, i <= j
    PROVE  /\ Rank(places, i) <= Rank(places, j)
           /\ i < j /\ j \in places => Rank(places, i) < Rank(places, j)
<1>1. ASSUME NEW k \in Nat, i <= k
      PROVE  Rank(places, i) <= Rank(places, k)
  <2>1. IsFiniteSet(places \cap 1..k)
    BY RankIs
  <2>2. (places \cap 1..i) \subseteq (places \cap 1..k)
    BY <1>1
  <2> QED
    BY <2>1, <2>2, FS_Subset DEF Rank
<1>2. ASSUME i < j, j \in places PROVE Rank(places, i) < Rank(places, j)
  <2>1. j - 1 \in Nat /\ i <= j - 1 /\ j > 0
    BY <1>2
  <2>2. Rank(places, i) <= Rank(places, j - 1)
    BY <1>1, <2>1
  <2>3. Rank(places, j) = Rank(places, j - 1) + 1 /\ Rank(places, j - 1) \in Nat /\ Rank(places, i) \in Nat
    BY <1>2, <2>1, RankIs
  <2> QED
    BY <2>2, <2>3
<1> QED
  BY <1>1, <1>2

\* Chosen goes through the list place by place.
LEMMA ChosenSteps ==
    ASSUME NEW S, NEW list \in Seq(S), NEW places, places \subseteq DOMAIN list
    PROVE  \E first \in [0..Len(list) -> Seq(S)] :
              /\ first[0] = <<>>
              /\ \A n \in 1..Len(list) :
                    first[n] = IF n \in places THEN Append(first[n - 1], list[n]) ELSE first[n - 1]
              /\ Chosen(list, places) = first[Len(list)]
<1> DEFINE m == Len(list)
           Step(n, c) == IF n \in places THEN Append(c, list[n]) ELSE c
           h == [n \in 1..m |-> [c \in Seq(S) |-> Step(n, c)]]
           Picks(f) == f = [n \in 0..m |-> IF n = 0 THEN <<>>
                                        ELSE IF n \in places THEN Append(f[n - 1], list[n])
                                        ELSE f[n - 1]]
           first == CHOOSE f : Picks(f)
<1>1. m \in Nat /\ DOMAIN list = 1..m /\ \A n \in 1..m : list[n] \in S
  OBVIOUS
<1>2. h \in [1..m -> [Seq(S) -> Seq(S)]] /\ <<>> \in Seq(S)
  <2>1. \A n \in 1..m, c \in Seq(S) : Step(n, c) \in Seq(S)
    BY <1>1
  <2> HIDE DEF Step
  <2> QED
    BY <2>1
<1>3. PICK g \in [0..m -> Seq(S)] : g[0] = <<>> /\ \A n \in 1..m : g[n] = h[n][g[n - 1]]
  <2> DEFINE X == Seq(S)
             x == <<>>
  <2>1. h \in [1..m -> [X -> X]] /\ x \in X /\ m \in Nat
    BY <1>1, <1>2
  <2> HIDE DEF h, m, X, x
  <2>2. \E g \in [0..m -> X] : Stepwise(g, x, m, h)
    BY <2>1, StepByStep
  <2> QED
    BY <2>2 DEF X, x, Stepwise
<1>4. \A n \in 1..m : g[n] = Step(n, g[n - 1])
  <2> TAKE n \in 1..m
  <2>1. g[n - 1] \in Seq(S)
    BY <1>1
  <2> QED
    BY <1>3, <2>1
<1>5. Picks(g)
  <2>1. \A n \in 0..m : g[n] = IF n = 0 THEN <<>>
                               ELSE IF n \in places THEN Append(g[n - 1], list[n]) ELSE g[n - 1]
    <3> TAKE n \in 0..m
    <3>1. n # 0 => n \in 1..m
      BY <1>1
    <3> HIDE DEF m
    <3> QED
      BY <1>3, <1>4, <3>1
  <2> HIDE DEF m, h
  <2> QED
    BY <2>1
<1>6. Picks(first)
  <2>1. \E f : Picks(f)
    BY <1>5
  <2> HIDE DEF Picks
  <2> QED
    BY <2>1
<1>7. Chosen(list, places) = first[m]
  BY DEF Chosen
<1>8. first = g
  <2> DEFINE T == {n \in 0..m : first[n] # g[n]}
  <2> HIDE DEF first
  <2>1. 0 \in 0..m /\ \A n \in 1..m : n \in 0..m /\ n # 0 /\ n - 1 \in 0..m
    BY <1>1
  <2>2. first[0] = <<>> /\ \A n \in 1..m : first[n] = Step(n, first[n - 1])
    <3>1. \A n \in 0..m : first[n] = IF n = 0 THEN <<>>
                                   ELSE IF n \in places THEN Append(first[n - 1], list[n])
                                   ELSE first[n - 1]
      BY <1>6
    <3> HIDE DEF Picks, m
    <3> QED
      BY <2>1, <3>1
  <2>3. first = [n \in 0..m |-> first[n]] /\ g = [n \in 0..m |-> g[n]]
    BY <1>6
  <2>4. T = {}
    <3>1. T \subseteq 0..m /\ 0 \notin T
      BY <1>3, <2>2
    <3>2. \A n \in 1..m : n \in T => n - 1 \in T
      <4> HIDE DEF Step, m
      <4> QED
        BY <1>4, <2>1, <2>2
    <3> HIDE DEF T, m
    <3>3. m \in Nat
      BY <1>1
    <3> QED
      BY <3>1, <3>2, <3>3, NoFirstFailure
  <2>5. \A n \in 0..m : first[n] = g[n]
    BY <2>4
  <2> HIDE DEF m
  <2> QED
    BY <2>3, <2>5
<1> HIDE DEF first
<1>9. /\ g \in [0..m -> Seq(S)] /\ g[0] = <<>> /\ Chosen(list, places) = g[m]
      /\ \A n \in 1..m : g[n] = IF n \in places THEN Append(g[n - 1], list[n]) ELSE g[n - 1]
  BY <1>3, <1>4, <1>7, <1>8
<1> HIDE DEF h
<1> QED
  BY <1>9

\* A list takes the places in their order: the one of each rank.
LEMMA ChosenByRank ==
    ASSUME NEW S, NEW list \in Seq(S), NEW places, places \subseteq DOMAIN list,
           NEW c, c = Chosen(list, places)
    PROVE  /\ c \in Seq(S) /\ Len(c) = Rank(places, Len(list))
           /\ \A j \in places : Rank(places, j) \in 1..Len(c) /\ c[Rank(places, j)] = list[j]
           /\ \A p \in 1..Len(c) : \E j \in places : Rank(places, j) = p
<1> DEFINE m == Len(list)
<1>1. PICK first \in [0..m -> Seq(S)] :
          /\ first[0] = <<>>
          /\ \A n \in 1..m :
                first[n] = IF n \in places THEN Append(first[n - 1], list[n]) ELSE first[n - 1]
          /\ c = first[m]
  BY ChosenSteps
<1>2. m \in Nat /\ places \subseteq 1..m /\ \A n \in 1..m : list[n] \in S
  OBVIOUS
<1> HIDE DEF m
<1> DEFINE Good(n) ==
              /\ Len(first[n]) = Rank(places, n)
              /\ \A j \in places : j <= n =>
                    Rank(places, j) \in 1..Len(first[n]) /\ first[n][Rank(places, j)] = list[j]
              /\ \A p \in 1..Len(first[n]) : \E j \in places : Rank(places, j) = p
           T == {n \in 0..m : ~Good(n)}
<1>3. 0 \notin T
  <2>1. Len(first[0]) = 0 /\ Rank(places, 0) = 0
    BY <1>1, RankIs
  <2>2. \A j \in places : ~(j <= 0)
    BY <1>2
  <2> QED
    BY <2>1, <2>2
<1>4. ASSUME NEW n \in 1..m, Good(n - 1) PROVE Good(n)
  <2>1. n \in Nat /\ n - 1 \in Nat /\ n - 1 \in 0..m /\ n \in 0..m /\ n > 0
    BY <1>2
  <2>2. first[n - 1] \in Seq(S) /\ Len(first[n - 1]) \in Nat
    BY <2>1
  <2>3. Rank(places, n) = Rank(places, n - 1) + IF n \in places THEN 1 ELSE 0
    BY <2>1, RankIs
  <2>4. CASE n \notin places
    <3>1. first[n] = first[n - 1]
      BY <1>1, <2>4
    <3>2. \A j \in places : j <= n => j <= n - 1
      BY <1>2, <2>1, <2>4
    <3> QED
      BY <1>4, <2>3, <2>4, <3>1, <3>2
  <2>5. CASE n \in places
    <3> DEFINE r == Len(first[n - 1])
               x == list[n]
    <3>1. x \in S /\ first[n] = Append(first[n - 1], x) /\ r \in Nat
      BY <1>1, <1>2, <2>2, <2>5
    <3>2. /\ Len(first[n]) = r + 1 /\ first[n][r + 1] = x
          /\ \A p \in 1..r : first[n][p] = first[n - 1][p]
      <4> HIDE DEF x
      <4> QED
        BY <2>2, <3>1
    <3>3. Rank(places, n) = r + 1 /\ Rank(places, n - 1) = r
      BY <1>4, <2>3, <2>5
    <3> HIDE DEF r
    <3>4. \A j \in places : j <= n => j = n \/ j <= n - 1
      BY <1>2, <2>1
    <3>5. \A j \in places : j <= n - 1 => Rank(places, j) \in 1..r /\ first[n - 1][Rank(places, j)] = list[j]
      BY <1>4 DEF r
    <3>6. \A p \in 1..r : \E j \in places : Rank(places, j) = p
      BY <1>4 DEF r
    <3>7. 1..(r + 1) = 1..r \cup {r + 1}
      BY <3>1
    <3>8. \A j \in places : j <= n =>
              Rank(places, j) \in 1..(r + 1) /\ first[n][Rank(places, j)] = list[j]
      BY <3>2, <3>3, <3>4, <3>5, <3>7
    <3>9. \A p \in 1..(r + 1) : \E j \in places : Rank(places, j) = p
      BY <2>5, <3>3, <3>6, <3>7
    <3> QED
      BY <3>2, <3>3, <3>8, <3>9
  <2> QED
    BY <2>4, <2>5
<1>5. T = {}
  <2>1. T \subseteq 0..m /\ \A n \in 1..m : n \in T => n - 1 \in T
    <3>1. \A n \in 1..m : n - 1 \in 0..m
      BY <1>2
    <3> HIDE DEF Good
    <3> QED
      BY <1>4, <3>1
  <2> HIDE DEF T
  <2> QED
    BY <1>2, <1>3, <2>1, NoFirstFailure
<1>6. Good(m)
  <2>1. m \in 0..m
    BY <1>2
  <2> HIDE DEF Good
  <2> QED
    BY <1>5, <2>1
<1>7. \A j \in places : j <= m
  BY <1>2
<1>8. first[m] \in Seq(S)
  BY <1>2
<1> QED
  BY <1>1, <1>6, <1>7, <1>8 DEF m

\* Lists put together, the first n of them.
Joined(seqs, n) == FlattenSeq([k \in 1..n |-> seqs[k]])

LEMMA JoinedIs ==
    ASSUME NEW S, NEW m \in Nat, NEW seqs \in [1..m -> Seq(S)]
    PROVE  /\ Joined(seqs, 0) = <<>>
           /\ \A n \in 0..m : Joined(seqs, n) \in Seq(S)
           /\ \A n \in 1..m : Joined(seqs, n) = Joined(seqs, n - 1) \o seqs[n]
<1> DEFINE h == [n \in 1..m |-> [c \in Seq(S) |-> c \o seqs[n]]]
           X == Seq(S)
           x == <<>>
<1>1. h \in [1..m -> [X -> X]] /\ x \in X
  OBVIOUS
<1>2. PICK g \in [0..m -> X] : g[0] = <<>> /\ \A n \in 1..m : g[n] = h[n][g[n - 1]]
  <2> HIDE DEF h, X, x
  <2>1. \E g \in [0..m -> X] : Stepwise(g, x, m, h)
    BY <1>1, StepByStep
  <2> QED
    BY <2>1 DEF x, Stepwise
<1>3. \A n \in 0..m : g[n] \in Seq(S)
  BY <1>2
<1>4. \A n \in 1..m : g[n] = g[n - 1] \o seqs[n]
  <2> TAKE n \in 1..m
  <2>1. g[n - 1] \in Seq(S)
    BY <1>3
  <2> QED
    BY <1>2, <2>1
<1> HIDE DEF h, X, x
<1>5. ASSUME NEW n \in 0..m PROVE Joined(seqs, n) = g[n]
  <2> DEFINE list == [k \in 1..n |-> seqs[k]]
             Joins(f) == f = [i \in 1..n |-> IF i = 1 THEN list[i] ELSE f[i - 1] \o list[i]]
             flatten == CHOOSE f : Joins(f)
             f1 == [i \in 1..n |-> g[i]]
  <2>1. list \in Seq(Seq(S)) /\ Len(list) = n /\ n \in Nat /\ \A i \in 1..n : list[i] = seqs[i]
    OBVIOUS
  <2>2. CASE n = 0
    <3>1. Len(list) = 0 /\ list = <<>>
      BY <2>1, <2>2
    <3> HIDE DEF list
    <3>2. FlattenSeq(list) = <<>>
      BY <3>1 DEF FlattenSeq
    <3> QED
      BY <1>2, <2>2, <3>2 DEF Joined, list
  <2>3. CASE n # 0
    <3>1. /\ \A i \in 1..n : i \in 1..m /\ (i # 1 => i - 1 \in 1..n) /\ i - 1 \in 0..m
          /\ n \in 1..n
      BY <2>1, <2>3
    <3>2. Joins(f1)
      <4>1. \A i \in 1..n : f1[i] = IF i = 1 THEN list[i] ELSE f1[i - 1] \o list[i]
        <5> TAKE i \in 1..n
        <5>1. f1[i] = g[i - 1] \o list[i] /\ list[i] \in Seq(S)
          BY <1>4, <2>1, <3>1
        <5>2. CASE i = 1
          <6>1. g[i - 1] = <<>>
            BY <1>2, <5>2
          <6> HIDE DEF f1, list
          <6>2. <<>> \o list[i] = list[i]
            BY <5>1
          <6> QED
            BY <5>1, <5>2, <6>1, <6>2
        <5>3. CASE i # 1
          <6>1. f1[i - 1] = g[i - 1]
            BY <3>1, <5>3
          <6> HIDE DEF f1, list
          <6> QED
            BY <5>1, <5>3, <6>1
        <5> QED
          BY <5>2, <5>3
      <4>2. f1 = [i \in 1..n |-> f1[i]]
        OBVIOUS
      <4> HIDE DEF f1, list
      <4> QED
        BY <4>1, <4>2
    <3>3. Joins(flatten)
      <4>1. \E q : Joins(q)
        BY <3>2
      <4> HIDE DEF Joins
      <4> QED
        BY <4>1
    <3>4. FlattenSeq(list) = flatten[n]
      BY <2>1, <2>3 DEF FlattenSeq
    <3>5. \A i \in 1..n : flatten[i] = IF i = 1 THEN list[i] ELSE flatten[i - 1] \o list[i]
      <4> HIDE DEF flatten, list
      <4> QED
        BY <3>3
    <3>6. \A i \in 1..n : f1[i] = IF i = 1 THEN list[i] ELSE f1[i - 1] \o list[i]
      <4> HIDE DEF f1, list
      <4> QED
        BY <3>2
    <3> HIDE DEF flatten, Joins, list
    <3> DEFINE T == {i \in 1..n : flatten[i] # f1[i]}
    <3>7. T = {}
      <4>1. T \subseteq 0..n /\ 0 \notin T
        OBVIOUS
      <4>2. \A i \in 1..n : i \in T => i - 1 \in T
        <5> SUFFICES ASSUME NEW i \in 1..n, flatten[i] # f1[i] PROVE i - 1 \in 1..n /\ flatten[i - 1] # f1[i - 1]
          OBVIOUS
        <5> HIDE DEF f1
        <5>1. i # 1
          BY <3>5, <3>6
        <5> QED
          BY <3>1, <3>5, <3>6, <5>1
      <4> HIDE DEF T
      <4> QED
        BY <2>1, <4>1, <4>2, NoFirstFailure
    <3>8. flatten[n] = f1[n] /\ f1[n] = g[n]
      BY <3>1, <3>7
    <3> QED
      BY <3>4, <3>8 DEF Joined, list
  <2> QED
    BY <2>2, <2>3
<1>6. \A n \in 1..m : n \in 0..m /\ n - 1 \in 0..m
  OBVIOUS
<1>7. 0 \in 0..m
  OBVIOUS
<1> QED
  BY <1>2, <1>3, <1>4, <1>5, <1>6, <1>7

\* Where the members of each list are in all of them put together.
JoinedEnd(seqs, n) == Len(Joined(seqs, n))
JoinedWell(seqs, n) ==
    /\ \A k \in 0..n : JoinedEnd(seqs, k) <= JoinedEnd(seqs, n)
    /\ \A k \in 1..n : \A i \in 1..Len(seqs[k]) :
          Joined(seqs, n)[JoinedEnd(seqs, k - 1) + i] = seqs[k][i]
    /\ \A p \in 1..JoinedEnd(seqs, n) :
          \E k \in 1..n : \E i \in 1..Len(seqs[k]) : p = JoinedEnd(seqs, k - 1) + i

\* A list that is one list and then another.
EndToEnd(c, d, cd) ==
    /\ Len(c) \in Nat /\ Len(d) \in Nat /\ Len(cd) = Len(c) + Len(d)
    /\ \A p \in 1..Len(c) : cd[p] = c[p]
    /\ \A i \in 1..Len(d) : cd[Len(c) + i] = d[i]

LEMMA ConcatIs ==
    ASSUME NEW S, NEW c \in Seq(S), NEW d \in Seq(S)
    PROVE  c \o d \in Seq(S) /\ EndToEnd(c, d, c \o d)
<1>1. c \o d \in Seq(S) /\ Len(c \o d) = Len(c) + Len(d)
  OBVIOUS
<1>2. Len(c) \in Nat /\ Len(d) \in Nat
  OBVIOUS
<1>3. \A p \in 1..Len(c) : (c \o d)[p] = c[p]
  OBVIOUS
<1>4. \A i \in 1..Len(d) : (c \o d)[Len(c) + i] = d[i]
  OBVIOUS
<1> QED
  BY <1>1, <1>2, <1>3, <1>4 DEF EndToEnd

LEMMA JoinedPlaces ==
    ASSUME NEW S, NEW m \in Nat, NEW seqs \in [1..m -> Seq(S)]
    PROVE  /\ JoinedEnd(seqs, 0) = 0
           /\ \A n \in 0..m : Joined(seqs, n) \in Seq(S) /\ JoinedEnd(seqs, n) \in Nat
           /\ \A n \in 1..m : JoinedEnd(seqs, n) = JoinedEnd(seqs, n - 1) + Len(seqs[n])
           /\ \A n \in 0..m : JoinedWell(seqs, n)
<1> DEFINE J(n) == Joined(seqs, n)
           L(n) == JoinedEnd(seqs, n)
<1>1. /\ J(0) = <<>>
      /\ \A n \in 0..m : J(n) \in Seq(S) /\ L(n) \in Nat /\ L(n) = Len(J(n))
      /\ \A n \in 1..m : J(n) = J(n - 1) \o seqs[n]
  <2>1. J(0) = <<>> /\ (\A n \in 0..m : J(n) \in Seq(S)) /\ \A n \in 1..m : J(n) = J(n - 1) \o seqs[n]
    BY JoinedIs
  <2>2. \A n \in 0..m : L(n) = Len(J(n))
    BY DEF JoinedEnd
  <2> HIDE DEF J, L
  <2>3. \A n \in 0..m : Len(J(n)) \in Nat
    BY <2>1
  <2> QED
    BY <2>1, <2>2, <2>3
<1>2. \A n \in 1..m : n - 1 \in 0..m /\ n \in 0..m /\ seqs[n] \in Seq(S) /\ Len(seqs[n]) \in Nat
  OBVIOUS
<1> HIDE DEF J, L
<1>3. ASSUME NEW n \in 1..m
      PROVE  /\ L(n) = L(n - 1) + Len(seqs[n])
             /\ \A p \in 1..L(n - 1) : J(n)[p] = J(n - 1)[p]
             /\ \A i \in 1..Len(seqs[n]) : J(n)[L(n - 1) + i] = seqs[n][i]
  <2> DEFINE c == J(n - 1)
             d == seqs[n]
  <2>1. c \in Seq(S) /\ d \in Seq(S) /\ J(n) = c \o d /\ L(n - 1) = Len(c) /\ L(n) = Len(J(n))
    BY <1>1, <1>2
  <2> HIDE DEF c, d
  <2>2. /\ Len(c \o d) = Len(c) + Len(d)
        /\ \A p \in 1..Len(c) : (c \o d)[p] = c[p]
        /\ \A i \in 1..Len(d) : (c \o d)[Len(c) + i] = d[i]
    BY <2>1, ConcatIs DEF EndToEnd
  <2> QED
    BY <2>1, <2>2 DEF c, d
<1>4. L(0) = 0
  <2>1. 0 \in 0..m
    OBVIOUS
  <2> QED
    BY <1>1, <2>1
<1> DEFINE Good(n) ==
              /\ \A k \in 0..n : L(k) <= L(n)
              /\ \A k \in 1..n : \A i \in 1..Len(seqs[k]) : J(n)[L(k - 1) + i] = seqs[k][i]
              /\ \A p \in 1..L(n) : \E k \in 1..n : \E i \in 1..Len(seqs[k]) : p = L(k - 1) + i
           T == {n \in 0..m : ~Good(n)}
<1>5. 0 \notin T
  BY <1>4
<1>6. ASSUME NEW n \in 1..m, Good(n - 1) PROVE Good(n)
  <2>1. /\ n - 1 \in 0..m /\ n \in Nat /\ L(n - 1) \in Nat /\ L(n) \in Nat /\ Len(seqs[n]) \in Nat
        /\ L(n) = L(n - 1) + Len(seqs[n])
    <3>1. n - 1 \in 0..m /\ n \in 0..m /\ n \in Nat
      BY <1>2
    <3> QED
      BY <1>1, <1>2, <1>3, <3>1
  <2>2. \A k \in 1..n : k = n \/ k \in 1..(n - 1)
    BY <2>1
  <2>3. ASSUME NEW k \in 1..n, NEW i \in 1..Len(seqs[k])
        PROVE  J(n)[L(k - 1) + i] = seqs[k][i]
    <3>1. CASE k = n
      BY <1>3, <2>1, <3>1
    <3>2. CASE k \in 1..(n - 1)
      <4> DEFINE p == L(k - 1) + i
      <4>1. k \in 1..m /\ k - 1 \in 0..m /\ k \in 0..m /\ k \in 0..(n - 1)
        BY <2>1, <3>2
      <4>2. L(k) <= L(n - 1) /\ L(k) \in Nat /\ L(k - 1) \in Nat /\ L(k) = L(k - 1) + Len(seqs[k])
            /\ Len(seqs[k]) \in Nat
        BY <1>1, <1>2, <1>3, <1>6, <4>1
      <4>3. p \in 1..L(n - 1)
        <5> DEFINE x == L(k - 1)
                   y == L(k)
                   z == L(n - 1)
                   u == Len(seqs[k])
        <5>1. x \in Nat /\ y \in Nat /\ z \in Nat /\ u \in Nat /\ y = x + u /\ y <= z
          BY <2>1, <4>2
        <5> HIDE DEF x, y, z, u
        <5>2. i \in 1..u
          BY DEF u
        <5>3. x + i \in 1..z
          BY <5>1, <5>2
        <5> QED
          BY <5>3 DEF p, x, z
      <4>4. J(n - 1)[p] = seqs[k][i]
        BY <1>6, <3>2
      <4> HIDE DEF p
      <4>5. J(n)[p] = J(n - 1)[p]
        BY <1>3, <4>3
      <4> QED
        BY <4>4, <4>5 DEF p
    <3> QED
      BY <2>2, <3>1, <3>2
  <2>5. ASSUME NEW k \in 0..n PROVE L(k) <= L(n)
    <3>1. CASE k = n
      BY <2>1, <3>1
    <3>2. CASE k \in 0..(n - 1)
      <4>1. L(k) <= L(n - 1)
        BY <1>6, <3>2
      <4>2. k \in 0..m
        BY <2>1, <3>2
      <4>3. L(k) \in Nat
        BY <1>1, <4>2
      <4> QED
        BY <2>1, <4>1, <4>3
    <3> QED
      BY <2>1, <3>1, <3>2
  <2>4. ASSUME NEW p \in 1..L(n)
        PROVE  \E k \in 1..n : \E i \in 1..Len(seqs[k]) : p = L(k - 1) + i
    <3>1. CASE p \in 1..L(n - 1)
      <4>1. PICK k \in 1..(n - 1) : \E i \in 1..Len(seqs[k]) : p = L(k - 1) + i
        BY <1>6, <3>1
      <4>2. k \in 1..n
        BY <2>1
      <4> QED
        BY <4>1, <4>2
    <3>2. CASE p \notin 1..L(n - 1)
      <4> DEFINE i == p - L(n - 1)
      <4>1. i \in 1..Len(seqs[n]) /\ p = L(n - 1) + i
        BY <2>1, <3>2
      <4>2. n \in 1..n
        BY <2>1
      <4> QED
        BY <4>1, <4>2
    <3> QED
      BY <3>1, <3>2
  <2> QED
    BY <2>3, <2>4, <2>5
<1>7. T = {}
  <2>1. T \subseteq 0..m /\ \A n \in 1..m : n \in T => n - 1 \in T
    <3> HIDE DEF Good
    <3> QED
      BY <1>2, <1>6
  <2> HIDE DEF T
  <2> QED
    BY <1>5, <2>1, NoFirstFailure
<1>8. \A n \in 0..m : Good(n)
  BY <1>7
<1>9. \A n \in 0..m : JoinedWell(seqs, n)
  <2> TAKE n \in 0..m
  <2>1. Good(n)
    BY <1>8
  <2> QED
    BY <2>1 DEF JoinedWell, J, L
<1> QED
  BY <1>1, <1>3, <1>4, <1>9 DEF J, L

-----------------------------------------------------------------------------
(* The files git compares, line by line.                                   *)

LineOps == {"=", "-", "+"}
AnyLine == [op : LineOps, text : Int \X Int]
Rows(list, ops) == {j \in DOMAIN list : list[j].op \in ops}

\* What is selected of a list by the operations of its lines: the rank of a
\* line is its place in the selection.
Selects(list, ops, c) ==
    LET P == Rows(list, ops) IN
    /\ P \subseteq 1..Len(list) /\ Len(c) \in Nat /\ Len(c) = Rank(P, Len(list))
    /\ \A j \in P : Rank(P, j) \in 1..Len(c) /\ c[Rank(P, j)] = list[j]
    /\ \A p \in 1..Len(c) : \E j \in P : Rank(P, j) = p

LEMMA LinesAre ==
    ASSUME NEW S, NEW list \in Seq(S), NEW ops
    PROVE  Lines(list, ops) \in Seq(S) /\ Selects(list, ops, Lines(list, ops))
<1> DEFINE P == Rows(list, ops)
           c == Lines(list, ops)
<1>1. P \subseteq DOMAIN list /\ DOMAIN list = 1..Len(list)
  BY DEF Rows
<1>2. c = Chosen(list, P)
  BY DEF Rows, Lines, Those
<1> HIDE DEF P, c
<1>3. /\ c \in Seq(S) /\ Len(c) = Rank(P, Len(list))
      /\ \A j \in P : Rank(P, j) \in 1..Len(c) /\ c[Rank(P, j)] = list[j]
      /\ \A p \in 1..Len(c) : \E j \in P : Rank(P, j) = p
  BY <1>1, <1>2, ChosenByRank
<1>4. Len(c) \in Nat
  BY <1>3
<1> QED
  BY <1>1, <1>3, <1>4 DEF P, c, Selects

LEMMA BodyIs ==
    ASSUME AsGitCuts(change), NEW k \in 1..Len(change.hunks)
    PROVE  /\ change.hunks[k].skip \in Nat
           /\ Body(k) \in Seq(AnyLine) /\ Len(Body(k)) = Len(change.hunks[k].body)
           /\ Len(Body(k)) \in Nat
           /\ \A j \in 1..Len(Body(k)) :
                 /\ Body(k)[j].op = change.hunks[k].body[j] /\ Body(k)[j].op \in LineOps
                 /\ Body(k)[j].text = <<k, j>>
<1> DEFINE s == change.hunks[k].body
           n == Len(s)
<1>1. change.hunks[k] \in [skip : Nat, body : Seq(LineOps)]
  <2> DEFINE hunks == change.hunks
             R == [skip : Nat, body : Seq(LineOps)]
  <2>1. hunks \in Seq(R) /\ k \in 1..Len(hunks)
    BY DEF AsGitCuts, LineOps
  <2> HIDE DEF hunks, R
  <2>2. hunks[k] \in R
    BY <2>1
  <2> QED
    BY <2>2 DEF hunks, R
<1>2. s \in Seq(LineOps) /\ change.hunks[k].skip \in Nat
  BY <1>1
<1> HIDE DEF s
<1>3. n \in Nat /\ DOMAIN s = 1..n /\ \A j \in 1..n : s[j] \in LineOps
  BY <1>2
<1> HIDE DEF n
<1>4. Body(k) = [j \in 1..n |-> [op |-> s[j], text |-> <<k, j>>]]
  BY <1>3 DEF Body, s
<1>5. \A j \in 1..n : [op |-> s[j], text |-> <<k, j>>] \in AnyLine
  <2> TAKE j \in 1..n
  <2>1. k \in Int /\ j \in Int
    OBVIOUS
  <2> QED
    BY <1>3, <2>1 DEF AnyLine
<1>6. Body(k) \in Seq(AnyLine) /\ Len(Body(k)) = n
  BY <1>3, <1>4, <1>5
<1>7. ASSUME NEW j \in 1..n
      PROVE  Body(k)[j].op = s[j] /\ s[j] \in LineOps /\ Body(k)[j].text = <<k, j>>
  <2>1. Body(k)[j] = [op |-> s[j], text |-> <<k, j>>]
    BY <1>4
  <2> QED
    BY <1>3, <2>1
<1>8. change.hunks[k].skip \in Nat /\ s = change.hunks[k].body /\ n = Len(change.hunks[k].body)
  BY <1>2 DEF n, s
<1> QED
  BY <1>3, <1>6, <1>7, <1>8

LEMMA UnshownIs ==
    ASSUME NEW k \in Int, NEW n \in Nat
    PROVE  /\ Unshown(k, n) \in Seq(AnyLine) /\ Len(Unshown(k, n)) = n
           /\ \A u \in 1..n : Unshown(k, n)[u] = [op |-> "=", text |-> <<k, -u>>]
<1>1. Unshown(k, n) = [j \in 1..n |-> [op |-> "=", text |-> <<k, -j>>]]
  BY DEF Unshown
<1>2. \A j \in 1..n : [op |-> "=", text |-> <<k, -j>>] \in AnyLine
  <2> TAKE j \in 1..n
  <2>1. j \in Int /\ -j \in Int
    OBVIOUS
  <2> QED
    BY <2>1 DEF AnyLine, LineOps
<1> QED
  BY <1>1, <1>2

\* The part of a file that a hunk stands for: lines left out, then its own.
PartWell(k, ops) ==
    LET skip == change.hunks[k].skip
        P == Rows(Body(k), ops)
        count == Count(k, ops)
        part == Part(k, ops)
    IN  /\ skip \in Nat /\ part \in Seq(AnyLine)
        /\ count \in Nat /\ Len(part) = skip + count
        /\ count = Rank(P, Len(Body(k))) /\ P \subseteq 1..Len(Body(k))
        /\ \A u \in 1..skip : part[u] = [op |-> "=", text |-> <<k, -u>>]
        /\ \A j \in P : Rank(P, j) \in 1..count /\ part[skip + Rank(P, j)] = Body(k)[j]
        /\ \A i \in 1..count : \E j \in P : Rank(P, j) = i

LEMMA PartIs ==
    ASSUME AsGitCuts(change), NEW k \in 1..Len(change.hunks), NEW ops
    PROVE  PartWell(k, ops)
<1> DEFINE skip == change.hunks[k].skip
           P == Rows(Body(k), ops)
           count == Count(k, ops)
           part == Part(k, ops)
           c == Unshown(k, skip)
           d == Lines(Body(k), ops)
<1>1. skip \in Nat /\ Body(k) \in Seq(AnyLine)
  BY BodyIs
<1>2. c \in Seq(AnyLine) /\ Len(c) = skip /\ \A u \in 1..skip : c[u] = [op |-> "=", text |-> <<k, -u>>]
  <2>1. k \in Int
    OBVIOUS
  <2> QED
    BY <1>1, <2>1, UnshownIs
<1>3. d \in Seq(AnyLine) /\ Selects(Body(k), ops, d)
  BY <1>1, LinesAre
<1>4. /\ P \subseteq 1..Len(Body(k)) /\ Len(d) = Rank(P, Len(Body(k)))
      /\ \A j \in P : Rank(P, j) \in 1..Len(d) /\ d[Rank(P, j)] = Body(k)[j]
      /\ \A p \in 1..Len(d) : \E j \in P : Rank(P, j) = p
  BY <1>3 DEF Selects
<1>5. part = c \o d /\ count = Len(d)
  BY DEF Part, Count
<1>6. c \o d \in Seq(AnyLine) /\ EndToEnd(c, d, c \o d)
  BY <1>2, <1>3, ConcatIs
<1> HIDE DEF c, d, part, count, skip, P
<1>7. /\ part \in Seq(AnyLine) /\ Len(part) = skip + count /\ count \in Nat
      /\ \A u \in 1..skip : part[u] = c[u]
      /\ \A i \in 1..count : part[skip + i] = d[i]
  BY <1>2, <1>5, <1>6 DEF EndToEnd
<1>8. \A u \in 1..skip : part[u] = [op |-> "=", text |-> <<k, -u>>]
  BY <1>2, <1>7
<1>9. \A j \in P : Rank(P, j) \in 1..count /\ part[skip + Rank(P, j)] = Body(k)[j]
  BY <1>4, <1>5, <1>7
<1>10. count = Rank(P, Len(Body(k))) /\ \A i \in 1..count : \E j \in P : Rank(P, j) = i
  BY <1>4, <1>5
<1>11. skip \in Nat /\ P \subseteq 1..Len(Body(k))
  BY <1>1, <1>4
<1> QED
  BY <1>7, <1>8, <1>9, <1>10, <1>11 DEF PartWell, skip, P, count, part

\* The place before the part of the next hunk.
End(n, ops) == Len(UpTo(n, ops))

LEMMA PartsAreJoined ==
    ASSUME AsGitCuts(change), NEW ops, NEW m, m = Len(change.hunks)
    PROVE  /\ m \in Nat
           /\ \E seqs \in [1..m -> Seq(AnyLine)] :
                 /\ \A k \in 1..m : seqs[k] = Part(k, ops)
                 /\ \A n \in 0..m : Joined(seqs, n) = UpTo(n, ops) /\ JoinedEnd(seqs, n) = End(n, ops)
<1> DEFINE seqs == [k \in 1..m |-> Part(k, ops)]
<1>1. m \in Nat
  BY DEF AsGitCuts
<1>2. seqs \in [1..m -> Seq(AnyLine)]
  <2>1. \A k \in 1..m : Part(k, ops) \in Seq(AnyLine)
    BY PartIs DEF PartWell
  <2> QED
    BY <2>1
<1>3. \A n \in 0..m : Joined(seqs, n) = UpTo(n, ops)
  <2> TAKE n \in 0..m
  <2>1. \A k \in 1..n : k \in 1..m
    BY <1>1
  <2>2. [k \in 1..n |-> seqs[k]] = [k \in 1..n |-> Part(k, ops)]
    BY <2>1
  <2> QED
    BY <2>2 DEF Joined, UpTo
<1>4. \A k \in 1..m : seqs[k] = Part(k, ops)
  OBVIOUS
<1> HIDE DEF seqs
<1>5. \A n \in 0..m : JoinedEnd(seqs, n) = End(n, ops)
  BY <1>3 DEF JoinedEnd, End
<1> QED
  BY <1>1, <1>2, <1>3, <1>4, <1>5

UpToWell(ops) ==
    LET m == Len(change.hunks) IN
    /\ End(0, ops) = 0
    /\ \A n \in 0..m : UpTo(n, ops) \in Seq(AnyLine) /\ End(n, ops) \in Nat
    /\ \A n \in 1..m : End(n, ops) = End(n - 1, ops) + Len(Part(n, ops))
    /\ \A n \in 0..m : \A k \in 0..n : End(k, ops) <= End(n, ops)
    /\ \A n \in 0..m : \A k \in 1..n : \A i \in 1..Len(Part(k, ops)) :
          UpTo(n, ops)[End(k - 1, ops) + i] = Part(k, ops)[i]
    /\ \A n \in 0..m : \A p \in 1..End(n, ops) :
          \E k \in 1..n : \E i \in 1..Len(Part(k, ops)) : p = End(k - 1, ops) + i

LEMMA UpToIs ==
    ASSUME AsGitCuts(change), NEW ops
    PROVE  UpToWell(ops)
<1> DEFINE m == Len(change.hunks)
<1>1. m \in Nat
  BY PartsAreJoined
<1>2. PICK seqs \in [1..m -> Seq(AnyLine)] :
          /\ \A k \in 1..m : seqs[k] = Part(k, ops)
          /\ \A n \in 0..m : Joined(seqs, n) = UpTo(n, ops) /\ JoinedEnd(seqs, n) = End(n, ops)
  BY PartsAreJoined
<1> HIDE DEF m
<1>3. /\ \A n \in 1..m : n \in 0..m /\ n - 1 \in 0..m
      /\ \A n \in 0..m : \A k \in 1..n : k \in 1..m /\ k - 1 \in 0..m
      /\ \A n \in 0..m : \A k \in 0..n : k \in 0..m
      /\ 0 \in 0..m
  BY <1>1
<1>4. /\ JoinedEnd(seqs, 0) = 0
      /\ \A n \in 0..m : Joined(seqs, n) \in Seq(AnyLine) /\ JoinedEnd(seqs, n) \in Nat
      /\ \A n \in 1..m : JoinedEnd(seqs, n) = JoinedEnd(seqs, n - 1) + Len(seqs[n])
      /\ \A n \in 0..m : JoinedWell(seqs, n)
  BY <1>1, JoinedPlaces
<1>5. End(0, ops) = 0 /\ \A n \in 0..m : UpTo(n, ops) \in Seq(AnyLine) /\ End(n, ops) \in Nat
  BY <1>2, <1>3, <1>4
<1>6. ASSUME NEW n \in 1..m PROVE End(n, ops) = End(n - 1, ops) + Len(Part(n, ops))
  <2>1. n \in 0..m /\ n - 1 \in 0..m
    BY <1>3
  <2> QED
    BY <1>2, <1>4, <2>1
<1>7. ASSUME NEW n \in 0..m, NEW k \in 0..n PROVE End(k, ops) <= End(n, ops)
  <2>1. k \in 0..m
    BY <1>3
  <2>2. JoinedEnd(seqs, k) <= JoinedEnd(seqs, n)
    BY <1>4 DEF JoinedWell
  <2> QED
    BY <1>2, <2>1, <2>2
<1>8. ASSUME NEW n \in 0..m, NEW k \in 1..n, NEW i \in 1..Len(Part(k, ops))
      PROVE  UpTo(n, ops)[End(k - 1, ops) + i] = Part(k, ops)[i]
  <2>1. k \in 1..m /\ k - 1 \in 0..m
    BY <1>3
  <2>2. seqs[k] = Part(k, ops)
    BY <1>2, <2>1
  <2>3. Joined(seqs, n)[JoinedEnd(seqs, k - 1) + i] = seqs[k][i]
    BY <1>4, <2>2 DEF JoinedWell
  <2> QED
    BY <1>2, <2>1, <2>2, <2>3
<1>9. ASSUME NEW n \in 0..m, NEW p \in 1..End(n, ops)
      PROVE  \E k \in 1..n : \E i \in 1..Len(Part(k, ops)) : p = End(k - 1, ops) + i
  <2>1. JoinedEnd(seqs, n) = End(n, ops)
    BY <1>2
  <2>2. \A q \in 1..JoinedEnd(seqs, n) :
            \E k \in 1..n : \E i \in 1..Len(seqs[k]) : q = JoinedEnd(seqs, k - 1) + i
    BY <1>4 DEF JoinedWell
  <2>3. PICK k \in 1..n : \E i \in 1..Len(seqs[k]) : p = JoinedEnd(seqs, k - 1) + i
    BY <2>1, <2>2
  <2>4. k \in 1..m /\ k - 1 \in 0..m
    BY <1>3
  <2>5. seqs[k] = Part(k, ops) /\ JoinedEnd(seqs, k - 1) = End(k - 1, ops)
    BY <1>2, <2>4
  <2> QED
    BY <2>3, <2>5
<1> QED
  BY <1>5, <1>6, <1>7, <1>8, <1>9 DEF UpToWell, m

\* A file: the parts of its hunks, and the lines after the last.
FileWell(ops) ==
    LET m == Len(change.hunks)
        file == File(ops)
    IN  /\ m \in Nat /\ change.tail \in Nat /\ End(m, ops) \in Nat
        /\ file \in Seq(AnyLine) /\ Len(file) = End(m, ops) + change.tail
        /\ \A p \in 1..End(m, ops) : file[p] = UpTo(m, ops)[p]
        /\ \A u \in 1..change.tail : file[End(m, ops) + u] = [op |-> "=", text |-> <<0, -u>>]

LEMMA FileIs ==
    ASSUME AsGitCuts(change), NEW ops
    PROVE  FileWell(ops)
<1> DEFINE m == Len(change.hunks)
           file == File(ops)
           c == UpTo(m, ops)
           d == Unshown(0, change.tail)
<1>1. m \in Nat /\ change.tail \in Nat
  BY DEF AsGitCuts
<1>2. UpToWell(ops)
  BY UpToIs
<1>3. c \in Seq(AnyLine) /\ Len(c) = End(m, ops) /\ End(m, ops) \in Nat
  <2>1. m \in 0..m
    BY <1>1
  <2>2. UpTo(m, ops) \in Seq(AnyLine) /\ End(m, ops) \in Nat
    BY <1>2, <2>1 DEF UpToWell
  <2> QED
    BY <2>2 DEF End
<1>4. /\ d \in Seq(AnyLine) /\ Len(d) = change.tail
      /\ \A u \in 1..change.tail : d[u] = [op |-> "=", text |-> <<0, -u>>]
  <2>1. 0 \in Int
    OBVIOUS
  <2> QED
    BY <1>1, <2>1, UnshownIs
<1>5. file = c \o d
  BY DEF File
<1>6. c \o d \in Seq(AnyLine) /\ EndToEnd(c, d, c \o d)
  BY <1>3, <1>4, ConcatIs
<1> DEFINE before == End(m, ops)
           tail == change.tail
<1> HIDE DEF c, d, file, m, before, tail
<1>7. /\ file \in Seq(AnyLine) /\ Len(file) = before + tail
      /\ \A p \in 1..before : file[p] = c[p]
      /\ \A u \in 1..tail : file[before + u] = d[u]
  BY <1>3, <1>4, <1>5, <1>6 DEF EndToEnd, before, tail
<1>8. \A u \in 1..tail : file[before + u] = [op |-> "=", text |-> <<0, -u>>]
  BY <1>4, <1>7 DEF tail
<1> QED
  BY <1>1, <1>3, <1>7, <1>8 DEF FileWell, m, file, c, before, tail

\* The lines of one hunk and those left out before it.
HunkWell(k, ops) ==
    LET file == File(ops)
        before == End(k - 1, ops)
        above == Above(k, ops)
        count == Count(k, ops)
        skip == change.hunks[k].skip
        P == Rows(Body(k), ops)
    IN  /\ before \in Nat /\ above \in Nat /\ count \in Nat /\ skip \in Nat
        /\ above = before + skip
        /\ End(k, ops) = above + count /\ above + count <= Len(file) /\ Len(file) \in Nat
        /\ count = Rank(P, Len(Body(k))) /\ P \subseteq 1..Len(Body(k))
        /\ \A u \in 1..skip : file[before + u] = [op |-> "=", text |-> <<k, -u>>]
        /\ \A j \in P : Rank(P, j) \in 1..count /\ file[above + Rank(P, j)] = Body(k)[j]
        /\ \A i \in 1..count : \E j \in P : Rank(P, j) = i

LEMMA HunkLines ==
    ASSUME AsGitCuts(change), NEW ops, NEW k \in 1..Len(change.hunks)
    PROVE  HunkWell(k, ops)
<1> DEFINE m == Len(change.hunks)
           file == File(ops)
           before == End(k - 1, ops)
           after == End(k, ops)
           end == End(m, ops)
           tail == change.tail
           above == Above(k, ops)
           count == Count(k, ops)
           skip == change.hunks[k].skip
           P == Rows(Body(k), ops)
           part == Part(k, ops)
           all == UpTo(m, ops)
<1>1. m \in Nat /\ m \in 0..m /\ k - 1 \in 0..m /\ k \in 1..m /\ k \in 0..m
  BY DEF AsGitCuts
<1>2. PartWell(k, ops) /\ UpToWell(ops) /\ FileWell(ops)
  BY FileIs, PartIs, UpToIs
<1>3. /\ skip \in Nat /\ count \in Nat /\ Len(part) = skip + count
      /\ count = Rank(P, Len(Body(k))) /\ P \subseteq 1..Len(Body(k))
      /\ \A u \in 1..skip : part[u] = [op |-> "=", text |-> <<k, -u>>]
      /\ \A j \in P : Rank(P, j) \in 1..count /\ part[skip + Rank(P, j)] = Body(k)[j]
      /\ \A i \in 1..count : \E j \in P : Rank(P, j) = i
  BY <1>2 DEF PartWell
<1>4. before \in Nat /\ after \in Nat /\ end \in Nat /\ after <= end
  BY <1>1, <1>2 DEF UpToWell
<1>5. after = before + Len(part)
  BY <1>1, <1>2 DEF UpToWell
<1>6. \A i \in 1..Len(part) : all[before + i] = part[i]
  BY <1>1, <1>2 DEF UpToWell
<1>7. /\ Len(file) = end + tail /\ tail \in Nat
      /\ \A p \in 1..end : file[p] = all[p]
  BY <1>2 DEF FileWell
<1>8. above = before + skip
  BY DEF Above, End
<1> HIDE DEF m, file, before, after, end, tail, above, count, skip, P, part, all
<1>9. \A i \in 1..(skip + count) : file[before + i] = part[i]
  <2> TAKE i \in 1..(skip + count)
  <2>1. before + i \in 1..end
    BY <1>3, <1>4, <1>5
  <2> QED
    BY <1>3, <1>6, <1>7, <2>1
<1>10. \A u \in 1..skip : file[before + u] = [op |-> "=", text |-> <<k, -u>>]
  <2> TAKE u \in 1..skip
  <2>1. u \in 1..(skip + count)
    BY <1>3
  <2> QED
    BY <1>3, <1>9, <2>1
<1>11. \A j \in P : Rank(P, j) \in 1..count /\ file[above + Rank(P, j)] = Body(k)[j]
  <2> TAKE j \in P
  <2> DEFINE r == Rank(P, j)
  <2>1. r \in 1..count /\ part[skip + r] = Body(k)[j]
    BY <1>3
  <2> HIDE DEF r
  <2>2. skip + r \in 1..(skip + count) /\ before + (skip + r) = above + r
    <3>1. skip \in Nat /\ count \in Nat /\ before \in Nat /\ r \in 1..count
      BY <1>3, <1>4, <2>1
    <3> QED
      BY <1>8, <3>1
  <2>3. file[above + r] = Body(k)[j]
    BY <1>9, <2>1, <2>2
  <2> QED
    BY <2>1, <2>3 DEF r
<1>12. /\ above \in Nat /\ after = above + count /\ above + count <= Len(file)
       /\ Len(file) \in Nat
  <2>1. /\ skip \in Nat /\ count \in Nat /\ before \in Nat /\ end \in Nat /\ tail \in Nat
        /\ after <= end /\ Len(file) = end + tail
    BY <1>3, <1>4, <1>7
  <2>2. after = before + (skip + count)
    BY <1>3, <1>5
  <2>3. above \in Nat /\ after = above + count
    BY <1>8, <2>1, <2>2
  <2> QED
    BY <2>1, <2>3
<1>13. count = Rank(P, Len(Body(k))) /\ P \subseteq 1..Len(Body(k))
       /\ \A i \in 1..count : \E j \in P : Rank(P, j) = i
  BY <1>3
<1>14. before \in Nat /\ count \in Nat /\ skip \in Nat
  BY <1>3, <1>4
<1> QED
  BY <1>8, <1>10, <1>11, <1>12, <1>13, <1>14
  DEF HunkWell, file, before, after, above, count, skip, P

\* Every line of a file is left out before a hunk, is in one, or is after all.
LEMMA EveryLine ==
    ASSUME AsGitCuts(change), NEW ops, NEW p \in 1..Len(File(ops))
    PROVE  \/ \E k \in 1..Len(change.hunks) : \E u \in 1..change.hunks[k].skip :
                 p = End(k - 1, ops) + u
           \/ \E k \in 1..Len(change.hunks) : \E j \in Rows(Body(k), ops) :
                 p = Above(k, ops) + Rank(Rows(Body(k), ops), j)
           \/ \E u \in 1..change.tail : p = End(Len(change.hunks), ops) + u
<1> DEFINE m == Len(change.hunks)
           end == End(m, ops)
           tail == change.tail
<1>1. UpToWell(ops) /\ FileWell(ops)
  BY FileIs, UpToIs
<1>2. m \in Nat /\ m \in 0..m /\ end \in Nat /\ tail \in Nat /\ Len(File(ops)) = end + tail
  BY <1>1 DEF FileWell
<1>3. \A q \in 1..end : \E k \in 1..m : \E i \in 1..Len(Part(k, ops)) : q = End(k - 1, ops) + i
  BY <1>1, <1>2 DEF UpToWell
<1>4. CASE p \in 1..end
  <2>0. PICK k \in 1..m : \E i \in 1..Len(Part(k, ops)) : p = End(k - 1, ops) + i
    BY <1>3, <1>4
  <2>1. PICK i \in 1..Len(Part(k, ops)) : p = End(k - 1, ops) + i
    BY <2>0
  <2> DEFINE skip == change.hunks[k].skip
             P == Rows(Body(k), ops)
             before == End(k - 1, ops)
             count == Count(k, ops)
             above == Above(k, ops)
  <2>2. PartWell(k, ops) /\ HunkWell(k, ops)
    BY HunkLines, PartIs
  <2>3. Len(Part(k, ops)) = skip + count /\ skip \in Nat /\ count \in Nat
    BY <2>2 DEF PartWell
  <2>4. before \in Nat /\ above = before + skip /\ \A n \in 1..count : \E j \in P : Rank(P, j) = n
    BY <2>2 DEF HunkWell
  <2> HIDE DEF skip, P, before, count, above
  <2>5. i \in 1..(skip + count) /\ p = before + i
    BY <2>1, <2>3 DEF before
  <2>6. CASE i <= skip
    <3>1. i \in 1..skip
      BY <2>3, <2>5, <2>6
    <3> QED
      BY <2>5, <3>1 DEF skip, before
  <2>7. CASE ~(i <= skip)
    <3>1. i - skip \in 1..count /\ i \in Int
      BY <2>3, <2>5, <2>7
    <3>2. PICK j \in P : Rank(P, j) = i - skip
      BY <2>4, <3>1
    <3>3. p = above + Rank(P, j)
      BY <2>3, <2>4, <2>5, <3>1, <3>2
    <3> QED
      BY <3>3 DEF P, above
  <2> QED
    BY <2>6, <2>7
<1>5. CASE p \notin 1..end
  <2> DEFINE u == p - end
  <2>1. u \in 1..tail /\ p = end + u
    <3> HIDE DEF end, tail, m
    <3> QED
      BY <1>2, <1>5
  <2> QED
    BY <2>1
<1> QED
  BY <1>4, <1>5

-----------------------------------------------------------------------------
(* Where the lines of a change are in a file.                              *)

\* A line of a hunk is where its rank says, and nowhere else.
LEMMA WhereShown ==
    ASSUME AsGitCuts(change), NEW ops, NEW k \in 1..Len(change.hunks),
           NEW j \in 1..Len(Body(k)), NEW n \in 1..Len(File(ops)),
           File(ops)[n].text = <<k, j>>
    PROVE  j \in Rows(Body(k), ops) /\ n = Above(k, ops) + Rank(Rows(Body(k), ops), j)
<1> DEFINE m == Len(change.hunks)
           file == File(ops)
<1>1. m \in Nat /\ k \in Int /\ j \in Int /\ j > 0
  <2>1. Len(Body(k)) \in Nat
    BY BodyIs
  <2> QED
    BY <2>1 DEF AsGitCuts
<1>2. ASSUME NEW h \in 1..m, NEW u \in 1..change.hunks[h].skip, n = End(h - 1, ops) + u
      PROVE  FALSE
  <2>1. HunkWell(h, ops)
    BY HunkLines
  <2>2. file[n] = [op |-> "=", text |-> <<h, -u>>] /\ change.hunks[h].skip \in Nat
    BY <1>2, <2>1 DEF HunkWell
  <2>3. <<h, -u>> = <<k, j>>
    BY <2>2
  <2>4. -u = j
    BY <2>3
  <2> QED
    BY <1>1, <2>2, <2>4
<1>3. ASSUME NEW u \in 1..change.tail, n = End(m, ops) + u
      PROVE  FALSE
  <2>1. FileWell(ops)
    BY FileIs
  <2>2. file[n] = [op |-> "=", text |-> <<0, -u>>]
    BY <1>3, <2>1 DEF FileWell
  <2>3. <<0, -u>> = <<k, j>>
    BY <2>2
  <2>4. k = 0
    BY <2>3
  <2> QED
    BY <2>4
<1>4. ASSUME NEW h \in 1..m, NEW i \in Rows(Body(h), ops),
             n = Above(h, ops) + Rank(Rows(Body(h), ops), i)
      PROVE  h = k /\ i = j
  <2>1. HunkWell(h, ops)
    BY HunkLines
  <2>2. file[n] = Body(h)[i] /\ i \in 1..Len(Body(h))
    BY <1>4, <2>1 DEF HunkWell
  <2>3. Body(h)[i].text = <<h, i>>
    BY <2>2, BodyIs
  <2>4. <<h, i>> = <<k, j>>
    BY <2>2, <2>3
  <2> QED
    BY <2>4
<1>5. \/ \E h \in 1..m : \E u \in 1..change.hunks[h].skip : n = End(h - 1, ops) + u
      \/ \E h \in 1..m : \E i \in Rows(Body(h), ops) :
            n = Above(h, ops) + Rank(Rows(Body(h), ops), i)
      \/ \E u \in 1..change.tail : n = End(m, ops) + u
  BY EveryLine
<1>6. PICK h \in 1..m : \E i \in Rows(Body(h), ops) :
         n = Above(h, ops) + Rank(Rows(Body(h), ops), i)
  BY <1>2, <1>3, <1>5
<1> QED
  BY <1>4, <1>6

\* The lines of a hunk end before those of the next.
LEMMA InTheirOrder ==
    ASSUME AsGitCuts(change), NEW ops, NEW h \in 1..Len(change.hunks),
           NEW k \in 1..Len(change.hunks), h < k
    PROVE  /\ End(h, ops) <= End(k - 1, ops)
           /\ End(h, ops) < Above(k, ops)
<1> DEFINE m == Len(change.hunks)
<1>1. m \in Nat /\ k - 1 \in 0..m /\ h \in 0..(k - 1) /\ k > 1
  BY DEF AsGitCuts
<1>2. UpToWell(ops) /\ HunkWell(k, ops)
  BY HunkLines, UpToIs
<1>3. End(h, ops) <= End(k - 1, ops)
  BY <1>1, <1>2 DEF UpToWell
<1>4. change.hunks[k].skip > 0
  BY <1>1 DEF AsGitCuts
<1>5. h \in 0..m
  BY <1>1
<1>6. End(k - 1, ops) \in Nat /\ change.hunks[k].skip \in Nat
      /\ Above(k, ops) = End(k - 1, ops) + change.hunks[k].skip
  BY <1>2 DEF HunkWell
<1>7. End(h, ops) \in Nat
  BY <1>2, <1>5 DEF UpToWell
<1> QED
  BY <1>3, <1>4, <1>6, <1>7

\* A hunk with context begins and ends with it.
LEMMA ContextAround ==
    ASSUME AsGitCuts(change), Context \in Nat \ {0}, NEW k \in 1..Len(change.hunks)
    PROVE  /\ k > 1 => change.hunks[k].skip > 0
           /\ change.hunks[k].skip > 0 =>
                 Context <= Len(Body(k)) /\ \A j \in 1..Context : Body(k)[j].op = "="
           /\ k < Len(change.hunks) \/ change.tail > 0 =>
                 Context <= Len(Body(k)) /\ Body(k)[Len(Body(k))].op = "="
<1> DEFINE body == change.hunks[k].body
           L == Len(Body(k))
<1>1. L = Len(body) /\ L \in Nat /\ \A j \in 1..L : Body(k)[j].op = body[j]
  BY BodyIs
<1>2. k > 1 => change.hunks[k].skip > 0
  BY DEF AsGitCuts
<1>3. ASSUME change.hunks[k].skip > 0
      PROVE  Context <= L /\ \A j \in 1..Context : Body(k)[j].op = "="
  <2>1. Context <= Len(body) /\ \A j \in 1..Context : body[j] = "="
    BY <1>3 DEF AsGitCuts
  <2> HIDE DEF body, L
  <2> QED
    BY <1>1, <2>1
<1>4. ASSUME k < Len(change.hunks) \/ change.tail > 0
      PROVE  Context <= L /\ Body(k)[L].op = "="
  <2>0. k < Len(change.hunks) \/ change.tail > 0 =>
            Context <= Len(body) /\ \A j \in 1..Context : body[Len(body) + 1 - j] = "="
    <3> DEFINE hunks == change.hunks
               tail == change.tail
    <3>1. \A i \in DOMAIN hunks :
             LET b == hunks[i].body IN
             i < Len(hunks) \/ tail > 0 =>
                 Context <= Len(b) /\ \A j \in 1..Context : b[Len(b) + 1 - j] = "="
      BY DEF AsGitCuts
    <3>2. k \in DOMAIN hunks
      BY DEF AsGitCuts
    <3> HIDE DEF hunks, tail
    <3> QED
      BY <3>1, <3>2 DEF hunks, tail
  <2>1. Context <= Len(body) /\ \A j \in 1..Context : body[Len(body) + 1 - j] = "="
    BY <1>4, <2>0
  <2> HIDE DEF body, L
  <2>2. 1 \in 1..Context /\ L + 1 - 1 = L /\ L \in 1..L
    BY <1>1, <2>1
  <2> QED
    BY <1>1, <2>1, <2>2
<1> QED
  BY <1>2, <1>3, <1>4

\* Without a line in one of the files, it is the only hunk and there is nothing
\* around it.
LEMMA NothingAround ==
    ASSUME AsGitCuts(change), Context \in Nat \ {0}, NEW k \in 1..Len(change.hunks),
           NEW ops, "=" \in ops, Count(k, ops) = 0
    PROVE  /\ k = 1 /\ Len(change.hunks) = 1 /\ change.tail = 0
           /\ change.hunks[k].skip = 0
           /\ Above(k, ops) = 0 /\ Len(File(ops)) = 0 /\ Rows(Body(k), ops) = {}
<1> DEFINE P == Rows(Body(k), ops)
           L == Len(Body(k))
           skip == change.hunks[k].skip
           m == Len(change.hunks)
           tail == change.tail
<1>1. HunkWell(k, ops) /\ UpToWell(ops) /\ FileWell(ops)
  BY FileIs, HunkLines, UpToIs
<1>2. P = {}
  <2>1. \A j \in P : Rank(P, j) \in 1..0
    BY <1>1 DEF HunkWell
  <2> QED
    BY <2>1
<1>3. L \in Nat /\ DOMAIN Body(k) = 1..L
  BY BodyIs
<1>4. \A j \in 1..L : Body(k)[j].op # "="
  BY <1>2, <1>3 DEF Rows
<1>5. /\ k > 1 => skip > 0
      /\ skip > 0 => Context <= L /\ \A j \in 1..Context : Body(k)[j].op = "="
      /\ k < m \/ tail > 0 => Context <= L /\ Body(k)[L].op = "="
  BY ContextAround
<1>6. skip \in Nat /\ tail \in Nat /\ m \in Nat
  BY <1>1 DEF HunkWell, FileWell
<1> HIDE DEF skip, L, tail, m
<1>7. ~(skip > 0)
  <2>1. Context <= L => 1 \in 1..L /\ 1 \in 1..Context
    BY <1>3
  <2> QED
    BY <1>4, <1>5, <2>1
<1>8. ~(k < m \/ tail > 0)
  <2>1. Context <= L => L \in 1..L
    BY <1>3
  <2> QED
    BY <1>4, <1>5, <2>1
<1>9. skip = 0 /\ tail = 0 /\ k = 1 /\ m = 1
  <2>1. k \in 1..m
    BY DEF m
  <2> QED
    BY <1>5, <1>6, <1>7, <1>8, <2>1
<1>10. Above(k, ops) = 0
  <2>1. Above(k, ops) = End(k - 1, ops) + skip /\ End(k - 1, ops) \in Nat
    BY <1>1 DEF HunkWell, skip
  <2>2. End(0, ops) = 0
    BY <1>1 DEF UpToWell
  <2> QED
    BY <1>9, <2>1, <2>2
<1>11. Len(File(ops)) = 0
  <2>1. Len(File(ops)) = End(m, ops) + tail
    BY <1>1 DEF FileWell, m, tail
  <2>2. End(k, ops) = Above(k, ops) + 0
    BY <1>1 DEF HunkWell
  <2> QED
    BY <1>9, <1>10, <2>1, <2>2
<1> QED
  BY <1>2, <1>9, <1>10, <1>11 DEF skip, m, tail, P

LEMMA RankOfAll ==
    ASSUME NEW P, NEW j \in Nat, 1..j \subseteq P
    PROVE  Rank(P, j) = j
<1>1. P \cap 1..j = 1..j
  OBVIOUS
<1>2. Cardinality(1..j) = IF 1 > j THEN 0 ELSE j - 1 + 1
  BY FS_Interval
<1>3. Rank(P, j) = Cardinality(1..j)
  BY <1>1 DEF Rank
<1>4. (IF 1 > j THEN 0 ELSE j - 1 + 1) = j
  OBVIOUS
<1> QED
  BY <1>2, <1>3, <1>4

\* What a line after a hunk says: lines left out, and as many again as git
\* shows, are the same in both files.
After(k, i) ==
    IF k = Len(change.hunks) THEN <<0, -i>>
    ELSE IF i <= change.hunks[k + 1].skip THEN <<k + 1, -i>>
    ELSE <<k + 1, i - change.hunks[k + 1].skip>>

LEMMA LineAfter ==
    ASSUME AsGitCuts(change), Context \in Nat \ {0}, NEW ops, "=" \in ops,
           NEW k \in 1..Len(change.hunks), NEW i \in 1..(Context + 1),
           k = Len(change.hunks) => i <= change.tail
    PROVE  /\ End(k, ops) + i \in 1..Len(File(ops))
           /\ File(ops)[End(k, ops) + i].text = After(k, i)
<1> DEFINE m == Len(change.hunks)
           tail == change.tail
           end == End(k, ops)
           file == File(ops)
<1>1. FileWell(ops) /\ HunkWell(k, ops)
  BY FileIs, HunkLines
<1>2. m \in Nat /\ tail \in Nat /\ Len(file) = End(m, ops) + tail
  BY <1>1 DEF FileWell
<1>3. end \in Nat
  BY <1>1 DEF HunkWell
<1>4. CASE k = m
  <2>1. i \in 1..tail
    BY <1>2, <1>4
  <2>2. file[end + i] = [op |-> "=", text |-> <<0, -i>>]
    BY <1>1, <1>4, <2>1 DEF FileWell
  <2>3. end + i \in 1..Len(file)
    <3>1. Len(file) = end + tail
      BY <1>2, <1>4
    <3> HIDE DEF file, end, tail, m
    <3> QED
      BY <1>2, <1>3, <2>1, <3>1
  <2> QED
    BY <1>4, <2>2, <2>3 DEF After
<1>5. CASE k # m
  <2> DEFINE h == k + 1
             skip == change.hunks[h].skip
             P == Rows(Body(h), ops)
             above == Above(h, ops)
             count == Count(h, ops)
  <2>1. h \in 1..m /\ h - 1 = k /\ h > 1
    BY <1>2, <1>5
  <2>2. HunkWell(h, ops)
    BY <2>1, HunkLines
  <2>3. /\ above \in Nat /\ count \in Nat /\ skip \in Nat /\ above = end + skip
        /\ above + count <= Len(file) /\ Len(file) \in Nat
    BY <2>1, <2>2 DEF HunkWell
  <2>4. \A u \in 1..skip : file[end + u] = [op |-> "=", text |-> <<h, -u>>]
    BY <2>1, <2>2 DEF HunkWell
  <2>5. \A j \in P : Rank(P, j) \in 1..count /\ file[above + Rank(P, j)] = Body(h)[j]
    BY <2>2 DEF HunkWell
  <2>6. skip > 0 /\ Context <= Len(Body(h)) /\ \A j \in 1..Context : Body(h)[j].op = "="
    BY <2>1, ContextAround
  <2>7. After(k, i) = IF i <= skip THEN <<h, -i>> ELSE <<h, i - skip>>
    BY <1>5 DEF After
  <2>8. CASE i <= skip
    <3>1. i \in 1..skip
      <4>1. i \in Nat /\ i > 0
        OBVIOUS
      <4>2. skip \in Nat
        BY <2>3
      <4> HIDE DEF skip, h
      <4> QED
        BY <2>8, <4>1, <4>2
    <3>2. file[end + i].text = <<h, -i>>
      <4> HIDE DEF end, file, skip, h
      <4>1. file[end + i] = [op |-> "=", text |-> <<h, -i>>]
        BY <2>4, <3>1
      <4> QED
        BY <4>1
    <3>3. end + i \in 1..Len(file)
      <4> HIDE DEF end, skip, above, count, file
      <4> QED
        BY <1>3, <2>3, <3>1
    <3> QED
      BY <2>7, <2>8, <3>2, <3>3
  <2>9. CASE ~(i <= skip)
    <3> DEFINE j == i - skip
    <3>1. j \in 1..Context /\ end + i = above + j /\ j \in Nat
      <4> HIDE DEF end, skip, above, h
      <4>1. end \in Nat /\ skip \in Nat /\ skip > 0 /\ above = end + skip /\ i \in 1..(Context + 1)
        BY <1>3, <2>3, <2>6
      <4> QED
        BY <2>9, <4>1
    <3>2. Body(h) \in Seq(AnyLine) /\ Len(Body(h)) \in Nat
          /\ \A q \in 1..Len(Body(h)) : Body(h)[q].text = <<h, q>>
      BY <2>1, BodyIs
    <3> HIDE DEF j
    <3>3. 1..j \subseteq P
      <4>1. \A q \in 1..j : q \in 1..Context /\ q \in 1..Len(Body(h))
        <5> HIDE DEF h
        <5> QED
          BY <2>6, <3>1, <3>2
      <4>2. \A q \in 1..Len(Body(h)) : q \in DOMAIN Body(h)
        BY <3>2
      <4> HIDE DEF h
      <4> QED
        BY <2>6, <4>1, <4>2 DEF Rows
    <3>4. Rank(P, j) = j
      BY <3>1, <3>3, RankOfAll
    <3>5. j \in P /\ j \in 1..Len(Body(h))
      <4>1. j \in 1..j
        BY <3>1
      <4>2. j \in 1..Len(Body(h))
        <5> HIDE DEF h
        <5> QED
          BY <2>6, <3>1, <3>2
      <4> QED
        BY <3>3, <4>1, <4>2
    <3>6. j \in 1..count /\ file[above + j].text = <<h, j>>
      BY <2>5, <3>2, <3>4, <3>5
    <3>7. above + j \in 1..Len(file)
      <4> HIDE DEF above, count, file, end, skip, h
      <4>1. j \in 1..count
        BY <3>6
      <4> QED
        BY <2>3, <4>1
    <3> QED
      BY <2>7, <2>9, <3>1, <3>6, <3>7 DEF j
  <2> QED
    BY <2>8, <2>9
<1> QED
  BY <1>4, <1>5

LEMMA SameAfter ==
    ASSUME AsGitCuts(change), Context \in Nat \ {0},
           NEW k \in 1..Len(change.hunks), NEW i \in 1..(Context + 1),
           End(k, InOld) + i <= Len(File(InOld))
    PROVE  /\ End(k, InNew) + i \in 1..Len(File(InNew))
           /\ File(InNew)[End(k, InNew) + i].text = File(InOld)[End(k, InOld) + i].text
<1>1. "=" \in InOld /\ "=" \in InNew
  BY DEF InNew, InOld
<1>2. k = Len(change.hunks) => i <= change.tail
  <2>1. FileWell(InOld)
    BY FileIs
  <2>2. Len(File(InOld)) = End(Len(change.hunks), InOld) + change.tail
        /\ change.tail \in Nat /\ End(Len(change.hunks), InOld) \in Nat
    BY <2>1 DEF FileWell
  <2> QED
    BY <2>2
<1>3. File(InOld)[End(k, InOld) + i].text = After(k, i)
  BY <1>1, <1>2, LineAfter
<1>4. /\ End(k, InNew) + i \in 1..Len(File(InNew))
      /\ File(InNew)[End(k, InNew) + i].text = After(k, i)
  BY <1>1, <1>2, LineAfter
<1> QED
  BY <1>3, <1>4

-----------------------------------------------------------------------------
(* Parts of files, and what git says of a hunk.                            *)

SliceWell(file, a, b) ==
    LET s == Slice(file, a, b) IN
    /\ s \in Seq(AnyLine) /\ Len(s) \in Nat
    /\ \A x \in 1..Len(s) : a + x - 1 \in 1..Len(file) /\ s[x] = file[a + x - 1]
    /\ a <= b => Len(s) <= b - a
    /\ a <= b /\ b - 1 <= Len(file) => Len(s) = b - a
    /\ b <= a => Len(s) = 0
    /\ a > Len(file) => Len(s) = 0

LEMMA SliceIs ==
    ASSUME NEW file \in Seq(AnyLine), NEW a \in Nat \ {0}, NEW b \in Int
    PROVE  SliceWell(file, a, b)
<1> DEFINE L == Len(file)
           n == IF b - 1 < L THEN b - 1 ELSE L
           s == SubSeq(file, a, n)
<1>1. L \in Nat /\ \A i \in 1..L : file[i] \in AnyLine
  OBVIOUS
<1>2. n \in Int /\ n <= L
  BY <1>1
<1>3. \A i \in a..n : file[i] \in AnyLine
  BY <1>1, <1>2
<1>4. s = Slice(file, a, b)
  BY DEF Slice
<1>5. n = IF b - 1 < L THEN b - 1 ELSE L
  OBVIOUS
<1> HIDE DEF n
<1>6. /\ s \in Seq(AnyLine) /\ Len(s) = IF a <= n THEN n - a + 1 ELSE 0
      /\ \A i \in 1..(n - a + 1) : s[i] = file[a + i - 1]
  BY <1>2, <1>3, SubSeqProperties
<1> HIDE DEF s, L
<1>7. Len(s) \in Nat
  BY <1>2, <1>6
<1>8. \A x \in 1..Len(s) : a + x - 1 \in 1..L /\ s[x] = file[a + x - 1]
  <2> TAKE x \in 1..Len(s)
  <2>1. x \in 1..(n - a + 1)
    BY <1>2, <1>6
  <2>2. s[x] = file[a + x - 1]
    BY <1>6, <2>1
  <2>3. a + x - 1 \in 1..L
    BY <1>1, <1>2, <2>1
  <2> QED
    BY <2>2, <2>3
<1>9. /\ a <= b => Len(s) <= b - a
      /\ a <= b /\ b - 1 <= L => Len(s) = b - a
      /\ b <= a => Len(s) = 0
      /\ a > L => Len(s) = 0
  <2> DEFINE len == Len(s)
  <2>1. len = (IF a <= n THEN n - a + 1 ELSE 0) /\ a \in Int /\ b \in Int /\ n \in Int /\ L \in Int
    BY <1>1, <1>2, <1>6
  <2> HIDE DEF len
  <2>2. a <= b => len <= b - a
    BY <1>5, <2>1
  <2>3. a <= b /\ b - 1 <= L => len = b - a
    BY <1>5, <2>1
  <2>4. (b <= a => len = 0) /\ (a > L => len = 0)
    BY <1>5, <2>1
  <2> QED
    BY <2>2, <2>3, <2>4 DEF len
<1> QED
  BY <1>4, <1>6, <1>7, <1>8, <1>9 DEF SliceWell, L

AnyHead == [op : {"@@"}, text : Int \X Int \cup {<<>>}, start1 : Int, size1 : Int, start2 : Int, size2 : Int]

HeaderWell(k) ==
    LET h == Header(k) IN
    /\ h \in AnyHead /\ h.start1 \in Nat /\ h.start2 \in Nat
    /\ Count(k, InNew) > 0 => h.start2 = Above(k, InNew) + 1
    /\ h.start2 <= Len(File(InNew)) /\ (Count(k, InNew) = 0 => h.start2 = 0)
    /\ Count(k, InOld) > 0 => h.start1 = Above(k, InOld) + 1
    /\ Count(k, InOld) # 1 => h.size1 = Count(k, InOld)
    /\ Count(k, InOld) = 1 => h.size1 = 0
    /\ h.size2 = IF Count(k, InNew) = 1 THEN 0 ELSE Count(k, InNew)
    /\ h.text \in {<<>>, <<1, -1>>}

LEMMA HeaderIs ==
    ASSUME AsGitCuts(change), Context \in Nat \ {0}, NEW k \in 1..Len(change.hunks)
    PROVE  HeaderWell(k)
<1> DEFINE h == Header(k)
           a1 == Above(k, InOld)
           a2 == Above(k, InNew)
           c1 == Count(k, InOld)
           c2 == Count(k, InNew)
           text == IF section /\ change.hunks[1].skip > 0 THEN <<1, -1>> ELSE <<>>
<1>1. HunkWell(k, InOld) /\ HunkWell(k, InNew)
  BY HunkLines
<1>2. /\ a1 \in Nat /\ c1 \in Nat /\ a2 \in Nat /\ c2 \in Nat
      /\ a2 + c2 <= Len(File(InNew)) /\ Len(File(InNew)) \in Nat
  BY <1>1 DEF HunkWell
<1>3. h = [op |-> "@@", text |-> text,
           start1 |-> a1 + IF c1 = 0 THEN 0 ELSE 1, size1 |-> IF c1 = 1 THEN 0 ELSE c1,
           start2 |-> a2 + IF c2 = 0 THEN 0 ELSE 1, size2 |-> IF c2 = 1 THEN 0 ELSE c2]
  BY DEF Header, Start, Read
<1>4. text \in {<<>>, <<1, -1>>} /\ text \in Int \X Int \cup {<<>>}
  <2>1. <<1, -1>> \in Int \X Int
    OBVIOUS
  <2> QED
    BY <2>1
<1>5. c2 = 0 => a2 = 0
  <2>1. "=" \in InNew
    BY DEF InNew
  <2> QED
    BY <2>1, NothingAround
<1> HIDE DEF text, a1, a2, c1, c2
<1>6. h \in AnyHead
  BY <1>2, <1>3, <1>4 DEF AnyHead
<1>7. /\ h.start1 \in Nat /\ h.start2 \in Nat
      /\ c2 > 0 => h.start2 = a2 + 1
      /\ h.start2 <= Len(File(InNew)) /\ (c2 = 0 => h.start2 = 0)
      /\ c1 > 0 => h.start1 = a1 + 1
      /\ c1 # 1 => h.size1 = c1
      /\ c1 = 1 => h.size1 = 0
      /\ h.size2 = IF c2 = 1 THEN 0 ELSE c2
  BY <1>2, <1>3, <1>5
<1>8. h.text \in {<<>>, <<1, -1>>}
  BY <1>3, <1>4
<1> QED
  BY <1>6, <1>7, <1>8 DEF HeaderWell, a1, a2, c1, c2

-----------------------------------------------------------------------------
(* The lines before a hunk that are added to it.                           *)

LEMMA LimitsAre ==
    ASSUME NEW h \in AnyHead, NEW n \in Nat, NEW e, e.after \in Nat, old \in Seq(AnyLine),
           NEW l, l = Limits(h, n, e)
    PROVE  /\ l \in AnyHead /\ l.start1 >= 1 /\ l.start2 >= 1
           /\ h.start2 >= 1 => l.start2 <= h.start2
<1> DEFINE start1 == IF h.start1 - n > 1 THEN h.start1 - n ELSE 1
           start2 == IF h.start2 - n > 1 THEN h.start2 - n ELSE 1
           size1 == h.size1 + (h.start1 - start1) + e.after
           size2 == h.size2 + (h.start2 - start2) + e.after
           cap == start1 - 1 + size1 - Len(old)
           Capped(size, least) == IF cap <= 0 THEN size
                                  ELSE IF size - cap > least THEN size - cap ELSE least
<1>1. h.start1 \in Int /\ h.size1 \in Int /\ h.start2 \in Int /\ h.size2 \in Int /\ Len(old) \in Int
  BY DEF AnyHead
<1>2. /\ start1 \in Int /\ start2 \in Int /\ start1 >= 1 /\ start2 >= 1
      /\ h.start2 >= 1 => start2 <= h.start2
  BY <1>1
<1>3. l = [h EXCEPT !.start1 = start1, !.start2 = start2,
                    !.size1 = Capped(size1, h.size1), !.size2 = Capped(size2, h.size2)]
  BY DEF Limits
<1> HIDE DEF start1, start2
<1>4. size1 \in Int /\ size2 \in Int
  <2>1. e.after \in Int
    OBVIOUS
  <2>2. size1 \in Int
    BY <1>1, <1>2, <2>1
  <2>3. size2 \in Int
    BY <1>1, <1>2, <2>1
  <2> QED
    BY <2>2, <2>3
<1> HIDE DEF size1, size2
<1>5. cap \in Int
  BY <1>1, <1>2, <1>4
<1> HIDE DEF cap
<1>6. Capped(size1, h.size1) \in Int /\ Capped(size2, h.size2) \in Int
  BY <1>1, <1>4, <1>5
<1> HIDE DEF Capped
<1> QED
  BY <1>2, <1>3, <1>6 DEF AnyHead

LEMMA ShiftIs ==
    ASSUME NEW l \in AnyHead, NEW i \in Int, NEW s, s = Shift(l, i)
    PROVE  s \in AnyHead /\ s.start1 = l.start1 + i /\ s.start2 = l.start2 + i
<1> DEFINE a == l.start1 + i
           b == l.start2 + i
           c == l.size1 - i
           d == l.size2 - i
<1>1. s = [l EXCEPT !.start1 = a, !.start2 = b, !.size1 = c, !.size2 = d]
  BY DEF Shift
<1>2. a \in Int /\ b \in Int /\ c \in Int /\ d \in Int
  BY DEF AnyHead
<1> HIDE DEF a, b, c, d
<1>3. s \in AnyHead /\ s.start1 = a /\ s.start2 = b
  BY <1>1, <1>2 DEF AnyHead
<1> QED
  BY <1>3 DEF a, b

\* Python compares the two lists from the same index on: the ends are the same
\* only if the lists are equally long.
LEMMA CommonEndsAre ==
    ASSUME NEW s \in Seq(AnyLine), NEW t \in Seq(AnyLine), NEW i \in CommonEnds(s, t)
    PROVE  i \in 1..Len(s) /\ Len(t) = Len(s) /\ \A x \in i..Len(s) : s[x] = t[x]
<1> DEFINE n == Len(s)
           m == Len(t)
           S == AnyLine
<1>1. n \in Nat /\ m \in Nat /\ i \in 1..n /\ SubSeq(s, i, n) = SubSeq(t, i, m)
  BY DEF CommonEnds
<1>2. i \in Int /\ n \in Int /\ m \in Int
  BY <1>1
<1>3. \A x \in i..n : s[x] \in S
  BY <1>1
<1>4. \A x \in i..m : t[x] \in S
  BY <1>1
<1> HIDE DEF n, m, S
<1>5. /\ SubSeq(s, i, n) \in Seq(S)
      /\ Len(SubSeq(s, i, n)) = IF i <= n THEN n - i + 1 ELSE 0
      /\ \A x \in 1..(n - i + 1) : SubSeq(s, i, n)[x] = s[i + x - 1]
  BY <1>2, <1>3, SubSeqProperties
<1>6. /\ SubSeq(t, i, m) \in Seq(S)
      /\ Len(SubSeq(t, i, m)) = IF i <= m THEN m - i + 1 ELSE 0
      /\ \A x \in 1..(m - i + 1) : SubSeq(t, i, m)[x] = t[i + x - 1]
  BY <1>2, <1>4, SubSeqProperties
<1>7. m = n
  BY <1>1, <1>5, <1>6
<1>8. ASSUME NEW x \in i..n PROVE s[x] = t[x]
  <2>1. x - i + 1 \in 1..(n - i + 1) /\ i + (x - i + 1) - 1 = x
    BY <1>1
  <2> QED
    BY <1>1, <1>5, <1>6, <1>7, <2>1
<1> QED
  BY <1>1, <1>7, <1>8 DEF n, m

LEMMA WiderIs ==
    ASSUME NEW h \in AnyHead, h.start1 \in Nat, h.start2 \in Nat,
           NEW e, e.before \in Nat, e.after \in Nat, e.dynamic \in Nat,
           old \in Seq(AnyLine), new \in Seq(AnyLine), NEW w, w = Wider(h, e)
    PROVE  /\ w \in AnyHead /\ w.start1 >= 1 /\ w.start2 >= 1
           /\ h.start2 >= 1 => w.start2 <= h.start2
<1> DEFINE plain == Limits(h, e.before, e)
           l == Limits(h, e.dynamic, e)
           before == Slice(old, l.start1, h.start1)
           after == Slice(new, l.start2, h.start2)
           headings == {i \in DOMAIN before : h.text \in {<<>>, before[i].text}}
           i == Min(headings)
<1>1. /\ plain \in AnyHead /\ plain.start1 >= 1 /\ plain.start2 >= 1
      /\ h.start2 >= 1 => plain.start2 <= h.start2
  BY LimitsAre
<1>2. /\ l \in AnyHead /\ l.start1 >= 1 /\ l.start2 >= 1
      /\ h.start2 >= 1 => l.start2 <= h.start2
  BY LimitsAre
<1>3. \/ w = plain
      \/ i \in CommonEnds(before, after) /\ w = [Shift(l, i - 1) EXCEPT !.text = <<>>]
  BY DEF Wider, DynamicLimits
<1> HIDE DEF i, plain, l
<1>4. ASSUME i \in CommonEnds(before, after), w = [Shift(l, i - 1) EXCEPT !.text = <<>>]
      PROVE  /\ w \in AnyHead /\ w.start1 >= 1 /\ w.start2 >= 1
             /\ h.start2 >= 1 => w.start2 <= h.start2
  <2>1. l.start1 \in Nat \ {0} /\ l.start2 \in Nat \ {0} /\ h.start1 \in Int /\ h.start2 \in Int
    BY <1>2 DEF AnyHead
  <2>2. SliceWell(old, l.start1, h.start1) /\ SliceWell(new, l.start2, h.start2)
    BY <2>1, SliceIs
  <2>3. before \in Seq(AnyLine) /\ after \in Seq(AnyLine)
        /\ Len(after) \in Nat /\ (l.start2 <= h.start2 => Len(after) <= h.start2 - l.start2)
    BY <2>2 DEF SliceWell
  <2> HIDE DEF before, after
  <2>4. i \in 1..Len(before) /\ Len(after) = Len(before)
    BY <1>4, <2>3, CommonEndsAre
  <2>5. i \in Int /\ i >= 1 /\ i <= Len(after)
    BY <2>3, <2>4
  <2> DEFINE s == Shift(l, i - 1)
  <2>6. s \in AnyHead /\ s.start1 = l.start1 + (i - 1) /\ s.start2 = l.start2 + (i - 1)
    <3>1. i - 1 \in Int
      BY <2>5
    <3> QED
      BY <1>2, <3>1, ShiftIs
  <2> HIDE DEF s
  <2>7. w \in AnyHead /\ w.start1 = s.start1 /\ w.start2 = s.start2
    <3>1. w = [s EXCEPT !.text = <<>>]
      BY <1>4 DEF s
    <3> QED
      BY <2>6, <3>1 DEF AnyHead
  <2>8. w.start1 = l.start1 + (i - 1) /\ w.start2 = l.start2 + (i - 1)
    BY <2>6, <2>7
  <2> DEFINE a == l.start1
             b == l.start2
             c == h.start2
             d == Len(after)
  <2>9. /\ a \in Nat \ {0} /\ b \in Nat \ {0} /\ c \in Int /\ d \in Nat
        /\ (b <= c => d <= c - b) /\ (c >= 1 => b <= c)
    BY <1>2, <2>1, <2>3
  <2>10. i <= d
    BY <2>5
  <2> HIDE DEF a, b, c, d
  <2>11. a + (i - 1) >= 1 /\ b + (i - 1) >= 1 /\ (c >= 1 => b + (i - 1) <= c)
    BY <2>5, <2>9, <2>10
  <2> QED
    BY <2>7, <2>8, <2>11 DEF a, b, c
<1> QED
  BY <1>1, <1>3, <1>4

\* The lines before are those of the new file, up to the hunk.
LinesBefore(c, h) ==
    /\ c.lines \in Seq(AnyLine) /\ Len(c.lines) \in Nat
    /\ h.start2 = 0 => Len(c.lines) = 0
    /\ h.start2 > 0 =>
          /\ c.head.start2 \in Nat \ {0} /\ c.head.start2 + Len(c.lines) = h.start2
          /\ \A x \in 1..Len(c.lines) :
                /\ c.head.start2 + x - 1 \in 1..Len(new)
                /\ c.lines[x] = new[c.head.start2 + x - 1]

LEMMA CommonEndIs ==
    ASSUME NEW h \in AnyHead, h.start1 \in Nat, h.start2 \in Nat, h.start2 <= Len(new),
           NEW l \in AnyHead, l.start1 >= 1, l.start2 >= 1, h.start2 >= 1 => l.start2 <= h.start2,
           old \in Seq(AnyLine), new \in Seq(AnyLine)
    PROVE  LinesBefore(CommonEnd(h, l), h)
<1> DEFINE c == CommonEnd(h, l)
           before == Slice(old, l.start1, h.start1)
           after == Slice(new, l.start2, h.start2)
           common == CommonEnds(before, after)
           i == Min(common)
           n == Len(after)
<1>1. l.start1 \in Nat \ {0} /\ l.start2 \in Nat \ {0} /\ h.start1 \in Int /\ h.start2 \in Int
  BY DEF AnyHead
<1>2. SliceWell(old, l.start1, h.start1) /\ SliceWell(new, l.start2, h.start2)
  BY <1>1, SliceIs
<1>3. /\ before \in Seq(AnyLine) /\ after \in Seq(AnyLine) /\ n \in Nat
      /\ \A x \in 1..n : l.start2 + x - 1 \in 1..Len(new) /\ after[x] = new[l.start2 + x - 1]
      /\ l.start2 <= h.start2 /\ h.start2 - 1 <= Len(new) => n = h.start2 - l.start2
      /\ h.start2 <= l.start2 => n = 0
  BY <1>2 DEF SliceWell
<1>4. /\ before = after => c = [head |-> l, lines |-> before]
      /\ before # after /\ common # {} =>
            c = [head |-> Shift(l, i - 1), lines |-> SubSeq(before, i, Len(before))]
      /\ before # after /\ common = {} => c = [head |-> h, lines |-> <<>>]
  BY DEF CommonEnd
<1>5. Len(new) \in Nat
  OBVIOUS
<1>6. /\ h.start2 = 0 => n = 0
      /\ h.start2 > 0 => n = h.start2 - l.start2
  <2> HIDE DEF n, after, before, common
  <2> QED
    BY <1>1, <1>3, <1>5
<1> HIDE DEF before, after, c
<1>7. CASE before = after
  <2>1. c.head = l /\ c.lines = after
    BY <1>4, <1>7
  <2>2. h.start2 > 0 => l.start2 + n = h.start2
    <3>1. n \in Nat
      BY <1>3
    <3> HIDE DEF n
    <3> QED
      BY <1>1, <1>6, <3>1
  <2>3. /\ c.lines \in Seq(AnyLine) /\ Len(c.lines) = n /\ n \in Nat
        /\ \A x \in 1..n : c.head.start2 + x - 1 \in 1..Len(new) /\ c.lines[x] = new[c.head.start2 + x - 1]
        /\ c.head.start2 \in Nat \ {0}
    BY <1>1, <1>3, <2>1
  <2> HIDE DEF n
  <2> QED
    BY <1>6, <2>1, <2>2, <2>3 DEF LinesBefore, c
<1>8. CASE before # after /\ common # {}
  <2>1. i \in common
    <3>1. common \subseteq Nat
      BY <1>3 DEF CommonEnds
    <3> HIDE DEF common
    <3>2. \E x \in common : \A y \in common : x <= y
      BY <1>8, <3>1, Least
    <3> QED
      BY <3>2 DEF Min
  <2> HIDE DEF i
  <2>2. i \in 1..Len(before) /\ n = Len(before) /\ \A x \in i..Len(before) : before[x] = after[x]
    BY <1>3, <2>1, CommonEndsAre
  <2> DEFINE s == Shift(l, i - 1)
             lines == SubSeq(before, i, n)
  <2>3. i \in Int /\ i >= 1 /\ i <= n
    BY <1>3, <2>2
  <2>4. s.start2 = l.start2 + (i - 1)
    <3>1. i - 1 \in Int
      BY <2>3
    <3> QED
      BY <3>1, ShiftIs
  <2>5. /\ lines \in Seq(AnyLine) /\ Len(lines) = n - i + 1
        /\ \A x \in 1..(n - i + 1) : lines[x] = before[i + x - 1]
    <3>1. \A x \in i..n : before[x] \in AnyLine
      BY <1>3, <2>2, <2>3
    <3>2. n \in Int
      BY <1>3
    <3> HIDE DEF n
    <3> QED
      BY <2>3, <3>1, <3>2, SubSeqProperties
  <2>6. c.head = s /\ c.lines = lines
    BY <1>4, <1>8, <2>2
  <2> HIDE DEF s, lines, n, common
  <2>7. ASSUME NEW x \in 1..(n - i + 1)
        PROVE  s.start2 + x - 1 \in 1..Len(new) /\ lines[x] = new[s.start2 + x - 1]
    <3> DEFINE y == i + x - 1
    <3>1. y \in i..n /\ y \in 1..n /\ l.start2 + y - 1 = s.start2 + x - 1
      BY <1>1, <1>3, <2>3, <2>4
    <3>2. lines[x] = before[y] /\ before[y] = after[y]
      BY <2>2, <2>5, <3>1
    <3> HIDE DEF y
    <3>3. after[y] = new[l.start2 + y - 1] /\ l.start2 + y - 1 \in 1..Len(new)
      BY <1>3, <3>1
    <3> QED
      BY <3>1, <3>2, <3>3
  <2>8. h.start2 = 0 => Len(lines) = 0
    BY <1>6, <2>3
  <2>9. h.start2 > 0 => s.start2 \in Nat \ {0} /\ s.start2 + Len(lines) = h.start2
    <3>1. n \in Int /\ l.start2 \in Int /\ l.start2 >= 1
      BY <1>1, <1>3
    <3> DEFINE len == Len(lines)
               a == l.start2
               b == s.start2
    <3>2. len = n - i + 1 /\ b = a + (i - 1)
      BY <2>4, <2>5
    <3>3. a \in Int /\ a >= 1
      BY <3>1
    <3> HIDE DEF len, a, b
    <3>4. b \in Nat \ {0} /\ b + len = a + n
      BY <2>3, <3>1, <3>2, <3>3
    <3>5. h.start2 > 0 => a + n = h.start2
      BY <1>1, <1>6, <3>1 DEF a
    <3> QED
      BY <3>4, <3>5 DEF b, len
  <2>10. Len(lines) \in Nat
    BY <1>3, <2>3, <2>5
  <2> QED
    BY <2>5, <2>6, <2>7, <2>8, <2>9, <2>10 DEF LinesBefore, c
<1>9. CASE before # after /\ common = {}
  <2>1. c.head = h /\ c.lines = <<>>
    BY <1>4, <1>9
  <2>2. <<>> \in Seq(AnyLine) /\ Len(<<>>) = 0
    OBVIOUS
  <2> QED
    BY <1>1, <2>1, <2>2 DEF LinesBefore, c
<1> QED
  BY <1>7, <1>8, <1>9

-----------------------------------------------------------------------------
(* A hunk with context added before and after it.                          *)

IsContext(s) == s \in Seq(AnyLine) /\ \A x \in 1..Len(s) : s[x].op = "="

\* Where the lines of a selection are when there is context around them.
Amid(A, B, D, L, ops) ==
    LET P == Rows(B, ops)
        Q == Rows(L, ops)
    IN  /\ \A x \in Q :
              \/ x \in 1..Len(A) /\ L[x] = A[x] /\ Rank(Q, x) = x
              \/ \E j \in P : x = Len(A) + j /\ L[x] = B[j] /\ Rank(Q, x) = Len(A) + Rank(P, j)
              \/ \E i \in 1..Len(D) : /\ x = Len(A) + Len(B) + i /\ L[x] = D[i]
                                      /\ Rank(Q, x) = Len(A) + Rank(P, Len(B)) + i
        /\ \A j \in 1..Len(B) : Len(A) + j \in 1..Len(L) /\ L[Len(A) + j] = B[j]

LEMMA RanksAmid ==
    ASSUME NEW A, IsContext(A), NEW D, IsContext(D), NEW B \in Seq(AnyLine),
           NEW ops, "=" \in ops, NEW L, L = A \o B \o D
    PROVE  L \in Seq(AnyLine) /\ Amid(A, B, D, L, ops)
<1> DEFINE a == Len(A)
           b == Len(B)
           d == Len(D)
           n == Len(L)
           P == Rows(B, ops)
           Q == Rows(L, ops)
           C == A \o B
           Value(x) == IF x <= a THEN x
                       ELSE IF x <= a + b THEN a + Rank(P, x - a)
                       ELSE a + Rank(P, b) + (x - a - b)
           T == {x \in 0..n : Rank(Q, x) # Value(x)}
<1>1. A \in Seq(AnyLine) /\ D \in Seq(AnyLine)
  BY DEF IsContext
<1>2. C \in Seq(AnyLine) /\ EndToEnd(A, B, C)
  BY <1>1, ConcatIs
<1>3. L \in Seq(AnyLine) /\ EndToEnd(C, D, L)
  <2>1. C \o D = L
    OBVIOUS
  <2> HIDE DEF C
  <2>2. C \o D \in Seq(AnyLine) /\ EndToEnd(C, D, C \o D)
    BY <1>1, <1>2, ConcatIs
  <2> QED
    BY <2>1, <2>2
<1> HIDE DEF C
<1>4. /\ a \in Nat /\ b \in Nat /\ d \in Nat /\ n = a + b + d /\ n \in Nat
      /\ Len(C) = a + b
  <2>1. Len(A) \in Nat /\ Len(B) \in Nat /\ Len(C) = Len(A) + Len(B)
    BY <1>2 DEF EndToEnd
  <2>2. Len(D) \in Nat /\ Len(L) = Len(C) + Len(D)
    BY <1>3 DEF EndToEnd
  <2> DEFINE c == Len(C)
  <2> HIDE DEF a, b, d, n, c
  <2> QED
    BY <2>1, <2>2 DEF a, b, d, n, c
<1>5. \A x \in 1..a : L[x] = A[x] /\ L[x].op = "="
  <2> TAKE x \in 1..a
  <2>1. C[x] = A[x]
    BY <1>2 DEF EndToEnd
  <2>2. x \in 1..Len(C)
    <3> HIDE DEF a, b
    <3> QED
      BY <1>4
  <2>3. L[x] = C[x]
    BY <1>3, <2>2 DEF EndToEnd
  <2> QED
    BY <2>1, <2>3 DEF IsContext
<1>6. \A j \in 1..b : L[a + j] = B[j]
  <2> TAKE j \in 1..b
  <2>1. C[a + j] = B[j]
    BY <1>2 DEF EndToEnd
  <2>2. a + j \in 1..Len(C)
    <3> HIDE DEF a, b
    <3> QED
      BY <1>4
  <2>3. L[a + j] = C[a + j]
    BY <1>3, <2>2 DEF EndToEnd
  <2> QED
    BY <2>1, <2>3
<1>7. \A i \in 1..d : L[a + b + i] = D[i] /\ L[a + b + i].op = "="
  <2> TAKE i \in 1..d
  <2>1. L[Len(C) + i] = D[i]
    BY <1>3 DEF EndToEnd
  <2>2. D[i].op = "="
    BY DEF IsContext
  <2> HIDE DEF a, b
  <2> QED
    BY <1>4, <2>1, <2>2
<1>8. \A x \in 1..n : x \in Q <=> L[x].op \in ops
  BY <1>3 DEF Rows
<1>9. \A j \in 1..b : j \in P <=> B[j].op \in ops
  BY DEF Rows
<1>10. Q \subseteq 1..n /\ P \subseteq 1..b
  BY <1>3 DEF Rows
<1> HIDE DEF P, Q, a, b, d, n
<1>11. \A x \in 1..n : \/ x \in 1..a
                       \/ x - a \in 1..b /\ x > a
                       \/ x - a - b \in 1..d /\ x > a + b
  BY <1>4
<1>12. \A j \in Nat : Rank(P, j) \in Nat /\ Rank(Q, j) \in Nat
  BY RankIs
<1>13. Rank(P, 0) = 0 /\ Rank(Q, 0) = 0
  BY RankIs
<1>14. 0 \notin T
  BY <1>4, <1>13
<1>15. ASSUME NEW x \in 1..n, Rank(Q, x - 1) = Value(x - 1)
       PROVE  Rank(Q, x) = Value(x)
  <2>1. x \in Nat /\ x > 0 /\ x - 1 \in Nat
    BY <1>4
  <2>2. Rank(Q, x) = Rank(Q, x - 1) + IF x \in Q THEN 1 ELSE 0
    BY <2>1, RankIs
  <2>3. CASE x \in 1..a
    <3>1. x \in Q
      BY <1>5, <1>8, <2>3
    <3>2. Value(x) = x /\ Value(x - 1) = x - 1
      BY <1>4, <2>3
    <3> HIDE DEF Value
    <3> QED
      BY <1>15, <2>1, <2>2, <3>1, <3>2
  <2>4. CASE x - a \in 1..b /\ x > a
    <3> DEFINE j == x - a
    <3>1. j \in Nat /\ j > 0 /\ j - 1 \in Nat /\ x = a + j /\ j \in 1..b
      BY <1>4, <2>1, <2>4
    <3>2. x \in Q <=> j \in P
      <4>1. L[x] = B[j]
        BY <1>6, <3>1
      <4> HIDE DEF j
      <4> QED
        BY <1>8, <1>9, <3>1, <4>1
    <3>3. Rank(P, j) = Rank(P, j - 1) + IF j \in P THEN 1 ELSE 0
      BY <3>1, RankIs
    <3>4. Value(x) = a + Rank(P, j)
      BY <1>4, <2>4, <3>1
    <3>5. Value(x - 1) = a + Rank(P, j - 1)
      <4>1. CASE j = 1
        <5>1. x - 1 = a /\ j - 1 = 0
          BY <1>4, <3>1, <4>1
        <5> HIDE DEF j
        <5>2. Value(x - 1) = a
          BY <1>4, <5>1
        <5> HIDE DEF Value
        <5> QED
          BY <1>4, <1>13, <5>1, <5>2
      <4>2. CASE j # 1
        <5>1. ~(x - 1 <= a) /\ x - 1 <= a + b /\ x - 1 - a = j - 1
          BY <1>4, <3>1, <4>2
        <5> HIDE DEF j
        <5> QED
          BY <5>1
      <4> QED
        BY <4>1, <4>2
    <3> HIDE DEF j, Value
    <3>6. Rank(P, j - 1) \in Nat
      BY <1>12, <3>1
    <3> QED
      BY <1>4, <1>15, <2>2, <3>2, <3>3, <3>4, <3>5, <3>6
  <2>5. CASE x - a - b \in 1..d /\ x > a + b
    <3> DEFINE i == x - a - b
    <3>1. i \in 1..d /\ x = a + b + i /\ i \in Nat /\ i > 0
      BY <1>4, <2>1, <2>5
    <3>2. x \in Q
      <4>1. L[x].op = "="
        BY <1>7, <3>1
      <4> QED
        BY <1>8, <4>1
    <3>3. Value(x) = a + Rank(P, b) + i
      BY <1>4, <2>5
    <3>4. Value(x - 1) = a + Rank(P, b) + (i - 1)
      <4>1. CASE x - 1 <= a
        <5>1. x - 1 = a /\ b = 0 /\ i = 1
          BY <1>4, <3>1, <4>1
        <5>2. Value(x - 1) = a
          BY <1>4, <5>1
        <5> HIDE DEF Value, i
        <5> QED
          BY <1>4, <1>13, <5>1, <5>2
      <4>2. CASE ~(x - 1 <= a) /\ x - 1 <= a + b
        <5>1. x - 1 = a + b /\ i = 1 /\ x - 1 - a = b
          BY <1>4, <3>1, <4>2
        <5>2. Value(x - 1) = a + Rank(P, b)
          BY <4>2, <5>1
        <5>3. Rank(P, b) \in Nat
          BY <1>4, <1>12
        <5> HIDE DEF Value, i
        <5> QED
          BY <1>4, <5>1, <5>2, <5>3
      <4>3. CASE ~(x - 1 <= a) /\ ~(x - 1 <= a + b)
        <5>1. Value(x - 1) = a + Rank(P, b) + (x - 1 - a - b)
          BY <4>3
        <5>2. x - 1 - a - b = i - 1
          BY <1>4, <2>1
        <5> HIDE DEF Value, i
        <5> QED
          BY <5>1, <5>2
      <4> QED
        BY <4>1, <4>2, <4>3
    <3>5. Rank(P, b) \in Nat
      BY <1>4, <1>12
    <3> HIDE DEF i, Value
    <3> QED
      BY <1>4, <1>15, <2>2, <3>1, <3>2, <3>3, <3>4, <3>5
  <2> QED
    BY <1>11, <2>3, <2>4, <2>5
<1> HIDE DEF Value
<1>16. T = {}
  <2>1. T \subseteq 0..n
    OBVIOUS
  <2>2. \A x \in 1..n : x \in T => x - 1 \in T
    <3>1. \A x \in 1..n : x - 1 \in 0..n
      BY <1>4
    <3> QED
      BY <1>15, <3>1
  <2> HIDE DEF T
  <2> QED
    BY <1>4, <1>14, <2>1, <2>2, NoFirstFailure
<1>17. \A x \in 1..n : Rank(Q, x) = Value(x)
  <2>1. \A x \in 1..n : x \in 0..n
    BY <1>4
  <2> QED
    BY <1>16, <2>1
<1>18. ASSUME NEW x \in Q
       PROVE  \/ x \in 1..a /\ L[x] = A[x] /\ Rank(Q, x) = x
              \/ \E j \in P : x = a + j /\ L[x] = B[j] /\ Rank(Q, x) = a + Rank(P, j)
              \/ \E i \in 1..d : /\ x = a + b + i /\ L[x] = D[i]
                                 /\ Rank(Q, x) = a + Rank(P, b) + i
  <2>1. x \in 1..n /\ Rank(Q, x) = Value(x)
    BY <1>10, <1>17
  <2>2. x \in Int
    BY <1>4, <2>1
  <2>3. CASE x \in 1..a
    <3>1. Value(x) = x
      BY <1>4, <2>3 DEF Value
    <3> QED
      BY <1>5, <2>1, <2>3, <3>1
  <2>4. CASE x - a \in 1..b /\ x > a
    <3> DEFINE j == x - a
    <3>1. x = a + j /\ j \in 1..b
      BY <1>4, <2>2, <2>4
    <3>2. Value(x) = a + Rank(P, j)
      <4>1. ~(x <= a) /\ x <= a + b
        BY <1>4, <2>2, <2>4
      <4> QED
        BY <4>1 DEF Value
    <3> HIDE DEF j
    <3>3. L[x] = B[j]
      BY <1>6, <3>1
    <3>4. j \in P
      BY <1>8, <1>9, <2>1, <3>1, <3>3
    <3> QED
      BY <2>1, <3>1, <3>2, <3>3, <3>4
  <2>5. CASE x - a - b \in 1..d /\ x > a + b
    <3> DEFINE i == x - a - b
    <3>1. x = a + b + i /\ i \in 1..d
      BY <1>4, <2>2, <2>5
    <3>2. Value(x) = a + Rank(P, b) + i
      <4>1. ~(x <= a) /\ ~(x <= a + b)
        BY <1>4, <2>2, <2>5
      <4> QED
        BY <4>1 DEF Value
    <3> HIDE DEF i
    <3>3. L[x] = D[i]
      BY <1>7, <3>1
    <3> QED
      BY <2>1, <3>1, <3>2, <3>3
  <2> QED
    BY <1>11, <2>1, <2>3, <2>4, <2>5
<1>19. \A j \in 1..b : a + j \in 1..n /\ L[a + j] = B[j]
  <2> TAKE j \in 1..b
  <2>1. a + j \in 1..n
    BY <1>4
  <2> QED
    BY <1>6, <2>1
<1> QED
  BY <1>3, <1>18, <1>19 DEF Amid, P, Q, a, b, d, n

LEMMA NumberedIs ==
    ASSUME NEW hunk, hunk.body \in Seq(AnyLine), NEW Q, Q = Rows(hunk.body, InNew)
    PROVE  /\ \A l \in ToSet(Numbered(hunk)) : \E j \in Q :
                 l = [number |-> hunk.head.start2 + Rank(Q, j) - 1, op |-> hunk.body[j].op,
                      text |-> hunk.body[j].text]
           /\ \A j \in Q :
                 [number |-> hunk.head.start2 + Rank(Q, j) - 1, op |-> hunk.body[j].op,
                  text |-> hunk.body[j].text] \in ToSet(Numbered(hunk))
<1> DEFINE lines == Lines(hunk.body, InNew)
           Row(i) == [number |-> hunk.head.start2 + i - 1, op |-> lines[i].op,
                      text |-> lines[i].text]
           c == Numbered(hunk)
<1>1. lines \in Seq(AnyLine) /\ Selects(hunk.body, InNew, lines)
  BY LinesAre
<1>2. /\ \A j \in Q : Rank(Q, j) \in 1..Len(lines) /\ lines[Rank(Q, j)] = hunk.body[j]
      /\ \A p \in 1..Len(lines) : \E j \in Q : Rank(Q, j) = p
      /\ DOMAIN lines = 1..Len(lines)
  BY <1>1 DEF Selects
<1>3. c = [i \in DOMAIN lines |-> Row(i)]
  BY DEF Numbered
<1> HIDE DEF lines, c
<1>4. DOMAIN c = 1..Len(lines) /\ \A i \in 1..Len(lines) : c[i] = Row(i)
  <2> HIDE DEF Row
  <2> QED
    BY <1>2, <1>3
<1>5. ASSUME NEW l \in ToSet(c)
      PROVE  \E j \in Q : l = [number |-> hunk.head.start2 + Rank(Q, j) - 1,
                               op |-> hunk.body[j].op, text |-> hunk.body[j].text]
  <2>1. PICK i \in 1..Len(lines) : l = Row(i)
    <3> HIDE DEF Row
    <3> QED
      BY <1>4 DEF ToSet
  <2>2. PICK j \in Q : Rank(Q, j) = i
    BY <1>2
  <2>3. lines[i] = hunk.body[j]
    BY <1>2, <2>2
  <2> QED
    BY <2>1, <2>2, <2>3
<1>6. ASSUME NEW j \in Q
      PROVE  [number |-> hunk.head.start2 + Rank(Q, j) - 1, op |-> hunk.body[j].op,
              text |-> hunk.body[j].text] \in ToSet(c)
  <2> DEFINE i == Rank(Q, j)
  <2>1. i \in 1..Len(lines) /\ lines[i] = hunk.body[j]
    BY <1>2
  <2> HIDE DEF i
  <2>2. Row(i) \in ToSet(c)
    <3>1. c[i] \in ToSet(c)
      BY <1>4, <2>1 DEF ToSet
    <3> HIDE DEF Row
    <3> QED
      BY <1>4, <2>1, <3>1
  <2> QED
    BY <2>1, <2>2 DEF i
<1> QED
  BY <1>5, <1>6 DEF c

-----------------------------------------------------------------------------
(* The files and the patch of the change that is looked at.               *)

OfFiles ==
    /\ AsGitCuts(change)
    /\ old = File(InOld) /\ new = File(InNew) /\ patch = GitPatch

LEMMA PatchIs ==
    ASSUME OfFiles
    PROVE  /\ Len(change.hunks) \in Nat /\ DOMAIN patch = 1..Len(change.hunks)
           /\ patch \in Seq([head : {Header(k) : k \in 1..Len(change.hunks)}, body : Seq(AnyLine)])
           /\ Len(patch) = Len(change.hunks)
           /\ \A k \in 1..Len(change.hunks) :
                 /\ patch[k] = [head |-> Header(k), body |-> Body(k)]
                 /\ patch[k].body = Body(k) /\ patch[k].body \in Seq(AnyLine)
           /\ old \in Seq(AnyLine) /\ new \in Seq(AnyLine)
<1> DEFINE m == Len(change.hunks)
           Heads == {Header(k) : k \in 1..m}
<1>1. AsGitCuts(change) /\ patch = GitPatch
  BY DEF OfFiles
<1>2. m \in Nat /\ DOMAIN change.hunks = 1..m
  BY <1>1 DEF AsGitCuts
<1>3. patch = [k \in 1..m |-> [head |-> Header(k), body |-> Body(k)]]
  BY <1>1, <1>2 DEF GitPatch
<1>4. \A k \in 1..m : Body(k) \in Seq(AnyLine)
  BY <1>1, BodyIs
<1>5. \A k \in 1..m : Header(k) \in Heads
  OBVIOUS
<1>6. FileWell(InOld) /\ FileWell(InNew)
  BY <1>1, FileIs
<1>7. File(InOld) \in Seq(AnyLine) /\ File(InNew) \in Seq(AnyLine)
  BY <1>6 DEF FileWell
<1> HIDE DEF m, Heads
<1>8. patch \in Seq([head : Heads, body : Seq(AnyLine)])
  BY <1>2, <1>3, <1>4, <1>5
<1>9. DOMAIN patch = 1..m /\ \A k \in 1..m : patch[k] = [head |-> Header(k), body |-> Body(k)]
  BY <1>3
<1>10. Len(patch) = m
  BY <1>2, <1>8, <1>9
<1>11. old \in Seq(AnyLine) /\ new \in Seq(AnyLine)
  BY <1>7 DEF OfFiles
<1>12. \A k \in 1..m : patch[k].body = Body(k) /\ patch[k].body \in Seq(AnyLine)
  BY <1>4, <1>9
<1> QED
  BY <1>2, <1>8, <1>9, <1>10, <1>11, <1>12 DEF m, Heads

LEMMA AsContextIs ==
    ASSUME NEW s \in Seq(AnyLine), NEW t, t = AsContext(s)
    PROVE  /\ IsContext(t) /\ Len(t) = Len(s)
           /\ \A x \in 1..Len(s) : t[x].text = s[x].text
<1> DEFINE n == Len(s)
           Row(x) == [op |-> "=", text |-> s[x].text]
<1>1. n \in Nat /\ DOMAIN s = 1..n
  OBVIOUS
<1>2. \A x \in 1..n : Row(x) \in AnyLine /\ Row(x).op = "=" /\ Row(x).text = s[x].text
  <2> TAKE x \in 1..n
  <2>1. s[x].text \in Int \X Int
    <3>1. s[x] \in AnyLine
      BY <1>1
    <3> QED
      BY <3>1 DEF AnyLine
  <2> QED
    BY <2>1 DEF AnyLine, LineOps
<1>3. t = [x \in 1..n |-> Row(x)]
  BY <1>1 DEF AsContext
<1> HIDE DEF n, Row
<1>4. t \in Seq(AnyLine) /\ Len(t) = n /\ \A x \in 1..n : t[x] = Row(x)
  BY <1>1, <1>2, <1>3
<1> QED
  BY <1>2, <1>4 DEF IsContext, n

\* A hunk, extended: A before it and D after it.
Padded(k, q, e, A, D) ==
    LET h == Header(k) IN
    /\ IsContext(A) /\ IsContext(D) /\ q.body = A \o Body(k) \o D
    /\ h.start2 = 0 => Len(A) = 0
    /\ h.start2 > 0 =>
          /\ q.head.start2 \in Nat \ {0} /\ q.head.start2 + Len(A) = h.start2
          /\ \A x \in 1..Len(A) :
                /\ q.head.start2 + x - 1 \in 1..Len(new)
                /\ A[x].text = new[q.head.start2 + x - 1].text
    /\ Len(D) \in Nat /\ Len(D) <= e.after
    /\ \A i \in 1..Len(D) :
          /\ h.start1 + h.size1 + i - 1 \in 1..Len(old)
          /\ D[i].text = old[h.start1 + h.size1 + i - 1].text

LEMMA ExtendedHunk ==
    ASSUME OfFiles, NEW k \in 1..Len(change.hunks), NEW e \in Extras, old # <<>>,
           NEW q, q = ExtendHunk(patch[k], e)
    PROVE  \E A, D : Padded(k, q, e, A, D)
<1> DEFINE h == Header(k)
           w == Wider(h, e)
           c == CommonEnd(h, w)
           a == h.start1 + h.size1
           s == Slice(old, a, a + e.after)
           A == AsContext(c.lines)
           D == AsContext(s)
<1>1. AsGitCuts(change) /\ Context \in Nat \ {0} /\ e.before \in Nat /\ e.after \in Nat /\ e.dynamic \in Nat
  BY ChangesAssumption DEF OfFiles
<1>2. HeaderWell(k) /\ old \in Seq(AnyLine) /\ new \in Seq(AnyLine)
  BY <1>1, HeaderIs, PatchIs
<1>3. /\ h \in AnyHead /\ h.start1 \in Nat /\ h.start2 \in Nat /\ h.start2 <= Len(new)
      /\ Count(k, InOld) > 0 => h.start1 = Above(k, InOld) + 1
      /\ Count(k, InOld) # 1 => h.size1 = Count(k, InOld)
      /\ Count(k, InOld) = 1 => h.size1 = 0
  BY <1>2 DEF HeaderWell, OfFiles
<1>4. q = [head |-> c.head, body |-> A \o Body(k) \o D]
  <2>1. patch[k] = [head |-> h, body |-> Body(k)]
    BY PatchIs
  <2>2. patch[k].head = h /\ patch[k].body = Body(k)
    BY <2>1
  <2> QED
    BY <2>2 DEF ExtendHunk, LinesAfter
<1>5. LinesBefore(c, h)
  <2> HIDE DEF h
  <2>1. /\ w \in AnyHead /\ w.start1 >= 1 /\ w.start2 >= 1
        /\ h.start2 >= 1 => w.start2 <= h.start2
    BY <1>1, <1>2, <1>3, WiderIs
  <2> HIDE DEF w
  <2> QED
    BY <1>2, <1>3, <2>1, CommonEndIs
<1>6. a \in Nat \ {0} /\ a + e.after \in Int
  <2>1. Count(k, InOld) # 0
    <3>1. "=" \in InOld
      BY DEF InOld
    <3>2. Count(k, InOld) = 0 => Len(old) = 0
      BY <1>1, <3>1, NothingAround DEF OfFiles
    <3> QED
      BY <1>2, <3>2
  <2>2. Count(k, InOld) \in Nat /\ Above(k, InOld) \in Nat
    BY <1>1, HunkLines DEF HunkWell
  <2>3. h.start1 = Above(k, InOld) + 1 /\ h.size1 \in Nat
    BY <1>3, <2>1, <2>2
  <2>4. h.start1 \in Nat \ {0}
    BY <2>2, <2>3
  <2> HIDE DEF h
  <2>5. a \in Nat \ {0}
    BY <2>3, <2>4
  <2> HIDE DEF a
  <2> QED
    BY <1>1, <2>5
<1>7. SliceWell(old, a, a + e.after)
  <2> HIDE DEF a
  <2> QED
    BY <1>2, <1>6, SliceIs
<1> HIDE DEF c, h
<1>8. /\ s \in Seq(AnyLine) /\ Len(s) \in Nat /\ Len(s) <= e.after
      /\ \A x \in 1..Len(s) : a + x - 1 \in 1..Len(old) /\ s[x] = old[a + x - 1]
  <2> HIDE DEF a
  <2>1. a <= a + e.after /\ (a + e.after) - a = e.after
    BY <1>1, <1>6
  <2> QED
    BY <1>7, <2>1 DEF SliceWell
<1> HIDE DEF s
<1>9. IsContext(D) /\ Len(D) = Len(s) /\ \A x \in 1..Len(s) : D[x].text = s[x].text
  BY <1>8, AsContextIs
<1>10. c.lines \in Seq(AnyLine) /\ Len(c.lines) \in Nat
  BY <1>5 DEF LinesBefore
<1>11. /\ IsContext(A) /\ Len(A) = Len(c.lines)
       /\ \A x \in 1..Len(c.lines) : A[x].text = c.lines[x].text
  <2> DEFINE t == c.lines
  <2> HIDE DEF t
  <2> QED
    BY <1>10, AsContextIs DEF t
<1> HIDE DEF A, D
<1>12. q.head = c.head /\ q.body = A \o Body(k) \o D
  BY <1>4
<1>13. /\ h.start2 = 0 => Len(A) = 0
       /\ h.start2 > 0 =>
             /\ q.head.start2 \in Nat \ {0} /\ q.head.start2 + Len(A) = h.start2
             /\ \A x \in 1..Len(A) :
                   /\ q.head.start2 + x - 1 \in 1..Len(new)
                   /\ A[x].text = new[q.head.start2 + x - 1].text
  BY <1>5, <1>11, <1>12 DEF LinesBefore
<1>14. \A i \in 1..Len(D) : a + i - 1 \in 1..Len(old) /\ D[i].text = old[a + i - 1].text
  BY <1>8, <1>9
<1>15. Len(D) \in Nat /\ Len(D) <= e.after
  BY <1>8, <1>9
<1>16. Padded(k, q, e, A, D)
  BY <1>9, <1>11, <1>12, <1>13, <1>14, <1>15 DEF Padded, h
<1> QED
  BY <1>16

\* The numbers of the lines of a hunk are theirs in the new file.
PlacedRight(q) ==
    LET Q == Rows(q.body, InNew) IN
    \A x \in Q : LET n == q.head.start2 + Rank(Q, x) - 1
                 IN  n \in 1..Len(new) /\ new[n].text = q.body[x].text

LEMMA PlacedAsItIs ==
    ASSUME OfFiles, NEW k \in 1..Len(change.hunks)
    PROVE  PlacedRight(patch[k])
<1> DEFINE P == Rows(Body(k), InNew)
           above == Above(k, InNew)
           count == Count(k, InNew)
<1>1. AsGitCuts(change) /\ Context \in Nat \ {0} /\ new = File(InNew)
  BY ChangesAssumption DEF OfFiles
<1>2. HeaderWell(k) /\ HunkWell(k, InNew)
  BY <1>1, HeaderIs, HunkLines
<1>3. patch[k].head = Header(k) /\ patch[k].body = Body(k)
  <2>1. patch[k] = [head |-> Header(k), body |-> Body(k)]
    BY PatchIs
  <2> QED
    BY <2>1
<1>4. above \in Nat /\ count \in Nat /\ above + count <= Len(new) /\ Len(new) \in Nat
      /\ \A j \in P : Rank(P, j) \in 1..count /\ new[above + Rank(P, j)] = Body(k)[j]
  BY <1>1, <1>2 DEF HunkWell
<1>5. count > 0 => Header(k).start2 = above + 1
  BY <1>2 DEF HeaderWell
<1> SUFFICES ASSUME NEW x \in P
             PROVE  LET n == Header(k).start2 + Rank(P, x) - 1
                    IN  n \in 1..Len(new) /\ new[n].text = Body(k)[x].text
  BY <1>3 DEF PlacedRight
<1> DEFINE r == Rank(P, x)
<1>6. r \in 1..count /\ new[above + r] = Body(k)[x]
  BY <1>4
<1> HIDE DEF above, count, r
<1>7. Header(k).start2 + r - 1 = above + r /\ above + r \in 1..Len(new)
  BY <1>4, <1>5, <1>6
<1> QED
  BY <1>6, <1>7 DEF r

LEMMA PlacedWhenExtended ==
    ASSUME OfFiles, NEW k \in 1..Len(change.hunks), NEW e \in Extras, old # <<>>, Counts,
           e.after <= Context + 1, NEW q, q = ExtendHunk(patch[k], e)
    PROVE  PlacedRight(q)
<1> DEFINE B == Body(k)
           P == Rows(B, InNew)
           L == q.body
           Q == Rows(L, InNew)
           above == Above(k, InNew)
           count == Count(k, InNew)
           h == Header(k)
           s == q.head.start2
<1>1. AsGitCuts(change) /\ Context \in Nat \ {0} /\ new = File(InNew) /\ old = File(InOld) /\ e.after \in Nat
  BY ChangesAssumption DEF OfFiles
<1>2. HeaderWell(k) /\ HunkWell(k, InNew) /\ HunkWell(k, InOld)
  BY <1>1, HeaderIs, HunkLines
<1>3. PICK A, D : Padded(k, q, e, A, D)
  BY ExtendedHunk
<1> DEFINE a == Len(A)
<1>4. /\ IsContext(A) /\ IsContext(D) /\ L = A \o B \o D
      /\ h.start2 = 0 => a = 0
      /\ h.start2 > 0 =>
            /\ s \in Nat \ {0} /\ s + a = h.start2
            /\ \A x \in 1..a : s + x - 1 \in 1..Len(new) /\ A[x].text = new[s + x - 1].text
      /\ Len(D) \in Nat /\ Len(D) <= e.after
      /\ \A i \in 1..Len(D) :
            /\ h.start1 + h.size1 + i - 1 \in 1..Len(old)
            /\ D[i].text = old[h.start1 + h.size1 + i - 1].text
  BY <1>3 DEF Padded
<1>5. Amid(A, B, D, L, InNew)
  <2>1. "=" \in InNew /\ B \in Seq(AnyLine)
    BY <1>1, BodyIs DEF InNew
  <2> HIDE DEF L, B
  <2> QED
    BY <1>4, <2>1, RanksAmid
<1>6. /\ above \in Nat /\ count \in Nat /\ above + count <= Len(new) /\ Len(new) \in Nat
      /\ End(k, InNew) = above + count /\ count = Rank(P, Len(B))
      /\ \A j \in P : Rank(P, j) \in 1..count /\ new[above + Rank(P, j)] = B[j]
  BY <1>1, <1>2 DEF HunkWell
<1>7. (count > 0 => h.start2 = above + 1) /\ (count = 0 => h.start2 = 0)
  BY <1>2 DEF HeaderWell
<1>8. count = 0 => Len(new) = 0
  <2>1. "=" \in InNew
    BY DEF InNew
  <2> QED
    BY <1>1, <2>1, NothingAround
<1>9. h.start1 + h.size1 = End(k, InOld) + 1 /\ End(k, InOld) \in Nat
  <2> DEFINE c == Count(k, InOld)
             b == Above(k, InOld)
  <2>1. c \in Nat /\ b \in Nat /\ End(k, InOld) = b + c
    BY <1>2 DEF HunkWell
  <2>2. c # 0
    <3>1. "=" \in InOld
      BY DEF InOld
    <3>2. c = 0 => Len(old) = 0
      BY <1>1, <3>1, NothingAround
    <3>3. old \in Seq(AnyLine)
      BY PatchIs
    <3> QED
      BY <3>2, <3>3
  <2>3. h.start1 = b + 1 /\ (c # 1 => h.size1 = c) /\ (c = 1 => h.size1 = 0)
    BY <1>2, <2>1, <2>2 DEF HeaderWell
  <2>4. h.size1 # 0
    <3>1. patch[k].head = h /\ k \in DOMAIN patch
      <4>1. patch[k] = [head |-> h, body |-> B] /\ k \in DOMAIN patch
        BY PatchIs
      <4> QED
        BY <4>1
    <3>2. patch[k].head.size1 # 0 \/ patch[k].head.start1 = 0
      BY <3>1 DEF Counts
    <3> HIDE DEF h
    <3> QED
      BY <2>1, <2>3, <3>1, <3>2
  <2> HIDE DEF c, b, h
  <2> QED
    BY <2>1, <2>2, <2>3, <2>4
<1>10. ASSUME NEW i \in 1..Len(D)
       PROVE  End(k, InNew) + i \in 1..Len(new) /\ D[i].text = new[End(k, InNew) + i].text
  <2>1. i \in 1..(Context + 1)
    <3> DEFINE d == Len(D)
    <3>1. d \in Nat /\ d <= e.after /\ i \in 1..d
      BY <1>4
    <3> HIDE DEF d
    <3> QED
      BY <1>1, <3>1
  <2>2. h.start1 + h.size1 + i - 1 = End(k, InOld) + i
    <3> DEFINE z == h.start1 + h.size1
               y == End(k, InOld)
    <3>1. z = y + 1 /\ y \in Nat /\ i \in Int
      BY <1>9, <2>1
    <3> HIDE DEF z, y
    <3>2. z + i - 1 = y + i
      BY <3>1
    <3> QED
      BY <3>2 DEF z, y
  <2>3. End(k, InOld) + i <= Len(old) /\ D[i].text = old[End(k, InOld) + i].text
    <3>1. h.start1 + h.size1 + i - 1 \in 1..Len(old)
          /\ D[i].text = old[h.start1 + h.size1 + i - 1].text
      BY <1>4
    <3>2. End(k, InOld) + i \in 1..Len(old) /\ D[i].text = old[End(k, InOld) + i].text
      BY <2>2, <3>1
    <3>3. Len(old) \in Nat
      BY PatchIs
    <3> QED
      BY <3>2, <3>3
  <2> QED
    BY <1>1, <2>1, <2>3, SameAfter
<1> HIDE DEF P, Q, L, B, above, count, h, s, a
<1>11. ASSUME NEW x \in Q
       PROVE  s + Rank(Q, x) - 1 \in 1..Len(new) /\ new[s + Rank(Q, x) - 1].text = L[x].text
  <2>1. \/ x \in 1..a /\ L[x] = A[x] /\ Rank(Q, x) = x
        \/ \E j \in P : x = a + j /\ L[x] = B[j] /\ Rank(Q, x) = a + Rank(P, j)
        \/ \E i \in 1..Len(D) : /\ x = a + Len(B) + i /\ L[x] = D[i]
                                /\ Rank(Q, x) = a + Rank(P, Len(B)) + i
    BY <1>5 DEF Amid, P, Q, a
  <2>2. a \in Nat
    BY <1>4 DEF IsContext, a
  <2>3. CASE x \in 1..a /\ L[x] = A[x] /\ Rank(Q, x) = x
    <3>1. count # 0
      BY <1>4, <1>7, <2>2, <2>3
    <3>2. h.start2 > 0
      BY <1>6, <1>7, <3>1
    <3> QED
      BY <1>4, <2>3, <3>2
  <2>4. ASSUME NEW j \in P, L[x] = B[j], Rank(Q, x) = a + Rank(P, j)
        PROVE  s + Rank(Q, x) - 1 \in 1..Len(new) /\ new[s + Rank(Q, x) - 1].text = L[x].text
    <3> DEFINE r == Rank(P, j)
    <3>1. r \in 1..count /\ new[above + r] = B[j]
      BY <1>6
    <3> HIDE DEF r
    <3>2. h.start2 = above + 1 /\ s + a = above + 1 /\ s \in Nat
      <4>1. count > 0
        BY <1>6, <3>1
      <4>2. h.start2 = above + 1 /\ h.start2 > 0
        BY <1>6, <1>7, <4>1
      <4> QED
        BY <1>4, <4>2
    <3>3. s + (a + r) - 1 = above + r /\ above + r \in 1..Len(new)
      BY <1>6, <2>2, <3>1, <3>2
    <3>4. Rank(Q, x) = a + r
      BY <2>4 DEF r
    <3> QED
      BY <2>4, <3>1, <3>3, <3>4
  <2>5. ASSUME NEW i \in 1..Len(D), L[x] = D[i], Rank(Q, x) = a + Rank(P, Len(B)) + i
        PROVE  s + Rank(Q, x) - 1 \in 1..Len(new) /\ new[s + Rank(Q, x) - 1].text = L[x].text
    <3> DEFINE end == End(k, InNew)
    <3>1. end + i \in 1..Len(new) /\ D[i].text = new[end + i].text /\ end = above + count
      BY <1>6, <1>10
    <3>2. i \in Int
      BY <1>4
    <3> HIDE DEF end
    <3>3. count > 0
      BY <1>6, <1>8, <3>1
    <3>4. h.start2 = above + 1 /\ s + a = above + 1 /\ s \in Nat
      <4>1. h.start2 = above + 1 /\ h.start2 > 0
        BY <1>6, <1>7, <3>3
      <4> QED
        BY <1>4, <4>1
    <3>5. Rank(Q, x) = a + count + i
      <4>1. Rank(P, Len(B)) = count
        BY <1>6
      <4> HIDE DEF end
      <4> QED
        BY <2>5, <4>1
    <3>6. s + (a + count + i) - 1 = end + i
      <4>1. count \in Int /\ above \in Int /\ a \in Int /\ s \in Int
        BY <1>6, <2>2, <3>4
      <4>2. end = above + count /\ s + a = above + 1
        BY <3>1, <3>4
      <4> QED
        BY <3>2, <4>1, <4>2
    <3> QED
      BY <2>5, <3>1, <3>5, <3>6
  <2> QED
    BY <2>1, <2>3, <2>4, <2>5
<1> QED
  BY <1>11 DEF PlacedRight, Q, L, s

-----------------------------------------------------------------------------
(* What is made of a patch keeps its numbers and its changes.             *)

LEMMA NumbersRight ==
    ASSUME NEW p, \A k \in DOMAIN p : p[k].body \in Seq(AnyLine) /\ PlacedRight(p[k]),
           new \in Seq(AnyLine), NEW l \in NewHunks(p)
    PROVE  l.number \in DOMAIN new /\ new[l.number].text = l.text
<1>1. PICK k \in DOMAIN p : l \in ToSet(Numbered(p[k]))
  BY DEF NewHunks
<1> DEFINE q == p[k]
           Q == Rows(q.body, InNew)
<1>2. q.body \in Seq(AnyLine) /\ PlacedRight(q)
  OBVIOUS
<1>3. PICK j \in Q : l = [number |-> q.head.start2 + Rank(Q, j) - 1, op |-> q.body[j].op,
                          text |-> q.body[j].text]
  <2> HIDE DEF q
  <2> QED
    BY <1>1, <1>2, NumberedIs DEF q
<1>4. /\ q.head.start2 + Rank(Q, j) - 1 \in 1..Len(new)
      /\ new[q.head.start2 + Rank(Q, j) - 1].text = q.body[j].text
  <2> HIDE DEF q
  <2> QED
    BY <1>2 DEF PlacedRight
<1>5. DOMAIN new = 1..Len(new)
  OBVIOUS
<1> HIDE DEF q, Q
<1>6. l.number = q.head.start2 + Rank(Q, j) - 1 /\ l.text = q.body[j].text
  BY <1>3
<1> QED
  BY <1>4, <1>5, <1>6

\* The lines a change adds or removes, by what they say.
TextsOf(op) ==
    {t \in Int \X Int : \E k \in 1..Len(change.hunks) : \E j \in 1..Len(Body(k)) :
                           t = <<k, j>> /\ Body(k)[j].op = op}

LEMMA TextsOfFiles ==
    ASSUME AsGitCuts(change), NEW ops, NEW op \in ops, op # "="
    PROVE  Said(Having(ToSet(File(ops)), op)) = TextsOf(op)
<1> DEFINE m == Len(change.hunks)
           file == File(ops)
<1>1. m \in Nat /\ DOMAIN file = 1..Len(file)
  <2>1. FileWell(ops)
    BY FileIs
  <2> QED
    BY <2>1 DEF FileWell
<1>2. ASSUME NEW n \in 1..Len(file), file[n].op = op
      PROVE  \E k \in 1..m : \E j \in 1..Len(Body(k)) : file[n] = Body(k)[j]
  <2>1. ASSUME NEW k \in 1..m, NEW u \in 1..change.hunks[k].skip, n = End(k - 1, ops) + u PROVE FALSE
    <3>1. HunkWell(k, ops)
      BY HunkLines
    <3>2. file[n] = [op |-> "=", text |-> <<k, -u>>]
      BY <2>1, <3>1 DEF HunkWell
    <3> QED
      BY <1>2, <3>2
  <2>2. ASSUME NEW u \in 1..change.tail, n = End(m, ops) + u PROVE FALSE
    <3>1. FileWell(ops)
      BY FileIs
    <3>2. file[n] = [op |-> "=", text |-> <<0, -u>>]
      BY <2>2, <3>1 DEF FileWell
    <3> QED
      BY <1>2, <3>2
  <2>3. ASSUME NEW k \in 1..m, NEW j \in Rows(Body(k), ops),
               n = Above(k, ops) + Rank(Rows(Body(k), ops), j)
        PROVE  \E i \in 1..Len(Body(k)) : file[n] = Body(k)[i]
    <3>1. HunkWell(k, ops)
      BY HunkLines
    <3>2. file[n] = Body(k)[j] /\ j \in 1..Len(Body(k))
      BY <2>3, <3>1 DEF HunkWell
    <3> QED
      BY <3>2
  <2> QED
    BY <2>1, <2>2, <2>3, EveryLine
<1>3. ASSUME NEW t \in Said(Having(ToSet(file), op)) PROVE t \in TextsOf(op)
  <2>1. PICK l \in ToSet(file) : l.op = op /\ t = l.text
    BY DEF Having, Said
  <2>2. PICK n \in 1..Len(file) : l = file[n]
    BY <1>1, <2>1 DEF ToSet
  <2>3. PICK k \in 1..m : \E j \in 1..Len(Body(k)) : file[n] = Body(k)[j]
    BY <1>2, <2>1, <2>2
  <2>4. PICK j \in 1..Len(Body(k)) : file[n] = Body(k)[j]
    BY <2>3
  <2>5. Body(k)[j].text = <<k, j>> /\ Body(k)[j].op = op /\ t = <<k, j>>
    BY <2>1, <2>2, <2>4, BodyIs
  <2>6. <<k, j>> \in Int \X Int
    <3>1. Len(Body(k)) \in Nat
      BY BodyIs
    <3> QED
      BY <1>1, <3>1
  <2> QED
    BY <2>5, <2>6 DEF TextsOf
<1>4. ASSUME NEW t \in TextsOf(op) PROVE t \in Said(Having(ToSet(file), op))
  <2>1. PICK k \in 1..m : \E j \in 1..Len(Body(k)) : t = <<k, j>> /\ Body(k)[j].op = op
    BY DEF TextsOf
  <2>2. PICK j \in 1..Len(Body(k)) : t = <<k, j>> /\ Body(k)[j].op = op
    BY <2>1
  <2> DEFINE P == Rows(Body(k), ops)
             n == Above(k, ops) + Rank(P, j)
  <2>3. j \in P /\ Body(k)[j].text = <<k, j>>
    <3>1. Body(k) \in Seq(AnyLine) /\ Body(k)[j].text = <<k, j>>
      BY BodyIs
    <3> QED
      BY <2>2, <3>1 DEF Rows
  <2>4. file[n] = Body(k)[j] /\ n \in 1..Len(file)
    <3>1. HunkWell(k, ops)
      BY HunkLines
    <3> DEFINE r == Rank(P, j)
               above == Above(k, ops)
               count == Count(k, ops)
    <3>2. /\ file[above + r] = Body(k)[j] /\ r \in 1..count
          /\ above \in Nat /\ count \in Nat /\ Len(file) \in Nat /\ above + count <= Len(file)
      BY <2>3, <3>1 DEF HunkWell
    <3> HIDE DEF r, above, count, file
    <3>3. above + r \in 1..Len(file)
      BY <3>2
    <3> QED
      BY <3>2, <3>3 DEF r, above
  <2>5. file[n] \in ToSet(file)
    <3> HIDE DEF n, file
    <3> QED
      BY <1>1, <2>4 DEF ToSet
  <2> HIDE DEF n
  <2>6. file[n].op = op /\ file[n].text = t
    BY <2>2, <2>3, <2>4
  <2> QED
    BY <2>5, <2>6 DEF Having, Said
<1> QED
  BY <1>3, <1>4

\* A hunk shown for another has its changes, and no others.
KeepsHunk(k, q) ==
    /\ q.body \in Seq(AnyLine)
    /\ \A x \in 1..Len(q.body) :
          q.body[x].op # "=" => \E j \in 1..Len(Body(k)) : q.body[x] = Body(k)[j]
    /\ \A j \in 1..Len(Body(k)) : \E x \in 1..Len(q.body) : q.body[x] = Body(k)[j]

LEMMA KeptAsItIs ==
    ASSUME OfFiles, NEW k \in 1..Len(change.hunks)
    PROVE  KeepsHunk(k, patch[k])
<1>1. patch[k].body = Body(k) /\ patch[k].body \in Seq(AnyLine)
  BY PatchIs
<1> QED
  BY <1>1 DEF KeepsHunk

LEMMA KeptWhenExtended ==
    ASSUME OfFiles, NEW k \in 1..Len(change.hunks), NEW e \in Extras, old # <<>>,
           NEW q, q = ExtendHunk(patch[k], e)
    PROVE  KeepsHunk(k, q)
<1> DEFINE B == Body(k)
           L == q.body
<1>1. PICK A, D : Padded(k, q, e, A, D)
  BY ExtendedHunk
<1>2. IsContext(A) /\ IsContext(D) /\ L = A \o B \o D
  BY <1>1 DEF Padded
<1>3. B \in Seq(AnyLine) /\ "=" \in LineOps /\ \A j \in 1..Len(B) : B[j].op \in LineOps
  BY BodyIs DEF OfFiles, LineOps
<1> HIDE DEF B, L
<1>4. L \in Seq(AnyLine) /\ Amid(A, B, D, L, LineOps)
  BY <1>2, <1>3, RanksAmid
<1>5. ASSUME NEW x \in 1..Len(L), L[x].op # "="
      PROVE  \E j \in 1..Len(B) : L[x] = B[j]
  <2>1. x \in Rows(L, LineOps)
    <3>1. x \in DOMAIN L /\ L[x] \in AnyLine
      BY <1>4
    <3> QED
      BY <3>1 DEF AnyLine, Rows
  <2>2. \/ x \in 1..Len(A) /\ L[x] = A[x]
        \/ \E j \in Rows(B, LineOps) : L[x] = B[j]
        \/ \E i \in 1..Len(D) : L[x] = D[i]
    BY <1>4, <2>1 DEF Amid
  <2>3. ~(x \in 1..Len(A) /\ L[x] = A[x])
    BY <1>2, <1>5 DEF IsContext
  <2>4. ~\E i \in 1..Len(D) : L[x] = D[i]
    BY <1>2, <1>5 DEF IsContext
  <2>5. Rows(B, LineOps) \subseteq 1..Len(B)
    BY <1>3 DEF Rows
  <2> QED
    BY <2>2, <2>3, <2>4, <2>5
<1>6. ASSUME NEW j \in 1..Len(B)
      PROVE  \E x \in 1..Len(L) : L[x] = B[j]
  BY <1>4 DEF Amid
<1> QED
  BY <1>4, <1>5, <1>6 DEF KeepsHunk, B, L

LEMMA AddedKept ==
    ASSUME OfFiles, NEW n \in 0..Len(change.hunks), NEW p, DOMAIN p = 1..n,
           \A k \in 1..n : KeepsHunk(k, p[k]),
           \A k \in 1..Len(change.hunks) :
              \A j \in 1..Len(Body(k)) : Body(k)[j].op = "+" => k <= n
    PROVE  Said(Having(NewHunks(p), "+")) = Said(Having(ToSet(new), "+"))
<1> DEFINE m == Len(change.hunks)
<1>1. Said(Having(ToSet(new), "+")) = TextsOf("+")
  <2>1. "+" \in InNew
    BY DEF InNew
  <2> QED
    BY <2>1, TextsOfFiles DEF OfFiles
<1>2. m \in Nat /\ AsGitCuts(change)
  BY PatchIs DEF OfFiles
<1>3. \A k \in 1..n : k \in 1..m
  BY <1>2
<1>4. ASSUME NEW t \in Said(Having(NewHunks(p), "+")) PROVE t \in TextsOf("+")
  <2>1. PICK l \in NewHunks(p) : l.op = "+" /\ t = l.text
    BY DEF Having, Said
  <2>2. PICK k \in 1..n : l \in ToSet(Numbered(p[k]))
    BY <2>1 DEF NewHunks
  <2> DEFINE q == p[k]
             Q == Rows(q.body, InNew)
  <2>3. KeepsHunk(k, q)
    BY <2>2
  <2> HIDE DEF q
  <2>4. /\ q.body \in Seq(AnyLine)
        /\ \A x \in 1..Len(q.body) :
              q.body[x].op # "=" => \E j \in 1..Len(Body(k)) : q.body[x] = Body(k)[j]
    BY <2>3 DEF KeepsHunk
  <2>5. PICK x \in Q : l = [number |-> q.head.start2 + Rank(Q, x) - 1, op |-> q.body[x].op,
                            text |-> q.body[x].text]
    BY <2>2, <2>4, NumberedIs DEF q
  <2>6. x \in 1..Len(q.body) /\ q.body[x].op = "+" /\ q.body[x].text = t
    BY <2>1, <2>4, <2>5 DEF Rows
  <2>7. PICK j \in 1..Len(Body(k)) : q.body[x] = Body(k)[j]
    BY <2>4, <2>6
  <2>8. k \in 1..m
    BY <1>3
  <2>9. Body(k)[j].text = <<k, j>> /\ Len(Body(k)) \in Nat
    BY <1>2, <2>8, BodyIs
  <2>10. t = <<k, j>> /\ Body(k)[j].op = "+" /\ t \in Int \X Int
    <3>1. k \in Int /\ j \in Int
      BY <1>2, <2>8, <2>9
    <3>2. t = <<k, j>> /\ Body(k)[j].op = "+"
      BY <2>6, <2>7, <2>9
    <3> QED
      BY <3>1, <3>2
  <2> QED
    BY <2>8, <2>10 DEF TextsOf
<1>5. ASSUME NEW t \in TextsOf("+") PROVE t \in Said(Having(NewHunks(p), "+"))
  <2>1. PICK k \in 1..m : \E j \in 1..Len(Body(k)) : t = <<k, j>> /\ Body(k)[j].op = "+"
    BY DEF TextsOf
  <2>2. PICK j \in 1..Len(Body(k)) : t = <<k, j>> /\ Body(k)[j].op = "+"
    BY <2>1
  <2>3. k \in 1..n
    BY <1>2, <2>2
  <2> DEFINE q == p[k]
             Q == Rows(q.body, InNew)
  <2>4. KeepsHunk(k, q)
    BY <2>3
  <2> HIDE DEF q
  <2>5. q.body \in Seq(AnyLine) /\ \E x \in 1..Len(q.body) : q.body[x] = Body(k)[j]
    BY <2>4 DEF KeepsHunk
  <2>6. PICK x \in 1..Len(q.body) : q.body[x] = Body(k)[j]
    BY <2>5
  <2>7. Body(k)[j].text = <<k, j>>
    BY <1>2, BodyIs
  <2>8. q.body[x].op = "+" /\ q.body[x].text = t /\ x \in DOMAIN q.body
    BY <2>2, <2>5, <2>6, <2>7
  <2>9. x \in Q
    BY <2>8 DEF InNew, Rows
  <2> DEFINE l == [number |-> q.head.start2 + Rank(Q, x) - 1, op |-> q.body[x].op,
                   text |-> q.body[x].text]
  <2>10. l \in ToSet(Numbered(q))
    <3> HIDE DEF l
    <3> QED
      BY <2>5, <2>9, NumberedIs DEF l
  <2>11. Changed(q) /\ \E i \in DOMAIN q.body : q.body[i].op # "-"
    BY <2>8 DEF Changed
  <2>12. l.op = "+" /\ l.text = t
    BY <2>8
  <2> HIDE DEF l
  <2>13. l \in NewHunks(p)
    <3>1. k \in {i \in DOMAIN p : Changed(p[i]) /\ \E x2 \in DOMAIN p[i].body : p[i].body[x2].op # "-"}
      BY <2>3, <2>11 DEF q
    <3> QED
      BY <2>10, <3>1 DEF NewHunks, q
  <2> QED
    BY <2>12, <2>13 DEF Having, Said
<1> QED
  BY <1>1, <1>4, <1>5

\* A file that is not emptied has a line in every hunk of it.
LEMMA NotEmptied ==
    ASSUME OfFiles, new # <<>>, NEW k \in 1..Len(change.hunks)
    PROVE  \E j \in 1..Len(Body(k)) : Body(k)[j].op # "-"
<1> DEFINE P == Rows(Body(k), InNew)
<1>1. AsGitCuts(change) /\ new = File(InNew) /\ Context \in Nat \ {0} /\ new \in Seq(AnyLine)
  BY ChangesAssumption, PatchIs DEF OfFiles
<1>2. "=" \in InNew
  BY DEF InNew
<1>3. Count(k, InNew) # 0
  <2>1. Len(new) # 0
    BY <1>1
  <2> QED
    BY <1>1, <1>2, <2>1, NothingAround
<1>4. HunkWell(k, InNew)
  BY <1>1, HunkLines
<1>5. PICK j \in P : Rank(P, j) = 1
  BY <1>3, <1>4 DEF HunkWell
<1>6. j \in 1..Len(Body(k)) /\ Body(k)[j].op \in InNew
  BY <1>1, <1>5, BodyIs DEF Rows
<1> QED
  BY <1>6 DEF InNew

LEMMA RemovedKept ==
    ASSUME OfFiles, new # <<>>, NEW p, DOMAIN p = 1..Len(change.hunks),
           \A k \in 1..Len(change.hunks) : KeepsHunk(k, p[k])
    PROVE  Said(OldHunks(p)) = Said(Having(ToSet(old), "-"))
<1> DEFINE m == Len(change.hunks)
<1>1. Said(Having(ToSet(old), "-")) = TextsOf("-")
  <2>1. "-" \in InOld
    BY DEF InOld
  <2> QED
    BY <2>1, TextsOfFiles DEF OfFiles
<1>2. m \in Nat /\ AsGitCuts(change)
  BY PatchIs DEF OfFiles
<1>3. ASSUME NEW t \in Said(OldHunks(p)) PROVE t \in TextsOf("-")
  <2>1. PICK k \in 1..m : \E l \in ToSet(p[k].body) : l.op = "-" /\ t = l.text
    BY DEF OldHunks, Said
  <2>2. PICK l \in ToSet(p[k].body) : l.op = "-" /\ t = l.text
    BY <2>1
  <2>3. KeepsHunk(k, p[k])
    OBVIOUS
  <2>4. PICK x \in 1..Len(p[k].body) : l = p[k].body[x]
    BY <2>2, <2>3 DEF KeepsHunk, ToSet
  <2>5. PICK j \in 1..Len(Body(k)) : l = Body(k)[j]
    BY <2>2, <2>3, <2>4 DEF KeepsHunk
  <2>6. Body(k)[j].text = <<k, j>> /\ Len(Body(k)) \in Nat
    BY <1>2, BodyIs
  <2>7. t = <<k, j>> /\ Body(k)[j].op = "-" /\ t \in Int \X Int
    BY <1>2, <2>2, <2>5, <2>6
  <2> QED
    BY <2>7 DEF TextsOf
<1>4. ASSUME NEW t \in TextsOf("-") PROVE t \in Said(OldHunks(p))
  <2>1. PICK k \in 1..m : \E j \in 1..Len(Body(k)) : t = <<k, j>> /\ Body(k)[j].op = "-"
    BY DEF TextsOf
  <2>2. PICK j \in 1..Len(Body(k)) : t = <<k, j>> /\ Body(k)[j].op = "-"
    BY <2>1
  <2>3. KeepsHunk(k, p[k])
    OBVIOUS
  <2>4. p[k].body \in Seq(AnyLine) /\ \E x \in 1..Len(p[k].body) : p[k].body[x] = Body(k)[j]
    BY <2>3 DEF KeepsHunk
  <2>5. PICK x \in 1..Len(p[k].body) : p[k].body[x] = Body(k)[j]
    BY <2>4
  <2>6. Body(k)[j] \in ToSet(p[k].body)
    BY <2>4, <2>5 DEF ToSet
  <2>7. Body(k)[j].text = t
    BY <1>2, <2>2, BodyIs
  <2>8. Body(k)[j] \in OldHunks(p)
    <3>1. Body(k)[j] \in {l \in ToSet(p[k].body) : l.op = "-"} /\ k \in DOMAIN p
      BY <2>2, <2>6
    <3>2. PICK i \in 1..Len(Body(k)) : Body(k)[i].op # "-"
      BY NotEmptied
    <3>3. \E z \in 1..Len(p[k].body) : p[k].body[z] = Body(k)[i]
      BY <2>3 DEF KeepsHunk
    <3>4. \E z \in DOMAIN p[k].body : p[k].body[z].op # "-"
      BY <2>4, <3>2, <3>3
    <3> QED
      BY <3>1, <3>4 DEF OldHunks
  <2> QED
    BY <2>7, <2>8 DEF Said
<1> QED
  BY <1>1, <1>3, <1>4

LEMMA Greatest ==
    ASSUME NEW m \in Nat, NEW S, S \subseteq 1..m, S # {}
    PROVE  \E k \in S : \A j \in S : j <= k
<1> DEFINE T == {m - k : k \in S}
<1>1. T \subseteq Nat /\ T # {}
  <2>1. \A k \in S : m - k \in Nat
    OBVIOUS
  <2> QED
    BY <2>1
<1>2. \E i \in T : \A j \in T : i <= j
  <2> HIDE DEF T
  <2> QED
    BY <1>1, Least
<1>3. PICK k \in S : \A j \in S : m - k <= m - j
  BY <1>2
<1>4. \A j \in S : j <= k
  BY <1>3
<1> QED
  BY <1>4

\* What is left of a patch when deletions at its end are pruned.
LEMMA PrunedIs ==
    ASSUME OfFiles, NEW p, p = OmitDeletions(patch)
    PROVE  \E n \in 0..Len(change.hunks) :
              /\ DOMAIN p = 1..n /\ Len(p) = n
              /\ \A k \in 1..n : p[k] = patch[k]
              /\ \A k \in 1..Len(change.hunks) :
                    \A j \in 1..Len(Body(k)) : Body(k)[j].op = "+" => k <= n
              /\ n # 0 => Adds(p[n])
<1> DEFINE m == Len(change.hunks)
           adding == {k \in DOMAIN patch : Adds(patch[k])}
           n == CHOOSE k \in adding : \A j \in adding : j <= k
<1>1. m \in Nat /\ DOMAIN patch = 1..m /\ adding \subseteq 1..m /\ Len(patch) = m
      /\ \A k \in 1..m : patch[k].body = Body(k) /\ patch[k].body \in Seq(AnyLine)
  BY PatchIs
<1>2. \A k \in 1..m : \A j \in 1..Len(Body(k)) : Body(k)[j].op = "+" => k \in adding
  BY <1>1 DEF Adds
<1>3. CASE adding = {}
  <2>1. p = <<>>
    BY <1>3 DEF OmitDeletions
  <2>2. DOMAIN p = 1..0 /\ Len(p) = 0
    BY <2>1
  <2>3. 0 \in 0..m
    BY <1>1
  <2>4. \A k \in 1..0 : p[k] = patch[k]
    OBVIOUS
  <2>5. \A k \in 1..m : \A j \in 1..Len(Body(k)) : Body(k)[j].op = "+" => k <= 0
    BY <1>2, <1>3
  <2> QED
    BY <2>2, <2>3, <2>4, <2>5
<1>4. CASE adding # {}
  <2>1. p = SubSeq(patch, 1, n)
    BY <1>4 DEF OmitDeletions
  <2>2. n \in adding /\ \A j \in adding : j <= n
    <3> HIDE DEF adding
    <3>1. \E k \in adding : \A j \in adding : j <= k
      BY <1>1, <1>4, Greatest
    <3> QED
      BY <3>1
  <2> HIDE DEF n
  <2>3. n \in 1..m /\ Adds(patch[n])
    BY <1>1, <2>2
  <2>4. /\ Len(p) = n /\ DOMAIN p = 1..n /\ \A k \in 1..n : p[k] = patch[k]
    <3> DEFINE S == [head : {Header(k) : k \in 1..m}, body : Seq(AnyLine)]
    <3>1. patch \in Seq(S)
      BY PatchIs
    <3> HIDE DEF S
    <3>2. \A i \in 1..n : patch[i] \in S
      BY <1>1, <2>3, <3>1
    <3>3. n \in Int /\ n >= 1
      BY <1>1, <2>3
    <3>4. /\ SubSeq(patch, 1, n) \in Seq(S)
          /\ Len(SubSeq(patch, 1, n)) = IF 1 <= n THEN n - 1 + 1 ELSE 0
          /\ \A i \in 1..(n - 1 + 1) : SubSeq(patch, 1, n)[i] = patch[1 + i - 1]
      BY <3>2, <3>3, SubSeqProperties
    <3>5. p \in Seq(S) /\ Len(p) = n
      BY <2>1, <3>3, <3>4
    <3>6. \A i \in 1..n : p[i] = patch[i]
      <4> TAKE i \in 1..n
      <4>1. i \in 1..(n - 1 + 1) /\ 1 + i - 1 = i
        BY <3>3
      <4> QED
        BY <2>1, <3>4, <4>1
    <3> QED
      BY <3>5, <3>6
  <2>5. Adds(p[n])
    <3>1. n \in 1..n
      BY <1>1, <2>3
    <3> QED
      BY <2>3, <2>4, <3>1
  <2>6. n \in 0..m
    BY <1>1, <2>3
  <2> HIDE DEF adding
  <2> QED
    BY <1>2, <2>2, <2>4, <2>5, <2>6
<1> QED
  BY <1>3, <1>4

-----------------------------------------------------------------------------
(* The lines of a patch, one after the other.                              *)

\* off[k] lines belong to the first k hunks, each with its header.
Laid(lines, off) ==
    LET m == Len(change.hunks) IN
    /\ off \in [0..m -> Nat]
    /\ \A k \in 1..m : off[k] = off[k - 1] + 1 + Len(Body(k))
    /\ \A n \in 0..m : \A k \in 0..n : off[k] <= off[n]
    /\ Len(lines) \in Nat /\ DOMAIN lines = 1..Len(lines) /\ Len(lines) = off[m]
    /\ \A k \in 1..m : lines[off[k - 1] + 1] = Header(k)
    /\ \A k \in 1..m : \A j \in 1..Len(Body(k)) : lines[off[k - 1] + 1 + j] = Body(k)[j]
    /\ \A x \in 1..Len(lines) : \E k \in 1..m : \E j \in 0..Len(Body(k)) : x = off[k - 1] + 1 + j

LEMMA LinesLaid ==
    ASSUME OfFiles
    PROVE  \E off : Laid(AllLines(patch), off)
<1> DEFINE m == Len(change.hunks)
           lines == AllLines(patch)
           S == {Header(k) : k \in 1..m} \cup AnyLine
           seqs == [k \in 1..m |-> <<Header(k)>> \o Body(k)]
           off == [k \in 0..m |-> JoinedEnd(seqs, k)]
<1>1. /\ m \in Nat /\ DOMAIN patch = 1..m
      /\ \A k \in 1..m : patch[k] = [head |-> Header(k), body |-> Body(k)]
      /\ \A k \in 1..m : Body(k) \in Seq(AnyLine) /\ Len(Body(k)) \in Nat
  BY PatchIs, BodyIs DEF OfFiles
<1>2. ASSUME NEW k \in 1..m
      PROVE  <<Header(k)>> \o Body(k) \in Seq(S) /\ EndToEnd(<<Header(k)>>, Body(k), <<Header(k)>> \o Body(k))
  <2> DEFINE c == <<Header(k)>>
             d == Body(k)
  <2>1. c \in Seq(S)
    <3>1. Header(k) \in S
      OBVIOUS
    <3> HIDE DEF S
    <3> QED
      BY <3>1
  <2>2. d \in Seq(S)
    <3>1. \A i \in 1..Len(d) : d[i] \in S
      BY <1>1
    <3>2. d \in Seq(AnyLine) /\ Len(d) \in Nat
      BY <1>1
    <3> HIDE DEF S, d
    <3> QED
      BY <3>1, <3>2
  <2> HIDE DEF c, d, S
  <2>3. c \o d \in Seq(S) /\ EndToEnd(c, d, c \o d)
    BY <2>1, <2>2, ConcatIs
  <2> QED
    BY <2>3 DEF c, d
<1>3. seqs \in [1..m -> Seq(S)]
  BY <1>2
<1>4. \A k \in 1..m : /\ Len(seqs[k]) = 1 + Len(Body(k)) /\ seqs[k][1] = Header(k)
                      /\ \A j \in 1..Len(Body(k)) : seqs[k][1 + j] = Body(k)[j]
  <2> TAKE k \in 1..m
  <2> DEFINE c == <<Header(k)>>
             d == Body(k)
             cd == c \o d
  <2>1. seqs[k] = cd /\ Len(c) = 1 /\ c[1] = Header(k)
    OBVIOUS
  <2>2. EndToEnd(c, d, cd)
    BY <1>2
  <2> HIDE DEF c, d, cd, seqs
  <2>3. Len(cd) = Len(c) + Len(d) /\ cd[1] = c[1] /\ \A j \in 1..Len(d) : cd[Len(c) + j] = d[j]
    <3>1. 1 \in 1..Len(c)
      BY <2>1
    <3> QED
      BY <2>2, <3>1 DEF EndToEnd
  <2> QED
    BY <2>1, <2>3 DEF d
<1>5. lines = Joined(seqs, m)
  <2>1. \A k \in 1..m : <<patch[k].head>> \o patch[k].body = seqs[k]
    <3> TAKE k \in 1..m
    <3>1. patch[k] = [head |-> Header(k), body |-> Body(k)]
      BY <1>1
    <3>2. patch[k].head = Header(k) /\ patch[k].body = Body(k)
      BY <3>1
    <3> QED
      BY <3>2
  <2> HIDE DEF seqs
  <2>2. [k \in 1..m |-> <<patch[k].head>> \o patch[k].body] = [k \in 1..m |-> seqs[k]]
    BY <2>1
  <2>3. DOMAIN patch = 1..m
    BY <1>1
  <2> QED
    BY <2>2, <2>3 DEF AllLines, Joined
<1> HIDE DEF S, seqs, m
<1>6. /\ JoinedEnd(seqs, 0) = 0
      /\ \A n \in 0..m : Joined(seqs, n) \in Seq(S) /\ JoinedEnd(seqs, n) \in Nat
      /\ \A n \in 1..m : JoinedEnd(seqs, n) = JoinedEnd(seqs, n - 1) + Len(seqs[n])
      /\ \A n \in 0..m : JoinedWell(seqs, n)
  BY <1>1, <1>3, JoinedPlaces
<1>7. /\ m \in 0..m /\ \A k \in 1..m : k \in 0..m /\ k - 1 \in 0..m
      /\ \A n \in 0..m : \A k \in 0..n : k \in 0..m
  BY <1>1
<1>8. off \in [0..m -> Nat] /\ \A k \in 0..m : off[k] = JoinedEnd(seqs, k)
  BY <1>6
<1>9. lines \in Seq(S) /\ Len(lines) = off[m]
  BY <1>5, <1>6, <1>7, <1>8 DEF JoinedEnd
<1> HIDE DEF lines, off
<1>10. Len(lines) \in Nat /\ DOMAIN lines = 1..Len(lines)
  BY <1>9
<1>11. ASSUME NEW k \in 1..m PROVE off[k] = off[k - 1] + 1 + Len(Body(k))
  <2>1. off[k] = off[k - 1] + (1 + Len(Body(k)))
    BY <1>4, <1>6, <1>7, <1>8
  <2>2. off[k - 1] \in Nat /\ Len(Body(k)) \in Nat
    BY <1>1, <1>7, <1>8
  <2> QED
    BY <2>1, <2>2
<1>12. ASSUME NEW n \in 0..m, NEW k \in 0..n PROVE off[k] <= off[n]
  <2>1. JoinedEnd(seqs, k) <= JoinedEnd(seqs, n)
    BY <1>6 DEF JoinedWell
  <2> QED
    BY <1>7, <1>8, <2>1
<1>13. ASSUME NEW k \in 1..m, NEW i \in 1..(1 + Len(Body(k)))
       PROVE  lines[off[k - 1] + i] = seqs[k][i]
  <2>1. \A h \in 1..m : \A x \in 1..Len(seqs[h]) : Joined(seqs, m)[JoinedEnd(seqs, h - 1) + x] = seqs[h][x]
    BY <1>6, <1>7 DEF JoinedWell
  <2>2. i \in 1..Len(seqs[k])
    BY <1>4
  <2> QED
    BY <1>5, <1>7, <1>8, <2>1, <2>2
<1>14. ASSUME NEW k \in 1..m PROVE lines[off[k - 1] + 1] = Header(k)
  <2>1. 1 \in 1..(1 + Len(Body(k)))
    BY <1>1
  <2> QED
    BY <1>4, <1>13, <2>1
<1>15. ASSUME NEW k \in 1..m, NEW j \in 1..Len(Body(k))
       PROVE  lines[off[k - 1] + 1 + j] = Body(k)[j]
  <2>1. Len(Body(k)) \in Nat /\ off[k - 1] \in Nat
    BY <1>1, <1>7, <1>8
  <2>2. 1 + j \in 1..(1 + Len(Body(k))) /\ off[k - 1] + (1 + j) = off[k - 1] + 1 + j
    BY <2>1
  <2>3. lines[off[k - 1] + (1 + j)] = seqs[k][1 + j]
    BY <1>13, <2>2
  <2> QED
    BY <1>4, <2>2, <2>3
<1>16. ASSUME NEW x \in 1..Len(lines)
       PROVE  \E k \in 1..m : \E j \in 0..Len(Body(k)) : x = off[k - 1] + 1 + j
  <2>1. \A y \in 1..JoinedEnd(seqs, m) : \E k \in 1..m : \E i \in 1..Len(seqs[k]) : y = JoinedEnd(seqs, k - 1) + i
    BY <1>6, <1>7 DEF JoinedWell
  <2>2. x \in 1..JoinedEnd(seqs, m)
    BY <1>7, <1>8, <1>9
  <2>3. PICK k \in 1..m : \E i \in 1..Len(seqs[k]) : x = JoinedEnd(seqs, k - 1) + i
    BY <2>1, <2>2
  <2>4. PICK i \in 1..Len(seqs[k]) : x = JoinedEnd(seqs, k - 1) + i
    BY <2>3
  <2>5. Len(Body(k)) \in Nat /\ Len(seqs[k]) = 1 + Len(Body(k)) /\ off[k - 1] = JoinedEnd(seqs, k - 1)
        /\ off[k - 1] \in Nat
    BY <1>1, <1>4, <1>7, <1>8
  <2>6. i - 1 \in 0..Len(Body(k)) /\ x = off[k - 1] + 1 + (i - 1)
    BY <2>4, <2>5
  <2> QED
    BY <2>6
<1>17. Laid(lines, off)
  BY <1>8, <1>9, <1>10, <1>11, <1>12, <1>14, <1>15, <1>16 DEF Laid, m
<1> QED
  BY <1>17 DEF lines

\* The number counted for a line of a hunk.
LEMMA CountedIs ==
    ASSUME OfFiles, NEW lines, NEW off, Laid(lines, off),
           NEW k \in 1..Len(change.hunks), NEW j \in 0..Len(Body(k))
    PROVE  Counted(lines, off[k - 1] + 1 + j) = Header(k).start2 - 1 + Rank(Rows(Body(k), InNew), j)
<1> DEFINE m == Len(change.hunks)
           n == Len(Body(k))
           P == Rows(Body(k), InNew)
           h == off[k - 1] + 1
           x == h + j
           Heads(g) == g \in 1..x /\ lines[g].op = "@@" /\ \A y \in (g + 1)..x : lines[y].op # "@@"
           head == CHOOSE g \in 1..x : lines[g].op = "@@" /\ \A y \in (g + 1)..x : lines[y].op # "@@"
           Below == {y \in (h + 1)..x : lines[y].op # "-"}
<1>1. AsGitCuts(change) /\ m \in Nat /\ k - 1 \in 0..m
  BY PatchIs DEF OfFiles
<1>2. /\ h \in Nat /\ h > 0 /\ n \in Nat /\ lines[h] = Header(k)
      /\ \A i \in 1..n : lines[h + i] = Body(k)[i]
  <2>1. off[k - 1] \in Nat /\ lines[off[k - 1] + 1] = Header(k)
        /\ \A i \in 1..n : lines[off[k - 1] + 1 + i] = Body(k)[i]
    BY <1>1 DEF Laid
  <2>2. n \in Nat
    BY <1>1, BodyIs
  <2> QED
    BY <2>1, <2>2
<1>3. Header(k).op = "@@"
  BY DEF Header
<1>4. \A i \in 1..n : Body(k)[i].op \in LineOps
  BY <1>1, BodyIs
<1> HIDE DEF h, n
<1>5. \A i \in 1..n : lines[h + i].op # "@@"
  BY <1>2, <1>4 DEF LineOps
<1>6. \A y \in (h + 1)..x : y - h \in 1..j /\ y - h \in 1..n /\ h + (y - h) = y
  <2>1. j \in 0..n
    BY DEF n
  <2> QED
    BY <1>2, <2>1
<1>7. Heads(h)
  <2>1. h \in 1..x
    BY <1>2
  <2>2. ASSUME NEW y \in (h + 1)..x PROVE lines[y].op # "@@"
    BY <1>5, <1>6
  <2> QED
    BY <1>2, <1>3, <2>1, <2>2
<1>8. ASSUME NEW g, Heads(g) PROVE g = h
  <2>1. g \in Int /\ h \in Int /\ x \in Int /\ g <= x
    BY <1>2, <1>8
  <2>2. ~(g < h)
    <3>1. g < h => h \in (g + 1)..x
      BY <1>2, <2>1
    <3> QED
      BY <1>7, <1>8, <3>1
  <2>3. ~(g > h)
    <3>1. g > h => g \in (h + 1)..x
      BY <1>2, <2>1
    <3> QED
      BY <1>7, <1>8, <3>1
  <2> QED
    BY <2>1, <2>2, <2>3
<1>9. head = h
  <2> HIDE DEF x
  <2> QED
    BY <1>7, <1>8
<1>10. \A i \in 1..n : i \in P <=> lines[h + i].op # "-"
  <2> TAKE i \in 1..n
  <2>1. i \in P <=> Body(k)[i].op \in InNew
    BY <1>1, BodyIs DEF Rows, n
  <2>2. Body(k)[i].op \in InNew <=> Body(k)[i].op # "-"
    BY <1>4 DEF InNew, LineOps
  <2> QED
    BY <1>2, <2>1, <2>2
<1>11. Cardinality(Below) = Rank(P, j)
  <2> DEFINE All == {y \in (h + 1)..(h + n) : lines[y].op # "-"}
             T == {i \in 0..n : Rank(All, h + i) # Rank(P, i)}
  <2>1. 0 \notin T
    <3>1. All \cap 1..(h + 0) = {}
      BY <1>2
    <3>2. Rank(All, h + 0) = 0
      <4> HIDE DEF All
      <4> QED
        BY <3>1, FS_EmptySet DEF Rank
    <3>3. Rank(P, 0) = 0
      BY RankIs
    <3> QED
      BY <3>2, <3>3
  <2>2. ASSUME NEW i \in 1..n, i \in T PROVE i - 1 \in T
    <3>1. /\ i \in Nat /\ i > 0 /\ h + i \in Nat /\ h + i > 0 /\ i - 1 \in 0..n
          /\ h + i - 1 = h + (i - 1) /\ h + i \in (h + 1)..(h + n)
      BY <1>2
    <3>2. Rank(All, h + i) = Rank(All, h + i - 1) + IF h + i \in All THEN 1 ELSE 0
      <4> HIDE DEF All
      <4>1. \A z \in Nat : z > 0 => Rank(All, z) = Rank(All, z - 1) + IF z \in All THEN 1 ELSE 0
        BY RankIs
      <4>2. h \in Nat
        BY <1>2
      <4> QED
        BY <3>1, <4>1, <4>2
    <3>3. Rank(P, i) = Rank(P, i - 1) + IF i \in P THEN 1 ELSE 0
      <4> HIDE DEF P
      <4> QED
        BY <3>1, RankIs
    <3>4. h + i \in All <=> i \in P
      BY <1>10, <3>1
    <3> HIDE DEF All, P
    <3> QED
      BY <2>2, <3>1, <3>2, <3>3, <3>4
  <2>3. T = {}
    <3>1. T \subseteq 0..n
      OBVIOUS
    <3> HIDE DEF T
    <3> QED
      BY <1>2, <2>1, <2>2, <3>1, NoFirstFailure
  <2>4. Rank(All, h + j) = Rank(P, j)
    <3>1. j \in 0..n
      BY DEF n
    <3> HIDE DEF All, P
    <3> QED
      BY <2>3, <3>1
  <2>5. Below = All \cap 1..(h + j)
    <3>1. j \in 0..n
      BY DEF n
    <3> QED
      BY <1>2, <3>1
  <2> QED
    BY <2>4, <2>5 DEF Rank
<1>12. Counted(lines, x) = lines[head].start2 - 1 + Cardinality({y \in (head + 1)..x : lines[y].op # "-"})
  BY DEF Counted
<1> HIDE DEF head, P
<1>13. Counted(lines, h + j) = Header(k).start2 - 1 + Rank(P, j)
  BY <1>2, <1>9, <1>11, <1>12
<1> QED
  BY <1>13 DEF h, P

LEMMA FirstIs ==
    ASSUME NEW S, S \subseteq Nat, NEW x \in S, \A y \in S : x <= y
    PROVE  First(S) = x
<1>1. \A z \in S : (\A y \in S : z <= y) => z = x
  <2> TAKE z \in S
  <2>1. z \in Nat /\ x \in Nat
    OBVIOUS
  <2> SUFFICES ASSUME \A y \in S : z <= y PROVE z = x
    OBVIOUS
  <2>2. z <= x /\ x <= z
    OBVIOUS
  <2> QED
    BY <2>1, <2>2
<1>2. Min(S) = x
  BY <1>1 DEF Min
<1> QED
  BY <1>2 DEF First

LEMMA ShownAt ==
    ASSUME OfFiles, NEW k \in 1..Len(change.hunks), NEW n \in 1..Len(new), ShownIn(k, n),
           NEW P, P = Rows(Body(k), InNew)
    PROVE  /\ Count(k, InNew) \in Nat /\ Count(k, InNew) > 0 /\ Above(k, InNew) \in Nat
           /\ Header(k).start2 = Above(k, InNew) + 1
           /\ \E j \in P : /\ j \in 1..Len(Body(k)) /\ new[n].text = <<k, j>>
                           /\ n = Above(k, InNew) + Rank(P, j)
                           /\ Rank(P, j) \in 1..Count(k, InNew)
<1>1. AsGitCuts(change) /\ new = File(InNew) /\ Context \in Nat \ {0}
  BY ChangesAssumption DEF OfFiles
<1>2. patch[k].body = Body(k) /\ Body(k) \in Seq(AnyLine)
  BY PatchIs
<1>3. PICK l \in ToSet(Body(k)) : new[n].text = l.text
  BY <1>2 DEF Said, ShownIn
<1>4. PICK j \in 1..Len(Body(k)) : l = Body(k)[j]
  BY <1>2, <1>3 DEF ToSet
<1>5. new[n].text = <<k, j>>
  BY <1>1, <1>3, <1>4, BodyIs
<1>6. j \in P /\ n = Above(k, InNew) + Rank(P, j)
  BY <1>1, <1>5, WhereShown
<1>7. HunkWell(k, InNew) /\ HeaderWell(k)
  BY <1>1, HeaderIs, HunkLines
<1>8. Rank(P, j) \in 1..Count(k, InNew) /\ Count(k, InNew) \in Nat /\ Above(k, InNew) \in Nat
  BY <1>6, <1>7 DEF HunkWell
<1>9. Count(k, InNew) > 0
  BY <1>8
<1>10. Header(k).start2 = Above(k, InNew) + 1
  BY <1>7, <1>9 DEF HeaderWell
<1> QED
  BY <1>5, <1>6, <1>8, <1>9, <1>10

LEMMA LinesAreFound ==
    ASSUME OfFiles, NEW k \in 1..Len(change.hunks), NEW n \in 1..Len(new), ShownIn(k, n),
           NEW lines, lines = AllLines(patch), NEW at, at = PositionOf(lines, n)
    PROVE  /\ at = PlaceOf(lines, new[n].text)
           /\ IF \E h \in 1..k : LeavesOut(Header(h)) THEN at = TypeError
              ELSE at # 0 /\ Counted(lines, at) = n
<1> DEFINE m == Len(change.hunks)
           P == Rows(Body(k), InNew)
           above == Above(k, InNew)
<1>1. AsGitCuts(change) /\ m \in Nat /\ Context \in Nat \ {0}
  <2>1. AsGitCuts(change) /\ m \in Nat
    BY PatchIs DEF OfFiles
  <2> QED
    BY <2>1, ChangesAssumption
<1>2. PICK off : Laid(lines, off)
  BY LinesLaid
<1>3. above \in Nat /\ Header(k).start2 = above + 1
  BY ShownAt
<1>4. PICK j \in P : /\ j \in 1..Len(Body(k)) /\ new[n].text = <<k, j>>
                     /\ n = above + Rank(P, j) /\ Rank(P, j) \in 1..Count(k, InNew)
  BY ShownAt
<1> DEFINE x == off[k - 1] + 1 + j
<1>5. /\ \A h \in 1..m : /\ h - 1 \in 0..m /\ h \in 0..m /\ off[h - 1] \in Nat /\ off[h] \in Nat
                         /\ off[h] = off[h - 1] + 1 + Len(Body(h)) /\ Len(Body(h)) \in Nat
      /\ m \in 0..m /\ off[m] \in Nat
  <2>1. \A h \in 1..m : h - 1 \in 0..m /\ h \in 0..m
    BY <1>1
  <2>2. m \in 0..m
    BY <1>1
  <2>3. \A h \in 1..m : Len(Body(h)) \in Nat
    BY <1>1, BodyIs
  <2> QED
    BY <1>2, <2>1, <2>2, <2>3 DEF Laid
<1>6. /\ Len(lines) \in Nat /\ DOMAIN lines = 1..Len(lines) /\ Len(lines) = off[m]
      /\ \A a \in 0..m : \A h \in 0..a : off[h] <= off[a]
      /\ \A y \in 1..Len(lines) : \E h \in 1..m : \E i \in 0..Len(Body(h)) : y = off[h - 1] + 1 + i
  BY <1>2 DEF Laid
<1>7. x \in 1..Len(lines) /\ x \in Nat
  <2>1. off[k] <= off[m]
    <3>1. k \in 0..m
      BY <1>5
    <3> QED
      BY <1>5, <1>6, <3>1
  <2>2. off[k - 1] \in Nat /\ off[k] \in Nat /\ off[m] \in Nat /\ off[k] = off[k - 1] + 1 + Len(Body(k))
        /\ Len(Body(k)) \in Nat
    BY <1>5
  <2>3. j \in 1..Len(Body(k)) /\ Len(lines) = off[m]
    BY <1>4, <1>6
  <2> DEFINE a == off[k - 1]
             b == off[k]
             c == off[m]
             d == Len(Body(k))
             l == Len(lines)
  <2>4. a \in Nat /\ b \in Nat /\ c \in Nat /\ d \in Nat /\ b = a + 1 + d /\ b <= c /\ l = c /\ j \in 1..d
    BY <2>1, <2>2, <2>3
  <2> HIDE DEF a, b, c, d, l
  <2>5. a + 1 + j \in 1..l /\ a + 1 + j \in Nat
    BY <2>4
  <2> QED
    BY <2>5 DEF a, l
<1>8. Counted(lines, x) = n
  <2>1. j \in 0..Len(Body(k))
    BY <1>4, <1>5
  <2>2. Counted(lines, x) = Header(k).start2 - 1 + Rank(P, j)
    BY <1>2, <2>1, CountedIs
  <2>3. Rank(P, j) \in Nat
    BY <1>4, ShownAt
  <2> DEFINE r == Rank(P, j)
             s == Header(k).start2
  <2> HIDE DEF r, s, above, P, x
  <2>4. s - 1 + r = above + r
    BY <1>3, <2>3 DEF r, s
  <2> QED
    BY <1>4, <2>2, <2>4 DEF r, s
<1>9. ASSUME NEW y \in 1..Len(lines), Counted(lines, y) = n
      PROVE  x <= y
  <2>1. PICK h \in 1..m : \E i \in 0..Len(Body(h)) : y = off[h - 1] + 1 + i
    BY <1>6
  <2>2. PICK i \in 0..Len(Body(h)) : y = off[h - 1] + 1 + i
    BY <2>1
  <2> DEFINE R == Rows(Body(h), InNew)
  <2>3. Counted(lines, y) = Header(h).start2 - 1 + Rank(R, i)
    BY <1>2, <2>2, CountedIs
  <2>4. i \in Nat /\ j \in Nat /\ Len(Body(h)) \in Nat /\ Len(Body(k)) \in Nat /\ i <= Len(Body(h))
        /\ j <= Len(Body(k))
    <3>1. Len(Body(h)) \in Nat /\ Len(Body(k)) \in Nat
      BY <1>5
    <3>2. j \in 1..Len(Body(k))
      BY <1>4
    <3> QED
      BY <3>1, <3>2
  <2>5. ~(h < k)
    <3> SUFFICES ASSUME h < k PROVE FALSE
      OBVIOUS
    <3>1. End(h, InNew) < above
      BY <1>1, InTheirOrder
    <3>2. HunkWell(h, InNew) /\ HeaderWell(h)
      BY <1>1, HeaderIs, HunkLines
    <3> DEFINE a == Above(h, InNew)
               c == Count(h, InNew)
               end == End(h, InNew)
               s == Header(h).start2
               r == Rank(R, i)
    <3>3. a \in Nat /\ c \in Nat /\ end = a + c /\ c = Rank(R, Len(Body(h)))
      BY <3>2 DEF HunkWell
    <3>4. (c > 0 => s = a + 1) /\ (c = 0 => s = 0)
      BY <3>2 DEF HeaderWell
    <3>5. r \in Nat /\ r <= c
      <4>1. r \in Nat
        BY <2>4, RankIs
      <4>2. r <= Rank(R, Len(Body(h)))
        <5> HIDE DEF R
        <5> QED
          BY <2>4, RankGrows
      <4> QED
        BY <3>3, <4>1, <4>2
    <3> HIDE DEF a, c, end, s, r
    <3>6. s - 1 + r <= end /\ s - 1 + r \in Int
      <4>1. a \in Nat /\ c \in Nat /\ end = a + c
        BY <3>3
      <4>2. CASE c = 0
        <5>1. s = 0 /\ r = 0
          BY <3>4, <3>5, <4>2
        <5> QED
          BY <4>1, <5>1
      <4>3. CASE c > 0
        <5>1. s = a + 1
          BY <3>4, <4>3
        <5> QED
          BY <3>5, <4>1, <5>1
      <4> QED
        BY <4>1, <4>2, <4>3
    <3>7. n = s - 1 + r
      BY <1>9, <2>3 DEF s, r
    <3>8. n > above
      <4> DEFINE q == Rank(P, j)
      <4>1. n = above + q /\ q >= 1 /\ q \in Int
        <5>1. Count(k, InNew) \in Nat
          BY ShownAt
        <5> QED
          BY <1>4, <5>1
      <4> HIDE DEF q, above
      <4> QED
        BY <1>3, <4>1
    <3> HIDE DEF above
    <3>9. end \in Int /\ end < above
      BY <3>1, <3>3 DEF end
    <3> QED
      BY <1>3, <3>6, <3>7, <3>8, <3>9
  <2>6. CASE h = k
    <3>1. ~(i < j)
      <4> SUFFICES ASSUME i < j PROVE FALSE
        OBVIOUS
      <4>1. Rank(P, i) < Rank(P, j)
        <5> HIDE DEF P
        <5> QED
          BY <2>4, RankGrows
      <4>2. Rank(P, i) \in Nat /\ Rank(P, j) \in Nat
        BY <2>4, RankIs
      <4> DEFINE q == Rank(P, j)
                 r == Rank(P, i)
                 s == Header(k).start2
      <4>3. n = s - 1 + r /\ n = above + q
        BY <1>4, <1>9, <2>3, <2>6
      <4>4. s = above + 1
        BY <1>3
      <4> HIDE DEF q, r, s, above
      <4>5. r < q /\ r \in Nat /\ q \in Nat
        BY <4>1, <4>2 DEF q, r
      <4> QED
        BY <1>3, <4>3, <4>4, <4>5
    <3>2. off[k - 1] \in Nat
      BY <1>5
    <3>3. y = off[k - 1] + 1 + i
      BY <2>2, <2>6
    <3> DEFINE z == off[k - 1]
    <3>4. z \in Nat /\ y = z + 1 + i /\ x = z + 1 + j
      BY <3>2, <3>3
    <3>5. i \in Nat /\ j \in Nat /\ j <= i
      BY <2>4, <3>1
    <3> HIDE DEF z, x
    <3> QED
      BY <3>4, <3>5
  <2>7. CASE h > k
    <3>1. k \in 0..(h - 1) /\ h - 1 \in 0..m
      BY <1>1, <2>7
    <3>2. off[k] <= off[h - 1]
      BY <1>6, <3>1
    <3>3. off[k] = off[k - 1] + 1 + Len(Body(k)) /\ off[k] \in Nat /\ off[k - 1] \in Nat /\ off[h - 1] \in Nat
      BY <1>5
    <3> DEFINE a == off[k - 1]
               b == off[k]
               c == off[h - 1]
               d == Len(Body(k))
    <3>4. /\ a \in Nat /\ b \in Nat /\ c \in Nat /\ d \in Nat /\ b = a + 1 + d /\ b <= c
          /\ y = c + 1 + i /\ i \in Nat /\ j \in Nat /\ j <= d
      BY <2>2, <2>4, <3>2, <3>3
    <3> HIDE DEF a, b, c, d
    <3>5. a + 1 + j <= y
      BY <3>4
    <3> QED
      BY <3>5 DEF a
  <2>8. h < k \/ h = k \/ h > k
    BY <1>1
  <2> QED
    BY <2>5, <2>6, <2>7, <2>8
<1>10. PositionOf(lines, n) = Reached(lines, x)
  <2> DEFINE S == {y \in DOMAIN lines : Counted(lines, y) = n}
  <2>1. S \subseteq Nat /\ x \in S
    BY <1>6, <1>7, <1>8
  <2>2. \A y \in S : x <= y
    BY <1>6, <1>9
  <2> HIDE DEF x
  <2>3. First(S) = x
    <3> HIDE DEF S
    <3> QED
      BY <2>1, <2>2, FirstIs
  <2> QED
    BY <2>3 DEF PositionOf
<1>11. Says(lines[x], <<k, j>>)
  <2>1. lines[x] = Body(k)[j]
    BY <1>2, <1>4 DEF Laid
  <2>2. Body(k)[j].text = <<k, j>> /\ Body(k)[j].op \in InNew
    BY <1>1, <1>4, BodyIs DEF Rows
  <2> HIDE DEF x
  <2> QED
    BY <2>1, <2>2 DEF InNew, Says
<1>12. ASSUME NEW y \in 1..Len(lines), Says(lines[y], <<k, j>>)
       PROVE  y = x
  <2>1. PICK h \in 1..m : \E i \in 0..Len(Body(h)) : y = off[h - 1] + 1 + i
    BY <1>6
  <2>2. PICK i \in 0..Len(Body(h)) : y = off[h - 1] + 1 + i
    BY <2>1
  <2>3. lines[y].text = <<k, j>>
    BY <1>12 DEF Says
  <2>4. off[h - 1] \in Nat /\ Len(Body(h)) \in Nat
    BY <1>5
  <2>5. i # 0
    <3> SUFFICES ASSUME i = 0 PROVE FALSE
      OBVIOUS
    <3> DEFINE z == off[h - 1]
    <3> HIDE DEF z
    <3>0. y = z + 1 + i /\ z \in Nat /\ i = 0
      BY <2>2, <2>4 DEF z
    <3>1. y = off[h - 1] + 1
      BY <3>0 DEF z
    <3>2. lines[y] = Header(h)
      BY <1>2, <3>1 DEF Laid
    <3>3. HeaderWell(h)
      BY <1>1, HeaderIs
    <3>4. Header(h).text \in {<<>>, <<1, -1>>}
      BY <3>3 DEF HeaderWell
    <3>5. <<k, j>> # <<>>
      OBVIOUS
    <3>6. <<k, j>> # <<1, -1>>
      <4>1. j # -1
        BY <1>4, <1>5
      <4> QED
        BY <4>1
    <3> QED
      BY <2>3, <3>2, <3>4, <3>5, <3>6
  <2>6. i \in 1..Len(Body(h))
    BY <2>4, <2>5
  <2>7. lines[y] = Body(h)[i]
    BY <1>2, <2>2, <2>6 DEF Laid
  <2>8. Body(h)[i].text = <<h, i>>
    BY <1>1, <2>6, BodyIs
  <2>9. <<h, i>> = <<k, j>>
    BY <2>3, <2>7, <2>8
  <2>10. h = k /\ i = j
    BY <2>9
  <2> QED
    BY <2>2, <2>10
<1>13. PlaceOf(lines, new[n].text) = Reached(lines, x)
  <2> DEFINE S == {y \in DOMAIN lines : Says(lines[y], <<k, j>>)}
  <2>1. S \subseteq Nat /\ x \in S
    BY <1>6, <1>7, <1>11
  <2>2. \A y \in S : x <= y
    <3>1. \A y \in S : y = x
      BY <1>6, <1>12
    <3> HIDE DEF S, x
    <3> QED
      BY <1>7, <3>1
  <2>3. First(S) = x
    <3> HIDE DEF S, x
    <3> QED
      BY <2>1, <2>2, FirstIs
  <2>4. PlaceOf(lines, <<k, j>>) = Reached(lines, First(S))
    BY DEF PlaceOf
  <2> HIDE DEF S, x
  <2> QED
    BY <1>4, <2>3, <2>4
<1>14. ASSUME NEW h \in 1..k, LeavesOut(Header(h))
       PROVE  \E y \in 1..x : lines[y].op = "@@" /\ LeavesOut(lines[y])
  <2> DEFINE y == off[h - 1] + 1
  <2>1. h \in 1..m
    BY <1>1
  <2>2. lines[y] = Header(h) /\ off[h - 1] \in Nat
    BY <1>2, <1>5, <2>1 DEF Laid
  <2>3. off[h - 1] <= off[k - 1]
    <3>1. k - 1 \in 0..m /\ h - 1 \in 0..(k - 1)
      BY <1>1
    <3> QED
      BY <1>6, <3>1
  <2>4. y \in 1..x
    <3> DEFINE a == off[k - 1]
               b == off[h - 1]
    <3>1. a \in Nat /\ j \in Nat /\ b \in Nat /\ b <= a /\ j >= 1
      BY <1>4, <1>5, <2>2, <2>3
    <3>2. x = a + 1 + j /\ y = b + 1
      OBVIOUS
    <3> HIDE DEF a, b, x, y
    <3> QED
      BY <3>1, <3>2
  <2>5. Header(h).op = "@@"
    BY DEF Header
  <2> HIDE DEF x, y
  <2> QED
    BY <1>14, <2>2, <2>4, <2>5
<1>15. ASSUME NEW y \in 1..x, lines[y].op = "@@", LeavesOut(lines[y])
       PROVE  \E h \in 1..k : LeavesOut(Header(h))
  <2>1. y \in 1..Len(lines) /\ y \in Nat /\ y <= x
    <3> HIDE DEF x
    <3> QED
      BY <1>6, <1>7
  <2>2. PICK h \in 1..m : \E i \in 0..Len(Body(h)) : y = off[h - 1] + 1 + i
    BY <1>6, <2>1
  <2>3. PICK i \in 0..Len(Body(h)) : y = off[h - 1] + 1 + i
    BY <2>2
  <2>4. off[h - 1] \in Nat /\ Len(Body(h)) \in Nat
    BY <1>5
  <2>5. i = 0
    <3> SUFFICES ASSUME i # 0 PROVE FALSE
      OBVIOUS
    <3>1. i \in 1..Len(Body(h))
      BY <2>4
    <3>2. lines[y] = Body(h)[i]
      BY <1>2, <2>3, <3>1 DEF Laid
    <3>3. Body(h)[i] \in AnyLine
      BY <1>1, <3>1, BodyIs
    <3>4. Body(h)[i].op # "@@"
      BY <3>3 DEF AnyLine, LineOps
    <3> QED
      BY <1>15, <3>2, <3>4
  <2>6. lines[y] = Header(h)
    <3>1. y = off[h - 1] + 1
      BY <2>3, <2>4, <2>5
    <3> QED
      BY <1>2, <3>1 DEF Laid
  <2>7. h \in 1..k
    <3> SUFFICES ASSUME k < h PROVE FALSE
      BY <1>1
    <3>1. off[k] <= off[h - 1]
      <4>1. h - 1 \in 0..m /\ k \in 0..(h - 1)
        BY <1>1
      <4> QED
        BY <1>6, <4>1
    <3>2. off[k] = off[k - 1] + 1 + Len(Body(k)) /\ off[k] \in Nat /\ off[k - 1] \in Nat
          /\ Len(Body(k)) \in Nat
      BY <1>5
    <3>3. j \in 1..Len(Body(k))
      BY <1>4
    <3> DEFINE a == off[k - 1]
               b == off[k]
               c == off[h - 1]
               d == Len(Body(k))
    <3>4. /\ a \in Nat /\ b \in Nat /\ c \in Nat /\ d \in Nat /\ b = a + 1 + d /\ b <= c
          /\ y = c + 1 + i /\ i = 0 /\ j \in 1..d /\ y <= a + 1 + j
      BY <2>1, <2>3, <2>4, <2>5, <3>1, <3>2, <3>3
    <3> HIDE DEF a, b, c, d, x
    <3> QED
      BY <3>4
  <2> QED
    BY <1>15, <2>6, <2>7
<1> HIDE DEF x
<1>16. x # 0
  BY <1>7
<1>17. Reached(lines, x) = IF \E h \in 1..k : LeavesOut(Header(h)) THEN TypeError ELSE x
  BY <1>14, <1>15, <1>16 DEF Reached
<1> QED
  BY <1>8, <1>10, <1>13, <1>16, <1>17

LEMMA AskedAre ==
    ASSUME OfFiles, NEW k \in 1..Len(change.hunks), NEW a \in 1..Len(new), NEW b \in a..Len(new),
           ShownIn(k, a)
    PROVE  {l.text : l \in {q \in Selected(a, b) : q.op # "-"}}
              = Said(ToSet(patch[k].body)) \cap {new[n].text : n \in a..b}
<1> DEFINE m == Len(change.hunks)
           B == Body(k)
           L == Len(B)
           P == Rows(B, InNew)
           above == Above(k, InNew)
           count == Count(k, InNew)
           start == Header(k).start2
           At(i) == start + Cardinality({y \in 1..(i - 1) : B[y].op # "-"})
           Some == {i \in DOMAIN B : a <= At(i) /\ At(i) <= b}
<1>1. /\ AsGitCuts(change) /\ m \in Nat /\ Context \in Nat \ {0} /\ new = File(InNew) /\ Len(new) \in Nat
      /\ DOMAIN patch = 1..m
      /\ \A h \in 1..m : patch[h] = [head |-> Header(h), body |-> Body(h)] /\ patch[h].body = Body(h)
  <2>1. AsGitCuts(change) /\ new = File(InNew)
    BY DEF OfFiles
  <2>2. Context \in Nat \ {0}
    BY ChangesAssumption
  <2>3. /\ m \in Nat /\ DOMAIN patch = 1..m
        /\ \A h \in 1..m : patch[h] = [head |-> Header(h), body |-> Body(h)] /\ patch[h].body = Body(h)
    BY PatchIs
  <2>4. new \in Seq(AnyLine)
    BY PatchIs
  <2>5. Len(new) \in Nat
    BY <2>4
  <2> QED
    BY <2>1, <2>2, <2>3, <2>5
<1>2. /\ B \in Seq(AnyLine) /\ L \in Nat /\ DOMAIN B = 1..L
      /\ \A i \in 1..L : B[i].op \in LineOps /\ B[i].text = <<k, i>>
  BY <1>1, BodyIs
<1>3. HunkWell(k, InNew) /\ HeaderWell(k)
  BY <1>1, HeaderIs, HunkLines
<1>4. /\ above \in Nat /\ count \in Nat /\ above + count <= Len(new) /\ End(k, InNew) = above + count
      /\ \A j \in P : Rank(P, j) \in 1..count /\ new[above + Rank(P, j)] = B[j]
  BY <1>1, <1>3 DEF HunkWell
<1>5. count > 0 /\ start = above + 1
  BY ShownAt
<1>6. a >= above + 1 /\ a <= above + count /\ a \in Nat
  <2>1. PICK j \in P : a = above + Rank(P, j) /\ Rank(P, j) \in 1..count
    BY ShownAt
  <2> DEFINE r == Rank(P, j)
  <2>2. a = above + r /\ r \in 1..count
    BY <2>1
  <2> HIDE DEF above, count, r
  <2> QED
    BY <1>4, <2>2
<1>7. InReach(patch[k], a)
  <2> DEFINE size == Header(k).size2
  <2>1. size = IF count = 1 THEN 0 ELSE count
    BY <1>3 DEF HeaderWell
  <2>2. patch[k].head.start2 = start /\ patch[k].head.size2 = size
    <3>1. patch[k] = [head |-> Header(k), body |-> Body(k)]
      BY <1>1
    <3> QED
      BY <3>1
  <2> HIDE DEF above, count, start, size
  <2>3. start <= a /\ a <= start + size
    BY <1>4, <1>5, <1>6, <2>1
  <2> QED
    BY <2>2, <2>3 DEF InReach
<1>8. ASSUME NEW h \in 1..m, InReach(patch[h], a) PROVE h = k
  <2> DEFINE s == Header(h).start2
             size == Header(h).size2
             c == Count(h, InNew)
             d == Above(h, InNew)
  <2>1. HunkWell(h, InNew) /\ HeaderWell(h)
    BY <1>1, HeaderIs, HunkLines
  <2>2. s <= a /\ a <= s + size
    <3>1. patch[h] = [head |-> Header(h), body |-> Body(h)]
      BY <1>1
    <3>2. patch[h].head.start2 = s /\ patch[h].head.size2 = size
      BY <3>1
    <3> QED
      BY <1>8, <3>2 DEF InReach
  <2>3. c \in Nat /\ d \in Nat /\ End(h, InNew) = d + c
    BY <2>1 DEF HunkWell
  <2>4. (c > 0 => s = d + 1) /\ size = IF c = 1 THEN 0 ELSE c
    BY <2>1 DEF HeaderWell
  <2>5. h # k => c # 0
    <3>1. "=" \in InNew
      BY DEF InNew
    <3>2. c = 0 => m = 1
      BY <1>1, <3>1, NothingAround
    <3>3. m = 1 => h = k
      BY <1>1
    <3> HIDE DEF c, m
    <3> QED
      BY <3>2, <3>3
  <2>6. h < k => d + c < above
    BY <1>1, <2>3, InTheirOrder
  <2>7. k < h => above + count < d
    BY <1>1, <1>4, InTheirOrder
  <2> HIDE DEF s, size, c, d, above, count, start
  <2>8. ~(h < k)
    <3> SUFFICES ASSUME h < k PROVE FALSE
      OBVIOUS
    <3>1. h # k
      BY <1>1
    <3>2. s = d + 1 /\ size <= c /\ size \in Nat
      BY <2>3, <2>4, <2>5, <3>1
    <3> QED
      BY <1>4, <1>6, <2>2, <2>3, <2>6, <3>2
  <2>9. ~(k < h)
    <3> SUFFICES ASSUME k < h PROVE FALSE
      OBVIOUS
    <3>1. h # k
      BY <1>1
    <3>2. s = d + 1
      BY <2>3, <2>4, <2>5, <3>1
    <3> QED
      BY <1>4, <1>6, <2>2, <2>3, <2>7, <3>2
  <2> QED
    BY <1>1, <2>8, <2>9
<1>9. SelectedOf(patch[k], a, b) = {B[i] : i \in Some}
  <2>1. patch[k].head = Header(k) /\ patch[k].body = B
    <3>1. patch[k] = [head |-> Header(k), body |-> Body(k)]
      BY <1>1
    <3> QED
      BY <3>1
  <2> QED
    BY <2>1 DEF SelectedOf
<1>10. Selected(a, b) = {B[i] : i \in Some}
  <2>1. {h \in DOMAIN patch : InReach(patch[h], a)} = {k}
    BY <1>1, <1>7, <1>8
  <2>2. Selected(a, b) = UNION {SelectedOf(patch[h], a, b) : h \in {k}}
    BY <2>1 DEF Selected
  <2>3. UNION {SelectedOf(patch[h], a, b) : h \in {k}} = SelectedOf(patch[k], a, b)
    OBVIOUS
  <2> HIDE DEF Some
  <2> QED
    BY <1>9, <2>2, <2>3
<1>11. \A i \in 1..L : i \in P <=> B[i].op # "-"
  <2> TAKE i \in 1..L
  <2>1. i \in P <=> B[i].op \in InNew
    BY <1>2 DEF Rows
  <2> QED
    BY <1>2, <2>1 DEF InNew, LineOps
<1> HIDE DEF B, L, P
<1>12. \A i \in P : i \in 1..L
  BY <1>2 DEF P, Rows
<1>13. ASSUME NEW i \in P PROVE At(i) = above + Rank(P, i) /\ Rank(P, i) \in 1..count
  <2>1. i \in 1..L /\ i \in Nat /\ i > 0 /\ i - 1 \in Nat
    BY <1>2, <1>12
  <2>2. {y \in 1..(i - 1) : B[y].op # "-"} = P \cap 1..(i - 1)
    <3>1. \A y \in 1..(i - 1) : y \in 1..L
      BY <1>2, <2>1
    <3> QED
      BY <1>11, <3>1
  <2>3. At(i) = start + Rank(P, i - 1)
    BY <2>2 DEF Rank
  <2>4. Rank(P, i) = Rank(P, i - 1) + 1 /\ Rank(P, i - 1) \in Nat
    BY <2>1, RankIs
  <2>5. Rank(P, i) \in 1..count
    BY <1>4
  <2> HIDE DEF At, above, start, count
  <2> QED
    BY <1>4, <1>5, <2>3, <2>4, <2>5
<1> HIDE DEF At
<1>14. ASSUME NEW l \in Selected(a, b), l.op # "-"
       PROVE  l.text \in Said(ToSet(patch[k].body)) /\ l.text \in {new[n].text : n \in a..b}
  <2>1. PICK i \in Some : l = B[i]
    BY <1>10
  <2>2. i \in 1..L /\ a <= At(i) /\ At(i) <= b
    BY <1>2, <2>1
  <2>3. i \in P
    BY <1>11, <1>14, <2>1, <2>2
  <2>4. new[At(i)] = B[i] /\ At(i) \in a..b
    <3>1. new[above + Rank(P, i)] = B[i] /\ At(i) = above + Rank(P, i) /\ Rank(P, i) \in 1..count
      BY <1>4, <1>13, <2>3
    <3>2. At(i) \in Int
      <4> DEFINE r == Rank(P, i)
      <4> HIDE DEF r, above, count
      <4> QED
        BY <1>4, <3>1 DEF r
    <3> QED
      BY <1>1, <2>2, <3>1, <3>2
  <2>5. B[i] \in ToSet(patch[k].body)
    BY <1>1, <1>2, <2>2 DEF B, ToSet
  <2> QED
    BY <2>1, <2>4, <2>5 DEF Said
<1>15. ASSUME NEW t \in Said(ToSet(patch[k].body)), t \in {new[n].text : n \in a..b}
       PROVE  \E l \in Selected(a, b) : l.op # "-" /\ l.text = t
  <2>1. PICK l \in ToSet(B) : t = l.text
    BY <1>1 DEF B, Said
  <2>2. PICK i \in 1..L : l = B[i]
    BY <1>2, <2>1 DEF ToSet
  <2>3. t = <<k, i>>
    BY <1>2, <2>1, <2>2
  <2>4. PICK n \in a..b : t = new[n].text
    BY <1>15
  <2>5. n \in 1..Len(new)
    BY <1>1, <1>6
  <2>6. i \in P /\ n = above + Rank(P, i)
    <3>1. i \in 1..Len(Body(k)) /\ File(InNew)[n].text = <<k, i>> /\ n \in 1..Len(File(InNew))
      BY <1>1, <2>2, <2>3, <2>4, <2>5 DEF B, L
    <3> QED
      BY <1>1, <3>1, WhereShown DEF B, P
  <2>7. At(i) = n
    BY <1>13, <2>6
  <2>8. i \in Some
    BY <1>2, <2>2, <2>4, <2>7
  <2>9. l \in Selected(a, b) /\ l.op # "-"
    BY <1>10, <1>11, <2>2, <2>6, <2>8
  <2> QED
    BY <2>1, <2>9
<1> HIDE DEF Some
<1> QED
  BY <1>14, <1>15

-----------------------------------------------------------------------------
(* What is made of the patch of a file agrees with its two versions.       *)

\* The files and the patch are those of the change, and what was made of the
\* patch is one of the things the tools make of it.
SeenIs(how, p) == seen.how = how /\ seen.patch = p
HunksInv ==
    /\ OfFiles
    /\ \/ SeenIs("none", <<>>)
       \/ SeenIs("pruned", OmitDeletions(patch))
       \/ \E e \in Extras :
             SeenIs(IF e.after <= Context + 1 THEN "extended" ELSE "far", ExtendPatch(e))

LEMMA OfTheChange ==
    ASSUME UNCHANGED <<change, section, old, new, patch>>
    PROVE  /\ OfFiles => OfFiles'
           /\ \A e : ExtendPatch(e)' = ExtendPatch(e)
<1>1. OfFiles => OfFiles'
  <2> SUFFICES ASSUME OfFiles PROVE OfFiles'
    OBVIOUS
  <2>1. AsGitCuts(change) /\ old = File(InOld) /\ new = File(InNew) /\ patch = GitPatch
    BY DEF OfFiles
  <2>2. \A k : Body(k)' = Body(k)
    BY DEF Body
  <2>3. \A k, ops : Part(k, ops)' = Part(k, ops)
    BY <2>2 DEF Part
  <2>4. \A k, ops : UpTo(k, ops)' = UpTo(k, ops)
    BY <2>3 DEF UpTo
  <2>5. \A ops : File(ops)' = File(ops)
    BY <2>4 DEF File
  <2>6. \A k, ops : Above(k, ops)' = Above(k, ops) /\ Count(k, ops)' = Count(k, ops)
    BY <2>2, <2>4 DEF Above, Count
  <2>7. \A k, ops : Start(k, ops)' = Start(k, ops)
    BY <2>6 DEF Start
  <2>8. \A k : Header(k)' = Header(k)
    BY <2>6, <2>7 DEF Header
  <2>9. GitPatch' = GitPatch
    BY <2>2, <2>8 DEF GitPatch
  <2> QED
    BY <2>1, <2>5, <2>9 DEF OfFiles
<1>2. \A e : ExtendPatch(e)' = ExtendPatch(e)
  <2>1. \A h, n, e : Limits(h, n, e)' = Limits(h, n, e)
    BY DEF Limits
  <2>2. ASSUME NEW h, NEW e
        PROVE  DynamicLimits(h, e)' = DynamicLimits(h, e)
    <3> DEFINE l == Limits(h, e.dynamic, e)
    <3> DEFINE before == Slice(old, l.start1, h.start1)
    <3> DEFINE after == Slice(new, l.start2, h.start2)
    <3> DEFINE headings == {i \in DOMAIN before : h.text \in {<<>>, before[i].text}}
    <3>1. l' = l
      BY <2>1
    <3>2. before' = before
      BY <3>1
    <3>3. after' = after
      BY <3>1
    <3>4. headings' = headings
      BY <3>2
    <3>5. CommonEnds(before, after)' = CommonEnds(before, after)
      BY <3>2, <3>3
    <3>6. Limits(h, e.before, e)' = Limits(h, e.before, e)
      BY <2>1
    <3>7. DynamicLimits(h, e) = IF headings # {} /\ Min(headings) \in CommonEnds(before, after)
                                THEN [Shift(l, Min(headings) - 1) EXCEPT !.text = <<>>]
                                ELSE Limits(h, e.before, e)
      BY Zenon DEF DynamicLimits
    <3>8. DynamicLimits(h, e)' = IF headings' # {} /\ Min(headings') \in CommonEnds(before, after)'
                                 THEN [Shift(l', Min(headings') - 1) EXCEPT !.text = <<>>]
                                 ELSE Limits(h, e.before, e)'
      BY Zenon DEF DynamicLimits
    <3> HIDE DEF l, before, after, headings
    <3> QED
      BY <3>1, <3>4, <3>5, <3>6, <3>7, <3>8
  <2>3. \A h, e : Wider(h, e)' = Wider(h, e)
    BY <2>1, <2>2 DEF Wider
  <2>4. \A h, l : CommonEnd(h, l)' = CommonEnd(h, l)
    BY DEF CommonEnd
  <2>5. \A h, e : LinesAfter(h, e)' = LinesAfter(h, e)
    BY DEF LinesAfter
  <2>6. \A q, e : ExtendHunk(q, e)' = ExtendHunk(q, e)
    BY <2>3, <2>4, <2>5 DEF ExtendHunk
  <2> QED
    BY <2>6 DEF ExtendPatch
<1> QED
  BY <1>1, <1>2

LEMMA HunksUnchanged ==
    ASSUME HunksInv, UNCHANGED hunkVars
    PROVE  HunksInv'
<1>1. UNCHANGED <<change, section, old, new, patch, seen>>
  BY DEF hunkVars
<1>2. OfFiles' /\ \A e : ExtendPatch(e)' = ExtendPatch(e)
  BY <1>1, OfTheChange DEF HunksInv
<1>3. OmitDeletions(patch)' = OmitDeletions(patch)
  BY <1>1
<1>4. \A how, p : SeenIs(how, p) => SeenIs(how, p)'
  BY <1>1 DEF SeenIs
<1> QED
  BY <1>2, <1>3, <1>4 DEF HunksInv

\* The tools look at the patch once.
LEMMA HunksSeen ==
    ASSUME HunksInv, HunksNext
    PROVE  HunksInv'
<1>1. UNCHANGED <<change, section, old, new, patch>>
  BY DEF HunksNext, Extend, PruneDeletions, See
<1>2. OfFiles' /\ \A e : ExtendPatch(e)' = ExtendPatch(e)
  BY <1>1, OfTheChange DEF HunksInv
<1>3. OmitDeletions(patch)' = OmitDeletions(patch)
  BY <1>1
<1>4. \A how, p : See(how, p) => seen'.how = how /\ seen'.patch = p
  BY DEF See
<1>5. CASE Extend
  <2>1. PICK e \in Extras : See(IF e.after <= Context + 1 THEN "extended" ELSE "far", ExtendPatch(e))
    BY <1>5 DEF Extend
  <2>2. SeenIs(IF e.after <= Context + 1 THEN "extended" ELSE "far", ExtendPatch(e))'
    BY <2>1, <1>2, <1>4 DEF SeenIs
  <2> QED
    BY <1>2, <2>2 DEF HunksInv
<1>6. CASE PruneDeletions
  <2>1. SeenIs("pruned", OmitDeletions(patch))'
    BY <1>3, <1>4, <1>6 DEF SeenIs, PruneDeletions
  <2> QED
    BY <1>2, <2>1 DEF HunksInv
<1> QED
  BY <1>5, <1>6 DEF HunksNext

LEMMA HunksAtFirst ==
    ASSUME HunksInit, change \in Changes \/ change = NoChange
    PROVE  HunksInv
<1>1. AsGitCuts(change)
  <2>1. CASE change \in Changes
    BY <2>1, ChangesAssumption
  <2>2. CASE change = NoChange
    <3>1. change.hunks = <<>> /\ change.tail = 0 /\ DOMAIN change.hunks = {}
      BY <2>2 DEF NoChange
    <3> QED
      BY <3>1 DEF AsGitCuts
  <2> QED
    BY <2>1, <2>2
<1>2. SeenIs("none", <<>>)
  BY DEF HunksInit, NotSeen, SeenIs
<1> QED
  BY <1>1, <1>2 DEF HunksInit, HunksInv, OfFiles

LEMMA HunksInvInit ==
    ASSUME Init
    PROVE  HunksInv
<1>1. HunksInit
  BY DEF Init, NoPrompt, PromptsInit, PromptsIdle
<1>2. change \in Changes \/ change = NoChange
  BY DEF Init, NoPrompt, PromptsInit
<1> QED
  BY <1>1, <1>2, HunksAtFirst

LEMMA HunksInvStep ==
    ASSUME HunksInv, [Next]_pipeVars
    PROVE  HunksInv'
<1>1. HunksNext \/ UNCHANGED hunkVars
  BY DEF Next, PromptsNext, pipeVars, promptVars
<1> QED
  BY <1>1, HunksSeen, HunksUnchanged

\* What is made of the patch has the hunks of the change, as they are up to
\* one that adds something, or all of them, with the context of the tools.
LEMMA HunksPruned ==
    ASSUME HunksInv, Is("pruned")
    PROVE  \E n \in 0..Len(change.hunks) :
              /\ DOMAIN seen.patch = 1..n /\ Len(seen.patch) = n
              /\ \A k \in 1..n : seen.patch[k] = patch[k]
              /\ \A k \in 1..Len(change.hunks) :
                    \A j \in 1..Len(Body(k)) : Body(k)[j].op = "+" => k <= n
              /\ n # 0 => Adds(seen.patch[n])
<1>1. OfFiles /\ seen.patch = OmitDeletions(patch)
  BY DEF HunksInv, SeenIs, Is
<1> QED
  BY <1>1, PrunedIs

LEMMA HunksExtended ==
    ASSUME HunksInv, ~Is("none"), ~Is("pruned")
    PROVE  /\ DOMAIN seen.patch = 1..Len(change.hunks)
           /\ \E e \in Extras :
                 /\ Is("extended") => e.after <= Context + 1
                 /\ \A k \in 1..Len(change.hunks) :
                       \/ seen.patch[k] = patch[k]
                       \/ old # <<>> /\ seen.patch[k] = ExtendHunk(patch[k], e)
<1>1. OfFiles /\ DOMAIN patch = 1..Len(change.hunks)
  BY PatchIs DEF HunksInv
<1>2. PICK e \in Extras :
         SeenIs(IF e.after <= Context + 1 THEN "extended" ELSE "far", ExtendPatch(e))
  BY DEF HunksInv, SeenIs, Is
<1>3. seen.patch = ExtendPatch(e) /\ (Is("extended") => e.after <= Context + 1)
  BY <1>2 DEF SeenIs, Is
<1>4. CASE old = <<>> \/ e.before + e.after = 0
  BY <1>1, <1>3, <1>4 DEF ExtendPatch
<1>5. CASE ~(old = <<>> \/ e.before + e.after = 0)
  <2>1. seen.patch = [k \in DOMAIN patch |-> ExtendHunk(patch[k], e)] /\ old # <<>>
    BY <1>3, <1>5 DEF ExtendPatch
  <2> QED
    BY <1>1, <1>3, <2>1
<1> QED
  BY <1>4, <1>5

LEMMA HunksNumbered ==
    ASSUME HunksInv
    PROVE  NumbersOfTheNewFile
<1> SUFFICES ASSUME Is("pruned") \/ (Is("extended") /\ Counts), NEW l \in NewHunks(seen.patch)
             PROVE  l.number \in DOMAIN new /\ new[l.number].text = l.text
  BY DEF NumbersOfTheNewFile
<1>1. OfFiles /\ new \in Seq(AnyLine)
  BY PatchIs DEF HunksInv
<1>2. \A k \in 1..Len(change.hunks) : PlacedRight(patch[k]) /\ patch[k].body \in Seq(AnyLine)
  BY <1>1, PlacedAsItIs, KeptAsItIs DEF KeepsHunk
<1>3. \A k \in DOMAIN seen.patch : seen.patch[k].body \in Seq(AnyLine) /\ PlacedRight(seen.patch[k])
  <2>1. CASE Is("pruned")
    <3>1. PICK n \in 0..Len(change.hunks) :
             DOMAIN seen.patch = 1..n /\ \A k \in 1..n : seen.patch[k] = patch[k]
      BY <2>1, HunksPruned
    <3>2. \A k \in 1..n : k \in 1..Len(change.hunks)
      BY <1>1, PatchIs
    <3> QED
      BY <1>2, <3>1, <3>2
  <2>2. CASE Is("extended") /\ Counts
    <3>1. ~Is("none") /\ ~Is("pruned")
      BY <2>2 DEF Is
    <3>2. PICK e \in Extras :
             /\ Is("extended") => e.after <= Context + 1
             /\ \A k \in 1..Len(change.hunks) :
                   \/ seen.patch[k] = patch[k]
                   \/ old # <<>> /\ seen.patch[k] = ExtendHunk(patch[k], e)
      BY <3>1, HunksExtended
    <3>3. DOMAIN seen.patch = 1..Len(change.hunks)
      BY <3>1, HunksExtended
    <3> SUFFICES ASSUME NEW k \in 1..Len(change.hunks)
                 PROVE  seen.patch[k].body \in Seq(AnyLine) /\ PlacedRight(seen.patch[k])
      BY <3>3
    <3>4. CASE seen.patch[k] = patch[k]
      BY <1>2, <3>4
    <3>5. CASE old # <<>> /\ seen.patch[k] = ExtendHunk(patch[k], e)
      <4>1. PlacedRight(seen.patch[k])
        BY <1>1, <2>2, <3>2, <3>5, PlacedWhenExtended
      <4>2. KeepsHunk(k, seen.patch[k])
        BY <1>1, <3>5, KeptWhenExtended
      <4> QED
        BY <4>1, <4>2 DEF KeepsHunk
    <3> QED
      BY <3>2, <3>4, <3>5
  <2> QED
    BY <2>1, <2>2
<1> QED
  BY <1>1, <1>3, NumbersRight

LEMMA HunksKept ==
    ASSUME HunksInv
    PROVE  ChangesKept
<1>1. OfFiles /\ Len(change.hunks) \in Nat
  BY PatchIs DEF HunksInv
<1>2. \A k \in 1..Len(change.hunks) : KeepsHunk(k, patch[k])
  BY <1>1, KeptAsItIs
<1>3. ASSUME Is("pruned")
      PROVE  Said(Having(NewHunks(seen.patch), "+")) = Said(Having(ToSet(new), "+"))
  <2>1. PICK n \in 0..Len(change.hunks) :
           /\ DOMAIN seen.patch = 1..n
           /\ \A k \in 1..n : seen.patch[k] = patch[k]
           /\ \A k \in 1..Len(change.hunks) :
                 \A j \in 1..Len(Body(k)) : Body(k)[j].op = "+" => k <= n
    BY <1>3, HunksPruned
  <2>2. \A k \in 1..n : KeepsHunk(k, seen.patch[k])
    BY <1>1, <1>2, <2>1
  <2> QED
    BY <1>1, <2>1, <2>2, AddedKept
<1>4. ASSUME ~Is("none"), ~Is("pruned")
      PROVE  /\ Said(Having(NewHunks(seen.patch), "+")) = Said(Having(ToSet(new), "+"))
             /\ new # <<>> => Said(OldHunks(seen.patch)) = Said(Having(ToSet(old), "-"))
  <2>1. PICK e \in Extras : \A k \in 1..Len(change.hunks) :
           \/ seen.patch[k] = patch[k]
           \/ old # <<>> /\ seen.patch[k] = ExtendHunk(patch[k], e)
    BY <1>4, HunksExtended
  <2>2. DOMAIN seen.patch = 1..Len(change.hunks)
    BY <1>4, HunksExtended
  <2>3. \A k \in 1..Len(change.hunks) : KeepsHunk(k, seen.patch[k])
    BY <1>1, <1>2, <2>1, KeptWhenExtended
  <2>4. \A k \in 1..Len(change.hunks) :
           \A j \in 1..Len(Body(k)) : Body(k)[j].op = "+" => k <= Len(change.hunks)
    BY <1>1
  <2>5. Said(Having(NewHunks(seen.patch), "+")) = Said(Having(ToSet(new), "+"))
    <3>1. Len(change.hunks) \in 0..Len(change.hunks)
      BY <1>1
    <3> QED
      BY <1>1, <2>2, <2>3, <2>4, <3>1, AddedKept
  <2>6. new # <<>> => Said(OldHunks(seen.patch)) = Said(Having(ToSet(old), "-"))
    BY <1>1, <2>2, <2>3, RemovedKept
  <2> QED
    BY <2>5, <2>6
<1> QED
  BY <1>3, <1>4 DEF ChangesKept

LEMMA HunksEnd ==
    ASSUME HunksInv
    PROVE  EndsWithAnAddition
<1> SUFFICES ASSUME Is("pruned"), seen.patch # <<>> PROVE Adds(Last(seen.patch))
  BY DEF EndsWithAnAddition
<1>1. PICK n \in 0..Len(change.hunks) :
         /\ DOMAIN seen.patch = 1..n /\ Len(seen.patch) = n
         /\ \A k \in 1..n : seen.patch[k] = patch[k]
         /\ n # 0 => Adds(seen.patch[n])
  BY HunksPruned
<1>2. n # 0
  <2> DEFINE adding == {k \in DOMAIN patch : Adds(patch[k])}
  <2> DEFINE m == CHOOSE k \in adding : \A j \in adding : j <= k
  <2>1. OfFiles /\ seen.patch = OmitDeletions(patch)
    BY DEF HunksInv, SeenIs, Is
  <2>2. PICK T : patch \in Seq(T)
    BY <2>1, PatchIs
  <2>3. adding # {} /\ seen.patch = SubSeq(patch, 1, m)
    BY <2>1 DEF OmitDeletions
  <2>4. Len(patch) \in Nat /\ adding \subseteq 1..Len(patch)
    BY <2>2
  <2>5. \E k \in adding : \A j \in adding : j <= k
    BY <2>3, <2>4, Greatest
  <2>6. m \in 1..Len(patch)
    BY <2>4, <2>5
  <2> HIDE DEF adding, m
  <2>7. Len(SubSeq(patch, 1, m)) = m
    BY <2>2, <2>4, <2>6
  <2> QED
    BY <1>1, <2>3, <2>6, <2>7
<1> QED
  BY <1>1, <1>2 DEF Last

\* The line of the new file that a hunk shows, and what is asked about it.
LEMMA HunksFound ==
    ASSUME HunksInv
    PROVE  LinesFound /\ AskedLines
<1>1. OfFiles
  BY DEF HunksInv
<1>2. /\ DOMAIN patch = 1..Len(change.hunks) /\ new \in Seq(AnyLine)
  BY <1>1, PatchIs
<1>3. LinesFound
  <2> DEFINE lines == AllLines(patch)
  <2> SUFFICES ASSUME NEW n \in DOMAIN new, NEW k \in DOMAIN patch, ShownIn(k, n)
               PROVE  LET at == PositionOf(lines, n)
                      IN  /\ at = PlaceOf(lines, new[n].text)
                          /\ IF \E j \in 1..k : LeavesOut(patch[j].head) THEN at = TypeError
                             ELSE at # 0 /\ Counted(lines, at) = n
    BY DEF LinesFound
  <2>1. n \in 1..Len(new) /\ k \in 1..Len(change.hunks)
    BY <1>2
  <2> DEFINE at == PositionOf(lines, n)
  <2>2. /\ at = PlaceOf(lines, new[n].text)
        /\ IF \E h \in 1..k : LeavesOut(Header(h)) THEN at = TypeError
           ELSE at # 0 /\ Counted(lines, at) = n
    BY <1>1, <2>1, LinesAreFound
  <2>3. \A h \in 1..k : patch[h].head = Header(h)
    <3>1. /\ Len(change.hunks) \in Nat
          /\ \A h \in 1..Len(change.hunks) : patch[h] = [head |-> Header(h), body |-> Body(h)]
      BY <1>1, PatchIs
    <3>2. \A h \in 1..k : h \in 1..Len(change.hunks)
      BY <2>1, <3>1
    <3> TAKE h \in 1..k
    <3>3. patch[h] = [head |-> Header(h), body |-> Body(h)]
      BY <3>1, <3>2
    <3> QED
      BY <3>3
  <2> HIDE DEF at, lines
  <2> QED
    BY <2>2, <2>3 DEF at
<1>4. AskedLines
  <2> SUFFICES ASSUME NEW a \in DOMAIN new, NEW b \in a..Len(new), NEW k \in DOMAIN patch,
                      ShownIn(k, a)
               PROVE  {l.text : l \in {m \in Selected(a, b) : m.op # "-"}}
                         = Said(ToSet(patch[k].body)) \cap {new[n].text : n \in a..b}
    BY DEF AskedLines
  <2>1. a \in 1..Len(new) /\ k \in 1..Len(change.hunks)
    BY <1>2
  <2> QED
    BY <1>1, <2>1, AskedAre
<1> QED
  BY <1>3, <1>4

\* For any change as git cuts it, any extension and any context: the number
\* printed before a line that a model sees is that line's in the new file, when
\* git left no count out and the lines after a hunk end before the next; no
\* line added is lost, and none removed but of a file that is emptied, and
\* pruning ends with an addition; a line of the new file that a hunk shows is
\* found at its number and by what it says, or neither way because a header up
\* to it has no count; and a question about lines selects those the hunk shows
\* and no other (git_patch_processing.py:20-411, algo/utils.py:1124-1196).
THEOREM PatchesAreFaithful == Spec => []PatchesFaithful
<1>1. Spec => []HunksInv
  BY HunksInvInit, HunksInvStep, PTL DEF Spec
<1>2. HunksInv => PatchesFaithful
  BY HunksNumbered, HunksKept, HunksEnd, HunksFound DEF PatchesFaithful
<1> QED
  BY <1>1, <1>2, PTL
==============================================================================
