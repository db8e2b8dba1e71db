-------------------------- MODULE RetrievalProofs ---------------------------
(***************************************************************************)
(* Scores, statistics and the search for examples, proved for any people,  *)
(* calls, checklist, answers and distances.  The sums of the model are     *)
(* folds; a sum of numbers is the size of the area below them, and areas   *)
(* are finite sets that can be taken apart and put together.               *)
(***************************************************************************)
EXTENDS Retrieval, FiniteSetTheorems, WellFoundedInduction, TLAPS

\* A set of subsets that holds every set whose subsets with one member less it
\* holds is all there is: a least subset it leaves out would not be.
LEMMA SubsetInduction ==
  ASSUME NEW S, IsFiniteSet(S), NEW Good,
         \A s \in SUBSET S : (\A x \in s : s \ {x} \in Good) => s \in Good
  PROVE  SUBSET S \subseteq Good
<1> DEFINE bad == (SUBSET S) \ Good
<1> SUFFICES ASSUME bad # {} PROVE FALSE
  OBVIOUS
<1>1. FiniteSubsetsOf(S) = SUBSET S
  BY FS_FiniteSubsetsOfFinite, Zenon
<1>2. IsWellFoundedOn(StrictSubsetOrdering(S), SUBSET S)
  <2>1. IsWellFoundedOn(StrictSubsetOrdering(S), FiniteSubsetsOf(S))
    BY FS_StrictSubsetOrderingWellFounded
  <2> QED
    BY <1>1, <2>1
<1>3. PICK s \in bad : \A t \in bad : ~ (<<t, s>> \in StrictSubsetOrdering(S))
  <2>1. bad \subseteq SUBSET S
    OBVIOUS
  <2> HIDE DEF bad
  <2> QED
    BY <1>2, <2>1, WFMin
<1>4. PICK x \in s : s \ {x} \notin Good
  <2>1. s \in SUBSET S /\ s \notin Good
    BY <1>3
  <2> QED
    BY <2>1
<1>5. <<s \ {x}, s>> \in StrictSubsetOrdering(S)
  BY <1>3, <1>4 DEF StrictSubsetOrdering
<1> QED
  BY <1>3, <1>4, <1>5
-----------------------------------------------------------------------------
(* Sums.                                                                   *)

\* The area below the numbers W of S.
Area(W, S) == {p \in S \X Nat : p[2] < W[p[1]]}
SumOf(W, S) == Cardinality(Area(W, S))

\* A column more.
LEMMA AreaGrows ==
  ASSUME NEW S, NEW x, x \notin S, NEW W, W[x] \in Nat, IsFiniteSet(Area(W, S))
  PROVE  /\ IsFiniteSet(Area(W, S \cup {x}))
         /\ SumOf(W, S \cup {x}) = W[x] + SumOf(W, S)
<1> DEFINE column == {x} \X (0 .. (W[x] - 1))
<1>1. IsFiniteSet(column) /\ Cardinality(column) = W[x]
  <2>1. IsFiniteSet({x}) /\ Cardinality({x}) = 1
    BY FS_Singleton
  <2>2. IsFiniteSet(0 .. (W[x] - 1)) /\ Cardinality(0 .. (W[x] - 1)) = W[x]
    <3>1. PICK last \in Int : last = W[x] - 1
      OBVIOUS
    <3>2. IsFiniteSet(0 .. last) /\ Cardinality(0 .. last) = IF 0 > last THEN 0 ELSE last - 0 + 1
      BY FS_Interval
    <3>3. (IF 0 > last THEN 0 ELSE last - 0 + 1) = W[x]
      BY <3>1
    <3> QED
      BY <3>1, <3>2, <3>3
  <2> DEFINE heights == 0 .. (W[x] - 1)
  <2> HIDE DEF heights
  <2>3. IsFiniteSet({x} \X heights) /\ Cardinality({x} \X heights) = 1 * Cardinality(heights)
    BY <2>1, <2>2, FS_Product DEF heights
  <2> QED
    BY <2>2, <2>3 DEF heights
<1>2. Area(W, S \cup {x}) = Area(W, S) \cup column /\ Area(W, S) \cap column = {}
  BY DEF Area
<1>3. Cardinality({}) = 0
  BY FS_EmptySet
<1>4. Cardinality(Area(W, S)) \in Nat
  BY FS_CardinalityType
<1> HIDE DEF column
<1>5. /\ IsFiniteSet(Area(W, S) \cup column)
      /\ Cardinality(Area(W, S) \cup column) = Cardinality(Area(W, S)) + Cardinality(column) - Cardinality({})
  BY <1>1, <1>2, FS_Union
<1>6. Cardinality(Area(W, S) \cup column) = W[x] + Cardinality(Area(W, S))
  BY <1>1, <1>3, <1>4, <1>5
<1> QED
  BY <1>2, <1>5, <1>6 DEF SumOf

\* Numbers of a finite set have a finite area.
LEMMA AreaIsFinite ==
  ASSUME NEW S, IsFiniteSet(S), NEW W, \A x \in S : W[x] \in Nat
  PROVE  /\ \A s \in SUBSET S : IsFiniteSet(Area(W, s))
         /\ SumOf(W, {}) = 0
<1> DEFINE Good == {s \in SUBSET S : IsFiniteSet(Area(W, s))}
<1>1. Area(W, {}) = {}
  BY DEF Area
<1>2. ASSUME NEW s \in SUBSET S, \A x \in s : s \ {x} \in Good PROVE s \in Good
  <2>1. CASE s = {}
    BY <1>1, <2>1, FS_EmptySet
  <2>2. CASE s # {}
    <3>1. PICK x \in s : IsFiniteSet(Area(W, s \ {x}))
      BY <1>2, <2>2
    <3>2. s = (s \ {x}) \cup {x} /\ x \notin s \ {x} /\ W[x] \in Nat
      OBVIOUS
    <3> QED
      BY <3>1, <3>2, AreaGrows
  <2> QED
    BY <2>1, <2>2
<1> HIDE DEF Good
<1>3. SUBSET S \subseteq Good
  BY <1>2, SubsetInduction
<1> QED
  BY <1>1, <1>3, FS_EmptySet DEF Good, SumOf

\* Sums are natural numbers, and grow by the number of a new member.
LEMMA SumGrows ==
  ASSUME NEW S, IsFiniteSet(S), NEW W, \A x \in S : W[x] \in Nat
  PROVE  /\ \A s \in SUBSET S : SumOf(W, s) \in Nat
         /\ \A s \in SUBSET S : \A x \in s : SumOf(W, s) = W[x] + SumOf(W, s \ {x})
<1>1. ASSUME NEW s \in SUBSET S PROVE SumOf(W, s) \in Nat
  BY AreaIsFinite, FS_CardinalityType DEF SumOf
<1>2. ASSUME NEW s \in SUBSET S, NEW x \in s PROVE SumOf(W, s) = W[x] + SumOf(W, s \ {x})
  <2>1. s = (s \ {x}) \cup {x} /\ x \notin s \ {x} /\ W[x] \in Nat
    OBVIOUS
  <2>2. IsFiniteSet(Area(W, s \ {x}))
    BY AreaIsFinite
  <2> QED
    BY <2>1, <2>2, AreaGrows
<1> QED
  BY <1>1, <1>2

\* A subset has no more than the whole.
LEMMA SumOfLess ==
  ASSUME NEW S, IsFiniteSet(S), NEW W, \A x \in S : W[x] \in Nat, NEW T \in SUBSET S
  PROVE  SumOf(W, T) =< SumOf(W, S)
<1>1. Area(W, T) \subseteq Area(W, S)
  BY DEF Area
<1>2. IsFiniteSet(Area(W, S))
  BY AreaIsFinite
<1> QED
  BY <1>1, <1>2, FS_Subset DEF SumOf

\* The recursive function MapThenSumSet takes the value of.
Adds(g, W, S) ==
  g = [s \in SUBSET S |->
         IF s = {} THEN 0
         ELSE W[CHOOSE x \in s : TRUE] + g[s \ {CHOOSE x \in s : TRUE}]]

\* There is one, and it gives the sum.
LEMMA FoldIsSum ==
  ASSUME NEW S, IsFiniteSet(S), NEW W, \A x \in S : W[x] \in Nat
  PROVE  /\ \E g : Adds(g, W, S)
         /\ \A g : Adds(g, W, S) => g[S] = SumOf(W, S)
<1>1. ASSUME NEW s \in SUBSET S, s # {}
      PROVE  /\ (CHOOSE x \in s : TRUE) \in s
             /\ SumOf(W, s) = W[CHOOSE x \in s : TRUE] + SumOf(W, s \ {CHOOSE x \in s : TRUE})
  <2> DEFINE c == CHOOSE x \in s : TRUE
  <2>1. c \in s
    BY <1>1
  <2> HIDE DEF c
  <2>2. c \in s /\ SumOf(W, s) = W[c] + SumOf(W, s \ {c})
    BY <2>1, SumGrows
  <2> QED
    BY <2>2 DEF c
<1>2. \E g : Adds(g, W, S)
  <2> DEFINE g == [s \in SUBSET S |-> SumOf(W, s)]
             h == [s \in SUBSET S |->
                     IF s = {} THEN 0
                     ELSE W[CHOOSE x \in s : TRUE] + g[s \ {CHOOSE x \in s : TRUE}]]
  <2>1. ASSUME NEW s \in SUBSET S PROVE g[s] = h[s]
    <3>1. CASE s = {}
      BY <3>1, AreaIsFinite
    <3>2. CASE s # {}
      BY <1>1, <3>2
    <3> QED
      BY <3>1, <3>2
  <2>2. g = h
    BY <2>1
  <2>3. Adds(g, W, S)
    BY <2>2 DEF Adds
  <2> QED
    BY <2>3
<1>3. ASSUME NEW g, Adds(g, W, S) PROVE g[S] = SumOf(W, S)
  <2> DEFINE Good == {s \in SUBSET S : g[s] = SumOf(W, s)}
  <2>1. ASSUME NEW s \in SUBSET S, \A x \in s : s \ {x} \in Good PROVE s \in Good
    <3>1. CASE s = {}
      BY <1>3, <3>1, AreaIsFinite DEF Adds
    <3>2. CASE s # {}
      <4> DEFINE x == CHOOSE y \in s : TRUE
      <4>1. g[s] = W[x] + g[s \ {x}]
        BY <1>3, <3>2 DEF Adds
      <4>2. x \in s /\ SumOf(W, s) = W[x] + SumOf(W, s \ {x})
        BY <1>1, <3>2
      <4>3. g[s \ {x}] = SumOf(W, s \ {x})
        BY <2>1, <4>2
      <4> QED
        BY <4>1, <4>2, <4>3
    <3> QED
      BY <3>1, <3>2
  <2> HIDE DEF Good
  <2>2. S \in Good
    BY <2>1, SubsetInduction
  <2> QED
    BY <2>2 DEF Good
<1> QED
  BY <1>2, <1>3

\* MapThenSumSet adds up the numbers of a function ...
LEMMA SumOfNumbers ==
  ASSUME NEW S, IsFiniteSet(S), NEW W, \A x \in S : W[x] \in Nat
  PROVE  MapThenSumSet(LAMBDA x : W[x], S) = SumOf(W, S)
<1>1. \E g : Adds(g, W, S) /\ g[S] = MapThenSumSet(LAMBDA x : W[x], S)
  <2>1. \E g : Adds(g, W, S)
    BY FoldIsSum
  <2> QED
    BY <2>1, Zenon DEF Adds, MapThenSumSet, MapThenFoldSet
<1> QED
  BY <1>1, FoldIsSum

\* ... the column of a page ...
LEMMA ColumnSumIsSum ==
  ASSUME NEW stats, IsFiniteSet(DOMAIN stats), NEW column, NEW W,
         \A k \in DOMAIN stats : W[k] \in Nat /\ stats[k][column] = W[k]
  PROVE  ColumnSum(stats, column) = SumOf(W, DOMAIN stats)
<1> DEFINE S == DOMAIN stats
           AddsColumn(g) ==
             g = [s \in SUBSET S |->
                    IF s = {} THEN 0
                    ELSE stats[CHOOSE x \in s : TRUE][column] + g[s \ {CHOOSE x \in s : TRUE}]]
<1>1. ASSUME NEW s \in SUBSET S, s # {}
      PROVE  stats[CHOOSE x \in s : TRUE][column] = W[CHOOSE x \in s : TRUE]
  <2>1. (CHOOSE x \in s : TRUE) \in S
    BY <1>1
  <2> QED
    BY <2>1
<1>2. \A g : AddsColumn(g) <=> Adds(g, W, S)
  BY <1>1 DEF Adds
<1>3. \E g : AddsColumn(g)
  <2>1. \E g : Adds(g, W, S)
    BY FoldIsSum
  <2> HIDE DEF AddsColumn
  <2> QED
    BY <1>2, <2>1
<1>4. \E g : AddsColumn(g) /\ g[S] = ColumnSum(stats, column)
  BY <1>3, Zenon DEF ColumnSum, MapThenSumSet, MapThenFoldSet
<1> HIDE DEF AddsColumn
<1> QED
  BY <1>2, <1>4, FoldIsSum

\* ... and the weights of what passed in an answer.
LEMMA EarnedIsSum ==
  ASSUME NEW a, NEW S, IsFiniteSet(S), NEW W,
         \A n \in S : W[n] \in Nat /\ Weight[a[n].code] = W[n]
  PROVE  MapThenSumSet(LAMBDA n : Weight[a[n].code], S) = SumOf(W, S)
<1> DEFINE AddsWeight(g) ==
             g = [s \in SUBSET S |->
                    IF s = {} THEN 0
                    ELSE Weight[a[CHOOSE x \in s : TRUE].code] + g[s \ {CHOOSE x \in s : TRUE}]]
<1>1. ASSUME NEW s \in SUBSET S, s # {}
      PROVE  Weight[a[CHOOSE x \in s : TRUE].code] = W[CHOOSE x \in s : TRUE]
  <2>1. (CHOOSE x \in s : TRUE) \in S
    BY <1>1
  <2> QED
    BY <2>1
<1>2. \A g : AddsWeight(g) <=> Adds(g, W, S)
  BY <1>1 DEF Adds
<1>3. \E g : AddsWeight(g)
  <2>1. \E g : Adds(g, W, S)
    BY FoldIsSum
  <2> HIDE DEF AddsWeight
  <2> QED
    BY <1>2, <2>1
<1>4. \E g : AddsWeight(g) /\ g[S] = MapThenSumSet(LAMBDA n : Weight[a[n].code], S)
  BY <1>3, Zenon DEF MapThenSumSet, MapThenFoldSet
<1> HIDE DEF AddsWeight
<1> QED
  BY <1>2, <1>4, FoldIsSum
-----------------------------------------------------------------------------
(* The score of an answer.                                                 *)

\* An organization's weights are natural numbers, and so are their sums.
LEMMA WeightsAddUp ==
  /\ \A i \in Items : Weight[i] \in Nat
  /\ TotalWeight = SumOf(Weight, Items) /\ TotalWeight \in Nat
  /\ \A S \in SUBSET Items :
       /\ MapThenSumSet(LAMBDA i : Weight[i], S) = SumOf(Weight, S)
       /\ SumOf(Weight, S) \in 0 .. TotalWeight
<1>1. IsFiniteSet(Items) /\ \A i \in Items : Weight[i] \in Nat
  BY ItemsAssumption, WeightAssumption
<1>2. TotalWeight = SumOf(Weight, Items) /\ TotalWeight \in Nat
  <2>1. MapThenSumSet(LAMBDA i : Weight[i], Items) = SumOf(Weight, Items)
    BY <1>1, SumOfNumbers
  <2>2. SumOf(Weight, Items) \in Nat
    BY <1>1, SumGrows
  <2> QED
    BY <2>1, <2>2 DEF TotalWeight
<1>3. ASSUME NEW S \in SUBSET Items
      PROVE  /\ MapThenSumSet(LAMBDA i : Weight[i], S) = SumOf(Weight, S)
             /\ SumOf(Weight, S) \in 0 .. TotalWeight
  <2>1. IsFiniteSet(S) /\ \A i \in S : Weight[i] \in Nat
    BY <1>1, FS_Subset
  <2>2. MapThenSumSet(LAMBDA i : Weight[i], S) = SumOf(Weight, S)
    BY <2>1, SumOfNumbers
  <2>3. SumOf(Weight, S) \in Nat /\ SumOf(Weight, S) =< SumOf(Weight, Items)
    BY <1>1, SumGrows, SumOfLess
  <2> QED
    BY <1>2, <2>2, <2>3
<1> QED
  BY <1>1, <1>2, <1>3

\* A share is at most a hundred percent, rounded or not.
LEMMA PercentIsShare ==
  ASSUME NEW d \in Nat \ {0}, NEW n \in 0 .. d
  PROVE  Percent(n, d) \in 0 .. FullScore
<1>1. PICK q : q = (20000 * n + d) \div (2 * d)
  OBVIOUS
<1>2. q \in Int /\ (2 * d) * q =< 20000 * n + d /\ 20000 * n + d < (2 * d) * (q + 1)
  BY <1>1
<1>3. q >= 0 /\ q =< 10000
  BY <1>2
<1>4. q =< FullScore /\ FullScore \in Int
  BY <1>3 DEF FullScore
<1>5. q \in 0 .. FullScore
  <2>1. 0 =< q
    BY <1>2, <1>3
  <2> QED
    BY <1>2, <1>4, <2>1
<1> QED
  BY <1>1, <1>5 DEF Percent

\* The score of any set of items is a percentage of all weights.
LEMMA ScoreOfItems ==
  ASSUME NEW S \in SUBSET Items
  PROVE  /\ ScoreOf(S) = IF TotalWeight = 0 THEN 0 ELSE Percent(SumOf(Weight, S), TotalWeight)
         /\ ScoreOf(S) \in 0 .. FullScore
<1>1. /\ MapThenSumSet(LAMBDA i : Weight[i], S) = SumOf(Weight, S)
      /\ SumOf(Weight, S) \in 0 .. TotalWeight /\ TotalWeight \in Nat
  BY WeightsAddUp
<1>2. ScoreOf(S) = IF TotalWeight = 0 THEN 0 ELSE Percent(SumOf(Weight, S), TotalWeight)
  BY <1>1 DEF ScoreOf
<1>3. TotalWeight # 0 => Percent(SumOf(Weight, S), TotalWeight) \in 0 .. FullScore
  BY <1>1, PercentIsShare
<1>4. 0 \in 0 .. FullScore
  BY DEF FullScore
<1> QED
  BY <1>2, <1>3, <1>4

\* What an answer earns is the weight of the items that pass in its rows, since
\* no item has two of them.
LEMMA ScoreOfAnswer ==
  ASSUME NEW c, NEW a \in Answers(c), Stored(a)
  PROVE  /\ RowsOf(a) \in [Items -> Verdicts]
         /\ WeightedScore(a) = ScoreOf({i \in Items : RowsOf(a)[i] = "pass"})
         /\ WeightedScore(a) \in 0 .. FullScore
<1> DEFINE earned == {n \in ScoresOf(a) : a[n].passed}
           W == [n \in earned |-> Weight[a[n].code]]
           Codes(s) == {a[n].code : n \in s}
           passed == {i \in Items : RowsOf(a)[i] = "pass"}
<1>1. PICK len \in Nat : a \in [1 .. len -> Answered]
  BY DEF Answers
<1>2. IsFiniteSet(earned) /\ \A n \in earned : a[n].code \in Items
  <2>1. IsFiniteSet(1 .. len)
    BY FS_Interval
  <2>2. earned \subseteq 1 .. len
    BY <1>1 DEF ScoresOf
  <2> QED
    BY <2>1, <2>2, FS_Subset DEF ScoresOf
<1>3. \A n \in earned : W[n] \in Nat /\ Weight[a[n].code] = W[n]
  BY <1>2, WeightsAddUp
<1>4. \A m, n \in earned : a[m].code = a[n].code => m = n
  BY DEF Stored
<1>5. Codes(earned) = passed
  BY DEF RowsOf, Missing, ScoresOf
<1>6. RowsOf(a) \in [Items -> Verdicts]
  BY DEF RowsOf, Verdicts
<1>7. IsFiniteSet(Items) /\ \A i \in Items : Weight[i] \in Nat
  BY ItemsAssumption, WeightsAddUp
<1> HIDE DEF earned, W, passed
<1>8. SumOf(W, earned) = SumOf(Weight, Codes(earned))
  <2> DEFINE Good == {s \in SUBSET earned : SumOf(W, s) = SumOf(Weight, Codes(s))}
  <2>1. ASSUME NEW s \in SUBSET earned, \A x \in s : s \ {x} \in Good PROVE s \in Good
    <3>1. CASE s = {}
      <4>1. Codes(s) = {}
        BY <3>1
      <4>2. SumOf(W, {}) = 0 /\ SumOf(Weight, {}) = 0
        BY <1>2, <1>3, <1>7, AreaIsFinite
      <4> QED
        BY <3>1, <4>1, <4>2
    <3>2. CASE s # {}
      <4>1. PICK x \in s : SumOf(W, s \ {x}) = SumOf(Weight, Codes(s \ {x}))
        BY <2>1, <3>2
      <4>2. SumOf(W, s) = W[x] + SumOf(W, s \ {x})
        BY <1>2, <1>3, SumGrows
      <4>3. Codes(s) \ {a[x].code} = Codes(s \ {x})
        BY <1>4
      <4>4. a[x].code \in Codes(s) /\ Codes(s) \in SUBSET Items
        BY <1>2
      <4> HIDE DEF Codes
      <4>5. SumOf(Weight, Codes(s)) = Weight[a[x].code] + SumOf(Weight, Codes(s) \ {a[x].code})
        BY <1>7, <4>4, SumGrows
      <4> QED
        BY <1>3, <4>1, <4>2, <4>3, <4>5
    <3> QED
      BY <3>1, <3>2
  <2> HIDE DEF Good
  <2>2. earned \in Good
    BY <1>2, <2>1, SubsetInduction
  <2> QED
    BY <2>2 DEF Good
<1>9. MapThenSumSet(LAMBDA n : Weight[a[n].code], earned) = SumOf(Weight, passed)
  <2>1. IsFiniteSet(earned) /\ \A n \in earned : W[n] \in Nat /\ Weight[a[n].code] = W[n]
    BY <1>2, <1>3
  <2>2. MapThenSumSet(LAMBDA n : Weight[a[n].code], earned) = SumOf(W, earned)
    BY <2>1, EarnedIsSum, Zenon
  <2> QED
    BY <1>5, <1>8, <2>2
<1>10. WeightedScore(a) = IF TotalWeight = 0 THEN 0 ELSE Percent(SumOf(Weight, passed), TotalWeight)
  BY <1>9 DEF WeightedScore, earned
<1>11. passed \in SUBSET Items
  BY DEF passed
<1> QED
  BY <1>6, <1>10, <1>11, ScoreOfItems DEF passed
-----------------------------------------------------------------------------
(* The calls.                                                              *)

\* A call belongs to the organization of its operator.
OperatorsBelong ==
  \A c \in Uploaded : operator[c] # NoUser => Org[operator[c]] = organization[c]

\* A screen shows the rows that are stored, or none that still exist; and a call
\* that was analysed to the end has a score.
ScreensAreLive == \A c \in Calls : shown[c] = NoRows \/ shown[c] = rows[c]
DoneAreScored == \A c \in done : total[c] # NoTotal

CallsInv ==
  /\ StatTypeOK /\ IsFiniteSet(Uploaded)
  /\ ScoreIsShare /\ OperatorsBelong
  /\ ScreensAreLive /\ ConfirmedAsSeen /\ DoneAreScored

\* An upload takes a call for an operator of the organization.
LEMMA UploadKeepsCalls ==
  ASSUME CallsInv, NEW c \in Calls, NEW u \in Users, Upload(c, u)
  PROVE  CallsInv'
<1>1. /\ c \notin Uploaded /\ organization' = [organization EXCEPT ![c] = Org[u]]
      /\ UNCHANGED <<rows, verified, total, done, shown>>
  BY DEF Upload
<1>2. PICK o \in ResolvedOperators(u) : operator' = [operator EXCEPT ![c] = o]
  BY DEF Upload
<1>3. o \in Users \cup {NoUser} /\ (o # NoUser => Org[o] = Org[u])
  BY DEF ResolvedOperators, VisibleOperators
<1>4. Org[u] # NoOrg
  BY PeopleAssumption
<1>5. Uploaded' = Uploaded \cup {c}
  BY <1>1, <1>4 DEF Uploaded, CallsInv, StatTypeOK
<1>6. IsFiniteSet(Uploaded')
  BY <1>5, FS_AddElement DEF CallsInv
<1>7. StatTypeOK'
  BY <1>1, <1>2, <1>3, <1>5 DEF CallsInv, StatTypeOK, Given
<1>8. ScoreIsShare'
  BY <1>1 DEF CallsInv, ScoreIsShare, Passed
<1>9. OperatorsBelong'
  BY <1>1, <1>2, <1>3, <1>5 DEF CallsInv, StatTypeOK, OperatorsBelong, Uploaded
<1>10. ScreensAreLive' /\ ConfirmedAsSeen' /\ DoneAreScored'
  BY <1>1 DEF CallsInv, ScreensAreLive, ConfirmedAsSeen, DoneAreScored
<1> QED
  BY <1>6, <1>7, <1>8, <1>9, <1>10 DEF CallsInv

\* An analysis writes a total that is the share of the rows it writes.
LEMMA AnalyseKeepsCalls ==
  ASSUME CallsInv, NEW c \in Calls, NEW a \in Answers(c), Analyse(c, a)
  PROVE  CallsInv'
<1>1. /\ Stored(a) /\ UNCHANGED <<organization, operator, done>>
      /\ rows' = [rows EXCEPT ![c] = RowsOf(a)]
      /\ verified' = [verified EXCEPT ![c] = {}]
      /\ total' = [total EXCEPT ![c] = WeightedScore(a)]
      /\ shown' = [shown EXCEPT ![c] = NoRows]
  BY DEF Analyse
<1>2. /\ RowsOf(a) \in [Items -> Verdicts]
      /\ WeightedScore(a) = ScoreOf({i \in Items : RowsOf(a)[i] = "pass"})
      /\ WeightedScore(a) \in 0 .. FullScore
  BY <1>1, ScoreOfAnswer
<1>3. Uploaded' = Uploaded
  BY <1>1 DEF Uploaded
<1>4. rows'[c] = RowsOf(a) /\ \A d \in Calls : d # c => rows'[d] = rows[d] /\ total'[d] = total[d]
  BY <1>1 DEF CallsInv, StatTypeOK
<1>5. StatTypeOK'
  <2>1. \A d \in Calls : verified'[d] \subseteq Given(d)'
    BY <1>1, <1>4 DEF CallsInv, StatTypeOK, Given
  <2>2. NoRows \in [Items -> Verdicts]
    BY DEF NoRows, Verdicts
  <2> QED
    BY <1>1, <1>2, <1>3, <2>1, <2>2 DEF CallsInv, StatTypeOK
<1>6. ScoreIsShare'
  <2> SUFFICES ASSUME NEW d \in Calls, total'[d] # NoTotal PROVE total'[d] = ScoreOf(Passed(d)')
    BY DEF ScoreIsShare
  <2>1. CASE d = c
    <3>1. Passed(c)' = {i \in Items : RowsOf(a)[i] = "pass"} /\ total'[c] = WeightedScore(a)
      BY <1>1, <1>4 DEF Passed, CallsInv, StatTypeOK
    <3> QED
      BY <1>2, <2>1, <3>1
  <2>2. CASE d # c
    <3>1. Passed(d)' = Passed(d) /\ total'[d] = total[d]
      BY <1>4, <2>2 DEF Passed
    <3> QED
      BY <3>1 DEF CallsInv, ScoreIsShare
  <2> QED
    BY <2>1, <2>2
<1>7. OperatorsBelong'
  BY <1>1, <1>3 DEF CallsInv, OperatorsBelong
<1>8. ScreensAreLive' /\ ConfirmedAsSeen'
  BY <1>1 DEF CallsInv, StatTypeOK, ScreensAreLive, ConfirmedAsSeen
<1>9. DoneAreScored'
  <2>1. WeightedScore(a) # NoTotal
    BY <1>2 DEF NoTotal
  <2> QED
    BY <1>1, <2>1 DEF CallsInv, StatTypeOK, DoneAreScored
<1> QED
  BY <1>3, <1>5, <1>6, <1>7, <1>8, <1>9 DEF CallsInv

\* What people and the end of an attempt do.
People(c) ==
  \/ Finish(c) \/ Reopen(c)
  \/ \E v \in Users : OpenReport(v, c) \/ \E i \in Items : SetVerified(v, c, i)

\* None of it changes a row, and who confirms one has it on the screen.
LEMMA PeopleKeepCalls ==
  ASSUME CallsInv, NEW c \in Calls, People(c)
  PROVE  CallsInv'
<1>1. UNCHANGED <<organization, operator, rows, total>>
  BY DEF People, Finish, Reopen, OpenReport, SetVerified
<1>2. Uploaded' = Uploaded /\ \A d \in Calls : Given(d)' = Given(d)
  BY <1>1 DEF Uploaded, Given
<1>3. ScoreIsShare' /\ OperatorsBelong'
  BY <1>1, <1>2 DEF CallsInv, ScoreIsShare, Passed, OperatorsBelong
<1>4. CASE Finish(c) \/ Reopen(c)
  <2>1. /\ UNCHANGED <<verified, shown>> /\ done' \subseteq Uploaded
        /\ \A d \in done' : total[d] # NoTotal
    BY <1>4 DEF Finish, Reopen, CallsInv, StatTypeOK, DoneAreScored
  <2> QED
    BY <1>1, <1>2, <1>3, <2>1
       DEF CallsInv, StatTypeOK, ScreensAreLive, ConfirmedAsSeen, DoneAreScored
<1>5. ASSUME NEW v \in Users, OpenReport(v, c) PROVE CallsInv'
  <2>1. UNCHANGED <<verified, done>> /\ shown' = [shown EXCEPT ![c] = rows[c]]
    BY <1>5 DEF OpenReport
  <2>2. StatTypeOK'
    BY <1>1, <1>2, <2>1 DEF CallsInv, StatTypeOK
  <2>3. ScreensAreLive' /\ ConfirmedAsSeen' /\ DoneAreScored'
    BY <1>1, <2>1 DEF CallsInv, StatTypeOK, ScreensAreLive, ConfirmedAsSeen, DoneAreScored
  <2> QED
    BY <1>2, <1>3, <2>2, <2>3 DEF CallsInv
<1>6. ASSUME NEW v \in Users, NEW i \in Items, SetVerified(v, c, i) PROVE CallsInv'
  <2>1. /\ shown[c][i] # "none" /\ UNCHANGED <<done, shown>>
        /\ verified' = [verified EXCEPT ![c] = IF i \in @ THEN @ \ {i} ELSE @ \cup {i}]
    BY <1>6 DEF SetVerified
  <2>2. rows[c] = shown[c]
    BY <2>1 DEF CallsInv, ScreensAreLive, NoRows
  <2>3. i \in Given(c)
    BY <2>1, <2>2 DEF Given
  <2>4. verified' \in [Calls -> SUBSET Items] /\ \A d \in Calls : verified'[d] \subseteq verified[d] \cup {i}
    BY <2>1 DEF CallsInv, StatTypeOK
  <2>5. \A d \in Calls : d # c => verified'[d] = verified[d]
    BY <2>1 DEF CallsInv, StatTypeOK
  <2>6. \A d \in Calls : verified'[d] \subseteq Given(d)
    BY <2>3, <2>4, <2>5 DEF CallsInv, StatTypeOK
  <2>7. StatTypeOK'
    BY <1>1, <1>2, <2>1, <2>4, <2>6 DEF CallsInv, StatTypeOK
  <2>8. ScreensAreLive' /\ DoneAreScored'
    BY <1>1, <2>1 DEF CallsInv, ScreensAreLive, DoneAreScored
  <2>9. ConfirmedAsSeen'
    BY <1>1, <2>1, <2>2, <2>5 DEF CallsInv, ConfirmedAsSeen
  <2> QED
    BY <1>2, <1>3, <2>7, <2>8, <2>9 DEF CallsInv
<1> QED
  BY <1>4, <1>5, <1>6 DEF People
-----------------------------------------------------------------------------
(* The search.                                                             *)

\* What ORDER BY and LIMIT return.
LEMMA NearestIsBounded ==
  ASSUME NEW S, IsFiniteSet(S), NEW c, NEW T \in Nearest(S, c)
  PROVE  T \subseteq S /\ Cardinality(T) <= Limit
<1>1. T \subseteq S /\ Cardinality(T) = Min({Limit, Cardinality(S)})
  BY DEF Nearest
<1>2. Cardinality(S) \in Nat /\ Limit \in Nat \ {0}
  BY FS_CardinalityType, RetrievalAssumption
<1>3. Min({Limit, Cardinality(S)}) = IF Limit =< Cardinality(S) THEN Limit ELSE Cardinality(S)
  BY <1>2 DEF Min
<1> QED
  BY <1>1, <1>2, <1>3

\* The examples of an analysis are other calls of its organization that have a
\* score.
SearchInv ==
  /\ model \in [Calls -> Models \cup {NoModel}]
  /\ Embedded \subseteq Uploaded /\ analysing \subseteq Embedded
  /\ found \in [Calls -> SUBSET Calls]
  /\ \A c \in Calls : Cardinality(found[c]) <= Limit
  /\ \A c \in analysing : \A d \in found[c] :
       /\ d # c /\ organization[d] = organization[c]
       /\ d \in Uploaded /\ total[d] # NoTotal

Inv == CallsInv /\ SearchInv

\* What can be compared is finite.
LEMMA ConfirmedIsFinite ==
  ASSUME Inv, NEW c
  PROVE  IsFiniteSet(Confirmed(c)) /\ Confirmed(c) \subseteq Embedded
<1>1. Confirmed(c) \subseteq Embedded /\ Embedded \subseteq Uploaded
  BY DEF Inv, SearchInv, Confirmed, Comparable
<1>2. IsFiniteSet(Uploaded)
  BY DEF Inv, CallsInv
<1> QED
  BY <1>1, <1>2, FS_Subset

\* The calls change under the search: a call keeps its organization, and a call
\* with a score has one from then on.
LEMMA CallsChangeUnderSearch ==
  ASSUME Inv, NEW c \in Calls,
         \/ \E u \in Users : Upload(c, u)
         \/ \E a \in Answers(c) : Analyse(c, a)
         \/ People(c)
  PROVE  /\ Uploaded \subseteq Uploaded'
         /\ \A d \in Uploaded : organization'[d] = organization[d]
         /\ \A d \in Calls : total[d] # NoTotal => total'[d] # NoTotal
<1>1. CASE \E u \in Users : Upload(c, u)
  <2>1. PICK u \in Users : Upload(c, u)
    BY <1>1
  <2>2. /\ c \notin Uploaded /\ organization' = [organization EXCEPT ![c] = Org[u]]
        /\ UNCHANGED total
    BY <2>1 DEF Upload
  <2> QED
    BY <2>2, PeopleAssumption DEF Inv, CallsInv, StatTypeOK, Uploaded
<1>2. CASE \E a \in Answers(c) : Analyse(c, a)
  <2>1. PICK a \in Answers(c) : Analyse(c, a)
    BY <1>2
  <2>2. WeightedScore(a) # NoTotal
    <3>1. Stored(a)
      BY <2>1 DEF Analyse
    <3>2. WeightedScore(a) \in 0 .. FullScore
      BY <3>1, ScoreOfAnswer
    <3> QED
      BY <3>2 DEF NoTotal
  <2>3. UNCHANGED organization /\ total' = [total EXCEPT ![c] = WeightedScore(a)]
    BY <2>1 DEF Analyse
  <2> QED
    BY <2>2, <2>3 DEF Uploaded, Inv, CallsInv, StatTypeOK
<1>3. CASE People(c)
  <2>1. UNCHANGED <<organization, total>>
    BY <1>3 DEF People, Finish, Reopen, OpenReport, SetVerified
  <2> QED
    BY <2>1 DEF Uploaded
<1> QED
  BY <1>1, <1>2, <1>3

\* The invariant is inductive.
LEMMA NextKeepsInv == Inv /\ [Next]_vars => Inv'
<1> SUFFICES ASSUME Inv, [Next]_vars PROVE Inv'
  OBVIOUS
<1>1. CASE UNCHANGED calls
  <2>1. UNCHANGED <<organization, operator, rows, verified, total, done, shown>>
    BY <1>1 DEF calls
  <2>2. CallsInv'
    BY <2>1
       DEF Inv, CallsInv, StatTypeOK, Uploaded, ScoreIsShare, Passed, Given, OperatorsBelong,
           ScreensAreLive, ConfirmedAsSeen, DoneAreScored
  <2>3. ASSUME NEW c \in Calls, EmbedTranscript(c) PROVE SearchInv'
    <3>1. PICK m \in Models : model' = [model EXCEPT ![c] = m]
      BY <2>3 DEF EmbedTranscript
    <3>2. c \in Uploaded /\ UNCHANGED <<analysing, found>>
      BY <2>3 DEF EmbedTranscript
    <3>3. model' \in [Calls -> Models \cup {NoModel}] /\ Embedded' = Embedded \cup {c}
      BY <3>1, RetrievalAssumption DEF Inv, SearchInv, Embedded
    <3> QED
      BY <2>1, <3>2, <3>3 DEF Inv, SearchInv, Uploaded
  <2>4. ASSUME NEW c \in Calls, FindExamples(c) PROVE SearchInv'
    <3>1. PICK T \in SimilarScored(c) : found' = [found EXCEPT ![c] = T]
      BY <2>4 DEF FindExamples
    <3>2. c \in Embedded /\ analysing' = analysing \cup {c} /\ UNCHANGED model
      BY <2>4 DEF FindExamples
    <3>3. IsFiniteSet(Confirmed(c)) /\ Confirmed(c) \subseteq Embedded
      BY ConfirmedIsFinite
    <3>4. T \subseteq Confirmed(c) /\ Cardinality(T) <= Limit
      BY <3>3, NearestIsBounded DEF SimilarScored
    <3>5. \A d \in T : /\ d # c /\ organization[d] = organization[c]
                       /\ d \in Uploaded /\ total[d] # NoTotal
      BY <3>4 DEF Confirmed, Comparable, Inv, CallsInv, StatTypeOK, DoneAreScored
    <3>6. T \subseteq Calls
      BY <3>5 DEF Uploaded
    <3>7. found' \in [Calls -> SUBSET Calls] /\ \A d \in Calls : Cardinality(found'[d]) <= Limit
      BY <3>1, <3>4, <3>6 DEF Inv, SearchInv
    <3>8. \A e \in analysing' : \A d \in found'[e] :
            /\ d # e /\ organization[d] = organization[e]
            /\ d \in Uploaded /\ total[d] # NoTotal
      BY <3>1, <3>2, <3>5 DEF Inv, SearchInv, Embedded
    <3>9. Embedded' = Embedded /\ Uploaded' = Uploaded
      BY <2>1, <3>2 DEF Embedded, Uploaded
    <3> QED
      BY <2>1, <3>2, <3>7, <3>8, <3>9 DEF Inv, SearchInv
  <2>5. ASSUME NEW c \in Calls, UseExamples(c) PROVE SearchInv'
    <3>1. /\ analysing' = analysing \ {c} /\ found' = [found EXCEPT ![c] = {}]
          /\ UNCHANGED model
      BY <2>5 DEF UseExamples
    <3>2. Cardinality({}) <= Limit
      BY FS_EmptySet, RetrievalAssumption
    <3>3. Embedded' = Embedded /\ Uploaded' = Uploaded
      BY <2>1, <3>1 DEF Embedded, Uploaded
    <3> QED
      BY <2>1, <3>1, <3>2, <3>3 DEF Inv, SearchInv
  <2>6. ASSUME UNCHANGED search PROVE SearchInv'
    BY <2>1, <2>6 DEF search, Inv, SearchInv, Uploaded, Embedded
  <2>7. UNCHANGED search \/ \E c \in Calls : EmbedTranscript(c) \/ FindExamples(c) \/ UseExamples(c)
    BY DEF Next, vars, Meanwhile
  <2> QED
    BY <2>2, <2>3, <2>4, <2>5, <2>6, <2>7 DEF Inv
<1>2. ASSUME NEW c \in Calls, UseExamples(c), NEW a \in Answers(c), Analyse(c, a) PROVE Inv'
  <2>1. CallsInv'
    BY <1>2, AnalyseKeepsCalls DEF Inv
  <2>2. /\ analysing' = analysing \ {c} /\ found' = [found EXCEPT ![c] = {}]
        /\ UNCHANGED <<model, organization>>
    BY <1>2 DEF UseExamples, Analyse
  <2>3. \A d \in Calls : total[d] # NoTotal => total'[d] # NoTotal
    BY <1>2, CallsChangeUnderSearch
  <2>4. Cardinality({}) <= Limit
    BY FS_EmptySet, RetrievalAssumption
  <2>5. Embedded' = Embedded /\ Uploaded' = Uploaded
    BY <2>2 DEF Embedded, Uploaded
  <2>6. found' \in [Calls -> SUBSET Calls] /\ \A d \in Calls : Cardinality(found'[d]) <= Limit
    BY <2>2, <2>4 DEF Inv, SearchInv
  <2>7. \A e \in analysing' : \A d \in found'[e] :
          /\ d # e /\ organization'[d] = organization'[e]
          /\ d \in Uploaded' /\ total'[d] # NoTotal
    BY <2>2, <2>3, <2>5 DEF Inv, SearchInv, Uploaded, Embedded
  <2>8. SearchInv'
    BY <2>2, <2>5, <2>6, <2>7 DEF Inv, SearchInv
  <2> QED
    BY <2>1, <2>8 DEF Inv
<1>3. ASSUME NEW c \in Calls, Meanwhile(c) PROVE Inv'
  <2>1. (\E u \in Users : Upload(c, u)) \/ People(c)
    BY <1>3 DEF Meanwhile, People
  <2>2. CallsInv'
    BY <2>1, UploadKeepsCalls, PeopleKeepCalls DEF Inv
  <2>3. UNCHANGED <<model, analysing, found>>
    BY <1>3 DEF Meanwhile, search
  <2>4. /\ Uploaded \subseteq Uploaded'
        /\ \A d \in Uploaded : organization'[d] = organization[d]
        /\ \A d \in Calls : total[d] # NoTotal => total'[d] # NoTotal
    BY <2>1, CallsChangeUnderSearch
  <2>5. Embedded' = Embedded
    BY <2>3 DEF Embedded
  <2>6. \A e \in analysing : e \in Uploaded /\ \A d \in found[e] : d \in Calls
    BY DEF Inv, SearchInv, Uploaded
  <2>7. SearchInv'
    BY <2>3, <2>4, <2>5, <2>6 DEF Inv, SearchInv
  <2> QED
    BY <2>2, <2>7 DEF Inv
<1> QED
  BY <1>1, <1>2, <1>3 DEF Next, vars, UseExamples, EmbedTranscript, FindExamples

\* It holds when nothing is uploaded yet, and so always.
LEMMA RetrievalInvariant == Spec => []Inv
<1>1. Init => Inv
  <2> SUFFICES ASSUME Init PROVE Inv
    OBVIOUS
  <2>1. Uploaded = {}
    BY DEF Init, StatInit, Uploaded
  <2>2. StatTypeOK
    BY <2>1 DEF Init, StatInit, StatTypeOK, Verdicts, Given, NoRows
  <2>3. ScoreIsShare /\ OperatorsBelong /\ ScreensAreLive /\ ConfirmedAsSeen /\ DoneAreScored
    BY <2>1
       DEF Init, StatInit, ScoreIsShare, OperatorsBelong, ScreensAreLive, ConfirmedAsSeen,
           DoneAreScored
  <2>4. Cardinality({}) <= Limit /\ IsFiniteSet({})
    BY FS_EmptySet, RetrievalAssumption
  <2> QED
    BY <2>1, <2>2, <2>3, <2>4 DEF Init, Inv, CallsInv, SearchInv, Embedded
<1> QED
  BY <1>1, NextKeepsInv, PTL DEF Spec

\* TypeOK is an invariant: totals are percentages, only given verdicts
\* are confirmed, and an analysis never has more examples than it asked for.
THEOREM RetrievalTypeCorrect == Spec => []TypeOK
<1>1. Inv => TypeOK
  BY DEF Inv, CallsInv, SearchInv, TypeOK
<1> QED
  BY <1>1, RetrievalInvariant, PTL

\* ScoreIsShare is an invariant: whatever the model answered, in whatever
\* order and with whatever unknown codes, the stored total is the share of the
\* weights of the items that passed.
THEOREM ScoresAreShares == Spec => []ScoreIsShare
<1>1. Inv => ScoreIsShare
  BY DEF Inv, CallsInv
<1> QED
  BY <1>1, RetrievalInvariant, PTL

\* ConfirmedAsSeen is an invariant: a confirmation never reaches a verdict that
\* replaced the one its person had read, because no row outlives its analysis.
THEOREM ConfirmationsWereSeen == Spec => []ConfirmedAsSeen
<1>1. Inv => ConfirmedAsSeen
  BY DEF Inv, CallsInv
<1> QED
  BY <1>1, RetrievalInvariant, PTL

\* ExamplesAreOthers is an invariant: a prompt never has the call itself, a call
\* of somebody else or one without a score among its examples, when it is sent
\* and for as long as its answer takes.
THEOREM ExamplesStayOthers == Spec => []ExamplesAreOthers
<1>1. Inv => ExamplesAreOthers
  BY DEF Inv, SearchInv, ExamplesAreOthers
<1> QED
  BY <1>1, RetrievalInvariant, PTL
-----------------------------------------------------------------------------
(* The pages.                                                              *)

\* A group, and what is in some of them.
Group(key, k, S) == {c \in S : key[c] = k}
Grouped(key, K, S) == {c \in S : key[c] \in K}

\* The sizes of the groups of a set add up to the size of what is in them.
LEMMA GroupsAddUp ==
  ASSUME NEW P, IsFiniteSet(P), NEW key, NEW K, IsFiniteSet(K),
         NEW W, \A k \in K : W[k] = Cardinality(Group(key, k, P))
  PROVE  /\ \A k \in K : W[k] \in Nat
         /\ SumOf(W, K) = Cardinality(Grouped(key, K, P))
<1> DEFINE In(s) == Grouped(key, s, P)
           Good == {s \in SUBSET K : SumOf(W, s) = Cardinality(In(s))}
<1>1. \A s : IsFiniteSet(In(s))
  BY FS_Subset DEF Grouped
<1>2. \A k : IsFiniteSet(Group(key, k, P)) /\ Cardinality(Group(key, k, P)) \in Nat
  BY FS_Subset, FS_CardinalityType DEF Group
<1>3. \A k \in K : W[k] \in Nat
  BY <1>2
<1>4. ASSUME NEW s \in SUBSET K, \A x \in s : s \ {x} \in Good PROVE s \in Good
  <2>1. CASE s = {}
    <3>1. In(s) = {}
      BY <2>1 DEF Grouped
    <3> QED
      BY <1>3, <2>1, <3>1, AreaIsFinite, FS_EmptySet
  <2>2. CASE s # {}
    <3>1. PICK x \in s : SumOf(W, s \ {x}) = Cardinality(In(s \ {x}))
      BY <1>4, <2>2
    <3>2. SumOf(W, s) = W[x] + SumOf(W, s \ {x})
      BY <1>3, SumGrows
    <3>3. In(s) = In(s \ {x}) \cup Group(key, x, P) /\ In(s \ {x}) \cap Group(key, x, P) = {}
      BY DEF Group, Grouped
    <3>4. W[x] = Cardinality(Group(key, x, P)) /\ Cardinality({}) = 0
      BY FS_EmptySet
    <3> DEFINE rest == In(s \ {x})
               group == Group(key, x, P)
    <3>5. IsFiniteSet(rest) /\ IsFiniteSet(group)
      BY <1>1, <1>2
    <3>6. In(s) = rest \cup group /\ rest \cap group = {}
      BY <3>3
    <3> HIDE DEF rest, group
    <3>7. Cardinality(rest \cup group) = Cardinality(rest) + Cardinality(group) - Cardinality(rest \cap group)
      BY <3>5, FS_Union
    <3>8. Cardinality(rest) \in Nat /\ Cardinality(group) \in Nat
      BY <3>5, FS_CardinalityType
    <3>9. W[x] = Cardinality(group) /\ SumOf(W, s \ {x}) = Cardinality(rest)
      BY <3>1, <3>4 DEF group, rest
    <3>10. Cardinality(In(s)) = Cardinality(rest) + Cardinality(group) - Cardinality({})
      BY <3>6, <3>7
    <3>11. SumOf(W, s) = Cardinality(In(s))
      BY <3>2, <3>4, <3>8, <3>9, <3>10
    <3> QED
      BY <3>11
  <2> QED
    BY <2>1, <2>2
<1> HIDE DEF Good
<1>5. K \in Good
  BY <1>4, SubsetInduction
<1> QED
  BY <1>3, <1>5 DEF Good

\* What a column of a row counts among the calls of its group.
Columns == {"calls_total", "calls_scored", "failed_required"}
Counted(column, S) ==
  IF column = "calls_total" THEN S
  ELSE IF column = "calls_scored" THEN Scored(S)
  ELSE {c \in S : FailedRequiredExists(c)}

LEMMA MetricsCount ==
  ASSUME NEW S, NEW column \in Columns
  PROVE  Metrics(S)[column] = Cardinality(Counted(column, S))
<1>1. Metrics(S)["calls_total"] = Cardinality(S)
  BY DEF Metrics
<1>2. Metrics(S)["calls_scored"] = Cardinality(Scored(S))
  BY DEF Metrics
<1>3. Metrics(S)["failed_required"] = Cardinality({c \in S : FailedRequiredExists(c)})
  BY DEF Metrics, CountFailedRequired
<1> QED
  BY <1>1, <1>2, <1>3 DEF Columns, Counted

\* A column of a GROUP BY adds up to what it counts without one.
LEMMA GroupByAddsUp ==
  ASSUME NEW key, NEW S, IsFiniteSet(S), NEW column \in Columns
  PROVE  ColumnSum(GroupBy(key, S), column) = Cardinality(Counted(column, S))
<1> DEFINE keys == {key[c] : c \in S}
           P == Counted(column, S)
           W == [k \in keys |-> Cardinality(Group(key, k, P))]
           stats == GroupBy(key, S)
<1>1. IsFiniteSet(keys)
  <2> DEFINE f == [c \in S |-> key[c]]
  <2>1. f \in Surjection(S, keys)
    BY DEF Surjection
  <2> HIDE DEF f
  <2> QED
    BY <2>1, FS_Surjection
<1>2. DOMAIN stats = keys /\ \A k \in keys : stats[k] = Metrics(Group(key, k, S))
  BY DEF GroupBy, Group
<1>3. P \subseteq S /\ IsFiniteSet(P)
  <2>1. P \subseteq S
    BY DEF Counted, Scored
  <2> QED
    BY <2>1, FS_Subset
<1>4. ASSUME NEW k \in keys PROVE stats[k][column] = Cardinality(Group(key, k, P))
  <2>1. Counted(column, Group(key, k, S)) = Group(key, k, P)
    BY DEF Counted, Scored, Group
  <2> QED
    BY <1>2, <2>1, MetricsCount
<1>5. Grouped(key, keys, P) = P
  BY <1>3 DEF Grouped
<1>6. \A k \in keys : W[k] = Cardinality(Group(key, k, P))
  OBVIOUS
<1> HIDE DEF W, P, stats, keys
<1>7. /\ \A k \in keys : W[k] \in Nat
      /\ SumOf(W, keys) = Cardinality(Grouped(key, keys, P))
  BY <1>1, <1>3, <1>6, GroupsAddUp
<1>8. ColumnSum(stats, column) = SumOf(W, keys)
  <2>1. IsFiniteSet(DOMAIN stats) /\ \A k \in DOMAIN stats : W[k] \in Nat /\ stats[k][column] = W[k]
    BY <1>1, <1>2, <1>4, <1>6, <1>7
  <2>2. ColumnSum(stats, column) = SumOf(W, DOMAIN stats)
    BY <2>1, ColumnSumIsSum
  <2> QED
    BY <1>2, <2>2
<1> QED
  BY <1>5, <1>7, <1>8 DEF stats, P

\* A viewer sees the operator of every call they see that has one.
LEMMA OperatorsAreVisible ==
  ASSUME CallsInv, NEW v \in Users, NEW q, NEW c \in CallConditions(v, q)
  PROVE  \/ operator[c] = NoUser /\ operator[c] \notin VisibleOperators(v)
         \/ operator[c] # NoUser /\ operator[c] \in VisibleOperators(v)
BY PeopleAssumption
   DEF CallsInv, StatTypeOK, OperatorsBelong, CallConditions, Uploaded, Sees, VisibleOperators, InTeam

\* What a page asks for is finite.
LEMMA ConditionsAreFinite ==
  ASSUME CallsInv, NEW v, NEW q
  PROVE  /\ IsFiniteSet(CallConditions(v, q))
         /\ CallConditions(v, q) \subseteq Calls
         /\ \A T \in SUBSET CallConditions(v, q) : IsFiniteSet(T)
<1>1. CallConditions(v, q) \subseteq Uploaded /\ Uploaded \subseteq Calls
  BY DEF CallConditions, Uploaded
<1> QED
  BY <1>1, FS_Subset DEF CallsInv

\* DaysAddUpToOperators is an invariant: for every viewer, period and
\* operator the daily page counts what the operator page and the calls of nobody
\* add up to.
THEOREM DaysAreOperators == Spec => []DaysAddUpToOperators
<1>1. Inv => DaysAddUpToOperators
  <2> SUFFICES ASSUME Inv, NEW v \in Users, NEW q \in Queries, NEW column \in Columns
               PROVE  ColumnSum(DailyStats(v, q), column) =
                        ColumnSum(OperatorStats(v, q), column) +
                        Metrics({c \in CallConditions(v, q) : operator[c] = NoUser})[column]
    BY DEF DaysAddUpToOperators, Columns
  <2> DEFINE S == CallConditions(v, q)
             theirs == {c \in S : operator[c] \in VisibleOperators(v)}
             rest == {c \in S : operator[c] = NoUser}
             Of(T) == Counted(column, T)
  <2>1. CallsInv
    BY DEF Inv
  <2>2. IsFiniteSet(S) /\ IsFiniteSet(theirs) /\ IsFiniteSet(Of(theirs)) /\ IsFiniteSet(Of(rest))
    <3>1. Of(theirs) \subseteq S /\ Of(rest) \subseteq S
      BY DEF Counted, Scored
    <3> QED
      BY <2>1, <3>1, ConditionsAreFinite
  <2>3. Of(S) = Of(theirs) \cup Of(rest) /\ Of(theirs) \cap Of(rest) = {}
    <3>1. \A c \in S : (c \in theirs /\ c \notin rest) \/ (c \in rest /\ c \notin theirs)
      BY <2>1, OperatorsAreVisible
    <3>2. S = theirs \cup rest /\ theirs \cap rest = {}
      BY <3>1
    <3> HIDE DEF S, theirs, rest
    <3> QED
      BY <3>2 DEF Counted, Scored
  <2>4. ColumnSum(DailyStats(v, q), column) = Cardinality(Of(S))
    BY <2>2, GroupByAddsUp DEF DailyStats
  <2>5. ColumnSum(OperatorStats(v, q), column) = Cardinality(Of(theirs))
    BY <2>2, GroupByAddsUp DEF OperatorStats
  <2>6. Metrics(rest)[column] = Cardinality(Of(rest))
    BY MetricsCount
  <2> HIDE DEF S, theirs, rest, Of
  <2>7. Cardinality(Of(S)) = Cardinality(Of(theirs)) + Cardinality(Of(rest)) - Cardinality({})
    BY <2>2, <2>3, FS_Union
  <2>8. Cardinality(Of(theirs)) \in Nat /\ Cardinality(Of(rest)) \in Nat /\ Cardinality({}) = 0
    BY <2>2, FS_CardinalityType, FS_EmptySet
  <2>9. Cardinality(Of(S)) = Cardinality(Of(theirs)) + Cardinality(Of(rest))
    BY <2>7, <2>8
  <2> QED
    BY <2>4, <2>5, <2>6, <2>9 DEF rest, S
<1> QED
  BY <1>1, RetrievalInvariant, PTL

\* A union is no larger than its members together.
LEMMA UnionIsBounded ==
  ASSUME NEW R, IsFiniteSet(R), NEW F, \A i \in R : IsFiniteSet(F[i]),
         NEW W, \A i \in R : W[i] = Cardinality(F[i])
  PROVE  /\ \A i \in R : W[i] \in Nat
         /\ IsFiniteSet(UNION {F[i] : i \in R})
         /\ Cardinality(UNION {F[i] : i \in R}) =< SumOf(W, R)
<1> DEFINE All(s) == UNION {F[i] : i \in s}
           Good == {s \in SUBSET R : IsFiniteSet(All(s)) /\ Cardinality(All(s)) =< SumOf(W, s)}
<1>1. \A i \in R : W[i] \in Nat
  BY FS_CardinalityType
<1>2. ASSUME NEW s \in SUBSET R, \A x \in s : s \ {x} \in Good PROVE s \in Good
  <2>1. CASE s = {}
    <3>1. All(s) = {}
      BY <2>1
    <3>2. SumOf(W, {}) = 0
      BY <1>1, AreaIsFinite
    <3>3. IsFiniteSet(All(s)) /\ Cardinality(All(s)) = 0
      BY <3>1, FS_EmptySet
    <3> QED
      BY <2>1, <3>2, <3>3
  <2>2. CASE s # {}
    <3>1. PICK x \in s : s \ {x} \in Good
      BY <1>2, <2>2
    <3> DEFINE rest == All(s \ {x})
               more == F[x]
               all == All(s)
    <3>2. /\ IsFiniteSet(rest) /\ Cardinality(rest) =< SumOf(W, s \ {x})
          /\ IsFiniteSet(more) /\ W[x] = Cardinality(more)
      BY <3>1
    <3>3. SumOf(W, s) = W[x] + SumOf(W, s \ {x}) /\ SumOf(W, s \ {x}) \in Nat
      BY <1>1, SumGrows
    <3>4. all = rest \cup more
      OBVIOUS
    <3> HIDE DEF rest, more, all
    <3>5. /\ IsFiniteSet(all)
          /\ Cardinality(all) = Cardinality(rest) + Cardinality(more) - Cardinality(rest \cap more)
      BY <3>2, <3>4, FS_Union
    <3>6. IsFiniteSet(rest \cap more)
      BY <3>2, FS_Intersection
    <3>7. Cardinality(rest) \in Nat /\ Cardinality(more) \in Nat /\ Cardinality(rest \cap more) \in Nat
      BY <3>2, <3>6, FS_CardinalityType
    <3>8. Cardinality(all) =< SumOf(W, s)
      BY <3>2, <3>3, <3>5, <3>7
    <3> QED
      BY <3>5, <3>8 DEF all
  <2> QED
    BY <2>1, <2>2
<1> HIDE DEF Good
<1>3. R \in Good
  BY <1>2, SubsetInduction
<1> QED
  BY <1>1, <1>3 DEF Good

\* The sum of the failures of items.
LEMMA FailuresIsSum ==
  ASSUME NEW items, NEW S, IsFiniteSet(S), NEW W,
         \A i \in S : W[i] \in Nat /\ items[i].scored - items[i].passed = W[i]
  PROVE  MapThenSumSet(LAMBDA i : items[i].scored - items[i].passed, S) = SumOf(W, S)
<1> DEFINE AddsFailures(g) ==
             g = [s \in SUBSET S |->
                    IF s = {} THEN 0
                    ELSE items[CHOOSE x \in s : TRUE].scored - items[CHOOSE x \in s : TRUE].passed
                         + g[s \ {CHOOSE x \in s : TRUE}]]
<1>1. ASSUME NEW s \in SUBSET S, s # {}
      PROVE  items[CHOOSE x \in s : TRUE].scored - items[CHOOSE x \in s : TRUE].passed
               = W[CHOOSE x \in s : TRUE]
  <2>1. (CHOOSE x \in s : TRUE) \in S
    BY <1>1
  <2> QED
    BY <2>1
<1>2. \A g : AddsFailures(g) <=> Adds(g, W, S)
  BY <1>1 DEF Adds
<1>3. \E g : AddsFailures(g)
  <2> HIDE DEF AddsFailures
  <2> QED
    BY <1>2, FoldIsSum
<1>4. \E g : AddsFailures(g) /\ g[S] = MapThenSumSet(LAMBDA i : items[i].scored - items[i].passed, S)
  BY <1>3, Zenon DEF MapThenSumSet, MapThenFoldSet
<1> HIDE DEF AddsFailures
<1> QED
  BY <1>2, <1>4, FoldIsSum

\* FailuresAgree is an invariant: the daily page, the checklist page and
\* the reports agree on which calls failed a required item.
THEOREM PagesAgreeOnFailures == Spec => []FailuresAgree
<1>1. Inv => FailuresAgree
  <2> SUFFICES ASSUME Inv, NEW v \in Users, NEW q \in Queries
               PROVE  LET items == ChecklistStats(v, q)
                          failures(i) == items[i].scored - items[i].passed
                          failed == ColumnSum(DailyStats(v, q), "failed_required")
                          required == Required \cap DOMAIN items
                      IN /\ failed = Cardinality({c \in CallConditions(v, q) : CallReport(c).failed_required})
                         /\ failed =< MapThenSumSet(failures, required)
                         /\ \A i \in required : failures(i) =< failed
    BY DEF FailuresAgree
  <2> DEFINE S == CallConditions(v, q)
             items == ChecklistStats(v, q)
             required == Required \cap DOMAIN items
             failed == ColumnSum(DailyStats(v, q), "failed_required")
             Answering(i) == {c \in S : i \in Given(c)}
             Passing(i) == {c \in S : i \in Passed(c)}
             F == [i \in required |-> {c \in S : rows[c][i] = "fail"}]
             W == [i \in required |-> Cardinality(F[i])]
             failing == {c \in S : FailedRequiredExists(c)}
  <2>1. CallsInv /\ rows \in [Calls -> [Items -> Verdicts]]
    BY DEF Inv, CallsInv, StatTypeOK
  <2>2. IsFiniteSet(S) /\ S \subseteq Calls /\ \A T \in SUBSET S : IsFiniteSet(T)
    BY <2>1, ConditionsAreFinite
  <2>3. DOMAIN items = UNION {Given(c) : c \in S} /\ required \subseteq Items /\ IsFiniteSet(required)
    <3>1. DOMAIN items = UNION {Given(c) : c \in S}
      BY DEF ChecklistStats
    <3>2. required \subseteq Items
      BY ItemsAssumption
    <3> QED
      BY <3>1, <3>2, ItemsAssumption, FS_Subset
  <2>4. failed = Cardinality(failing)
    <3>1. failed = Cardinality(Counted("failed_required", S))
      BY <2>2, GroupByAddsUp DEF DailyStats, Columns
    <3> QED
      BY <3>1 DEF Counted
  <2>5. failing = {c \in S : CallReport(c).failed_required}
    <3> SUFFICES ASSUME NEW c \in S PROVE FailedRequiredExists(c) <=> CallReport(c).failed_required
      OBVIOUS
    <3>1. rows[c] \in [Items -> Verdicts]
      BY <2>1, <2>2
    <3> QED
      BY <3>1, ItemsAssumption DEF FailedRequiredExists, CallReport, Given, Passed, Verdicts
  <2>6. failing = UNION {F[i] : i \in required}
    <3>1. \A c \in S : \A i \in Required : rows[c][i] = "fail" => i \in required
      BY <2>2, <2>3, ItemsAssumption DEF Given
    <3> QED
      BY <3>1 DEF FailedRequiredExists
  <2>7. ASSUME NEW i \in required
        PROVE  /\ IsFiniteSet(F[i]) /\ F[i] \subseteq failing
               /\ items[i].scored - items[i].passed = W[i]
    <3>1. F[i] \subseteq S /\ F[i] \subseteq failing
      BY DEF FailedRequiredExists
    <3>2. items[i].scored = Cardinality(Answering(i)) /\ items[i].passed = Cardinality(Passing(i))
      BY DEF ChecklistStats
    <3>3. F[i] = Answering(i) \ Passing(i) /\ Answering(i) \cap Passing(i) = Passing(i)
      <4>1. \A c \in S : rows[c] \in [Items -> Verdicts]
        BY <2>1, <2>2
      <4>2. i \in Items
        BY <2>3
      <4> QED
        BY <4>1, <4>2 DEF Given, Passed, Verdicts
    <3>4. IsFiniteSet(Answering(i)) /\ IsFiniteSet(Passing(i)) /\ IsFiniteSet(F[i])
      BY <2>2, <3>1
    <3>5. Cardinality(Answering(i)) \in Nat /\ Cardinality(Passing(i)) \in Nat
      BY <3>4, FS_CardinalityType
    <3>6. W[i] = Cardinality(F[i])
      OBVIOUS
    <3> HIDE DEF Answering, Passing, F, W, items, required, failing
    <3>7. Cardinality(Answering(i) \ Passing(i)) =
            Cardinality(Answering(i)) - Cardinality(Answering(i) \cap Passing(i))
      BY <3>4, FS_Difference
    <3> QED
      BY <3>1, <3>2, <3>3, <3>4, <3>5, <3>6, <3>7
  <2>8. \A i \in required : W[i] = Cardinality(F[i])
    OBVIOUS
  <2> HIDE DEF S, required, F, W, failing, items
  <2>9. (\A i \in required : W[i] \in Nat) /\ Cardinality(failing) =< SumOf(W, required)
    BY <2>3, <2>6, <2>7, <2>8, UnionIsBounded
  <2>10. MapThenSumSet(LAMBDA i : items[i].scored - items[i].passed, required) = SumOf(W, required)
    BY <2>3, <2>7, <2>9, FailuresIsSum
  <2>11. \A i \in required : items[i].scored - items[i].passed =< failed
    <3> SUFFICES ASSUME NEW i \in required PROVE Cardinality(F[i]) =< Cardinality(failing)
      BY <2>4, <2>7, <2>8
    <3>1. IsFiniteSet(failing)
      BY <2>2 DEF failing
    <3> QED
      BY <2>7, <3>1, FS_Subset
  <2>12. failed =< MapThenSumSet(LAMBDA i : items[i].scored - items[i].passed, required)
    BY <2>4, <2>9, <2>10
  <2> QED
    BY <2>4, <2>5, <2>11, <2>12 DEF items, required, failed, S
<1> QED
  BY <1>1, RetrievalInvariant, PTL
=============================================================================
