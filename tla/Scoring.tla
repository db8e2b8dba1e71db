------------------------------ MODULE Scoring ------------------------------
(***************************************************************************)
(* AnalysisService.analyze_call as a function of what the model answered:  *)
(* which verdicts become call_scores rows, and which total follows.        *)
(* Statistics stores and reads what they return.                           *)
(***************************************************************************)
EXTENDS Integers, Sequences, FiniteSetsExt

CONSTANTS
  Items,     \* the codes of the active checklist items
  Unknown,   \* the codes a model may invent
  Weight,    \* the weight of each item, in hundredths (Numeric(5, 2))
  Required   \* the items with is_required

ASSUME ItemsAssumption ==
  IsFiniteSet(Items) /\ Items \cap Unknown = {} /\ Required \subseteq Items
ASSUME WeightAssumption ==
  Weight \in [Items -> Nat] /\ \A i \in Items : Weight[i] <= 99999

\* result.analysis.items is a sequence of these.
Answered == [code : Items \cup Unknown, passed : BOOLEAN]

\* The verdicts that become CallScore objects, by their place in the answer.
ScoresOf(a) == {n \in DOMAIN a : a[n].code \in Items}

\* Bug: no unique index.
StoredAlways(a) == a \in Seq(Answered)

\* uq_score_per_item lets the flush pass only without a second row of an item.
Stored(a) ==
  \A m, n \in ScoresOf(a) : a[m].code = a[n].code => m = n

Missing(a) == {i \in Items : \A n \in ScoresOf(a) : a[n].code # i}

TotalWeight == MapThenSumSet(LAMBDA i : Weight[i], Items)

\* Decimal.quantize(0.01, ROUND_HALF_UP) of n / d percent, in hundredths.
Percent(n, d) == (20000 * n + d) \div (2 * d)

\* Bug: the share of the weight of the answered items only.
ScoreOfAnswered(a) ==
  LET answered == MapThenSumSet(LAMBDA i : Weight[i], Items \ Missing(a)) IN
  IF answered = 0 THEN 0
  ELSE Percent(MapThenSumSet(LAMBDA n : Weight[a[n].code],
                             {n \in ScoresOf(a) : a[n].passed}),
               answered)

\* _weighted_score: each CallScore that passed earns its item's weight.
WeightedScore(a) ==
  IF TotalWeight = 0 THEN 0
  ELSE Percent(MapThenSumSet(LAMBDA n : Weight[a[n].code],
                             {n \in ScoresOf(a) : a[n].passed}),
               TotalWeight)

\* The score of a set of passed items, what _weighted_score computes when no
\* item is answered twice.
ScoreOf(S) ==
  IF TotalWeight = 0 THEN 0
  ELSE Percent(MapThenSumSet(LAMBDA i : Weight[i], S), TotalWeight)
=============================================================================
