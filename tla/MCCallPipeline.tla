--------------------------- MODULE MCCallPipeline ---------------------------
(***************************************************************************)
(* CallPipeline on small instances, with the scores Scoring computes for   *)
(* two items of weight 1.00 and 2.00.                                      *)
(***************************************************************************)
EXTENDS CallPipeline, TLC

CONSTANTS i1, i2

MCItems == {i1, i2}
MCWeight == (i1 :> 100) @@ (i2 :> 200)

Scores == INSTANCE Scoring
  WITH Items <- MCItems, Unknown <- {}, Weight <- MCWeight, Required <- {}

MCShare(S) == Scores!ScoreOf(S)

Symmetry == Permutations(Workers)
SymmetryCalls == Symmetry \cup Permutations(Calls)
=============================================================================
