-------------------------- MODULE MCCycleSnapshots --------------------------
(***************************************************************************)
(* Instances of CycleSnapshots for TLC: rounds 1, 3 (and 4) are at marks,  *)
(* round 2 is an operator's, between the marks.                            *)
(***************************************************************************)
EXTENDS CycleSnapshots, TLC

WithAnExtraRound == 1 :> 3 @@ 2 :> 0 @@ 3 :> 4 @@ 4 :> 0
ThreeRounds == 1 :> 3 @@ 2 :> 0 @@ 3 :> 0
=============================================================================
