--------------------------- MODULE MCDistributor ----------------------------
(***************************************************************************)
(* Instances of Distributor for TLC.                                       *)
(***************************************************************************)
EXTENDS Distributor

CONSTANTS w1, w2, w3   \* two share a transaction, one never gets that far

Three  == {w1, w2, w3}
Pair   == {w1, w2}
JustW3 == {w3}
Nobody == {}

\* The caller records and the process may die, or it does not and does not.
Documented ==
  {{"status", "store", "crash"}, {"crash"}, {"status", "unrecorded"}}

\* The runner as it is.
AsIs == {{"crash", "unrecorded"}}
=============================================================================
