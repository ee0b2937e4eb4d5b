------------------------------ MODULE MCRound -------------------------------
(***************************************************************************)
(* Instances of Round for TLC.                                             *)
(***************************************************************************)
EXTENDS Round

CONSTANTS m1, m2, w1, w2

OneMint    == {m1}
TwoMints   == {m1, m2}
TwoWallets == {w1, w2}

Even == [w \in TwoWallets |-> 1]
Odd  == {3}

\* What every round may meet, without and with an operator's retries ...
Losses   == {"swap", "transfer", "crash"}
Retries  == {"transfer", "crash", "retry"}
\* ... a process that changes its mode, steps that throw, with operators or
\* without, and fates that stay unknown.
Restarts == {"throw", "crash", "retry", "mode"}
Throws   == {"throw", "retry", "fresh"}
Unknowns == {"transfer", "unresolved", "throw", "fresh", "mode"}

Weathered == {Losses, Retries, Restarts, Throws, Unknowns}

\* A round retried for its swaps.
SwapsRetried == {{"swap", "transfer", "retry"}}
=============================================================================
