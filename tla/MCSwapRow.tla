----------------------------- MODULE MCSwapRow ------------------------------
(***************************************************************************)
(* Instances of SwapRow for TLC: what may go wrong in which run.           *)
(***************************************************************************)
EXTENDS SwapRow

\* One of reconcileSwap's two sources can be trusted: signature statuses can
\* always be read (balances may fail or lag, and the store may fail), or the
\* balance can; and an environment whose store always works.
OneSourceToTrust == {{"balance", "lag", "store"}, {"balance"}, {"status", "store"}}

\* Neither source can be relied on.
Blind == {{"status", "balance"}}
=============================================================================
