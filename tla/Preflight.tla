------------------------------ MODULE Preflight ------------------------------
(***************************************************************************)
(* The go-live pre-flight, server/scripts/preflight.mjs: seven checks of a *)
(* vault, the chain and this code, or, with --prove-guard, a proof that it *)
(* cannot send.                                                            *)
(*                                                                         *)
(* The world it looks at is fixed: how the process is configured, what the *)
(* vault holds, and what is wrong with the code or the stocks.  Whatever   *)
(* it asks of the cluster or of Jupiter may fail.  What it prints is left  *)
(* out, but for its last line and its exit code.                           *)
(***************************************************************************)

VARIABLES
  facts,     \* the world, and the flag
  step,      \* where the script is
  checks,    \* CHECKS: the status of each
  stocks,    \* universe: it was loaded, and is not empty
  reached,   \* the kinds of request that reached the cluster
  verdict    \* the last line, and the exit code

preflightVars == <<facts, step, checks, stocks, reached, verdict>>

\* What can be wrong: a stock's mint is hooked, paused or not what it was; the swap Jupiter
\* builds, or the distribution this code builds, would be rejected; the latter is not what an
\* independent derivation says; the distributor sends outside LIVE; the runner finishes a round
\* of the other mode.
Defects == {"mint", "swap", "distribution", "structure", "sends", "crosses"}

\* "some": enough for the fees, not for a round.
Facts ==
  [proveGuard : BOOLEAN, secret : {"none", "published", "another", "unusable"},
   funds : {"none", "some", "floor"}, holding : BOOLEAN, rent : {"exact", "over", "under"},
   defects : SUBSET Defects]

Ids      == {"vault_identity", "vault_funding", "stock_transferable", "swap_tx",
             "distribution_tx", "rent_truth", "interlocks"}
Statuses == {"none", "PASS", "FAIL", "NOTE", "UNFUNDED"}
Verdicts == {"none", "NOT READY", "CODE READY", "READY", "GUARD HOLDS", "GUARD FAILED", "died"}
Steps    == Ids \cup {"config", "guard1", "guard2", "guard3", "guard4", "summary", "end"}

PreflightTypeOK ==
  /\ facts \in Facts /\ step \in Steps
  /\ checks \in [Ids -> Statuses] /\ stocks \in BOOLEAN
  /\ reached \subseteq {"read", "simulate", "send"}
  /\ verdict \in [line : Verdicts, exit : {"none", "0", "1"}]

PreflightInit ==
  /\ facts \in Facts /\ step = "config"
  /\ checks = [id \in Ids |-> "none"] /\ stocks = FALSE /\ reached = {}
  /\ verdict = [line |-> "none", exit |-> "none"]

Ends(line, exit) == step' = "end" /\ verdict' = [line |-> line, exit |-> exit]
Goes(next)       == step' = next /\ UNCHANGED verdict

\* record; the next check follows.
Record(id, status, next) ==
  /\ step = id /\ checks' = [checks EXCEPT ![id] = status]
  /\ Goes(next) /\ UNCHANGED facts

-----------------------------------------------------------------------------
(* What gets to the cluster.                                               *)

\* Mutant: the transport lets everything through.
GuardedFetchNothing(method) == TRUE

\* guardedFetch, layer 2: what the transport lets through.
GuardedFetch(method) == method # "send"

\* guardRpc, layer 1: what the client that every module is handed lets through.
GuardRpc(method) == method # "send"

\* What a client asks for, and gets to the cluster.
Asked(client, methods) ==
  {m \in methods : GuardedFetch(m) /\ (client = "guarded" => GuardRpc(m))}
Asks(client, methods) == reached' = reached \cup Asked(client, methods)

-----------------------------------------------------------------------------
(* Configuration.                                                          *)

HasVault == facts.secret \in {"published", "another"}

\* buildConfig: the mode of a process with this vault and this LIVE.
Mode(live) == IF ~HasVault THEN "READ_ONLY" ELSE IF live THEN "LIVE" ELSE "DRY_RUN"

\* loadConfig: a secret that does not decode, or is not VAULT_ADDRESS's, ends the process.
LoadConfig ==
  /\ step = "config"
  /\ IF facts.secret = "unusable" THEN Ends("died", "1")
     ELSE Goes(IF facts.proveGuard THEN "guard1" ELSE "vault_identity")
  /\ UNCHANGED <<facts, checks, stocks, reached>>

\* --prove-guard: three ways to send that must be refused.
ExpectBlocked(at, client, next) ==
  /\ step = at /\ Asks(client, {"send"})
  /\ IF Asked(client, {"send"}) = {} THEN Goes(next) ELSE Ends("GUARD FAILED", "1")
  /\ UNCHANGED <<facts, checks, stocks>>

ProveLayers ==
  \/ ExpectBlocked("guard1", "guarded", "guard2")
  \/ ExpectBlocked("guard2", "guarded", "guard3")
  \/ ExpectBlocked("guard3", "raw", "guard4")

\* And a LIVE distributor, which signs and must be refused where it would send; a process
\* without a vault leaves that out, and one that does not get so far has proved nothing.
ProveDistributor ==
  /\ step = "guard4"
  /\ \/ ~HasVault /\ UNCHANGED reached /\ Ends("GUARD HOLDS", "0")
     \/ /\ HasVault
        /\ \E methods \in {{}, {"read"}, {"read", "send"}} :
             /\ Asks("guarded", methods)
             /\ IF "send" \in methods \ Asked("guarded", methods)
                THEN Ends("GUARD HOLDS", "0") ELSE Ends("GUARD FAILED", "1")
  /\ UNCHANGED <<facts, checks, stocks>>

-----------------------------------------------------------------------------
(* The checks, in the order of the report.                                 *)

\* 1: the secret is there, derives the published address and signs.
VaultIdentity ==
  /\ Record("vault_identity", IF facts.secret = "published" THEN "PASS" ELSE "FAIL", "vault_funding")
  /\ UNCHANGED <<stocks, reached>>

\* 2: the pool above the reserve clears MIN_ROUND_POOL_SOL.
VaultFunding ==
  /\ \E status \in {IF facts.funds = "floor" THEN "PASS" ELSE "UNFUNDED", "FAIL"} :
       Record("vault_funding", status, "stock_transferable")
  /\ Asks("guarded", {"read"}) /\ UNCHANGED stocks

\* 3: assertMintIsTransferable of every stock of the universe.
StockTransferable ==
  /\ stocks' \in BOOLEAN
  /\ \E status \in {"PASS", "FAIL"} :
       /\ status = "PASS" => stocks' /\ "mint" \notin facts.defects
       /\ Record("stock_transferable", status, "swap_tx")
  /\ Asks("guarded", IF stocks' THEN {"read"} ELSE {})

\* simulate, simulateWithRetry, classifySimulation: without money nothing else is looked at; some
\* rejections read like a holding that is missing; and a call that fails is bad.
Classes(defect, funded, held) ==
  {"bad"} \cup (IF ~funded THEN {"unfunded"}
                ELSE IF defect THEN {"unfunded"}
                ELSE IF ~held THEN {"unfunded"} ELSE {"ok"})

SwapStatus(klass) == CASE klass = "ok" -> "PASS" [] klass = "unfunded" -> "NOTE" [] klass = "bad" -> "FAIL"

\* 4: quoted, built, signed and simulated; anything that throws on the way is a FAIL.
SwapTx ==
  /\ \/ Record("swap_tx", "FAIL", "distribution_tx") /\ UNCHANGED reached
     \/ /\ HasVault /\ stocks /\ Asks("guarded", {"simulate"})
        /\ \E klass \in Classes("swap" \in facts.defects, facts.funds = "floor", TRUE) :
             Record("swap_tx", SwapStatus(klass), "distribution_tx")
  /\ UNCHANGED stocks

\* Mutant: what was built is not compared when the simulation stopped for money.
DistributionStatusUnlessUnfunded(klass, structuralOk) ==
  CASE klass = "bad" \/ (klass = "ok" /\ ~structuralOk) -> "FAIL"
    [] klass = "ok" /\ structuralOk -> "PASS" [] klass = "unfunded" -> "NOTE"

DistributionStatus(klass, structuralOk) ==
  CASE klass = "bad" \/ ~structuralOk       -> "FAIL"
    [] klass = "ok" /\ structuralOk         -> "PASS"
    [] klass = "unfunded" /\ structuralOk   -> "NOTE"

\* 5: what the distributor builds is compared with an independent derivation, and simulated.
DistributionTx ==
  /\ \/ Record("distribution_tx", "FAIL", "rent_truth") /\ UNCHANGED reached
     \/ /\ HasVault /\ stocks /\ Asks("guarded", {"read", "simulate"})
        /\ \E klass \in Classes("distribution" \in facts.defects, facts.funds # "none", facts.holding),
              programsRead \in BOOLEAN :
             Record("distribution_tx",
                    DistributionStatus(klass, programsRead /\ "structure" \notin facts.defects), "rent_truth")
  /\ UNCHANGED stocks

\* 6: what the chain charges for an account, and what the keeper reserves.
RentTruth ==
  /\ \E status \in {CASE facts.rent = "exact" -> "PASS" [] facts.rent = "over" -> "NOTE"
                      [] facts.rent = "under" -> "FAIL", "FAIL"} :
       Record("rent_truth", status, "interlocks")
  /\ Asks("guarded", {"read"}) /\ UNCHANGED stocks

\* 7a: a distributor that is not LIVE refuses; one that does not gets as far as the guard.
DistributorRefuses == "sends" \notin facts.defects

\* 7b: a round of one mode is refused by a process of the other, both ways.
RunnerRefuses ==
  "crosses" \notin facts.defects /\ Mode(FALSE) = "DRY_RUN" /\ Mode(TRUE) = "LIVE"

Interlocks ==
  /\ Record("interlocks", IF DistributorRefuses /\ RunnerRefuses THEN "PASS" ELSE "FAIL", "summary")
  /\ Asks("guarded", IF facts.defects \cap {"sends", "crosses"} = {} THEN {} ELSE {"read", "send"})
  /\ UNCHANGED stocks

\* The summary, and the exit code.
Summary ==
  /\ step = "summary"
  /\ LET has(status) == \E id \in Ids : checks[id] = status
     IN \/ has("FAIL") /\ Ends("NOT READY", "1")
        \/ ~has("FAIL") /\ (has("UNFUNDED") \/ has("NOTE")) /\ Ends("CODE READY", "0")
        \/ ~has("FAIL") /\ ~has("UNFUNDED") /\ ~has("NOTE") /\ Ends("READY", "0")
  /\ UNCHANGED <<facts, checks, stocks, reached>>

PreflightNext ==
  \/ LoadConfig \/ ProveLayers \/ ProveDistributor
  \/ VaultIdentity \/ VaultFunding \/ StockTransferable \/ SwapTx \/ DistributionTx \/ RentTruth
  \/ Interlocks \/ Summary

PreflightSpec == PreflightInit /\ [][PreflightNext]_preflightVars

-----------------------------------------------------------------------------
(* Properties.                                                             *)

\* Nothing is ever sent, by the checks, by the code they run, which may be broken, or by the
\* attempts of --prove-guard.
NothingIsSent == "send" \notin reached

\* The exit code says go only of the published vault, when nothing is wrong that can be seen
\* without money; READY, only when nothing is wrong at all and a round would run.
ReadyIsEarned ==
  /\ step = "end" /\ verdict.exit = "0" /\ ~facts.proveGuard =>
       /\ facts.secret = "published" /\ facts.rent # "under"
       /\ facts.defects \subseteq {"swap", "distribution"}
  /\ verdict.line = "READY" =>
       facts.defects = {} /\ facts.funds = "floor" /\ facts.holding

-----------------------------------------------------------------------------
(* The inductive invariant behind ReadyIsEarned.                           *)

\* What a status says of the world.
Earned(id, status) ==
  /\ status \in Statuses \ {"none"}
  /\ id \in {"vault_identity", "stock_transferable", "interlocks"} => status \in {"PASS", "FAIL"}
  /\ status = "PASS" =>
       /\ id = "vault_identity"     => facts.secret = "published"
       /\ id = "vault_funding"      => facts.funds = "floor"
       /\ id = "stock_transferable" => "mint" \notin facts.defects
       /\ id = "swap_tx"            => "swap" \notin facts.defects
       /\ id = "distribution_tx"    => "distribution" \notin facts.defects /\ facts.holding
       /\ id = "interlocks"         => facts.defects \cap {"sends", "crosses"} = {}
  /\ status # "FAIL" =>
       /\ id = "distribution_tx" => "structure" \notin facts.defects
       /\ id = "rent_truth"      => facts.rent # "under"

StatusInv == \A id \in Ids : checks[id] = "none" \/ Earned(id, checks[id])

\* The checks that are behind when the script is at a step.
Behind(at) ==
  CASE at = "vault_funding"      -> {"vault_identity"}
    [] at = "stock_transferable" -> {"vault_identity", "vault_funding"}
    [] at = "swap_tx"            -> {"vault_identity", "vault_funding", "stock_transferable"}
    [] at = "distribution_tx"    -> Ids \ {"distribution_tx", "rent_truth", "interlocks"}
    [] at = "rent_truth"         -> Ids \ {"rent_truth", "interlocks"}
    [] at = "interlocks"         -> Ids \ {"interlocks"}
    [] at = "summary"            -> Ids
    [] OTHER                     -> {}

\* A check that is behind has a status; before the end there is no verdict; and a
\* proof of the guard is no pre-flight.
OrderInv ==
  /\ \A id \in Behind(step) : checks[id] # "none"
  /\ step # "end" => verdict.line = "none" /\ verdict.exit = "none"
  /\ step \in {"guard1", "guard2", "guard3", "guard4"} => facts.proveGuard

PreflightIInv == PreflightTypeOK /\ StatusInv /\ OrderInv /\ ReadyIsEarned
=============================================================================
