------------------------------- MODULE Engine -------------------------------
(***************************************************************************)
(* The arithmetic of a round and the document it is frozen in:             *)
(* server/src/engine (allocate.js, validate.js, round.js) as the keeper    *)
(* calls it at SNAPSHOT, in estimateRoundCosts and in rebuildPlan.         *)
(*                                                                         *)
(* Holders save baskets, stocks leave and enter the universe, an operator  *)
(* changes the default basket, and rounds freeze whatever they find.  A    *)
(* basket is a function from stocks to percentage points, 0 for a stock it *)
(* does not hold; Whole is the 100 points of the code.  Every swap and     *)
(* transfer takes one attempt here: attempts are modules SwapRow and       *)
(* Distributor, the life of a round is module Round.                       *)
(***************************************************************************)
EXTENDS Naturals, FiniteSets, Functions

CONSTANTS
  Wallet, Mint,
  Rank,          \* the order of market caps, best first, which stays
  Symbol,        \* the order of tickers
  Whole, MinPicks, MaxPicks, MinPct, MaxPct,  \* cfg.rules
  Supply, EligibleBps, Excluded,
  Rent, Fee, BatchSize, Reserve, MinPool,
  Menu,          \* the baskets holders save
  Liquid,        \* the sets of stocks that may be liquid enough together
  UniverseSize,
  Settings,      \* DEFAULT_BASKET and DEFAULT_BASKET_SIZE, see Default
  Spreads,       \* how the supply may be spread over the wallets
  Incomes,       \* what may reach the vault between two rounds
  Fills,         \* what a swap may bring
  Failures,      \* the sets of swaps that may fail together
  MaxRounds,     \* bound: rounds
  MaxChanges     \* bound: baskets saved, universes and settings changed

Basket  == [Mint -> 0 .. Whole]
Nothing == [m \in Mint |-> 0]
Picked(b) == {m \in Mint : b[m] > 0}

ASSUME FiniteAssumption == IsFiniteSet(Mint) /\ IsFiniteSet(Wallet)
ASSUME OrderAssumption ==
  /\ Rank \in [Mint -> Nat] /\ Symbol \in [Mint -> Nat]
  /\ IsInjective(Rank) /\ IsInjective(Symbol)
ASSUME RulesAssumption ==
  /\ Whole \in Nat \ {0} /\ MinPicks \in Nat \ {0} /\ MaxPicks \in Nat
  /\ MinPct \in Nat \ {0} /\ MaxPct \in Nat
ASSUME MenuAssumption ==
  /\ Menu \subseteq Basket /\ Liquid \subseteq SUBSET Mint /\ UniverseSize \in Nat
  /\ Settings \subseteq [pct : Basket, noise : [Mint -> Nat], size : Nat \ {0}]
  \* parseDefaultBasket: nothing configured, or exactly the whole
  /\ \A s \in Settings : SumFunction(s.pct) \in {0, Whole} /\ IsInjective(s.noise)
ASSUME SpreadsAssumption ==
  \A f \in Spreads : f \in [Wallet -> Nat] /\ SumFunction(f) <= Supply
ASSUME MoneyAssumption ==
  /\ Supply \in Nat /\ EligibleBps \in Nat /\ Excluded \subseteq Wallet
  /\ Rent \in Nat /\ Fee \in Nat /\ BatchSize \in Nat \ {0} /\ Reserve \in Nat /\ MinPool \in Nat
  /\ Incomes \subseteq Nat /\ Fills \subseteq Nat /\ Failures \subseteq SUBSET Mint

ASSUME BoundsAssumption == MaxRounds \in Nat /\ MaxChanges \in Nat

VARIABLES
  prefs,      \* the stored basket of every wallet, Nothing when it has none
  universe,   \* the stocks listed now
  setting,    \* the default basket of the running configuration
  doc,        \* the round being run, NoRound between rounds
  sol,        \* lamports of the vault
  stock,      \* tokens of the vault
  carry,      \* the carry key
  accounts,   \* the token accounts that exist
  rounds, changes

vars == <<prefs, universe, setting, doc, sol, stock, carry, accounts, rounds, changes>>
world == <<prefs, universe, setting, changes>>

-----------------------------------------------------------------------------
(* Baskets.                                                                *)

\* Integers in proportion to b that add up to whole: rounded down, and one more
\* for those with the largest remainders.  first decides between equal ones.
LargestRemainder(whole, b, first) ==
  LET total     == SumFunction(b)
      rounded   == [m \in Mint |-> (b[m] * whole) \div total]
      remainder == [m \in Mint |-> (b[m] * whole) % total]
      leftover  == whole - SumFunction(rounded)
      Ahead(m)  == {k \in Picked(b) \ {m} :
                      \/ remainder[k] > remainder[m]
                      \/ remainder[k] = remainder[m] /\ first[k] < first[m]}
  IN  [m \in Mint |->
         IF m \in Picked(b) /\ Cardinality(Ahead(m)) < leftover
         THEN rounded[m] + 1 ELSE rounded[m]]

\* Mutant: the points left over by rounding down are not handed out.
RespreadDown(b) ==
  IF SumFunction(b) = Whole THEN b
  ELSE [m \in Mint |-> (b[m] * Whole) \div SumFunction(b)]

\* respreadPicks: ties go to the larger percentage, then by ticker.
Respread(b) ==
  LET Before(m) == {k \in Mint : b[k] > b[m] \/ (b[k] = b[m] /\ Symbol[k] < Symbol[m])}
  IN  IF SumFunction(b) = Whole THEN b
      ELSE LargestRemainder(Whole, b, [m \in Mint |-> Cardinality(Before(m))])

\* rebalanceToHundred compares fractions in floating point: the noise of the last
\* digit, not the size of the pick, decides between equal ones.
Rebalance(s, b) ==
  IF SumFunction(b) = Whole THEN b ELSE LargestRemainder(Whole, b, s.noise)

\* The part of a basket that is still listed.
Kept(b, u) == [m \in Mint |-> IF m \in u THEN b[m] ELSE 0]

Better(u, m) == {k \in u : Rank[k] < Rank[m]}

\* topStocks, and the last step of rankUniverse.
Top(u, n) == {m \in u : Cardinality(Better(u, m)) < n}

\* The n best stocks, evenly; the points left over go to the best.
TopEven(u, n) ==
  LET count == Cardinality(Top(u, n))
  IN  [m \in Mint |->
         IF m \in Top(u, n)
         THEN Whole \div count + (IF Cardinality(Better(u, m)) < Whole % count THEN 1 ELSE 0)
         ELSE 0]

\* rankUniverse
Universes == {Top(l, UniverseSize) : l \in Liquid}

\* defaultPicks
Default(s, u) ==
  LET resolved == Kept(s.pct, u)
  IN  IF resolved # Nothing THEN Rebalance(s, resolved) ELSE TopEven(u, s.size)

\* effectiveBasket
EffectiveBasket(b, u, s) ==
  IF Kept(b, u) = Nothing THEN Default(s, u) ELSE Respread(Kept(b, u))

\* validatePicks
Valid(b, u) ==
  /\ Picked(b) \subseteq u
  /\ Cardinality(Picked(b)) \in MinPicks .. MaxPicks
  /\ \A m \in Picked(b) : b[m] \in MinPct .. MaxPct
  /\ SumFunction(b) = Whole

-----------------------------------------------------------------------------
(* Weights, the split of the pool, and its costs.                          *)

\* Mutant: the better of the two readings counts.
HeldEver(open, close) ==
  [w \in Wallet |-> IF open[w] < close[w] THEN close[w] ELSE open[w]]

\* combineSnapshots: what was held all through the cycle.
Held(open, close) ==
  [w \in Wallet |-> IF open[w] < close[w] THEN open[w] ELSE close[w]]

EligibleThreshold == (Supply * EligibleBps) \div 10000

\* computeEligible; 0 for a wallet that is not.
Eligible(balance) ==
  [w \in Wallet |-> IF w \notin Excluded /\ balance[w] >= EligibleThreshold
                    THEN balance[w] ELSE 0]

\* computeDemand and splitPool, as buildRoundPlan puts them together.
Plan(pool, holders, baskets, u, s) ==
  LET picks  == [w \in Wallet |-> IF holders[w] > 0 THEN EffectiveBasket(baskets[w], u, s) ELSE Nothing]
      demand == [m \in Mint |-> SumFunction([w \in Wallet |-> holders[w] * picks[w][m]])]
      total  == SumFunction(demand)
  IN  [picks    |-> picks,
       demand   |-> demand,
       lamports |-> [m \in Mint |-> IF total = 0 THEN 0 ELSE (pool * demand[m]) \div total]]

Contributors(holders, p, m) == {w \in Wallet : holders[w] * p.picks[w][m] > 0}

Batches(n) == (n + BatchSize - 1) \div BatchSize

\* Mutant: the fees of the transfers are forgotten.
CostsOfSwaps(holders, p) ==
  LET count == [m \in Mint |-> Cardinality(Contributors(holders, p, m))]
  IN  Rent * SumFunction(count) + Fee * Cardinality(Picked(p.lamports))

\* estimateRoundCosts: an account for every holder of every stock, a fee for every
\* swap and for every batch of transfers.
Costs(holders, p) ==
  LET count   == [m \in Mint |-> Cardinality(Contributors(holders, p, m))]
      batches == SumFunction([m \in Mint |-> Batches(count[m])])
      swaps   == Cardinality(Picked(p.lamports))
  IN  Rent * SumFunction(count) + Fee * (swaps + batches)

NetPool(gross, cost) == IF gross > cost THEN gross - cost ELSE 0

-----------------------------------------------------------------------------
(* The round document.                                                     *)

NoRound == [status |-> "none"]

\* What a round knows after PENDING: the pool it was opened with.
Funded(gross) == [status |-> "SNAPSHOT", gross |-> gross]

Snapshotted == {"SWAPPING", "DISTRIBUTING"}

\* Mutant: only what holders chose is frozen; the others get today's default.
FrozenPrefs(d) ==
  [w \in Wallet |-> IF Kept(d.chosen[w], d.universe) = Nothing THEN Nothing ELSE d.plan.picks[w]]

\* rebuildPlan: the picks of the document in the place of the stored baskets.
Frozen(d) == d.plan.picks

Rebuilt(d) == Plan(d.pool, d.holders, Frozen(d), d.universe, setting)

SwapStatus == {"PENDING", "SKIPPED", "DONE", "FAILED"}

PlanType == [picks : [Wallet -> Basket], demand : [Mint -> Nat], lamports : [Mint -> Nat]]

\* A round that was snapshotted: the audit trail it is resumed from.
RoundDoc == [
  status : Snapshotted, pool : Nat, holders : [Wallet -> Nat], universe : Universes,
  chosen : [Wallet -> Basket], plan : PlanType, swap : [Mint -> SwapStatus],
  received : [Mint -> Nat], carryIn : [Mint -> Nat]]

TypeOK ==
  /\ prefs \in [Wallet -> Basket] /\ \A w \in Wallet : prefs[w] = Nothing \/ prefs[w] \in Menu
  /\ universe \in Universes /\ setting \in Settings
  /\ sol \in Nat /\ stock \in [Mint -> Nat] /\ carry \in [Mint -> Nat]
  /\ accounts \subseteq Wallet \X Mint
  /\ rounds \in 0 .. MaxRounds /\ changes \in 0 .. MaxChanges
  /\ \/ doc \in {NoRound} \cup [status : {"SKIPPED"}, pool : Nat] \cup [status : {"SNAPSHOT"}, gross : Nat]
     \/ doc \in RoundDoc

Init ==
  /\ universe \in Universes /\ setting \in Settings
  /\ prefs \in [Wallet -> {b \in Menu \cup {Nothing} : b = Nothing \/ \E u \in Universes : Valid(b, u)}]
  /\ doc = NoRound
  /\ sol = 0 /\ stock = Nothing /\ carry = Nothing /\ accounts = {}
  /\ rounds = 0 /\ changes = 0

-----------------------------------------------------------------------------
(* The world: PUT /api/me/prefs, the ranking, the operator.                *)

Changed == changes < MaxChanges /\ changes' = changes + 1

SavePrefs(w, b) ==
  /\ Changed
  /\ universe # {} /\ Valid(b, universe)
  /\ prefs' = [prefs EXCEPT ![w] = b]
  /\ UNCHANGED <<universe, setting, doc, sol, stock, carry, accounts, rounds>>

Relist(l) ==
  /\ Changed
  /\ universe' = Top(l, UniverseSize)
  /\ UNCHANGED <<prefs, setting, doc, sol, stock, carry, accounts, rounds>>

Reconfigure(s) ==
  /\ Changed
  /\ setting' = s
  /\ UNCHANGED <<prefs, universe, doc, sol, stock, carry, accounts, rounds>>

-----------------------------------------------------------------------------
(* The round.                                                              *)

\* The round is over; its document changes no more.
Over == doc.status \in {"none", "SKIPPED"}

Skipped(pool) == [status |-> "SKIPPED", pool |-> pool]

\* PENDING: what the vault holds above the reserve, with what came in since the last
\* round, is the pool.
ReadPool(income) ==
  /\ Over /\ rounds < MaxRounds
  /\ rounds' = rounds + 1
  /\ sol' = sol + income
  /\ LET pool == IF sol' > Reserve THEN sol' - Reserve ELSE 0
     IN  doc' = IF pool < MinPool THEN Skipped(pool) ELSE Funded(pool)
  /\ UNCHANGED <<world, stock, carry, accounts>>

\* Who takes part, and with what: the eligible ones of the two snapshots combined.
HoldersOf(open, close) == Eligible(Held(open, close))

\* SNAPSHOT: the plan at the whole pool tells what the round costs; the plan of
\* the round is made again with what is left.
Snapshot(open, close) ==
  LET holders == HoldersOf(open, close)
      shape   == Plan(doc.gross, holders, prefs, universe, setting)
      net     == NetPool(doc.gross, Costs(holders, shape))
      plan    == Plan(net, holders, prefs, universe, setting)
  IN  /\ doc.status = "SNAPSHOT"
      /\ doc' = IF \A w \in Wallet : holders[w] = 0 THEN Skipped(doc.gross)
                ELSE IF net < MinPool THEN Skipped(net)
                ELSE [status   |-> "SWAPPING",
                      pool     |-> net,
                      holders  |-> holders,
                      universe |-> universe,
                      chosen   |-> prefs,
                      plan     |-> plan,
                      swap     |-> [m \in Mint |-> IF plan.lamports[m] > 0 THEN "PENDING" ELSE "SKIPPED"],
                      received |-> Nothing,
                      carryIn  |-> carry]
      /\ UNCHANGED <<world, sol, stock, carry, accounts, rounds>>

\* SWAPPING: every pending swap is sent; a failed one costs its fee.
Buy(failed, fill) ==
  LET pending == {m \in Mint : doc.swap[m] = "PENDING"}
      won     == pending \ failed
      paid    == [m \in Mint |-> IF m \in won THEN doc.plan.lamports[m] ELSE 0]
      brought == [m \in Mint |-> IF m \in won THEN fill ELSE 0]
  IN  /\ doc.status = "SWAPPING"
      /\ sol' = sol - (SumFunction(paid) + Fee * Cardinality(pending))
      /\ stock' = [m \in Mint |-> stock[m] + brought[m]]
      /\ doc' = [doc EXCEPT !.status = "DISTRIBUTING",
                            !.received = brought,
                            !.swap = [m \in Mint |-> IF m \in won THEN "DONE"
                                                     ELSE IF m \in pending THEN "FAILED" ELSE @[m]]]
      /\ UNCHANGED <<world, carry, accounts, rounds>>

\* allocate, with the weights of the rebuilt plan p.
Share(d, p, w, m) ==
  IF d.swap[m] = "DONE" /\ p.demand[m] > 0
  THEN ((d.received[m] + d.carryIn[m]) * d.holders[w] * p.picks[w][m]) \div p.demand[m]
  ELSE 0

HandedOut(d, p, m) == SumFunction([w \in Wallet |-> Share(d, p, w, m)])

\* applySwapResults: dust, the carry of what was not bought, and of what this
\* round never touched.
CarryOut(d, p) == [m \in Mint |-> d.received[m] + d.carryIn[m] - HandedOut(d, p, m)]

\* The stored demand is the contract with the public: runRound throws plan_mismatch
\* otherwise, which RebuildAgrees shows it never does.
Agrees(d, p) == p.demand = d.plan.demand /\ p.lamports = d.plan.lamports

\* DISTRIBUTING: the vault opens the accounts that are missing and pays.
Distribute ==
  LET p      == Rebuilt(doc)
      rows   == {r \in Wallet \X Mint : Share(doc, p, r[1], r[2]) > 0}
      fees   == Fee * SumFunction([m \in Mint |-> Batches(Cardinality({r \in rows : r[2] = m}))])
  IN  /\ doc.status = "DISTRIBUTING" /\ Agrees(doc, p)
      /\ stock' = [m \in Mint |-> stock[m] - HandedOut(doc, p, m)]
      /\ carry' = CarryOut(doc, p)
      /\ accounts' = accounts \cup rows
      /\ sol' = sol - (Rent * Cardinality(rows \ accounts) + fees)
      /\ doc' = NoRound
      /\ UNCHANGED <<world, rounds>>

Next ==
  \/ \E w \in Wallet, b \in Menu : SavePrefs(w, b)
  \/ \E l \in Liquid : Relist(l)
  \/ \E s \in Settings \ {setting} : Reconfigure(s)
  \/ \E income \in Incomes : ReadPool(income)
  \/ \E open, close \in Spreads : Snapshot(open, close)
  \/ \E failed \in Failures, fill \in Fills : Buy(failed, fill)
  \/ Distribute

Spec == Init /\ [][Next]_vars

-----------------------------------------------------------------------------
(* The inductive invariant.                                                *)

\* The plan is the one of its inputs, which the document holds but for the setting.
PlanFacts(d) ==
  /\ \E s \in Settings : d.plan = Plan(d.pool, d.holders, d.chosen, d.universe, s)
  /\ SumFunction(d.holders) <= Supply

PlanInv == doc.status \in Snapshotted => PlanFacts(doc)

\* Whose stock is what: the vault holds the carry, and what the round bought.
BooksInv ==
  /\ stock = IF doc.status = "DISTRIBUTING" THEN [m \in Mint |-> carry[m] + doc.received[m]] ELSE carry
  /\ doc.status \in Snapshotted => doc.carryIn = carry
  /\ doc.status = "SWAPPING" =>
       doc.swap = [m \in Mint |-> IF doc.plan.lamports[m] > 0 THEN "PENDING" ELSE "SKIPPED"]

\* What is left to pay once the swaps are sent.
DeliveryCosts(holders, p) ==
  LET count == [m \in Mint |-> Cardinality(Contributors(holders, p, m))]
  IN  Rent * SumFunction(count) + Fee * SumFunction([m \in Mint |-> Batches(count[m])])

\* Above the reserve lies what the round will still pay.  A round with nothing to
\* buy pays nothing, and may begin with less.
MoneyInv ==
  /\ doc.status = "SNAPSHOT" /\ doc.gross > 0 => sol = Reserve + doc.gross
  /\ doc.status = "SWAPPING" /\ Picked(doc.plan.lamports) # {} =>
       sol >= Reserve + SumFunction(doc.plan.lamports) + Costs(doc.holders, doc.plan)
  /\ doc.status = "DISTRIBUTING" /\ (\E m \in Mint : doc.swap[m] = "DONE") =>
       sol >= Reserve + DeliveryCosts(doc.holders, doc.plan)

IInv == TypeOK /\ PlanInv /\ BooksInv /\ MoneyInv

-----------------------------------------------------------------------------
(* Properties.                                                             *)

\* The basket a holder is given is made of listed stocks, adds up to the whole, and
\* is what they chose of those stocks in proportion: within one point of the exact
\* share, a larger choice never below a smaller one, an equal choice no further
\* than a point apart (allocate.js respreadPicks, effectiveBasket).
FairTo(b, chosen, u) ==
  LET kept  == Kept(chosen, u)
      total == SumFunction(kept)
  IN  /\ Picked(b) \subseteq u
      /\ SumFunction(b) = Whole
      /\ kept # Nothing =>
           /\ \A m \in Mint : /\ b[m] * total < kept[m] * Whole + total
                              /\ b[m] * total > kept[m] * Whole - total
           /\ \A k, m \in Mint : kept[k] > kept[m] => b[k] >= b[m]

BasketsAreFair ==
  doc.status \in Snapshotted =>
    \A w \in Wallet : doc.holders[w] > 0 /\ doc.universe # {} =>
      FairTo(doc.plan.picks[w], doc.chosen[w], doc.universe)

\* A token counts once.  However the holders' stocks came and went, the weight of a
\* round is the eligible balances times the whole, and no more than the supply:
\* tokens that changed hands during the cycle are not counted with both (allocate.js
\* combineSnapshots, computeDemand).
VotesAreWhole ==
  doc.status \in Snapshotted =>
    LET balances == SumFunction(doc.holders)
    IN  /\ balances <= Supply
        /\ doc.universe # {} => SumFunction(doc.plan.demand) = Whole * balances

\* Nothing a round pays, for stocks, fees or accounts, touches the reserve: the cost
\* estimated from the plan at the whole pool covers what the plan at the net pool
\* goes on to do (runner.js estimateRoundCosts and the two passes of SNAPSHOT).
ReserveIsKept == [][sol' < sol => sol' >= Reserve]_sol

\* The plan rebuilt from the document is the one it was frozen with, whatever was
\* saved, listed or configured since: a resumed round never stops as plan_mismatch
\* nor pays by other weights (runner.js rebuildPlan).
RebuildAgrees ==
  doc.status \in Snapshotted => Agrees(doc, Rebuilt(doc)) /\ Rebuilt(doc).picks = doc.plan.picks

\* The plan of a round is fair to every holder, and to all of them together.
PlanIsFair == BasketsAreFair /\ VotesAreWhole
=============================================================================
