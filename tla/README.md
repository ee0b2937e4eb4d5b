# Stoxvault: models and proofs

These modules model Stoxvault, a program that every interval spends the SOL of a vault on tokenised
stocks and hands the stocks to the holders of a coin in the proportions they chose, together with the
services and the page around it. They follow the code under `server/` and `web/`; line numbers without
a path are those of the file named beside them, and `PROJECT.json` names for every definition the lines it stands for.

What is at stake in the keeper is that a thing which may happen once (the SOL of an allocation
leaving the vault, the tokens of a transfer, the run of a mark) happens once, although processes die,
clusters do not answer, documents are written in pieces and operators retry; and that the books
(rows, carry-over, index, snapshots) say what really happened. What is at stake around it is that
people see and sign what is so: a token is earned by one signature, a stored basket is a basket, totals
count every round once, a label says where a list came from, "ready" means ready, and a page that has missed
something catches up. That is what the properties are about.

## 1. The system

| Part | State it keeps | Operations | What is hard in it | What makes it correct |
|---|---|---|---|---|
| Round runner, `keeper/runner.js` | the round document, the carry keys, the snapshot keys | `runRound` (PENDING, SNAPSHOT, SWAPPING, DISTRIBUTING), resume, `--retry` | crashes between two saves, retries of half-done rounds, two modes over one store | done steps are final, the books balance, every round ends |
| Swap of one stock, `runner.js` `swapOne`, `reconcileSwap` | a swap row; in memory what was sent | sign, store intent, send, confirm, measure, reconcile | a transaction that lands late, reads that fail or lag, a crash after the send | the SOL leaves once; a fill is counted |
| Distributor, `chain/distributor.js` | transfer rows, signatures | `ensureAndTransfer`: split, sign, store, send, confirm, reconcile | a batch that half records, lands late, or is sent again after a crash | a row is paid once, FAILED means unpaid |
| Cycle snapshots, `runner.js` `takeOpenSnapshot`, SNAPSHOT | open, last close, the next round's open | take, load, leave a placeholder | steps run again, late rounds, two flows on one key | a holder is weighed on the close of the round and an earlier moment, of its own cycle where that can be read |
| Scheduler, `keeper/scheduler.js` | last mark, timers, a busy flag | boot, plan, tick, open tick, admin run | jitter around the mark, a restart, a store that fails, timers against operators, a server whose keeper has not started | a mark runs once, one is lost only to a failing store, the flow never sleeps for ever |
| Engine, `engine/*.js` | none (pure) | baskets, eligibility, demand, split, costs, allocation, carry | rounding, stocks that leave, configuration that changes while a round is frozen | nothing is created, lost or counted twice |
| JSON store, `db/json.js` | documents, an index, caches of both, kv, prefs, nonces | create, update, load, unfinished, latest | two files per round, caches ahead of the disk | answers are durable, the index never runs ahead |
| Postgres store, `db/pg.js` | the same, in tables | the same | the isolation of the database | as above |
| Universe, `services/universe.js`, `chain/jupiter.js` | the list served last, its kv document | `get`, `refresh`, prefetch | one refresh behind many requests; memory, store and seed as fallbacks; a store read that lands late | a list not marked stale is fresh and Jupiter's; a failure is got over |
| Holders, `services/holders.js` | the last reading | snapshot: pages of Helius, or one call, or parts by owner | any call may fail, or be answered with less than there is; tokens move between two pages | nobody, or everybody the answers named, once |
| Sign-in, `services/session.js`, `api/auth.js`; `wallet.js`, `api.js`, `app.js` of the page | nonces and their file; tokens (stateless); the stored session | nonce, verify, `me`; connect, switch, disconnect, reload | a request given up may still arrive; an account is switched between text and signature; restarts; the page restores a session last in its boot, beside a sign-in | a nonce earns one token, for the account that signed |
| Baskets, `web/.../ui/basket.js`, `api/me.js`, `engine/validate.js` | the editor, what it believes saved; a wallet's preference | edit, balance, save, reset, poll | an editor that is never locked; two copies of the rules | what is stored is a basket; the page agrees in the end |
| Stats and history, `services/stats.js`, `history.js` | the running totals in kv, a local copy | scan and fold; projections | a scan over a moving listing; rounds that open again; failed writes | no round twice, none left out |
| Page ledger, `app.js`, `ui/rounds.js`, `api/rounds.js` | rows, details, timers, countdown | poll, load more, open a detail, hide and show | late and lost answers; timers that stop with the tab | the page catches up |
| HTTP API, `api/*.js` | none | prefs, rounds, admin run | operators against timers | see the parts behind it |
| RPC transport, vault keys, `chain/rpc.js`, `vault.js` | none | calls with retries, `confirmSignature` | a timeout proves nothing | confirmation is never invented |
| Process, configuration, `index.js`, `config.js` | configuration | start, shutdown | shutdown does not wait for a running round | bounds on the numbers |
| Pre-flight, `scripts/preflight.mjs` | the checks of one run | seven checks and a verdict; `--prove-guard` | probes that are skipped, blocked or explained away | nothing is sent; go is earned |
| Other scripts, `scripts/*.mjs` | none | `run-round`, rehearsal, key generation | a second process over the same files | |

How they meet: the scheduler and the admin route call `runRound`; `runRound` calls the universe and
holders services, the engine, `swapOne` and the distributor, and saves the round through the store
after every step that matters; what a round could not deliver goes to the next one through the carry
key, and what it read at its close is the next round's open. The JSON store is a single process's:
its caches and locks are in memory, and every interleaving in the server is one of `await`s. The page polls the API; its
interleavings are those of its timers, of answers that come late or never, and of the visitor.

## 2. The modules

| Module | Models | State and actions |
|---|---|---|
| `SpendOnce` | the promise about one thing that may be sent once | `spent` (who carried it), `answer` (what the ledger says); Spend, the three answers, Reopen |
| `SwapRow` | `swapOne`, `reconcileSwap`, the SWAPPING loop around them, `confirmSignature`, the cluster | `row` is the stored row, `pc`, `attempt`, `before`, `verdict`, `last`, `result` the locals of the call; one action per statement that awaits. `chain`, `expired` are the cluster: it may take, drop, fork out or expire a transaction at any time |
| `Distributor` | `ensureAndTransfer` for one batch of one mint, its callbacks, its caller | `ledger` holds the stored rows; signatures carry sets of wallets; reconcile, split, sign, record, send, confirm, answer |
| `Round` | `runRound` and `run-round.mjs --retry` | `round` the documents, `carry` the key of each mode, `vault` what is really there; one action per saved step, `Throw`, `Crash`, `Restart` in another mode. A swap and a transfer answer in one step here |
| `CycleSnapshots` | `takeOpenSnapshot`, `loadCycleOpenSnapshot` and SNAPSHOT | the kv documents `open`, `lastClose`, either of which a round may fail to read; the locals of both flows; one action per `await` |
| `JsonStore` | rounds in `db/json.js` | files, cached copies, and what was answered; a write is FlushRound then SyncIndex, each of which may fail or be the last thing the process does |
| `Scheduler` | `keeper/scheduler.js`, the admin run with and without a keeper, the start of both in `index.js`, failures of the store, restarts | a clock, the timers, the flag `running`, the rounds being run (`runs`) and who started each: `Execute` takes the flag, `Direct` (`admin.js:38`) does not; `Throw` and `ExecuteInVain` are a `runRound` that throws |
| `SignIn` | `session.js`, `auth.js`, the nonce file; `wallet.js`, the session of `api.js`, the connected state of `app.js` | the nonces in memory and on disk, requests in flight, the page's `flow`, its `stored` session, how far the boot of the page has come (`booting`), the wallet app; sign-in click (also while the page boots), answer, signature, switch, disconnect, reload, restore, restart |
| `Basket` | the editor of `ui/basket.js`, saving and resetting, `PUT` and `DELETE` of `me.js`, `validatePicks`, the preference file | `working` and `saved` of the editor, the `save` and `reset` in flight, what the server and its file hold; percentages are real, in the code's steps of five |
| `Universe` | `universe.js` over the client of `jupiter.js`, its kv document | `current`, `fetched`, `kv`, `kvFile`, the one `refresh`; what a list is made of, how old it is, how it is labelled |
| `Totals` | the running totals of `stats.js` | the ledger by file and by index, the aggregate in memory and on file, the scan page by page; a sum is the set of rounds in it |
| `Holders` | both readers of `holders.js`, the retries of `rpc.js` | the token accounts, the reading in progress, what each account held since it began, and the accounts that an accepted answer did not name (`unlisted`) |
| `Preflight` | `preflight.mjs` with the checks of `config.js` and the guards it probes | a fixed world of `facts`, one action per check, the verdict |
| `LedgerPage` | the loaders and timers of `app.js`, the rows and details of `ui/rounds.js`, `api/rounds.js` | rows, cached details, requests in flight with the answer the server has read, timers, the countdown's mark |
| `Engine` | `allocate.js`, `validate.js`, `ranking.js`, `round.js`, `estimateRoundCosts`, `rebuildPlan` | baskets as functions to percentage points; the frozen document; Snapshot, Buy and Distribute change money and tokens as the runner does |

`*Proofs.tla` hold theorems about these modules (section 4): `SwapRowProofs`, `DistributorProofs`, `RoundProofs`,
and `EngineProofs` about the module they are named for, `StoreProofs` about `JsonStore` and `Basket`, `KeeperProofs` about
`Scheduler` and `CycleSnapshots`, `ServicesProofs` about `Universe`, `Preflight`, `SignIn` and `Holders`. `Sums` holds lemmas about
sums and counts over finite sets, which `RoundProofs`, `EngineProofs`, `StoreProofs` and `ServicesProofs` use.

`MC*.tla` give the constants their values. `MCSignIn` begins with one account selected in the wallet: the accounts
are alike, and liveness does not allow a symmetry set. `MCServices` puts `Universe`, `Totals`, `Holders`,
`Preflight` and `LedgerPage` side by side: they are unrelated (each has its own variables, and none calls
another), so `watched` picks one of them in the initial state and the others stand still. It is one run for five questions,
not a composition. What does interact is in one module: page, wallet, routes and store in `SignIn` and in
`Basket`, readers and keeper in `Totals`, page and server in `LedgerPage`. `SwapRow` and `Distributor` implement `SpendOnce`, each
with a refinement mapping (`Answer`): `Round` may therefore treat a swap and a transfer as one step
that ends in DONE, FAILED or UNRESOLVED. The mapping from an abstract step of `Round` to a run of
those two is by argument and not by refinement.

Definitions marked *Mutant* are variations of the one they stand beside, a mistake that could have
been made there. Replacing the original by it must break the property `PROJECT.json` names; that is
how we know a property would notice.

### Environments

What may go wrong is a set (`faults`, `hazards`) chosen once, in the initial state, from a constant.
One run therefore covers several environments, a property can say in which of them it is meant to
hold, and a counterexample says at once what it needs. In `SwapRow`: a signature status that cannot
be read, a balance that cannot be read, a balance that lags, a store that fails. In `Distributor`:
the same for statuses and store, crashes, and a caller that does not record. In `Round`: failing swaps
and transfers, fates that stay unknown, steps that throw, crashes, rounds opened over others, retries,
changes of mode.

## 3. The runs

| Run | Instance | Shows |
|---|---|---|
| `SwapRow_trusted` | one row, a few signatures, crashes, the three environments of `OneSourceToTrust` | `NeverSpentTwice`, `SpendOnRecord`: whatever can still spend is named by the stored row. `DoneCountsTheFill`: a DONE row received exactly what landed, unless reads lag. `KeepsThePromise`: refines `SpendOnce`. `RowSettles` |
| `SwapRow_blind` | neither statuses nor balances can be read | **violation** of `NeverSpentTwice`, see disagreement 1 |
| `Distributor_kept` | three wallets of which one has an address that cannot be paid, two signatures, two crashes, callers as documented | `PaidOnce`, `RowsKeepThePromise` (every row refines `SpendOnce`: DONE was paid, FAILED never will be), `RowsSettle` |
| `Distributor_asis` | the caller that exists, one crash | **violation** of `PaidOnce`, see disagreement 2 |
| `Round_weathered` | three rounds, one stock, two wallets, two retries, one crash or throw, five environments | `BooksBalance` (the carry is what the vault holds; a closed round adds up), `EveryTransferIsFunded`, `HistoryStands` (DONE rows stay; modes do not mix), `RoundsFinish` |
| `JsonStore_crashes` | three rounds, six writes, two crashes, one failed write | `AnswersAreDurable`, `IndexKeepsStep` (the index is never ahead of a document and lists every round whose creation was answered), `KeeperMovesOn` |
| `CycleSnapshots_retried` | three rounds, one of them an operator's, six readings, failing steps, keys that cannot be read | `WeighedByTheCycle` (the two readings of a weighing are two moments in order; the first is the open taken in the window, if it can be read, else the close of an earlier round, unless the round is retried after later ones), `OpenIsKept` |
| `Scheduler_marks` | interval 4, day 7, ten moments, jitter three early or one late, one crash, one operator's run or failure of the store, a keeper that starts or does not | `MarkRunsOnce` (unless a boot could not read the latest round), `OneRoundAtATime` (of the rounds that take the flag), `NeverStuck`, `OpenBeforeClose`, `EveryMarkIsRun` (no more marks are lost than reads and writes failed) |
| `Engine_frozen` | two holders, four stocks, two rounds, one change of prefs, universe or default basket | `PlanIsFair` (each basket fair, all votes whole), `RebuildAgrees`, `ReserveIsKept` |
| `SignIn_reloads` | two accounts in one wallet, one click, one restart, three mishaps (failed writes, requests delivered again, reloads, switches), a sign-in at any moment of the boot | `TokensAreEarned` (one token per nonce, each for a signature of its wallet over that nonce), `SignInEnds`, `EndOfSessionIsShown` (of a session the page has not dropped by itself) |
| `Basket_saves` | four stocks, baskets of two or three, one edit, one save, two mishaps | `StoredIsABasket`, `RefusedForAReason`, `BalanceReaches`, `PageAgrees` |
| `Services_sidebyside` | five small instances, see below | `LabelIsHonest`, `FreshAgain` (`Universe`); `TotalsAreTheLedger` (`Totals`); `SnapshotIsWhole` (`Holders`); `NothingIsSent`, `ReadyIsEarned` (`Preflight`); `PageCatchesUp` (`LedgerPage`) |

Every module states a type invariant; that of `SwapRow` is a property of its run, the others are part of
the inductive invariants of section 4. An inductive invariant (`IInv`, `UniverseIInv`, `PreflightIInv`,
`CycleIInv`, `StoreIInv`, `HoldersIInv`, `TotalsIInv`) is no property of a run, but each held on the instance of its module's run before it
was proved, and can be added to its configuration (`INVARIANT IInv`) when a module is changed.

### Bounds, and why they are enough

- `SwapRow`: `MaxTx` bounds the signatures ever made for one row, more than one call's attempts, so
  that a resumed or retried call signs again. The dangerous cases need two transactions alive at the
  same time and a call that has forgotten the first; both occur. For every bound, see the theorems.
- `Distributor`: two wallets that share a transaction, and a third that is singled out, are what
  splitting and partial recording need; a second attempt and a second crash are what a resend needs.
- `Round`: the carry passes from a round to the next and is disturbed by a third (an older round
  retried after a newer one took its tokens), hence three rounds. Two wallets of equal weight and a
  fill of three leave dust. Two stocks matter only where a swap fails beside one that did not, which
  is disagreement 3.
- `JsonStore`: a round that finishes, is reopened and finishes again is the longest history a
  document has. Two crashes and one failing write cover a failure during recovery.
- `CycleSnapshots`: a round of a mark, the round of the next one, and an operator's in between; six
  readings let every step be run again at least once.
- `Scheduler`: the day is not a multiple of the interval, so the last interval of a day is a short one;
  the two jitters are on either side of the mark, the early one longer than half an interval.
  One failure of the store or one operator's round (`MaxUpsets`) beside one crash: what a failure costs is one mark,
  and what several cost is proved (`NoMarkIsLost`).
- `Engine`: a whole of ten instead of a hundred. Equal picks that do not divide the whole, uneven
  ones, a stock that leaves, a list that becomes empty, default baskets that are even, concentrated or
  partly unlisted, a holder below the threshold at one end of the cycle or at both, an income that does
  not cover the costs and one that does. A batch holds one row, so that every transfer costs a fee.
  The order of market caps does not change; the set of liquid stocks does.
- `SignIn`: one click is one nonce; a second account, a second delivery of the verify request, a
  reload and a restart are what could earn a second token or the wrong one. One `GET /api/me` is under way at a
  time, where the page may have several: their answers are applied alike, whatever happened meanwhile. Time has three moments, so
  that a nonce and a session can both run out.
- `Basket`: the rules are narrower than the program's (two or three stocks, 10 to 60%) so that every limit
  is met by a basket; the top list can shrink below what a basket holds, or be empty. One slider is moved to
  a value off the grid of five (an edit the page allows), which is where balancing is hard. One save
  meets one edit (the buttons, which come to rest by themselves, are not counted), two failures and the polls.
- `Universe`: two visitors share a refresh; an hour is two ticks, so that a list is young, older and
  stale; Jupiter's client tries twice; one restart.
- `Totals`: four rounds over two pages of two, so that a scan has a second page, ends in the middle of one,
  and a round could join the listing between the two; one is opened again; one failed read or write or restart.
- `Holders`: three accounts of two owners over pages of two: one owner's accounts lie on both pages. Each
  holds one or two units, so that every owner is a holder throughout. Two of the accounts have the size of
  a plain one (`Plain`), so that a probe of Token-2022 misses the third; any rows of any answer may be unreadable.
- `Preflight`: no bound: the facts are finite.
- `LedgerPage`: pages of one row, one old round, two marks; one hidden tab or failed request, one click for
  more while another request is in flight, and one request of a kind at a time. Every way in which an older
  answer can come after a newer one needs two kinds of request, and that they have.

### Fairness, and why the code justifies it

- `SwapRow`: weak fairness of the keeper's own steps and of taking up an unfinished row (boot and
  every tick call `runRound`, which resumes what is unfinished); strong fairness of giving up a
  confirmation, whose deadline is a clock. None of the cluster, of crashes or of operators.
- `Distributor`: the same, and strong fairness of reading the mint, which is asked anew each time.
- `Round`: weak fairness of the running call and of picking up a round.
- `JsonStore`: weak fairness of the keeper's tick and of the writes.
- `SignIn`: promises settle, the wallet's prompt is answered (with a signature or a refusal), requests
  are handled or run into their timeout, the boot goes on (`BeginRestore`, `Restore`), the page polls; strong fairness of answering `me`, which is asked
  again and again and does not time out every time. Nothing is assumed of clicks, switches, reloads, restarts.
- `Basket`: the same. None of edits, saves or resets; a poll may fail, but polls go on.
- `Universe`: calls, the refresh and the clock go on. That Jupiter comes back is the premise of `FreshAgain`.
- `LedgerPage`: rounds end, requests of every kind are answered or fail, the timers of a visible tab run.
  That the tab stays in view is the premise of `PageCatchesUp`; of the visitor's clicks nothing is assumed.
- `Scheduler`, `CycleSnapshots`, `Engine`, `Totals`, `Holders`, `Preflight`: no fairness; `NeverStuck`
  and `EveryMarkIsRun` are invariants (some timer or call is always there; no mark is passed over).
- Liveness is checked only while the store takes what it is given (`RowSettles`, `RowsSettle`): with a
  store that always refuses, nothing can be settled, and the code does not claim it.

## 4. What is proved

The theorems hold for every value of the constants, that is for any number of wallets, stocks, rounds,
signatures, crashes and retries, under the assumptions the modules declare on their constants and those
named here. Each safety property is proved from an inductive invariant, because none of them is inductive alone.

| Module | Theorems | Assumed besides |
|---|---|---|
| `SwapRowProofs` | `SpendIsOnRecord`, `SpentAtMostOnce`, `SendsAreSafe`, `TheFillIsCounted`; `RowKeepsThePromise`: `SwapRow` implements `SpendOnce` | `Trustworthy`: no environment has both the statuses and the balance unreliable |
| `DistributorProofs` | `NobodyIsPaidTwice`; `RowsKeepTheirPromise`: every row implements `SpendOnce` | `Contract`: a caller that does not record meets neither a crash nor a failing store |
| `RoundProofs` | `TheBooksBalance`, `TransfersAreFunded`; `HistoryStays` without any assumption | `SwapsAreNotRetried`: no environment has both failing swaps and retries |
| `StoreProofs` | `AnswersStayOnDisk`, `IndexStaysInStep`; `OnlyBasketsAreStored`, `RefusalsHaveAReason`, `AutoBalanceReaches` | |
| `KeeperProofs` | `OneAtATime`, `TheFlowIsWoken`, `NoMarkTwice`; `OpenComesFirst` | the last: the jitter moves a close ahead of its mark by no more than the interval less the window |
| | `NoMarkIsLost`, which counts: no more marks are lost than the store failed | `RoundsEndInTime`: a round of one mark is over before the next mark; otherwise `onTick` passes marks over |
| | `WeighedOnTheRightOpen`, `RealOpensAreFinal` | `~Overlap`: the open of a cycle is not read while the round before it is still running |
| `EngineProofs` | `EveryPlanIsFair`, `PlansCanBeRebuilt`, `NothingPaysFromTheReserve` | |
| `ServicesProofs` | `LabelsAreHonest`; `PreflightNeverSends`, `GoIsEarned`; `EveryTokenIsEarned`; `SnapshotsAreWhole` | |
| | `HeadlineIsTheLedger` | `StillPages`: no round joins the listing between two pages of one scan; `MaxRounds <= Page * MaxPages`: the pages hold all rounds |

With each come `TypeCorrect` and `Inductive` (the type and the invariant), under the names `PROJECT.json` lists.

Where something is assumed beside the constants the statement is false without it, and a run or a
disagreement of section 5 shows the code's own counterexample: `SwapRow_blind` for `Trustworthy`,
`Distributor_asis` for `Contract`, disagreements 3 and `runner.js:1050` for `SwapsAreNotRetried`, 5 for
`~Overlap`, `config.js:350` for the jitter (of both theorems about marks), `stats.js:413` and `:481` for
`HeadlineIsTheLedger` (the pages hold 5000 rounds; a scan that finds its cursor needs only those since).

### Why the invariants are what they are

**SwapRow.** "At most one transaction has spent" is not inductive: a call that has forgotten what an earlier call
sent could send again. `IInv` adds what each party knows: whatever can still spend is the last thing
sent, and what the call believes dead or landed is so (`KnowledgeInv`); before a send nothing can spend
(`ControlInv`); what can spend is named by the stored row, which is what a call that starts from nothing
has (`LedgerInv`). The heart is the lemma `DeadIsDead`: reconciliation answers "dead" only when nothing
sent can land any more. A transaction past its height may have landed unseen; either its status can be
read or its fill can be seen in the balance, and this is where `Trustworthy` is used. `TheFillIsCounted`
adds `FillInv`: the reading kept in the row is older than the transaction that landed.

**Distributor.** The same three parts, per wallet of a batch, and `AnswersInv`: an answer the caller has
not yet saved is true of the chain. A signature carries several wallets and a wallet is carried by several
signatures, one after the other; what must be shown is that a batch is split or signed again only
when every signature that carries one of its wallets is dead.

**Round.** `BooksBalance` relates the carry key to the vault, across rounds, modes and crashes. `VaultInv` says
for every point of the call what has been added to the vault and not yet to the carry; `RowsInv` says
that the rows of a document add up (what was allocated is what was carried in and received);
`EarlyInv` that a round that has not reached SWAPPING has done nothing; `CallInv` which
documents the call and its locals belong to. The sums over wallets are those of `Sums`.

**JsonStore.** `MemoryInv` orders the five counters of a document (file, index, two copies, what was
answered); `CallInv` says how far a write that is under way has got.

**Basket.** "What is stored is a basket" follows from `validatePicks` at the moment of the request, if sorting
keeps the sum: `sort(comparePicks)` is a permutation (the order of shares and symbols is linear on picks of
different stocks), and `SumPermuted` says that a permutation adds up to the same. "A refusal has a reason" needs `SaveInv`:
what the page judged stays judged while a signer is looked for, a text signed, a request retried or handled
late, and `clean` is said only of a request that carries just that. `AutoBalanceReaches` is arithmetic: with
`MinPicks * MaxPct >= 100` and `MaxPicks * MinPct <= 100` (`RulesAssumption`; true of the
rules in `config.js:414`) the shares have as much room as there is to move, in units that divide both; after as many whole turns
as the moves allow, fewer moves are left than shares with room, so each of the first ones takes one and none is lost.

**Scheduler.** `FlowInv`: some timer, call or boot is always there, so that the flow is woken;
`MarksInv`: the mark remembered last, the calls in flight and the rounds on record are in order, from which a
mark runs once; `MomentsInv`: an open was read where its timer was set, no later than
every close of its mark. What a failing store does to the marks is in two places. A boot that
could not read the latest round (`unseeded`) knows nothing of the marks that were run, and `MarksInv` is about the others.
`PassedInv` counts, for a process that stays up: every mark behind the last one for which no round was opened was paid for by a failure, and so
was a round that threw and was left unfinished (`Paid`), whose resuming takes the turn of the next mark. So a failure costs
one mark at most, either way. `FlowInv` is about the rounds that hold the flag; the operator's rounds
of a server without a keeper are beside it, and no invariant says anything of how many there are.

**CycleSnapshots.** `TurnsInv` (whose turn it is), `KeptInv` (an open that is real was not
overwritten), `RoundInv` (what the round has loaded is older than its close, and is what its own key held unless that could not be
read: `unread`), `OrderInv` (the last close is an earlier round's for a round that was not begun after a later one: `late`).

**Engine.** `PlanFacts` says of a frozen document everything later steps rely on: its baskets are normal, its weights,
points and lamports are the ones its inputs determine. The arithmetic is proved and not only sampled: a normal basket has all its
points (largest remainder: the points left over are fewer than the stocks, so each goes to one
stock and none is lost), the demand is as many points as the holders have, the lamports of a pool
add up to no more than the pool, and the units handed out are no more than were bought. A plan rebuilt
from its document is the plan it was frozen with, by way of the same lemmas and not by recomputing.

**Universe.** A list is honest if its label says where it came from and how old it is; the
invariant says so of every copy: in memory, in the store, in the refresh at each of its points, in the answers.
**Preflight.** A check that is green was earned by the facts, and the checks were made in order.
**SignIn.** `NonceInv`: a token was issued against a nonce that is no longer among the live ones, in memory or on
disk, and no request in flight can bring it back; `SignedInv`: only what a wallet signed is on its way.

**Holders.** `RowsOnce` says of the rows read so far which accounts they are, each once and with what it held at some
moment since the read began; `ReadingInv` that they are the accounts of the pages, or of the parts, that were asked for, but those
that an accepted answer did not name or not readably (`unlisted`). A page that is not
full is the last one (`PageFacts`), the parts divide the owners (`PartFacts`), and the sum per owner is then one over its
accounts, in whatever order they came (`SumPermuted`). `HoldersAssumption` keeps the accounts below the
guard of `listViaHelius`, beyond which the code itself says that a snapshot may be partial.

**Totals.** `CursorOK`: the rounds behind a cursor are the oldest of the listing, up to one of them, and a cursor is never ahead
of the index; `CountsOK`: an aggregate, in memory, in the file or in a scan, has counted each of those once, as what it ended
as, but for those it keeps as open; `FreshOK`: the rows of a scan are those of the pages it has read that were not known
before, each once. From these `Folding` shows that after the last page everything listed is known and counted once.
`LedgerGrows` shows that whatever the keeper does meanwhile takes none of this back.

### How sums are proved

`Sums` proves what a sum over a finite set is (the community modules define it by recursion over the set) for
every finite set. The library's induction theorem takes an operator, which no backend here can
instantiate; its principle of minimal elements over well-founded relations takes a set
(`WFMin`), and from that `SubsetInduction` derives induction over the subsets of a finite
set in the form this needs. On it rest the value of a sum (`ChainWorks`, `ChainFacts`, `SumIs`), the laws
(`SumPlus`, `SumScaled`, `SumUpdate`, `SumBelow`, `SumSwap`, `SumPermuted` ...) and counting: in a linear order the
first n elements are n (`FirstAreMany`), which is how points and units that are left over are counted.

### Only model-checked

- All liveness (`RowSettles`, `RowsSettle`, `RoundsFinish`, `KeeperMovesOn`, `SignInEnds`, `EndOfSessionIsShown`, `PageAgrees`,
  `FreshAgain`, `PageCatchesUp`): proofs under fairness and about ENABLED are out of this prover's reach.

Every safety invariant of a run is stated by a theorem.

## 5. Where the code and its documents disagree

With a run:

1. `SwapRow_blind`, `runner.js:1261`. An attempt past its block height is taken for dead without asking
   whether it landed. When neither statuses nor the balance can be read the loop signs another, though
   `:1271` says "The LIVE path never sends twice for one allocation".
2. `Distributor_asis`, `runner.js:1106`. The runner calls the distributor without `onAttempt` and
   without `attemptedTx`; a round resumed after a crash sends its PENDING rows again, though
   SPEC.md:111 says "a re-run never double-sends" and `distributor.js:419` that the caller MUST record.

Without a run of their own, but reproduced by TLC when the named constants of a run are changed:

3. `runner.js:653`. A round retried for a failed swap also reopens its FAILED transfers, whose tokens a
   later round took; CONTRACT.md:450-451 says this is refused. `Round_weathered` with
   `HazardSets <- SwapsRetried`, two stocks, two rounds and one retry violates `EveryTransferIsFunded`.
4. `json.js:361`. The document and the index are two writes. After a crash in between `unfinishedRound`
   returns a finished round (CONTRACT.md:220), and the keeper asks for nothing else from then on.
   `JsonStore_crashes` with `INVARIANT UnfinishedIsUnfinished`, two rounds and one crash violates it.
5. `runner.js:848`. The placeholder for the next open is written two awaits after the key was looked
   at, and can replace a real one (CONTRACT.md:393-394, `runner.js:224`). `CycleSnapshots_retried` with
   `Overlap = TRUE`, `Failures = FALSE`, four rounds and `Following <- WithAnExtraRound` violates `OpenIsKept`.
6. `basket.js:772`, `792`. The text is made from the editor, the wallet is awaited, and the picks sent
   are read from the editor again; CONTRACT.md:113 says the exact picks are stored as signed.
   `Basket_saves` with `INVARIANT SignedIsStored` and no mishaps violates it.
7. `admin.js:38-54`. Where no keeper is registered (`START_KEEPER=0`, a keeper that failed to start, and every
   server between `index.js:270`, where it listens, and `:281`) the route loads `runner.js` and calls `runRound` itself,
   which knows of no flag: two such rounds, or one and the scheduler's, run at once, though `index.js:278-279` says
   that an operator's round and a scheduled one "can never overlap". `Scheduler_marks` with
   `INVARIANT NoRoundsOverlap` violates it; `OneRoundAtATime` is about the rounds the scheduler starts.

Seen while modelling, where a property is stated under a condition instead of having a run.

The keeper:

- `runner.js:1254`: a balance that lags closes a landed swap as DONE with a fill of nothing
  (`DoneCountsTheFill` excludes lag).
- `runner.js:1476`: the tokens of an UNRESOLVED transfer are carried on although they may be gone
  (the comment at 1467-1468 says bought but not delivered); `runner.js:1154`: a LIVE round that throws
  after it delivered leaves in the carry key the carry it consumed, and one that throws before it wrote
  leaves tokens in no carry at all (CONTRACT.md:448); a round opened over an unfinished one hands the
  same carry out twice. `Undisturbed` names the environments without these.
- `runner.js:1050`: a round that began without a carry reads the key again at the end of SWAPPING;
  retried, it counts its own dust twice (CONTRACT.md:338). Not reached by the environments of
  `Round_weathered`, whose retries meet no failed swap.
- `runner.js:572`: naming a DONE round in the other mode marks it FAILED and it then starts over
  (against 636-637). `NeverRefused` excludes it.
- `runner.js:853`: a SNAPSHOT step that is run again has replaced the previous close by its own, and
  the note at 787 is then untrue; `runner.js:296`: a round retried late takes a later round's close, if that
  was read before its own, for "the previous round's close snapshot, which was taken at the start of this cycle" (270-271).
  `WeighedByTheCycle` excepts rounds retried late (`late`) from saying whose close it is, and from nothing else.
- `runner.js:281`, `291`: a key that cannot be read passes for one that is empty. An open that was taken and stored is then not
  used: the round is weighed from the previous close or on its close alone, for good, though CONTRACT.md has that fallback for
  a cycle without an open. `WeighedByTheCycle` has the stored open used by the rounds that could read it (`unread` names the others).
- `runner.js:145`, `me.js:31-35`: the comment names the kv key `snapshot:open`; the runner writes
  `open-snapshot:<roundId>`. `me.js:157` shows the open of a cycle at the mark less the window, where the
  scheduler opens it at an offset from the previous mark; the slack by which it calls an open snapshot
  the current cycle's admits the previous one's.
- `scheduler.js:365`: after an operator's round and a restart a mark can run twice (against 362);
  `MarkRunsOnce` excludes the two together. `scheduler.js:367`: when the
  latest round cannot be read at boot the keeper goes on without a last mark, and a mark whose round fired early runs again
  (against 362, again); `MarkRunsOnce` excludes a crash with such a boot after it (`unseeded`).
- `scheduler.js:237`: a `runRound` that throws outside its document is logged and its mark is not tried again; if it had begun a
  round, that round takes the turn of the next mark. This is what 238-239 say ("try the next mark"), and `EveryMarkIsRun` counts it:
  a failure of the store costs one mark at most.
- `config.js:350`: with the widest jitter the configuration allows a round's close can be read before
  its open (CONTRACT.md:355-356); `OpenBeforeClose` is checked for three quarters of the interval.
- `validate.js:273`: fractions of a default basket are compared as floating point numbers, and equal
  ones compare unequal: of 25, 4 and 1 out of 30 all have the fraction one third, and the point left
  over goes to 4 and not, as the comment at 262-263 says, to 25. No point is lost. `Engine` lets the order be
  arbitrary (`noise`).
- `runner.js:318`: the cost of a round does not count the vault's own account for a stock it buys for
  the first time; such an account, and every second attempt, is paid from the flat reserve.
  `ReserveIsKept` is about a round in which the accounts of the vault exist and each swap and batch
  takes one attempt.
- SPEC.md:80 says a failed transfer is recorded as PENDING and retried next round; the code records
  FAILED and carries the tokens.

The services and scripts:

- `session.js:449`, CONTRACT.md:282: "a nonce offered once is never usable again, whatever the outcome".
  An offer with the wrong wallet or text does not burn it, and one that was burned is usable again when the
  write of the file failed and the server restarted. What is checked is that no nonce earns two tokens.
- `stats.js:413`: a round that joins the listing between two pages of one scan shifts it, and another
  is counted twice (`StillPages` excludes it); a round that is retried after it was folded keeps
  what it was counted as; a scan cut off by its page limit leaves older rounds out although line 481 says that it
  "will catch up next call".
- `holders.js:302-308`: when the probe for the token program fails on Token-2022 the error is swallowed, the
  snapshot is empty and the round is SKIPPED for want of holders.
  Some answers are accepted although they are partial: a page that is null or has no list of accounts is the last one (236, 243), rows
  without an owner or of unreadable data are dropped (240, 269), and the probe of Token-2022 asks for accounts of the
  classic size (259, 304), which an account with extensions, as those made by the associated token program are, does not
  have. Holders are then left out of a snapshot that counts as whole, though 316 says "every holder of the memecoin". `SnapshotIsWhole` excepts
  exactly the accounts that an accepted answer did not name; it is false without that. A transfer between two pages may be
  in both or in neither (each *account* is read as it was at some moment, which is what
  `SnapshotIsWhole` says); an account that is closed or opened between two pages shifts them, and the model keeps the accounts.
- `universe.js`, its header: the three layers are the memory, the store and the seed, but the Jupiter client
  falls back on the seed's market caps by itself, and such a list is labelled `jupiter`'s; a store read that
  takes long may replace a live list by an older one (which is labelled stale).
- `preflight.mjs:256-257` says a stock that cannot be transferred "must block go-live"; for want of funds
  or of a holding pattern the swap is only noted, and an unfunded payer hides a swap or distribution that
  would be rejected (`ReadyIsEarned` has `CODE READY` allow those two). READY also needs the vault to
  hold the stock already.
- `vault.js:15-17` accepts a secret as a JSON array, which `deriveVault` of `config.js` does not.

The page:

- `app.js:690`, `chain.js:74-76`: the chain notice is shown for wallets whose chain is not known, too.
- `app.js:587`: the branch for a session that has ended is not reached when the token expired in the
  browser; `EndOfSessionIsShown` is about sessions the server ended.
- `app.js:583`: a late answer of `me` after a disconnect shows the wallet again, and a late 401
  ends a newer session. Both are got over by the next poll or click.
- `wallet.js:577-584`, `app.js:1041`: `restore` runs last in the boot, while the buttons have worked from its beginning. A visitor who
  signed in meanwhile, or while the wallet was being asked, and has switched accounts since, loses that session, and
  nothing tells the page: it goes on showing the wallet, though the comment has the session dropped "rather than show one
  wallet's view under another wallet's name". `EndOfSessionIsShown` excepts a wallet shown in that way (`silenced`); it is false without that.
- `ui/basket.js`: the poll replaces unsaved edits (DOM.md:538); a save that timed out may land after a later one;
  a reset that timed out leaves what was saved on the page until the next poll; `api.js:358-359` says that
  client and server "never disagree", which holds for one top list (`RefusedForAReason`).
- `ui/rounds.js`: a poll that lands while older rounds are being loaded leaves a gap in the rows until
  the next poll, even if the ledger does not change, which is why `PageCatchesUp` says again and again
  and not for good; a detail that answers late is cached until the next poll; if the first configuration
  request fails the countdown starts only after a mark, a hidden tab or a click on retry.

## 6. Not modelled, and why

- `db/pg.js`: single statements and transactions; its isolation is the database's.
- Building, packing and encoding of transactions; amounts as strings; hashes; signatures and tokens as
  bytes (in `SignIn` they cannot be forged); the shares in basis points, which are for display.
- The limits on the lists of an aggregate (`stats.js:384`, `:443`, `:452`): the keeper has one round open at a time,
  and rounds of one millisecond are few.
- The branch `antiCheat = false` of SNAPSHOT (`runner.js:760`): one reading instead of two.
- `buildCycle` and `verdict` of the configuration (`config.js:482`), which nothing calls today.
- Rate limits, headers, CORS and the shape of requests; the reading routes beyond those named above;
  `history.js` and the projections of `stats.js` other than the totals, which change nothing anyone reads back.
- The rendering of the page, its tabs and its other views: functions of the state that is modelled.
- `run-round.mjs` as a second process with caches of its own over the same directory. `Round` has its
  operations, but over one store.
- `index.js` shutdown: it does not wait for a running round, which is `Crash`.
- `gen-vault.mjs`, `rehearse.mjs`: one-shot tools over files of their own.

## 7. Plan

Done in this order, the most important first: `SpendOnce`, `SwapRow` and its proofs, `Distributor`,
`Round`, `JsonStore`, `CycleSnapshots`, `Scheduler`, `Engine`; then `SignIn`, `Basket`, `Universe`,
`Totals`, `Holders`, `Preflight`, `LedgerPage`; then the proofs about `Distributor`, `JsonStore`, `Scheduler`,
`CycleSnapshots`, `Universe`, `Preflight`, `SignIn`, `Round`, `Engine`, `Basket`, `Holders` and `Totals`.

Next, proofs: what remains true of `Totals` where `StillPages` does not hold; what `LedgerPage` shows at
every moment, of which so far only `PageCatchesUp`, a liveness property, is checked.

Next, models: a second process over the same store; a composition of `Scheduler` with `Round` (no two
of the scheduler's rounds spend one balance, across restarts; what two at once do, which the keeper-less route allows); an abstract store that `JsonStore` implements.
