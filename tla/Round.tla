------------------------------- MODULE Round --------------------------------
(***************************************************************************)
(* The rounds of server/src/keeper/runner.js runRound: each a persisted    *)
(* state machine PENDING, SNAPSHOT, SWAPPING, DISTRIBUTING, and one of     *)
(* DONE, SKIPPED, FAILED, with the carry-over key that hands what one      *)
(* round could not deliver to the next, and the tokens the vault really    *)
(* holds.                                                                  *)
(*                                                                         *)
(* What happens inside a swap is module SwapRow, inside a batch of         *)
(* transfers module Distributor; here a swap row and a transfer row get    *)
(* their answer in one step.  A round is a number, in the order the rounds *)
(* were created.                                                           *)
(***************************************************************************)
EXTENDS Naturals, FiniteSets, Functions

CONSTANTS
  Mint, Wallet,
  Weight,       \* the frozen weight of every contributor
  Fills,        \* what a swap may bring
  HazardSets,   \* the environments: what may go wrong, see below
  MaxRounds,    \* bound: rounds ever opened
  MaxCrashes,   \* bound: deaths of the process and steps that throw
  MaxRetries    \* bound: times an operator names a round

\* "swap", "transfer": a swap, a transfer FAILs for good
\* "unresolved": the fate of a swap, of a transfer stays unknown
\* "throw":      the runner throws between two steps
\* "crash":      the process dies
\* "fresh":      an operator opens a round without looking for an unfinished one
\* "retry":      an operator names a round
\* "mode":       the process is started again in the other mode
HazardKinds == {"swap", "transfer", "unresolved", "throw", "crash", "fresh", "retry", "mode"}

Modes == {"LIVE", "DRY_RUN"}

ASSUME SizesAssumption == IsFiniteSet(Mint) /\ IsFiniteSet(Wallet) /\ Wallet # {}
ASSUME WeightAssumption == Weight \in [Wallet -> Nat \ {0}] /\ Fills \subseteq Nat
ASSUME HazardsAssumption == HazardSets \subseteq SUBSET HazardKinds
ASSUME BoundsAssumption == MaxRounds \in Nat /\ MaxCrashes \in Nat /\ MaxRetries \in Nat

RoundId == 1 .. MaxRounds
NoRound == 0

VARIABLES
  round,             \* the stored round documents
  opened,            \* how many there are
  carry,             \* the carry key of each mode
  mode,              \* CFG.mode of the running process
  pc, cur, retry, todo,  \* the running call: its round, its flag, its swap loop
  vault,             \* what the vault really holds of each mint
  late,              \* the UNRESOLVED transfers that turned out to be paid
  hazards,           \* what may go wrong in this behaviour (chosen once)
  crashes, retries

call == <<pc, cur, retry, todo>>
vars == <<round, opened, carry, mode, pc, cur, retry, todo, vault, late, hazards, crashes, retries>>

TERMINAL         == {"DONE", "SKIPPED", "FAILED"}
Steps            == {"PENDING", "SNAPSHOT", "SWAPPING", "DISTRIBUTING"}
SwapStatus       == {"none", "PENDING", "SENDING", "DONE", "FAILED", "UNRESOLVED", "SKIPPED"}
RowStatus        == {"none", "PENDING", "DONE", "FAILED", "UNRESOLVED", "SKIPPED_DUST"}
PCs              == {"idle", "open", "work", "swap", "deliver", "close"}

Nothing == [m \in Mint |-> 0]
NoRow   == [status |-> "none", amount |-> 0]

SWAP_UNTOUCHABLE == {"DONE", "SKIPPED", "UNRESOLVED"}

NewRound(md) ==
  [status      |-> "PENDING",
   resumeFrom  |-> "none",
   mode        |-> md,
   swap        |-> [m \in Mint |-> "none"],
   received    |-> Nothing,
   carryIn     |-> Nothing,
   transfer    |-> [w \in Wallet |-> [m \in Mint |-> NoRow]],
   carryOut    |-> Nothing,
   undelivered |-> Nothing]

NotOpened == [NewRound("LIVE") EXCEPT !.status = "none"]

RoundDoc ==
  [status      : TERMINAL \cup Steps \cup {"none"},
   resumeFrom  : Steps \cup {"none"},
   mode        : Modes,
   swap        : [Mint -> SwapStatus],
   received    : [Mint -> Nat],
   carryIn     : [Mint -> Nat],
   transfer    : [Wallet -> [Mint -> [status : RowStatus, amount : Nat]]],
   carryOut    : [Mint -> Nat],
   undelivered : [Mint -> Nat]]

TypeOK ==
  /\ round \in [RoundId -> RoundDoc]
  /\ opened \in 0 .. MaxRounds
  /\ \A r \in RoundId : round[r].status = "none" <=> r > opened
  /\ carry \in [Modes -> [Mint -> Nat]]
  /\ mode \in Modes
  /\ pc \in PCs /\ cur \in RoundId \cup {NoRound} /\ retry \in BOOLEAN /\ todo \subseteq Mint
  /\ vault \in [Mint -> Nat]
  /\ late \subseteq RoundId \X Wallet \X Mint
  /\ hazards \in HazardSets /\ crashes \in Nat /\ retries \in Nat

Init ==
  /\ round = [r \in RoundId |-> NotOpened]
  /\ opened = 0
  /\ carry = [md \in Modes |-> Nothing]
  /\ mode = "LIVE"
  /\ pc = "idle" /\ cur = NoRound /\ retry = FALSE /\ todo = {}
  /\ vault = Nothing /\ late = {}
  /\ hazards \in HazardSets /\ crashes = 0 /\ retries = 0

Opened       == 1 .. opened
Unfinished   == {r \in Opened : round[r].status \notin TERMINAL}
Latest(r)    == r = opened
Live         == mode = "LIVE"
Doc          == round[cur]

-----------------------------------------------------------------------------
(* The arithmetic of a round: engine/allocate.js allocate and              *)
(* engine/round.js applySwapResults.                                       *)

TotalWeight == SumFunction(Weight)

\* What the contributors of m share: what the swap brought and what was carried in.
Total(d, m)    == d.received[m] + d.carryIn[m]
Share(d, w, m) == (Total(d, m) * Weight[w]) \div TotalWeight

\* Mutant: the carry that came in is forgotten in the remainder.
DustOfFill(d, m) == d.received[m] - SumFunction([w \in Wallet |-> (d.received[m] * Weight[w]) \div TotalWeight])

Dust(d, m)     == Total(d, m) - SumFunction([w \in Wallet |-> Share(d, w, m)])

\* Mutant: only stocks that were bought carry anything on.
AppliedDust(d, m) == IF d.swap[m] = "DONE" THEN Dust(d, m) ELSE 0

\* A stock whose swap is not DONE keeps its carry; the others keep their dust.
AppliedCarry(d, m) == IF d.swap[m] = "DONE" THEN Dust(d, m) ELSE d.carryIn[m]

\* undeliveredByMint: what is neither DONE nor dust.
Undelivered(d, m) ==
  SumFunction([w \in Wallet |->
    IF d.transfer[w][m].status \in {"none", "DONE", "SKIPPED_DUST"} THEN 0
    ELSE d.transfer[w][m].amount])

CarryOut(d) == [m \in Mint |-> AppliedCarry(d, m) + Undelivered(d, m)]

-----------------------------------------------------------------------------
(* Picking up or opening a round.                                          *)

\* The refusal of a round of the other mode.
Refused(r) ==
  [round EXCEPT ![r].status = "FAILED",
                ![r].resumeFrom = IF round[r].status \notin TERMINAL THEN round[r].status
                                  ELSE IF @ # "none" THEN @ ELSE "PENDING"]

\* Mutant: an unfinished round is resumed in whatever mode.
RunAnyMode ==
  /\ pc = "idle"
  /\ retry' = FALSE
  /\ IF Unfinished = {}
       THEN opened < MaxRounds /\ pc' = "open" /\ UNCHANGED cur
       ELSE /\ pc' = "work"
            /\ cur' = CHOOSE r \in Unfinished : \A q \in Unfinished : r <= q
  /\ UNCHANGED <<round, opened, carry, mode, todo, vault, late, hazards, crashes, retries>>

\* The scheduler, a boot or an operator runs whatever is to be run.
Run ==
  /\ pc = "idle"
  /\ retry' = FALSE
  /\ IF Unfinished = {}
       THEN opened < MaxRounds /\ pc' = "open" /\ UNCHANGED <<round, cur>>
       ELSE LET r == CHOOSE r \in Unfinished : \A q \in Unfinished : r <= q IN
              IF round[r].mode = mode
                THEN pc' = "work" /\ cur' = r /\ UNCHANGED round
                ELSE /\ pc' = IF opened < MaxRounds THEN "open" ELSE "idle"
                     /\ round' = Refused(r) /\ UNCHANGED cur
  /\ UNCHANGED <<opened, carry, mode, todo, vault, late, hazards, crashes, retries>>

\* The command line opens a round without looking for an unfinished one.
RunFresh ==
  /\ pc = "idle" /\ "fresh" \in hazards /\ opened < MaxRounds
  /\ pc' = "open"
  /\ UNCHANGED <<round, opened, carry, mode, cur, retry, todo, vault, late, hazards, crashes, retries>>

Open ==
  /\ pc = "open"
  /\ opened' = opened + 1
  /\ round' = [round EXCEPT ![opened + 1] = NewRound(mode)]
  /\ pc' = "work" /\ cur' = opened + 1
  /\ UNCHANGED <<carry, mode, retry, todo, vault, late, hazards, crashes, retries>>

Failed(d, part) ==
  CASE part = "swap"     -> \E m \in Mint : d.swap[m] = "FAILED"
    [] part = "transfer" -> \E w \in Wallet, m \in Mint : d.transfer[w][m].status = "FAILED"

\* The step a finished round is reopened at: where it died, or the earliest
\* with work left.
ReopenAt(d) ==
  CASE d.status = "FAILED" -> IF d.resumeFrom = "none" THEN "PENDING" ELSE d.resumeFrom
    [] d.status = "DONE" /\ Failed(d, "swap") -> "SWAPPING"
    [] d.status = "DONE" /\ ~Failed(d, "swap") /\ Failed(d, "transfer") -> "DISTRIBUTING"
    [] OTHER -> "none"

\* Mutant: an old round may always send again what it could not deliver.
NeverCarriedOver(r) == FALSE

\* What a finished round left undelivered is the next round's.
CarriedOver(r) == ReopenAt(round[r]) = "DISTRIBUTING" /\ round[r].undelivered # Nothing /\ ~Latest(r)

\* A round is named, with --retry or without, in its own mode.
Named(r, again) ==
  /\ pc = "idle" /\ "retry" \in hazards /\ retries < MaxRetries
  /\ round[r].mode = mode
  /\ retries' = retries + 1
  /\ IF round[r].status \in TERMINAL
       THEN /\ round[r].status = "FAILED" \/ again
            /\ ReopenAt(round[r]) # "none" /\ ~CarriedOver(r)
            /\ round' = [round EXCEPT ![r].status = ReopenAt(round[r])]
       ELSE UNCHANGED round
  /\ pc' = "work" /\ cur' = r /\ retry' = again
  /\ UNCHANGED <<opened, carry, mode, todo, vault, late, hazards, crashes>>

\* A named round of the other mode is refused, whatever its status; without
\* --retry a fresh one is opened instead.
NamedRefused(r, again) ==
  /\ pc = "idle" /\ "retry" \in hazards /\ retries < MaxRetries
  /\ round[r].mode # mode /\ (again \/ opened < MaxRounds)
  /\ retries' = retries + 1
  /\ round' = Refused(r)
  /\ IF again THEN UNCHANGED pc ELSE pc' = "open"
  /\ UNCHANGED <<opened, carry, mode, cur, retry, todo, vault, late, hazards, crashes>>

\* The process is started again in another mode.
Restart ==
  /\ pc = "idle" /\ "mode" \in hazards
  /\ mode' \in Modes \ {mode}
  /\ UNCHANGED <<round, opened, carry, call, vault, late, hazards, crashes, retries>>

-----------------------------------------------------------------------------
(* PENDING and SNAPSHOT.                                                   *)

Leave == pc' = "idle" /\ cur' = NoRound /\ retry' = FALSE /\ todo' = {}

\* no_token, no_vault, low_pool; no_holders, rent_unfunded.
Skip ==
  /\ pc = "work" /\ Doc.status \in {"PENDING", "SNAPSHOT"}
  /\ round' = [round EXCEPT ![cur].status = "SKIPPED"]
  /\ Leave
  /\ UNCHANGED <<opened, carry, mode, vault, late, hazards, crashes, retries>>

ReadPool ==
  /\ pc = "work" /\ Doc.status = "PENDING"
  /\ round' = [round EXCEPT ![cur].status = "SNAPSHOT"]
  /\ UNCHANGED <<opened, carry, mode, call, vault, late, hazards, crashes, retries>>

\* The plan is frozen; a stock whose share of the pool is zero is SKIPPED.
Snapshot ==
  /\ pc = "work" /\ Doc.status = "SNAPSHOT"
  /\ \E bought \in SUBSET Mint :
       round' = [round EXCEPT ![cur].status = "SWAPPING",
                              ![cur].carryIn = carry[mode],
                              ![cur].swap = [m \in Mint |-> IF m \in bought THEN "PENDING" ELSE "SKIPPED"],
                              ![cur].received = Nothing]
  /\ UNCHANGED <<opened, carry, mode, call, vault, late, hazards, crashes, retries>>

-----------------------------------------------------------------------------
(* SWAPPING.                                                               *)

EnterSwapping ==
  /\ pc = "work" /\ Doc.status = "SWAPPING"
  /\ pc' = "swap"
  /\ todo' = {m \in Mint : Doc.swap[m] \notin SWAP_UNTOUCHABLE /\ (Doc.swap[m] = "FAILED" => retry)}
  /\ UNCHANGED <<round, opened, carry, mode, cur, retry, vault, late, hazards, crashes, retries>>

\* The signed intent is stored (a DRY_RUN has nothing to sign).
Intent(m) ==
  /\ pc = "swap" /\ m \in todo /\ Live
  /\ Doc.swap[m] \in {"PENDING", "FAILED"}
  /\ round' = [round EXCEPT ![cur].swap[m] = "SENDING"]
  /\ UNCHANGED <<opened, carry, mode, call, vault, late, hazards, crashes, retries>>

\* The fill is measured, the row is saved.
Buy(m) ==
  /\ pc = "swap" /\ m \in todo
  /\ Live => Doc.swap[m] = "SENDING"
  /\ \E n \in Fills :
       /\ round' = [round EXCEPT ![cur].swap[m] = "DONE", ![cur].received[m] = n]
       /\ vault' = IF Live THEN [vault EXCEPT ![m] = @ + n] ELSE vault
  /\ todo' = todo \ {m}
  /\ UNCHANGED <<opened, carry, mode, pc, cur, retry, late, hazards, crashes, retries>>

BuyFails(m) ==
  /\ pc = "swap" /\ m \in todo
  /\ \E answer \in {"FAILED", "UNRESOLVED"} :
       /\ answer = "FAILED" => "swap" \in hazards
       /\ answer = "UNRESOLVED" => "unresolved" \in hazards /\ Doc.swap[m] = "SENDING"
       /\ round' = [round EXCEPT ![cur].swap[m] = answer]
  /\ todo' = todo \ {m}
  /\ UNCHANGED <<opened, carry, mode, pc, cur, retry, vault, late, hazards, crashes, retries>>

\* The carry is read again when none was read before.
EndSwapping ==
  /\ pc = "swap" /\ todo = {}
  /\ round' = [round EXCEPT ![cur].status = "DISTRIBUTING",
                            ![cur].carryIn = IF @ # Nothing THEN @ ELSE carry[mode]]
  /\ pc' = "work"
  /\ UNCHANGED <<opened, carry, mode, cur, retry, todo, vault, late, hazards, crashes, retries>>

-----------------------------------------------------------------------------
(* DISTRIBUTING.                                                           *)

\* Mutant: a retry computes every row of the round anew.
RowAnew(d, w, m) ==
  IF d.swap[m] = "DONE" /\ (retry \/ d.transfer[w][m].status = "none")
    THEN [status |-> "PENDING", amount |-> Share(d, w, m)]
    ELSE d.transfer[w][m]

\* The rows of the DONE swaps: new ones are added, FAILED ones reopened on a
\* retry with what is due now, all others are kept as they are.
Row(d, w, m) ==
  LET old == d.transfer[w][m]
      due == Share(d, w, m) IN
  CASE d.swap[m] # "DONE" -> old
    [] d.swap[m] = "DONE" /\ old.status = "none" ->
         [status |-> IF due = 0 THEN "SKIPPED_DUST" ELSE "PENDING", amount |-> due]
    [] d.swap[m] = "DONE" /\ old.status = "FAILED" /\ retry ->
         [status |-> "PENDING", amount |-> due]
    [] OTHER -> old

Allocate ==
  /\ pc = "work" /\ Doc.status = "DISTRIBUTING"
  /\ round' = [round EXCEPT ![cur].transfer = [w \in Wallet |-> [m \in Mint |-> Row(Doc, w, m)]]]
  /\ pc' = "deliver"
  /\ UNCHANGED <<opened, carry, mode, cur, retry, todo, vault, late, hazards, crashes, retries>>

\* One transfer row gets its answer.  Only what the vault holds can leave it.
Deliver(w, m) ==
  LET amount == Doc.transfer[w][m].amount IN
  /\ pc = "deliver" /\ Doc.transfer[w][m].status = "PENDING"
  /\ \E answer \in {"DONE", "FAILED", "UNRESOLVED", "SKIPPED_DUST"} :
       /\ answer = "SKIPPED_DUST" <=> Live /\ amount = 0
       /\ answer = "DONE" /\ Live => amount <= vault[m]
       /\ answer = "FAILED" => Live /\ ("transfer" \in hazards \/ amount > vault[m])
       /\ answer = "UNRESOLVED" => Live /\ "unresolved" \in hazards
       /\ round' = [round EXCEPT ![cur].transfer[w][m].status = answer]
       /\ vault' = IF Live /\ answer = "DONE" THEN [vault EXCEPT ![m] = @ - amount] ELSE vault
  /\ UNCHANGED <<opened, carry, mode, call, late, hazards, crashes, retries>>

\* Mutant: a transfer that failed is waited for.
DeliveredAll ==
  \A w \in Wallet, m \in Mint : Doc.transfer[w][m].status \in {"none", "DONE", "SKIPPED_DUST"}

Delivered == \A w \in Wallet, m \in Mint : Doc.transfer[w][m].status # "PENDING"

\* The carry key first, and only for the newest round ...
WriteCarry ==
  /\ pc = "deliver" /\ Delivered
  /\ carry' = IF Latest(cur) THEN [carry EXCEPT ![mode] = CarryOut(Doc)] ELSE carry
  /\ pc' = "close"
  /\ UNCHANGED <<round, opened, mode, cur, retry, todo, vault, late, hazards, crashes, retries>>

\* ... then the round.
Close ==
  /\ pc = "close"
  /\ round' = [round EXCEPT ![cur].status = "DONE",
                            ![cur].carryOut = CarryOut(Doc),
                            ![cur].undelivered = [m \in Mint |-> Undelivered(Doc, m)]]
  /\ Leave
  /\ UNCHANGED <<opened, carry, mode, vault, late, hazards, crashes, retries>>

-----------------------------------------------------------------------------
(* What may happen at any time.                                            *)

\* A step throws: the round is FAILED, and knows where.
Throw ==
  /\ pc \in {"work", "swap", "deliver", "close"} /\ "throw" \in hazards
  /\ crashes < MaxCrashes /\ crashes' = crashes + 1
  /\ Doc.status \in Steps
  /\ round' = [round EXCEPT ![cur].status = "FAILED", ![cur].resumeFrom = Doc.status]
  /\ Leave
  /\ UNCHANGED <<opened, carry, mode, vault, late, hazards, retries>>

Crash ==
  /\ pc # "idle" /\ "crash" \in hazards /\ crashes < MaxCrashes
  /\ crashes' = crashes + 1
  /\ Leave
  /\ UNCHANGED <<round, opened, carry, mode, vault, late, hazards, retries>>

\* An unresolved transfer turns out to have been paid.
LateLanding(r, w, m) ==
  /\ round[r].transfer[w][m].status = "UNRESOLVED" /\ <<r, w, m>> \notin late
  /\ round[r].transfer[w][m].amount <= vault[m]
  /\ late' = late \cup {<<r, w, m>>}
  /\ vault' = [vault EXCEPT ![m] = @ - round[r].transfer[w][m].amount]
  /\ UNCHANGED <<round, opened, carry, mode, call, hazards, crashes, retries>>

-----------------------------------------------------------------------------
Working ==
  \/ Open \/ Skip \/ ReadPool \/ Snapshot
  \/ EnterSwapping \/ (\E m \in Mint : Intent(m) \/ Buy(m) \/ BuyFails(m)) \/ EndSwapping
  \/ Allocate \/ (\E w \in Wallet, m \in Mint : Deliver(w, m)) \/ WriteCarry \/ Close

Next ==
  \/ Run \/ RunFresh \/ Restart
  \/ \E r \in Opened, again \in BOOLEAN : Named(r, again) \/ NamedRefused(r, again)
  \/ Working \/ Throw \/ Crash
  \/ \E r \in Opened, w \in Wallet, m \in Mint : LateLanding(r, w, m)

Spec == Init /\ [][Next]_vars

\* The process runs, and an unfinished round is picked up again (at boot, at
\* the next mark).
FairSpec == Spec /\ WF_vars(Working) /\ WF_vars(Run)

-----------------------------------------------------------------------------
(* Properties.                                                             *)

\* No fate stays unknown, no step throws, nobody changes the mode or opens a
\* round over an unfinished one: what is left is what every round may meet.
Undisturbed == hazards \cap {"unresolved", "throw", "mode", "fresh"} = {}

\* Nobody names a round to a process of the other mode.
NeverRefused == ~({"mode", "retry"} \subseteq hazards)

\* When every round is finished and none is FAILED ...
Settled == pc = "idle" /\ \A r \in Opened : round[r].status \in {"DONE", "SKIPPED"}

\* ... the carry key says exactly what the vault holds: nothing bought is
\* stranded outside it, and no round will be told to hand out what is not there.
CarryIsTheVault == Undisturbed /\ Settled => carry["LIVE"] = vault

\* The rows a LIVE round still has to send never ask for more than there is.
EveryTransferIsFunded ==
  Undisturbed => \A r \in Opened, m \in Mint :
    round[r].mode = "LIVE" /\ round[r].status = "DISTRIBUTING" =>
      SumFunction([w \in Wallet |->
        IF round[r].transfer[w][m].status = "PENDING" THEN round[r].transfer[w][m].amount ELSE 0])
      <= vault[m]

\* The published document adds up: for every stock that was bought, the rows
\* and the dust are what was received and what was carried in.
RoundAddsUp ==
  NeverRefused => \A r \in Opened, m \in Mint :
    round[r].status = "DONE" /\ round[r].swap[m] = "DONE" =>
      SumFunction([w \in Wallet |-> round[r].transfer[w][m].amount])
        + (round[r].carryOut[m] - round[r].undelivered[m])
      = round[r].received[m] + round[r].carryIn[m]

\* "Steps already completed (SOL already spent, transfers already confirmed)
\* are never redone": a DONE swap keeps its fill, a DONE transfer its amount.
DoneIsFinal ==
  [][ NeverRefused =>
      \A r \in Opened, m \in Mint :
        /\ round[r].swap[m] = "DONE" =>
             round'[r].swap[m] = "DONE" /\ round'[r].received[m] = round[r].received[m]
        /\ \A w \in Wallet : round[r].transfer[w][m].status = "DONE" =>
             round'[r].transfer[w][m] = round[r].transfer[w][m] ]_vars

\* A round is only ever worked on in the mode it was opened in, and a rehearsal
\* moves neither the tokens nor the live carry key.
ModesDoNotMix ==
  [][ /\ \A r \in Opened : round'[r] # round[r] =>
           mode = round[r].mode \/ round'[r].status = "FAILED"
      /\ carry'["LIVE"] # carry["LIVE"] => mode = "LIVE" ]_vars

\* Every round that was opened is settled one way or another.
RoundsFinish == \A r \in RoundId : round[r].status \in Steps ~> round[r].status \in TERMINAL

\* The books balance: what is in the vault is in the carry key, and what is in a
\* closed document adds up (runner.js:1138-1160, round.js applySwapResults).
BooksBalance == CarryIsTheVault /\ RoundAddsUp

\* What has happened stays as it happened, and belongs to the mode it happened in.
HistoryStands == DoneIsFinal /\ ModesDoNotMix

-----------------------------------------------------------------------------
(* The inductive invariants behind the safety properties (RoundProofs).    *)

\* No round is ever retried for its swaps: the environments of disagreement
\* runner.js:653 and of the carry read twice (runner.js:1050) are left out.
SwapsAreNotRetried == \A H \in HazardSets : ~({"swap", "retry"} \subseteq H)

\* Where the running call is, and in which mode.
CallInv ==
  /\ "mode" \notin hazards => mode = "LIVE" /\ \A r \in RoundId : round[r].mode = "LIVE"
  /\ pc = "open" => opened < MaxRounds
  /\ pc \in {"work", "swap", "deliver", "close"} => cur \in Opened /\ Doc.mode = mode /\ Doc.status \in Steps
  /\ pc = "swap" => Doc.status = "SWAPPING" /\ \A m \in todo : Doc.swap[m] \notin SWAP_UNTOUCHABLE
  /\ pc \in {"deliver", "close"} => Doc.status = "DISTRIBUTING"

\* A round that is, or would be reopened, at one of these steps.
At(d, steps) == d.status \in steps \/ (d.status = "FAILED" /\ d.resumeFrom \in steps)
Early        == {"none", "PENDING", "SNAPSHOT"}

\* Nothing has been bought or allocated before the plan is frozen.
EarlyInv ==
  NeverRefused => \A r \in RoundId : At(round[r], Early) =>
    round[r].swap = [m \in Mint |-> "none"]

\* The rows of a round: a row is there only for a stock that was bought, its
\* amount is the share of what there is to share; a finished round has them all.
RowInv(d) ==
  /\ At(d, Early \cup {"SWAPPING"}) => \A w \in Wallet, m \in Mint : d.transfer[w][m].status = "none"
  /\ \A m \in Mint : d.swap[m] # "DONE" => d.received[m] = 0
  /\ \A w \in Wallet, m \in Mint : LET row == d.transfer[w][m] IN
       /\ row.amount = IF row.status = "none" THEN 0 ELSE Share(d, w, m)
       /\ row.status # "none" => d.swap[m] = "DONE"
       /\ row.status = "SKIPPED_DUST" => row.amount = 0
       /\ row.status = "FAILED" => row.amount > 0

Complete(d) == \A w \in Wallet, m \in Mint : d.swap[m] = "DONE" => d.transfer[w][m].status # "none"

RowsInv ==
  NeverRefused =>
    /\ \A r \in RoundId : RowInv(round[r])
    /\ \A r \in RoundId, m \in Mint : round[r].swap[m] = "FAILED" => "swap" \in hazards
    /\ \A r \in RoundId : round[r].status = "DONE" =>
         /\ Complete(round[r])
         /\ round[r].carryOut = CarryOut(round[r])
         /\ round[r].undelivered = [m \in Mint |-> Undelivered(round[r], m)]
    /\ pc \in {"deliver", "close"} => Complete(Doc)

\* What the DONE rows of a stock took out of the vault.
Paid(d, m) == SumFunction([w \in Wallet |-> IF d.transfer[w][m].status = "DONE" THEN d.transfer[w][m].amount ELSE 0])

\* The vault holds what the carry key says, until the newest round has bought;
\* then what there is to share and has not been paid.
MoneyInv(d) ==
  /\ d.status \notin {"SWAPPING", "DISTRIBUTING"} => vault = carry["LIVE"]
  /\ d.status = "SWAPPING" => d.carryIn = carry["LIVE"]
  /\ d.status \in {"SWAPPING", "DISTRIBUTING", "DONE"} => \A m \in Mint : vault[m] + Paid(d, m) = Total(d, m)
  /\ pc = "close" => carry["LIVE"] = CarryOut(d)

\* Only the newest round is not finished.
VaultInv ==
  Undisturbed =>
    /\ \A r \in Opened : round[r].status # "FAILED" /\ (r # opened => round[r].status \in TERMINAL)
    /\ pc = "open" => Unfinished = {}
    /\ pc \in {"work", "swap", "deliver", "close"} => cur = opened
    /\ \A r \in RoundId, w \in Wallet, m \in Mint : round[r].transfer[w][m].status # "UNRESOLVED"
    /\ opened = 0 => vault = carry["LIVE"]
    /\ opened # 0 => MoneyInv(round[opened])

IInv == TypeOK /\ CallInv /\ EarlyInv /\ RowsInv /\ VaultInv
=============================================================================
