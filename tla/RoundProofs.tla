---------------------------- MODULE RoundProofs -----------------------------
(***************************************************************************)
(* TLAPS proofs about Round, for any stocks, wallets, weights and fills    *)
(* and any number of rounds, retries and crashes.                          *)
(***************************************************************************)
EXTENDS Round, Sums

-----------------------------------------------------------------------------
(* The arithmetic of a round.                                              *)

LEMMA TotalWeightPositive == TotalWeight \in Nat \ {0}
<1>1. Weight \in [Wallet -> Nat] /\ \A w \in Wallet : Weight[w] > 0
  BY WeightAssumption
<1>2. PICK w \in Wallet : TRUE
  BY SizesAssumption
<1>3. TotalWeight \in Nat /\ Weight[w] <= TotalWeight
  BY <1>1, SumType, SumMember, SizesAssumption DEF TotalWeight
<1> QED
  BY <1>1, <1>3

\* Nobody's share is more than the weight earns.
LEMMA ShareBound ==
  ASSUME NEW d \in RoundDoc, NEW m \in Mint, NEW w \in Wallet
  PROVE  Total(d, m) \in Nat /\ Share(d, w, m) \in Nat /\ TotalWeight * Share(d, w, m) <= Total(d, m) * Weight[w]
<1>1. \A a \in Nat, b \in Nat \ {0} : a \div b \in Nat /\ b * (a \div b) <= a
  OBVIOUS
<1>2. Total(d, m) \in Nat /\ Weight[w] \in Nat
  BY WeightAssumption DEF RoundDoc, Total
<1>3. Total(d, m) * Weight[w] \in Nat
  <2>1. \A a, b \in Nat : a * b \in Nat
    OBVIOUS
  <2> QED
    BY <1>2, <2>1
<1> QED
  BY <1>1, <1>2, <1>3, TotalWeightPositive DEF Share

\* The shares never come to more than there is to share.
LEMMA SharesFit ==
  ASSUME NEW d \in RoundDoc, NEW m \in Mint
  PROVE  LET due == [w \in Wallet |-> Share(d, w, m)] IN
         due \in [Wallet -> Nat] /\ SumFunction(due) \in Nat /\ SumFunction(due) <= Total(d, m)
<1> DEFINE due == [w \in Wallet |-> Share(d, w, m)]
<1>1. due \in [Wallet -> Nat] /\ \A w \in Wallet : TotalWeight * due[w] <= Total(d, m) * Weight[w]
  BY ShareBound
<1>2. Weight \in [Wallet -> Nat] /\ TotalWeight \in Nat /\ Total(d, m) \in Nat
  BY WeightAssumption, TotalWeightPositive DEF RoundDoc, Total
<1> HIDE DEF due
<1>3. TotalWeight * SumFunction(due) <= Total(d, m) * TotalWeight
  BY <1>1, <1>2, SumScaled, SizesAssumption DEF TotalWeight
<1>4. SumFunction(due) \in Nat
  BY <1>1, SumType, SizesAssumption
<1>5. \A a, b \in Nat, c \in Nat \ {0} : c * a <= b * c => a <= b
  OBVIOUS
<1>6. SumFunction(due) <= Total(d, m)
  BY <1>2, <1>3, <1>4, <1>5, TotalWeightPositive
<1> QED
  BY <1>1, <1>4, <1>6 DEF due

\* One function per kind of row.
Amounts(d, m) == [w \in Wallet |-> d.transfer[w][m].amount]
DoneRows(d, m) ==
  [w \in Wallet |-> IF d.transfer[w][m].status = "DONE" THEN d.transfer[w][m].amount ELSE 0]
OpenRows(d, m) ==
  [w \in Wallet |-> IF d.transfer[w][m].status = "PENDING" THEN d.transfer[w][m].amount ELSE 0]
LeftRows(d, m) ==
  [w \in Wallet |-> IF d.transfer[w][m].status \in {"none", "DONE", "SKIPPED_DUST"} THEN 0
                    ELSE d.transfer[w][m].amount]

LEMMA RowsAreNat ==
  ASSUME NEW d \in RoundDoc, NEW m \in Mint
  PROVE  /\ Amounts(d, m) \in [Wallet -> Nat] /\ DoneRows(d, m) \in [Wallet -> Nat]
         /\ OpenRows(d, m) \in [Wallet -> Nat] /\ LeftRows(d, m) \in [Wallet -> Nat]
BY DEF RoundDoc, Amounts, DoneRows, OpenRows, LeftRows

LEMMA RowSums ==
  ASSUME NEW d \in RoundDoc, NEW m \in Mint
  PROVE  /\ Paid(d, m) = SumFunction(DoneRows(d, m)) /\ Paid(d, m) \in Nat
         /\ Undelivered(d, m) = SumFunction(LeftRows(d, m)) /\ Undelivered(d, m) \in Nat
         /\ SumFunction(OpenRows(d, m)) \in Nat /\ SumFunction(Amounts(d, m)) \in Nat
<1>1. Paid(d, m) = SumFunction(DoneRows(d, m)) /\ Undelivered(d, m) = SumFunction(LeftRows(d, m))
  BY DEF Paid, DoneRows, Undelivered, LeftRows
<1> QED
  BY <1>1, RowsAreNat, SumType, SizesAssumption

\* What a round carries on is a number of tokens.
LEMMA CarryType ==
  ASSUME NEW d \in RoundDoc
  PROVE  CarryOut(d) \in [Mint -> Nat] /\ \A m \in Mint : AppliedCarry(d, m) \in Nat
<1>1. ASSUME NEW m \in Mint PROVE AppliedCarry(d, m) \in Nat
  <2>1. Total(d, m) \in Nat /\ d.carryIn[m] \in Nat
    BY DEF RoundDoc, Total
  <2>2. Dust(d, m) \in Nat
    BY <2>1, SharesFit DEF Dust
  <2> QED
    BY <2>1, <2>2 DEF AppliedCarry
<1> QED
  BY <1>1, RowSums DEF CarryOut

\* The rows that are done and the rows that are left are all the rows.
LEMMA RowsSplit ==
  ASSUME NEW d \in RoundDoc, NEW m \in Mint, RowInv(d)
  PROVE  Paid(d, m) + Undelivered(d, m) = SumFunction(Amounts(d, m))
<1>1. ASSUME NEW w \in Wallet PROVE DoneRows(d, m)[w] + LeftRows(d, m)[w] = Amounts(d, m)[w]
  <2> DEFINE row == d.transfer[w][m]
  <2>1. row.amount \in Nat /\ (row.status \in {"none", "SKIPPED_DUST"} => row.amount = 0)
    BY DEF RoundDoc, RowInv
  <2> QED
    BY <2>1 DEF DoneRows, LeftRows, Amounts
<1> QED
  BY <1>1, SumPlus, RowsAreNat, RowSums, SizesAssumption

\* A complete round hands out, of a stock it bought, exactly the shares.
LEMMA RowsAreShares ==
  ASSUME NEW d \in RoundDoc, NEW m \in Mint, RowInv(d), Complete(d), d.swap[m] = "DONE"
  PROVE  Amounts(d, m) = [w \in Wallet |-> Share(d, w, m)]
BY DEF RowInv, Complete, Amounts

\* What a complete round paid and what it carries on is what it had.
LEMMA NothingIsLost ==
  ASSUME NEW d \in RoundDoc, NEW m \in Mint, RowInv(d), Complete(d)
  PROVE  CarryOut(d)[m] + Paid(d, m) = Total(d, m)
<1>1. Paid(d, m) \in Nat /\ Undelivered(d, m) \in Nat /\ Paid(d, m) + Undelivered(d, m) = SumFunction(Amounts(d, m))
  BY RowSums, RowsSplit
<1>2. CarryOut(d)[m] = AppliedCarry(d, m) + Undelivered(d, m) /\ AppliedCarry(d, m) \in Nat
  BY CarryType DEF CarryOut
<1>3. Total(d, m) \in Nat
  BY DEF RoundDoc, Total
<1>4. CASE d.swap[m] = "DONE"
  <2>1. AppliedCarry(d, m) = Total(d, m) - SumFunction(Amounts(d, m))
    BY <1>4, RowsAreShares DEF AppliedCarry, Dust
  <2> QED
    BY <1>1, <1>2, <1>3, <2>1, RowSums
<1>5. CASE d.swap[m] # "DONE"
  <2>1. AppliedCarry(d, m) = Total(d, m)
    BY <1>5 DEF AppliedCarry, RowInv, Total, RoundDoc
  <2>2. \A w \in Wallet : Amounts(d, m)[w] = 0
    BY <1>5 DEF RowInv, Amounts
  <2>3. SumFunction(Amounts(d, m)) = 0
    <3>1. \A w \in Wallet : 1 * Amounts(d, m)[w] <= 0 * Amounts(d, m)[w]
      BY <2>2
    <3>2. 1 * SumFunction(Amounts(d, m)) <= 0 * SumFunction(Amounts(d, m))
      BY <3>1, SumScaled, RowsAreNat, SizesAssumption
    <3> QED
      BY <3>2, RowSums
  <2> QED
    BY <1>1, <1>2, <1>3, <2>1, <2>3
<1> QED
  BY <1>4, <1>5

\* What is paid and what is still to be sent never come to more than there is.
LEMMA RowsAreFunded ==
  ASSUME NEW d \in RoundDoc, NEW m \in Mint, RowInv(d)
  PROVE  Paid(d, m) + SumFunction(OpenRows(d, m)) <= Total(d, m)
<1> DEFINE due  == [w \in Wallet |-> Share(d, w, m)]
           both == [w \in Wallet |-> DoneRows(d, m)[w] + OpenRows(d, m)[w]]
<1>1. due \in [Wallet -> Nat] /\ SumFunction(due) \in Nat /\ SumFunction(due) <= Total(d, m)
  BY SharesFit
<1>2. DoneRows(d, m) \in [Wallet -> Nat] /\ OpenRows(d, m) \in [Wallet -> Nat]
  BY RowsAreNat
<1>3. both \in [Wallet -> Nat] /\ \A w \in Wallet : DoneRows(d, m)[w] + OpenRows(d, m)[w] = both[w]
  BY <1>2
<1>4. ASSUME NEW w \in Wallet PROVE both[w] <= due[w]
  <2> DEFINE row == d.transfer[w][m]
  <2>1. row.amount \in Nat /\ Share(d, w, m) \in Nat
    BY ShareBound DEF RoundDoc
  <2>2. row.status # "none" => row.amount = Share(d, w, m)
    BY DEF RowInv
  <2> QED
    BY <2>1, <2>2 DEF DoneRows, OpenRows
<1> HIDE DEF due, both
<1>5. Paid(d, m) + SumFunction(OpenRows(d, m)) = SumFunction(both)
  BY <1>2, <1>3, SumPlus, RowSums, SizesAssumption
<1>6. SumFunction(both) <= SumFunction(due)
  <2>1. \A w \in Wallet : 1 * both[w] <= 1 * due[w]
    BY <1>1, <1>3, <1>4
  <2>2. 1 * SumFunction(both) <= 1 * SumFunction(due)
    BY <2>1, <1>1, <1>3, SumScaled, SizesAssumption
  <2>3. SumFunction(both) \in Nat
    BY <1>3, SumType, SizesAssumption
  <2> QED
    BY <2>2, <2>3, <1>1
<1>7. Total(d, m) \in Nat /\ SumFunction(both) \in Nat
  BY <1>3, SumType, SizesAssumption DEF RoundDoc, Total
<1> QED
  BY <1>1, <1>5, <1>6, <1>7

\* Nothing is paid before there are rows.
LEMMA NothingPaidYet ==
  ASSUME NEW d \in RoundDoc, NEW m \in Mint, \A w \in Wallet : d.transfer[w][m].status # "DONE"
  PROVE  Paid(d, m) = 0
<1>1. \A w \in Wallet : 1 * DoneRows(d, m)[w] <= 0 * DoneRows(d, m)[w]
  BY DEF DoneRows
<1>2. 1 * SumFunction(DoneRows(d, m)) <= 0 * SumFunction(DoneRows(d, m))
  BY <1>1, SumScaled, RowsAreNat, SizesAssumption
<1> QED
  BY <1>2, RowSums

-----------------------------------------------------------------------------
(* What a step does to the documents.                                      *)

\* The next-state relation, action by action.
LEMMA NextCases ==
  ASSUME [Next]_vars
  PROVE  \/ Run \/ RunFresh \/ Restart
         \/ (\E r \in Opened, again \in BOOLEAN : Named(r, again))
         \/ (\E r \in Opened, again \in BOOLEAN : NamedRefused(r, again))
         \/ Open \/ Skip \/ ReadPool \/ Snapshot \/ EnterSwapping
         \/ (\E m \in Mint : Intent(m)) \/ (\E m \in Mint : Buy(m)) \/ (\E m \in Mint : BuyFails(m))
         \/ EndSwapping \/ Allocate \/ (\E w \in Wallet, m \in Mint : Deliver(w, m))
         \/ WriteCarry \/ Close \/ Throw \/ Crash
         \/ (\E r \in Opened, w \in Wallet, m \in Mint : LateLanding(r, w, m))
         \/ UNCHANGED vars
BY DEF Next, Working

\* Round r becomes e; the others stay.
Becomes(r, e) ==
  /\ e \in RoundDoc
  /\ round' \in [RoundId -> RoundDoc] /\ round'[r] = e
  /\ \A q \in RoundId \ {r} : round'[q] = round[q]

\* Only where the round is changes, not what was done in it.
SameWork(d, e) ==
  /\ e.mode = d.mode /\ e.swap = d.swap /\ e.received = d.received /\ e.carryIn = d.carryIn
  /\ e.transfer = d.transfer /\ e.carryOut = d.carryOut /\ e.undelivered = d.undelivered

LEMMA OpenedRounds ==
  ASSUME TypeOK
  PROVE  /\ Opened \subseteq RoundId
         /\ \A r \in RoundId : r \in Opened <=> round[r].status # "none"
BY BoundsAssumption DEF TypeOK, Opened, RoundId

LEMMA EditBecomes ==
  ASSUME TypeOK, NEW r \in RoundId, NEW e \in RoundDoc, round' = [round EXCEPT ![r] = e]
  PROVE  Becomes(r, e)
BY DEF TypeOK, Becomes

\* The round of the running call is one of the opened ones.
LEMMA CurOpened ==
  ASSUME TypeOK, CallInv, pc \in {"work", "swap", "deliver", "close"}
  PROVE  cur \in RoundId /\ cur \in Opened /\ Doc \in RoundDoc /\ Doc.mode = mode /\ Doc.status \in Steps
BY OpenedRounds DEF CallInv, TypeOK, Doc

\* A round that is refused knows where it was.
LEMMA RefusedDoc ==
  ASSUME TypeOK, NEW r \in Opened, round' = Refused(r)
  PROVE  \E e : /\ Becomes(r, e) /\ SameWork(round[r], e) /\ e.status = "FAILED"
                /\ round[r].status \notin TERMINAL => e.resumeFrom = round[r].status
<1> DEFINE from == IF round[r].status \notin TERMINAL THEN round[r].status
                   ELSE IF round[r].resumeFrom # "none" THEN round[r].resumeFrom ELSE "PENDING"
           e    == [round[r] EXCEPT !.status = "FAILED", !.resumeFrom = from]
<1>1. r \in RoundId /\ round[r] \in RoundDoc /\ round[r].status # "none"
  BY OpenedRounds DEF TypeOK
<1>2. from \in Steps \cup {"none"}
  BY <1>1 DEF RoundDoc, Steps, TERMINAL
<1>3. e \in RoundDoc /\ SameWork(round[r], e) /\ e.status = "FAILED" /\ e.resumeFrom = from
  BY <1>1, <1>2 DEF RoundDoc, SameWork, TERMINAL
<1>4. round' = [round EXCEPT ![r] = e]
  BY <1>1 DEF Refused, TypeOK
<1> HIDE DEF e
<1>5. Becomes(r, e)
  BY <1>1, <1>3, <1>4, EditBecomes
<1> QED
  BY <1>3, <1>5

\* A round that is named again goes on, or is reopened.
LEMMA NamedDoc ==
  ASSUME TypeOK, NEW r \in Opened, NEW again \in BOOLEAN, Named(r, again)
  PROVE  \/ round[r].status \notin TERMINAL /\ round' = round
         \/ \E e : /\ Becomes(r, e) /\ SameWork(round[r], e) /\ e.resumeFrom = round[r].resumeFrom
                   /\ e.status = ReopenAt(round[r]) /\ e.status \in Steps
                   /\ ~CarriedOver(r) /\ round[r].status \in TERMINAL
<1>1. r \in RoundId /\ round[r] \in RoundDoc
  BY OpenedRounds DEF TypeOK
<1>2. CASE round[r].status \in TERMINAL
  <2> DEFINE e == [round[r] EXCEPT !.status = ReopenAt(round[r])]
  <2>1. ReopenAt(round[r]) \in Steps
    <3>1. ReopenAt(round[r]) # "none"
      BY <1>2 DEF Named
    <3>2. ReopenAt(round[r]) \in Steps \cup {"none"}
      BY <1>1 DEF ReopenAt, RoundDoc, Steps
    <3> QED
      BY <3>1, <3>2
  <2>2. e \in RoundDoc /\ SameWork(round[r], e) /\ e.status = ReopenAt(round[r]) /\ e.resumeFrom = round[r].resumeFrom
    BY <1>1, <2>1 DEF RoundDoc, SameWork
  <2>3. round' = [round EXCEPT ![r] = e] /\ ~CarriedOver(r)
    BY <1>1, <1>2 DEF Named, TypeOK
  <2> HIDE DEF e
  <2>4. Becomes(r, e)
    BY <1>1, <2>2, <2>3, EditBecomes
  <2> QED
    BY <1>2, <2>1, <2>2, <2>3, <2>4
<1>3. CASE round[r].status \notin TERMINAL
  BY <1>3 DEF Named
<1> QED
  BY <1>2, <1>3

LEMMA OpenDoc ==
  ASSUME TypeOK, CallInv, Open
  PROVE  opened + 1 \in RoundId /\ Becomes(opened + 1, NewRound(mode)) /\ round[opened + 1].status = "none"
<1>1. opened + 1 \in RoundId /\ opened \in Nat
  BY BoundsAssumption DEF TypeOK, CallInv, Open, RoundId
<1>2. NewRound(mode) \in RoundDoc
  BY DEF NewRound, RoundDoc, TypeOK, Nothing, NoRow, SwapStatus, RowStatus, Steps
<1>3. Becomes(opened + 1, NewRound(mode))
  BY <1>1, <1>2, EditBecomes DEF Open
<1> QED
  BY <1>1, <1>3 DEF TypeOK

LEMMA SkipDoc ==
  ASSUME TypeOK, CallInv, Skip
  PROVE  \E e : Becomes(cur, e) /\ SameWork(Doc, e) /\ e.status = "SKIPPED" /\ Doc.status \in {"PENDING", "SNAPSHOT"}
<1> DEFINE e == [Doc EXCEPT !.status = "SKIPPED"]
<1>1. cur \in RoundId /\ Doc \in RoundDoc
  BY CurOpened DEF Skip
<1>2. e \in RoundDoc /\ SameWork(Doc, e) /\ e.status = "SKIPPED"
  BY <1>1 DEF RoundDoc, SameWork, TERMINAL
<1>3. round' = [round EXCEPT ![cur] = e]
  BY <1>1 DEF Skip, Doc, TypeOK
<1> HIDE DEF e
<1> QED
  BY <1>1, <1>2, <1>3, EditBecomes DEF Skip

LEMMA ReadPoolDoc ==
  ASSUME TypeOK, CallInv, ReadPool
  PROVE  \E e : Becomes(cur, e) /\ SameWork(Doc, e) /\ e.status = "SNAPSHOT" /\ Doc.status = "PENDING"
<1> DEFINE e == [Doc EXCEPT !.status = "SNAPSHOT"]
<1>1. cur \in RoundId /\ Doc \in RoundDoc
  BY CurOpened DEF ReadPool
<1>2. e \in RoundDoc /\ SameWork(Doc, e) /\ e.status = "SNAPSHOT"
  BY <1>1 DEF RoundDoc, SameWork, Steps
<1>3. round' = [round EXCEPT ![cur] = e]
  BY <1>1 DEF ReadPool, Doc, TypeOK
<1> HIDE DEF e
<1> QED
  BY <1>1, <1>2, <1>3, EditBecomes DEF ReadPool

LEMMA ThrowDoc ==
  ASSUME TypeOK, CallInv, Throw
  PROVE  \E e : Becomes(cur, e) /\ SameWork(Doc, e) /\ e.status = "FAILED" /\ e.resumeFrom = Doc.status
<1> DEFINE e == [Doc EXCEPT !.status = "FAILED", !.resumeFrom = Doc.status]
<1>1. cur \in RoundId /\ Doc \in RoundDoc /\ Doc.status \in Steps
  BY CurOpened DEF Throw
<1>2. e \in RoundDoc /\ SameWork(Doc, e) /\ e.status = "FAILED" /\ e.resumeFrom = Doc.status
  BY <1>1 DEF RoundDoc, SameWork, TERMINAL
<1>3. round' = [round EXCEPT ![cur] = e]
  BY <1>1 DEF Throw, Doc, TypeOK
<1> HIDE DEF e
<1> QED
  BY <1>1, <1>2, <1>3, EditBecomes

LEMMA SnapshotDoc ==
  ASSUME TypeOK, CallInv, Snapshot
  PROVE  \E e : /\ Becomes(cur, e) /\ Doc.status = "SNAPSHOT" /\ e.status = "SWAPPING" /\ e.mode = Doc.mode
                /\ e.carryIn = carry[mode] /\ e.received = Nothing /\ e.swap \in [Mint -> {"PENDING", "SKIPPED"}]
                /\ e.transfer = Doc.transfer
<1>1. cur \in RoundId /\ Doc \in RoundDoc /\ Doc.status = "SNAPSHOT" /\ carry[mode] \in [Mint -> Nat]
  BY CurOpened DEF Snapshot, TypeOK
<1>2. PICK bought \in SUBSET Mint :
         round' = [round EXCEPT ![cur].status = "SWAPPING",
                                ![cur].carryIn = carry[mode],
                                ![cur].swap = [m \in Mint |-> IF m \in bought THEN "PENDING" ELSE "SKIPPED"],
                                ![cur].received = Nothing]
  BY DEF Snapshot
<1> DEFINE plan == [m \in Mint |-> IF m \in bought THEN "PENDING" ELSE "SKIPPED"]
           e    == [Doc EXCEPT !.status = "SWAPPING", !.carryIn = carry[mode], !.swap = plan, !.received = Nothing]
<1>3. plan \in [Mint -> {"PENDING", "SKIPPED"}] /\ Nothing \in [Mint -> Nat]
  BY DEF Nothing
<1> HIDE DEF plan
<1>4. plan \in [Mint -> SwapStatus]
  BY <1>3 DEF SwapStatus
<1>5. /\ e \in RoundDoc /\ e.status = "SWAPPING" /\ e.mode = Doc.mode /\ e.carryIn = carry[mode]
      /\ e.received = Nothing /\ e.swap = plan /\ e.transfer = Doc.transfer
  BY <1>1, <1>3, <1>4 DEF RoundDoc, Steps
<1>6. round' = [round EXCEPT ![cur] = e]
  BY <1>1, <1>2 DEF Doc, TypeOK, plan
<1> HIDE DEF e
<1> QED
  BY <1>1, <1>3, <1>5, <1>6, EditBecomes

LEMMA IntentDoc ==
  ASSUME TypeOK, CallInv, NEW m \in Mint, Intent(m)
  PROVE  \E e : /\ Becomes(cur, e) /\ e.status = Doc.status /\ e.resumeFrom = Doc.resumeFrom /\ e.mode = Doc.mode
                /\ e.carryIn = Doc.carryIn /\ e.received = Doc.received /\ e.transfer = Doc.transfer
                /\ e.swap = [Doc.swap EXCEPT ![m] = "SENDING"]
                /\ Doc.swap[m] \in {"PENDING", "FAILED"}
<1> DEFINE e == [Doc EXCEPT !.swap[m] = "SENDING"]
<1>1. cur \in RoundId /\ Doc \in RoundDoc
  BY CurOpened DEF Intent
<1>2. /\ e \in RoundDoc /\ e.status = Doc.status /\ e.resumeFrom = Doc.resumeFrom /\ e.mode = Doc.mode
      /\ e.carryIn = Doc.carryIn /\ e.received = Doc.received /\ e.transfer = Doc.transfer
      /\ e.swap = [Doc.swap EXCEPT ![m] = "SENDING"]
  BY <1>1 DEF RoundDoc, SwapStatus
<1>3. round' = [round EXCEPT ![cur] = e]
  BY <1>1 DEF Intent, Doc, TypeOK
<1> HIDE DEF e
<1> QED
  BY <1>1, <1>2, <1>3, EditBecomes DEF Intent

LEMMA BuyDoc ==
  ASSUME TypeOK, CallInv, NEW m \in Mint, Buy(m)
  PROVE  \E e :
           /\ Becomes(cur, e) /\ e.status = Doc.status /\ e.resumeFrom = Doc.resumeFrom /\ e.mode = Doc.mode
           /\ e.carryIn = Doc.carryIn /\ e.transfer = Doc.transfer
           /\ e.swap = [Doc.swap EXCEPT ![m] = "DONE"]
           /\ \A k \in Mint \ {m} : e.received[k] = Doc.received[k] /\ vault'[k] = vault[k]
           /\ Doc.status = "SWAPPING" /\ Doc.swap[m] # "DONE"
           /\ vault'[m] = IF Live THEN vault[m] + e.received[m] ELSE vault[m]
<1>1. cur \in RoundId /\ Doc \in RoundDoc /\ Doc.status = "SWAPPING" /\ Doc.swap[m] # "DONE"
  BY CurOpened DEF Buy, CallInv, SWAP_UNTOUCHABLE
<1>2. PICK n \in Nat : /\ round' = [round EXCEPT ![cur].swap[m] = "DONE", ![cur].received[m] = n]
                       /\ vault' = IF Live THEN [vault EXCEPT ![m] = @ + n] ELSE vault
  BY WeightAssumption DEF Buy
<1> DEFINE e == [Doc EXCEPT !.swap = [Doc.swap EXCEPT ![m] = "DONE"], !.received = [Doc.received EXCEPT ![m] = n]]
<1>3. /\ e \in RoundDoc /\ e.status = Doc.status /\ e.resumeFrom = Doc.resumeFrom /\ e.mode = Doc.mode
      /\ e.carryIn = Doc.carryIn /\ e.transfer = Doc.transfer
      /\ e.swap = [Doc.swap EXCEPT ![m] = "DONE"] /\ e.received = [Doc.received EXCEPT ![m] = n]
  BY <1>1 DEF RoundDoc, SwapStatus
<1>4. round' = [round EXCEPT ![cur] = e]
  BY <1>1, <1>2 DEF Doc, TypeOK
<1> HIDE DEF e
<1>5. /\ \A k \in Mint \ {m} : e.received[k] = Doc.received[k] /\ vault'[k] = vault[k]
      /\ vault'[m] = IF Live THEN vault[m] + e.received[m] ELSE vault[m]
  <2>1. vault \in [Mint -> Nat] /\ Doc.received \in [Mint -> Nat]
    BY <1>1 DEF TypeOK, RoundDoc
  <2> QED
    BY <1>2, <1>3, <2>1
<1>6. Becomes(cur, e)
  BY <1>1, <1>3, <1>4, EditBecomes
<1> QED
  BY <1>1, <1>3, <1>5, <1>6

LEMMA BuyFailsDoc ==
  ASSUME TypeOK, CallInv, NEW m \in Mint, BuyFails(m)
  PROVE  \E e : \E answer \in {"FAILED", "UNRESOLVED"} :
           /\ Becomes(cur, e) /\ e.status = Doc.status /\ e.resumeFrom = Doc.resumeFrom /\ e.mode = Doc.mode
           /\ e.carryIn = Doc.carryIn /\ e.received = Doc.received /\ e.transfer = Doc.transfer
           /\ e.swap = [Doc.swap EXCEPT ![m] = answer]
           /\ Doc.swap[m] # "DONE" /\ (answer = "FAILED" => "swap" \in hazards)
<1>1. cur \in RoundId /\ Doc \in RoundDoc /\ Doc.swap[m] # "DONE"
  BY CurOpened DEF BuyFails, CallInv, SWAP_UNTOUCHABLE
<1>2. PICK answer \in {"FAILED", "UNRESOLVED"} :
         (answer = "FAILED" => "swap" \in hazards) /\ round' = [round EXCEPT ![cur].swap[m] = answer]
  BY DEF BuyFails
<1> DEFINE e == [Doc EXCEPT !.swap[m] = answer]
<1>3. /\ e \in RoundDoc /\ e.status = Doc.status /\ e.resumeFrom = Doc.resumeFrom /\ e.mode = Doc.mode
      /\ e.carryIn = Doc.carryIn /\ e.received = Doc.received /\ e.transfer = Doc.transfer
      /\ e.swap = [Doc.swap EXCEPT ![m] = answer]
  BY <1>1 DEF RoundDoc, SwapStatus
<1>4. round' = [round EXCEPT ![cur] = e]
  BY <1>1, <1>2 DEF Doc, TypeOK
<1> HIDE DEF e
<1> QED
  BY <1>1, <1>2, <1>3, <1>4, EditBecomes

LEMMA EndSwappingDoc ==
  ASSUME TypeOK, CallInv, EndSwapping
  PROVE  \E e : /\ Becomes(cur, e) /\ Doc.status = "SWAPPING" /\ e.status = "DISTRIBUTING" /\ e.mode = Doc.mode
                /\ e.carryIn = (IF Doc.carryIn # Nothing THEN Doc.carryIn ELSE carry[mode])
                /\ e.swap = Doc.swap /\ e.received = Doc.received /\ e.transfer = Doc.transfer
<1> DEFINE in == IF Doc.carryIn # Nothing THEN Doc.carryIn ELSE carry[mode]
           e  == [Doc EXCEPT !.status = "DISTRIBUTING", !.carryIn = in]
<1>1. cur \in RoundId /\ Doc \in RoundDoc /\ Doc.status = "SWAPPING" /\ carry[mode] \in [Mint -> Nat]
  BY CurOpened DEF EndSwapping, CallInv, TypeOK
<1>2. in \in [Mint -> Nat]
  BY <1>1 DEF RoundDoc
<1>3. round' = [round EXCEPT ![cur] = e]
  BY <1>1 DEF EndSwapping, Doc, TypeOK
<1> HIDE DEF in
<1>4. /\ e \in RoundDoc /\ e.status = "DISTRIBUTING" /\ e.mode = Doc.mode /\ e.carryIn = in
      /\ e.swap = Doc.swap /\ e.received = Doc.received /\ e.transfer = Doc.transfer
  BY <1>1, <1>2 DEF RoundDoc, Steps
<1> HIDE DEF e
<1> QED
  BY <1>1, <1>3, <1>4, EditBecomes DEF in

LEMMA AllocateDoc ==
  ASSUME TypeOK, CallInv, Allocate
  PROVE  \E e : /\ Becomes(cur, e) /\ e.status = Doc.status /\ e.resumeFrom = Doc.resumeFrom /\ e.mode = Doc.mode
                /\ Doc.status = "DISTRIBUTING"
                /\ e.carryIn = Doc.carryIn /\ e.received = Doc.received /\ e.swap = Doc.swap
                /\ \A w \in Wallet, m \in Mint : e.transfer[w][m] = Row(Doc, w, m)
<1> DEFINE rows == [w \in Wallet |-> [m \in Mint |-> Row(Doc, w, m)]]
           e    == [Doc EXCEPT !.transfer = rows]
<1>1. cur \in RoundId /\ Doc \in RoundDoc
  BY CurOpened DEF Allocate
<1>2. ASSUME NEW w \in Wallet, NEW m \in Mint PROVE Row(Doc, w, m) \in [status : RowStatus, amount : Nat]
  <2>1. Doc.transfer[w][m] \in [status : RowStatus, amount : Nat] /\ Share(Doc, w, m) \in Nat
    BY <1>1, ShareBound DEF RoundDoc
  <2> QED
    BY <2>1 DEF Row, RowStatus
<1>3. rows \in [Wallet -> [Mint -> [status : RowStatus, amount : Nat]]]
  BY <1>2
<1>4. round' = [round EXCEPT ![cur] = e]
  BY <1>1 DEF Allocate, Doc, TypeOK
<1>5. \A w \in Wallet, m \in Mint : rows[w][m] = Row(Doc, w, m)
  OBVIOUS
<1> HIDE DEF rows
<1>6. /\ e \in RoundDoc /\ e.status = Doc.status /\ e.resumeFrom = Doc.resumeFrom /\ e.mode = Doc.mode
      /\ e.carryIn = Doc.carryIn /\ e.received = Doc.received /\ e.swap = Doc.swap /\ e.transfer = rows
  BY <1>1, <1>3 DEF RoundDoc
<1> HIDE DEF e
<1>7. Becomes(cur, e)
  BY <1>1, <1>4, <1>6, EditBecomes
<1> QED
  BY <1>5, <1>6, <1>7 DEF Allocate

LEMMA DeliverDoc ==
  ASSUME TypeOK, CallInv, NEW w \in Wallet, NEW m \in Mint, Deliver(w, m)
  PROVE  \E e : \E answer \in {"DONE", "FAILED", "UNRESOLVED", "SKIPPED_DUST"} :
           /\ Becomes(cur, e) /\ e.status = Doc.status /\ e.resumeFrom = Doc.resumeFrom /\ e.mode = Doc.mode
           /\ Doc.status = "DISTRIBUTING" /\ Doc.transfer[w][m].status = "PENDING"
           /\ e.carryIn = Doc.carryIn /\ e.received = Doc.received /\ e.swap = Doc.swap
           /\ e.transfer[w][m] = [status |-> answer, amount |-> Doc.transfer[w][m].amount]
           /\ \A v \in Wallet, n \in Mint : v # w \/ n # m => e.transfer[v][n] = Doc.transfer[v][n]
           /\ answer = "SKIPPED_DUST" <=> Live /\ Doc.transfer[w][m].amount = 0
           /\ answer = "DONE" /\ Live => Doc.transfer[w][m].amount <= vault[m]
           /\ answer = "FAILED" => Live
           /\ answer = "UNRESOLVED" => "unresolved" \in hazards
           /\ vault' \in [Mint -> Nat] /\ \A n \in Mint \ {m} : vault'[n] = vault[n]
           /\ vault'[m] = IF Live /\ answer = "DONE" THEN vault[m] - Doc.transfer[w][m].amount ELSE vault[m]
<1>1. cur \in RoundId /\ Doc \in RoundDoc /\ Doc.status = "DISTRIBUTING" /\ Doc.transfer[w][m].status = "PENDING"
  BY CurOpened DEF Deliver, CallInv
<1>2. PICK answer \in {"DONE", "FAILED", "UNRESOLVED", "SKIPPED_DUST"} :
         /\ answer = "SKIPPED_DUST" <=> Live /\ Doc.transfer[w][m].amount = 0
         /\ answer = "DONE" /\ Live => Doc.transfer[w][m].amount <= vault[m]
         /\ answer = "FAILED" => Live
         /\ answer = "UNRESOLVED" => "unresolved" \in hazards
         /\ round' = [round EXCEPT ![cur].transfer[w][m].status = answer]
         /\ vault' = IF Live /\ answer = "DONE" THEN [vault EXCEPT ![m] = @ - Doc.transfer[w][m].amount] ELSE vault
  BY DEF Deliver
<1> DEFINE rows == [Doc.transfer EXCEPT ![w][m].status = answer]
           e    == [Doc EXCEPT !.transfer = rows]
<1>3. /\ rows \in [Wallet -> [Mint -> [status : RowStatus, amount : Nat]]]
      /\ rows[w][m] = [status |-> answer, amount |-> Doc.transfer[w][m].amount]
      /\ \A v \in Wallet, n \in Mint : v # w \/ n # m => rows[v][n] = Doc.transfer[v][n]
  <2>1. Doc.transfer \in [Wallet -> [Mint -> [status : RowStatus, amount : Nat]]] /\ answer \in RowStatus
    BY <1>1 DEF RoundDoc, RowStatus
  <2> DEFINE row == [Doc.transfer[w][m] EXCEPT !.status = answer]
  <2>2. row = [status |-> answer, amount |-> Doc.transfer[w][m].amount] /\ row \in [status : RowStatus, amount : Nat]
    BY <2>1
  <2> HIDE DEF row
  <2>3. rows = [Doc.transfer EXCEPT ![w] = [Doc.transfer[w] EXCEPT ![m] = row]]
    BY <2>1 DEF row
  <2> QED
    BY <2>1, <2>2, <2>3
<1>4. round' = [round EXCEPT ![cur] = e]
  BY <1>1, <1>2 DEF Doc, TypeOK
<1> HIDE DEF rows
<1>5. /\ e \in RoundDoc /\ e.status = Doc.status /\ e.resumeFrom = Doc.resumeFrom /\ e.mode = Doc.mode
      /\ e.carryIn = Doc.carryIn /\ e.received = Doc.received /\ e.swap = Doc.swap /\ e.transfer = rows
  BY <1>1, <1>3 DEF RoundDoc
<1> HIDE DEF e
<1>6. Becomes(cur, e)
  BY <1>1, <1>4, <1>5, EditBecomes
<1>7. /\ e.transfer[w][m] = [status |-> answer, amount |-> Doc.transfer[w][m].amount]
      /\ \A v \in Wallet, n \in Mint : v # w \/ n # m => e.transfer[v][n] = Doc.transfer[v][n]
  BY <1>3, <1>5
<1>8. /\ vault' \in [Mint -> Nat] /\ \A n \in Mint \ {m} : vault'[n] = vault[n]
      /\ vault'[m] = IF Live /\ answer = "DONE" THEN vault[m] - Doc.transfer[w][m].amount ELSE vault[m]
  <2>1. vault \in [Mint -> Nat] /\ Doc.transfer[w][m].amount \in Nat
    BY <1>1 DEF TypeOK, RoundDoc
  <2> QED
    BY <1>2, <2>1
<1> QED
  BY <1>1, <1>2, <1>5, <1>6, <1>7, <1>8

LEMMA CloseDoc ==
  ASSUME TypeOK, CallInv, Close
  PROVE  \E e : /\ Becomes(cur, e) /\ e.status = "DONE" /\ e.mode = Doc.mode
                /\ e.carryIn = Doc.carryIn /\ e.received = Doc.received /\ e.swap = Doc.swap
                /\ e.transfer = Doc.transfer
                /\ e.carryOut = CarryOut(Doc) /\ e.undelivered = [m \in Mint |-> Undelivered(Doc, m)]
<1> DEFINE out  == CarryOut(Doc)
           left == [m \in Mint |-> Undelivered(Doc, m)]
           e    == [Doc EXCEPT !.status = "DONE", !.carryOut = out, !.undelivered = left]
<1>1. cur \in RoundId /\ Doc \in RoundDoc
  BY CurOpened DEF Close
<1>2. out \in [Mint -> Nat] /\ left \in [Mint -> Nat]
  BY <1>1, CarryType, RowSums
<1>3. round' = [round EXCEPT ![cur] = e]
  BY <1>1 DEF Close, Doc, TypeOK
<1> HIDE DEF out, left
<1>4. /\ e \in RoundDoc /\ e.status = "DONE" /\ e.mode = Doc.mode
      /\ e.carryIn = Doc.carryIn /\ e.received = Doc.received /\ e.swap = Doc.swap
      /\ e.transfer = Doc.transfer /\ e.carryOut = out /\ e.undelivered = left
  BY <1>1, <1>2 DEF RoundDoc, TERMINAL
<1> HIDE DEF e
<1> QED
  BY <1>1, <1>3, <1>4, EditBecomes DEF out, left

-----------------------------------------------------------------------------
(* What every step has in common.                                          *)

LEMMA SameEnvironment ==
  ASSUME [Next]_vars
  PROVE  hazards' = hazards /\ (opened' = opened \/ Open) /\ (mode' = mode \/ Restart)
<1>1. hazards' = hazards
  BY NextCases DEF Open, Run, RunFresh, Restart, Named, NamedRefused, Skip, ReadPool, Snapshot, EnterSwapping,
    Intent, Buy, BuyFails, EndSwapping, Allocate, Deliver, WriteCarry, Close, Throw, Crash, LateLanding,
    call, vars
<1>2. opened' = opened \/ Open
  BY NextCases DEF Run, RunFresh, Restart, Named, NamedRefused, Skip, ReadPool, Snapshot, EnterSwapping,
    Intent, Buy, BuyFails, EndSwapping, Allocate, Deliver, WriteCarry, Close, Throw, Crash, LateLanding,
    call, vars
<1>3. mode' = mode \/ Restart
  BY NextCases DEF Open, Run, RunFresh, Named, NamedRefused, Skip, ReadPool, Snapshot, EnterSwapping,
    Intent, Buy, BuyFails, EndSwapping, Allocate, Deliver, WriteCarry, Close, Throw, Crash, LateLanding,
    call, vars
<1> QED
  BY <1>1, <1>2, <1>3

\* Which steps only move a round from one step to another: a round that is
\* early, or not yet bought, was so before.
Restatus ==
  \/ round' = round
  \/ \E r \in Opened : \E e :
       /\ Becomes(r, e) /\ SameWork(round[r], e) /\ e.status \notin {"none", "DONE"}
       /\ mode = round[r].mode \/ e.status = "FAILED"
       /\ NeverRefused => (At(e, Early) => At(round[r], Early))
       /\ NeverRefused /\ SwapsAreNotRetried /\ RowsInv =>
            (At(e, Early \cup {"SWAPPING"}) => At(round[r], Early \cup {"SWAPPING"}))

LEMMA RefusedRestatus ==
  ASSUME TypeOK, CallInv, NEW r \in Opened, round' = Refused(r),
         round[r].status \notin TERMINAL \/ ~NeverRefused
  PROVE  Restatus
<1>1. PICK e : /\ Becomes(r, e) /\ SameWork(round[r], e) /\ e.status = "FAILED"
               /\ round[r].status \notin TERMINAL => e.resumeFrom = round[r].status
  BY RefusedDoc
<1> QED
  BY <1>1 DEF Restatus, At, Early

\* Of the unfinished rounds one is the oldest.
LEMMA OldestUnfinished ==
  ASSUME TypeOK, Unfinished # {}
  PROVE  \E q \in Unfinished : \A p \in Unfinished : q <= p
<1> DEFINE R == OpToRel(<, Nat)
<1>1. Unfinished \subseteq Nat
  BY DEF Unfinished, Opened
<1>2. PICK q \in Unfinished : \A p \in Unfinished : ~ (<<p, q>> \in R)
  <2>1. IsWellFoundedOn(R, Nat)
    BY NatLessThanWellFounded
  <2> HIDE DEF R
  <2> QED
    BY <1>1, <2>1, WFMin
<1>3. ASSUME NEW p \in Unfinished PROVE q <= p
  <2>1. p \in Nat /\ q \in Nat
    BY <1>1, <1>3
  <2>2. ~ (p < q)
    BY <1>2, <1>3, <2>1 DEF OpToRel
  <2> QED
    BY <2>1, <2>2
<1> QED
  BY <1>2, <1>3

LEMMA RunRestatus == ASSUME TypeOK, CallInv, Run PROVE Restatus
<1>1. CASE round' = round
  BY <1>1 DEF Restatus
<1>2. CASE round' # round
  <2> DEFINE r == CHOOSE r \in Unfinished : \A q \in Unfinished : r <= q
  <2>1. Unfinished # {} /\ round' = Refused(r)
    BY <1>2 DEF Run
  <2> HIDE DEF r
  <2>2. r \in Opened /\ round[r].status \notin TERMINAL
    <3>1. \E q \in Unfinished : \A p \in Unfinished : q <= p
      BY <2>1, OldestUnfinished
    <3>2. r \in Unfinished
      BY <3>1 DEF r
    <3> QED
      BY <3>2 DEF Unfinished
  <2> QED
    BY <2>1, <2>2, RefusedRestatus
<1> QED
  BY <1>1, <1>2

LEMMA NamedRestatus ==
  ASSUME TypeOK, CallInv, NEW r \in Opened, NEW again \in BOOLEAN, Named(r, again)
  PROVE  Restatus
<1>1. CASE round' = round
  BY <1>1 DEF Restatus
<1>2. ASSUME NEW e, Becomes(r, e), SameWork(round[r], e), e.resumeFrom = round[r].resumeFrom,
             e.status = ReopenAt(round[r]), e.status \in Steps
      PROVE  Restatus
  <2> DEFINE d == round[r]
  <2>1. d \in RoundDoc /\ r \in RoundId
    BY OpenedRounds DEF TypeOK
  <2>2. mode = d.mode /\ "retry" \in hazards
    BY DEF Named
  <2>3. \/ d.status = "FAILED" /\ e.status = d.resumeFrom
        \/ d.status = "FAILED" /\ d.resumeFrom = "none" /\ e.status = "PENDING"
        \/ d.status = "DONE" /\ e.status = "SWAPPING" /\ Failed(d, "swap")
        \/ d.status = "DONE" /\ e.status = "DISTRIBUTING"
    BY <1>2 DEF ReopenAt, Steps
  <2>4. At(e, Early) => At(d, Early)
    BY <1>2, <2>3 DEF At, Early, Steps
  <2>5. ASSUME NeverRefused, SwapsAreNotRetried, RowsInv, At(e, Early \cup {"SWAPPING"})
        PROVE  At(d, Early \cup {"SWAPPING"})
    <3>1. "swap" \notin hazards
      BY <2>2, <2>5 DEF SwapsAreNotRetried, TypeOK
    <3>2. ~Failed(d, "swap")
      BY <2>1, <2>5, <3>1 DEF RowsInv, Failed
    <3> QED
      BY <1>2, <2>3, <2>5, <3>2 DEF At, Early, Steps
  <2>6. e.status \notin {"none", "DONE"}
    BY <1>2 DEF Steps
  <2> QED
    BY <1>2, <2>2, <2>4, <2>5, <2>6 DEF Restatus
<1> QED
  BY <1>1, <1>2, NamedDoc

LEMMA MovesRestatus == ASSUME TypeOK, CallInv, Skip \/ ReadPool \/ Throw PROVE Restatus
<1>1. cur \in Opened /\ Doc.mode = mode /\ Doc = round[cur]
  BY CurOpened DEF Skip, ReadPool, Throw, Doc
<1>2. CASE Skip
  <2>1. PICK e : Becomes(cur, e) /\ SameWork(Doc, e) /\ e.status = "SKIPPED"
    BY <1>2, SkipDoc
  <2> QED
    BY <1>1, <2>1 DEF Restatus, At, Early
<1>3. CASE ReadPool
  <2>1. PICK e : Becomes(cur, e) /\ SameWork(Doc, e) /\ e.status = "SNAPSHOT" /\ Doc.status = "PENDING"
    BY <1>3, ReadPoolDoc
  <2> QED
    BY <1>1, <2>1 DEF Restatus, At, Early
<1>4. CASE Throw
  <2>1. PICK e : Becomes(cur, e) /\ SameWork(Doc, e) /\ e.status = "FAILED" /\ e.resumeFrom = Doc.status
    BY <1>4, ThrowDoc
  <2> QED
    BY <1>1, <2>1 DEF Restatus, At, Early
<1> QED
  BY <1>2, <1>3, <1>4

LEMMA DocCases ==
  ASSUME TypeOK, CallInv, [Next]_vars
  PROVE  \/ Restatus \/ Open \/ Snapshot
         \/ (\E m \in Mint : Intent(m)) \/ (\E m \in Mint : Buy(m)) \/ (\E m \in Mint : BuyFails(m))
         \/ EndSwapping \/ Allocate \/ (\E w \in Wallet, m \in Mint : Deliver(w, m)) \/ Close
<1>1. ASSUME NEW r \in Opened, NEW again \in BOOLEAN, NamedRefused(r, again) PROVE Restatus
  <2>1. round' = Refused(r) /\ round[r].mode # mode /\ "retry" \in hazards
    BY <1>1 DEF NamedRefused
  <2>2. r \in RoundId
    BY OpenedRounds
  <2>3. ~NeverRefused
    BY <2>1, <2>2 DEF CallInv, NeverRefused
  <2> QED
    BY <2>1, <2>3, RefusedRestatus
<1>2. ASSUME round' = round PROVE Restatus
  BY <1>2 DEF Restatus
<1> QED
  BY NextCases, <1>1, <1>2, RunRestatus, NamedRestatus, MovesRestatus DEF RunFresh, Restart, EnterSwapping,
    WriteCarry, Crash, LateLanding, vars

\* One document changes, and keeps its mode.
LEMMA DocStep ==
  ASSUME TypeOK, CallInv, [Next]_vars
  PROVE  \/ Open \/ round' = round
         \/ \E r \in Opened : \E e : /\ Becomes(r, e) /\ e.status # "none" /\ e.mode = round[r].mode
                                     /\ mode = round[r].mode \/ e.status = "FAILED"
<1>1. CASE Restatus
  BY <1>1 DEF Restatus, SameWork
<1>2. ASSUME pc \in {"work", "swap", "deliver", "close"},
             \E e : Becomes(cur, e) /\ e.status \in Steps \cup TERMINAL /\ e.mode = Doc.mode
      PROVE  \E r \in Opened : \E e : /\ Becomes(r, e) /\ e.status # "none" /\ e.mode = round[r].mode
                                      /\ mode = round[r].mode \/ e.status = "FAILED"
  BY <1>2, CurOpened DEF Doc, Steps, TERMINAL
<1>3. CASE Snapshot
  <2>1. \E e : Becomes(cur, e) /\ e.status \in Steps \cup TERMINAL /\ e.mode = Doc.mode
    BY <1>3, SnapshotDoc DEF Steps
  <2> QED
    BY <1>2, <1>3, <2>1 DEF Snapshot
<1>4. ASSUME NEW m \in Mint, Intent(m) PROVE pc = "swap" /\ \E e : Becomes(cur, e) /\ e.status \in Steps \cup TERMINAL /\ e.mode = Doc.mode
  <2>1. pc = "swap"
    BY <1>4 DEF Intent
  <2> QED
    BY <1>4, <2>1, IntentDoc, CurOpened
<1>5. ASSUME NEW m \in Mint, Buy(m) PROVE pc = "swap" /\ \E e : Becomes(cur, e) /\ e.status \in Steps \cup TERMINAL /\ e.mode = Doc.mode
  <2>1. pc = "swap"
    BY <1>5 DEF Buy
  <2> QED
    BY <1>5, <2>1, BuyDoc, CurOpened
<1>6. ASSUME NEW m \in Mint, BuyFails(m) PROVE pc = "swap" /\ \E e : Becomes(cur, e) /\ e.status \in Steps \cup TERMINAL /\ e.mode = Doc.mode
  <2>1. pc = "swap"
    BY <1>6 DEF BuyFails
  <2> QED
    BY <1>6, <2>1, BuyFailsDoc, CurOpened
<1>7. CASE EndSwapping
  <2>1. \E e : Becomes(cur, e) /\ e.status \in Steps \cup TERMINAL /\ e.mode = Doc.mode
    BY <1>7, EndSwappingDoc DEF Steps
  <2> QED
    BY <1>2, <1>7, <2>1 DEF EndSwapping
<1>8. CASE Allocate
  <2>1. pc = "work"
    BY <1>8 DEF Allocate
  <2>2. \E e : Becomes(cur, e) /\ e.status \in Steps \cup TERMINAL /\ e.mode = Doc.mode
    BY <1>8, <2>1, AllocateDoc, CurOpened
  <2> QED
    BY <1>2, <2>1, <2>2
<1>9. ASSUME NEW w \in Wallet, NEW m \in Mint, Deliver(w, m)
      PROVE pc = "deliver" /\ \E e : Becomes(cur, e) /\ e.status \in Steps \cup TERMINAL /\ e.mode = Doc.mode
  <2>1. pc = "deliver"
    BY <1>9 DEF Deliver
  <2> QED
    BY <1>9, <2>1, DeliverDoc, CurOpened
<1>10. CASE Close
  <2>1. \E e : Becomes(cur, e) /\ e.status \in Steps \cup TERMINAL /\ e.mode = Doc.mode
    BY <1>10, CloseDoc DEF TERMINAL
  <2> QED
    BY <1>2, <1>10, <2>1 DEF Close
<1> QED
  BY <1>1, <1>2, <1>3, <1>4, <1>5, <1>6, <1>7, <1>8, <1>9, <1>10, DocCases

\* Every variable keeps its type.
LEMMA RoundTypeStep ==
  ASSUME TypeOK, CallInv, [Next]_vars
  PROVE  /\ round' \in [RoundId -> RoundDoc] /\ opened' \in 0 .. MaxRounds
         /\ \A r \in RoundId : round'[r].status = "none" <=> r > opened'
<1>1. CASE Open
  <2>1. opened + 1 \in RoundId /\ Becomes(opened + 1, NewRound(mode)) /\ opened' = opened + 1 /\ opened \in Nat
    BY <1>1, OpenDoc DEF Open, TypeOK
  <2>2. NewRound(mode).status = "PENDING"
    BY DEF NewRound
  <2>3. \A r \in RoundId : r # opened + 1 => (round'[r].status = "none" <=> r > opened)
    BY <2>1 DEF Becomes, TypeOK
  <2>4. opened' \in 0 .. MaxRounds
    BY <2>1, BoundsAssumption DEF RoundId
  <2>5. \A r \in RoundId : r \in Int
    BY DEF RoundId
  <2> HIDE DEF NewRound
  <2> QED
    BY <2>1, <2>2, <2>3, <2>4, <2>5 DEF Becomes
<1>2. CASE ~Open
  <2>1. opened' = opened
    BY <1>2, SameEnvironment
  <2>2. CASE round' = round
    BY <2>1, <2>2 DEF TypeOK
  <2>3. ASSUME NEW r \in Opened, NEW e, Becomes(r, e), e.status # "none" PROVE
            /\ round' \in [RoundId -> RoundDoc]
            /\ \A q \in RoundId : round'[q].status = "none" <=> q > opened'
    BY <2>1, <2>3, OpenedRounds DEF TypeOK, Becomes
  <2>4. opened \in 0 .. MaxRounds
    BY DEF TypeOK
  <2> QED
    BY <1>2, <2>1, <2>2, <2>3, <2>4, DocStep DEF TypeOK
<1> QED
  BY <1>1, <1>2

\* The rest of the state keeps its type, too.
LEMMA TypeStep ==
  ASSUME TypeOK, CallInv, [Next]_vars
  PROVE  TypeOK'
<1>0. /\ round' \in [RoundId -> RoundDoc] /\ opened' \in 0 .. MaxRounds
      /\ \A r \in RoundId : round'[r].status = "none" <=> r > opened'
  BY RoundTypeStep
<1> DEFINE Rest == /\ carry \in [Modes -> [Mint -> Nat]]
                   /\ mode \in Modes
                   /\ pc \in PCs /\ cur \in RoundId \cup {NoRound} /\ retry \in BOOLEAN /\ todo \subseteq Mint
                   /\ vault \in [Mint -> Nat]
                   /\ late \subseteq RoundId \X Wallet \X Mint
                   /\ hazards \in HazardSets /\ crashes \in Nat /\ retries \in Nat
<1> SUFFICES Rest'
  BY <1>0 DEF TypeOK
<1> USE DEF PCs
<1>1. CASE Run
  <2>1. cur' \in RoundId \cup {NoRound}
    <3>1. CASE cur' = cur
      BY <3>1 DEF TypeOK
    <3>2. CASE cur' # cur
      <4>1. Unfinished # {} /\ cur' = CHOOSE r \in Unfinished : \A q \in Unfinished : r <= q
        BY <1>1, <3>2 DEF Run
      <4>2. cur' \in Unfinished
        BY <4>1, OldestUnfinished
      <4> QED
        BY <4>2, OpenedRounds DEF Unfinished
    <3> QED
      BY <3>1, <3>2
  <2> QED
    BY <1>1, <2>1 DEF Run, TypeOK
<1>2. CASE RunFresh
  BY <1>2 DEF RunFresh, TypeOK, call
<1>3. CASE Restart
  BY <1>3 DEF Restart, TypeOK, call
<1>4. ASSUME NEW r \in Opened, NEW again \in BOOLEAN, Named(r, again) PROVE Rest'
  BY <1>4, OpenedRounds DEF Named, TypeOK
<1>5. ASSUME NEW r \in Opened, NEW again \in BOOLEAN, NamedRefused(r, again) PROVE Rest'
  BY <1>5 DEF NamedRefused, TypeOK, call
<1>6. CASE Open
  <2>1. opened + 1 \in RoundId
    BY <1>6, OpenDoc
  <2> QED
    BY <1>6, <2>1 DEF Open, TypeOK
<1>7. CASE Skip
  BY <1>7 DEF Skip, Leave, TypeOK, call
<1>8. CASE ReadPool
  BY <1>8 DEF ReadPool, TypeOK, call
<1>9. CASE Snapshot
  BY <1>9 DEF Snapshot, TypeOK, call
<1>10. CASE EnterSwapping
  BY <1>10 DEF EnterSwapping, TypeOK
<1>11. ASSUME NEW m \in Mint, Intent(m) PROVE Rest'
  BY <1>11 DEF Intent, TypeOK, call
<1>12. ASSUME NEW m \in Mint, Buy(m) PROVE Rest'
  <2>1. vault' \in [Mint -> Nat]
    <3>1. vault \in [Mint -> Nat]
      BY DEF TypeOK
    <3> QED
      BY <1>12, <3>1, WeightAssumption DEF Buy
  <2> QED
    BY <1>12, <2>1 DEF Buy, TypeOK
<1>13. ASSUME NEW m \in Mint, BuyFails(m) PROVE Rest'
  BY <1>13 DEF BuyFails, TypeOK, call
<1>14. CASE EndSwapping
  BY <1>14 DEF EndSwapping, TypeOK, call
<1>15. CASE Allocate
  BY <1>15 DEF Allocate, TypeOK, call
<1>16. ASSUME NEW w \in Wallet, NEW m \in Mint, Deliver(w, m) PROVE Rest'
  <2>1. vault' \in [Mint -> Nat]
    BY <1>16, DeliverDoc
  <2> QED
    BY <1>16, <2>1 DEF Deliver, TypeOK, call
<1>17. CASE WriteCarry
  <2>1. Doc \in RoundDoc
    BY <1>17, CurOpened DEF WriteCarry
  <2>2. carry' \in [Modes -> [Mint -> Nat]]
    BY <1>17, <2>1, CarryType DEF WriteCarry, TypeOK
  <2> QED
    BY <1>17, <2>2 DEF WriteCarry, TypeOK
<1>18. CASE Close
  BY <1>18 DEF Close, Leave, TypeOK, call
<1>19. CASE Throw
  <2>1. crashes \in Nat /\ crashes' = crashes + 1
    BY <1>19 DEF Throw, TypeOK
  <2>2. crashes' \in Nat
    BY <2>1
  <2> QED
    BY <1>19, <2>2 DEF Throw, Leave, TypeOK
<1>20. CASE Crash
  <2>1. crashes \in Nat /\ crashes' = crashes + 1
    BY <1>20 DEF Crash, TypeOK
  <2>2. crashes' \in Nat
    BY <2>1
  <2> QED
    BY <1>20, <2>2 DEF Crash, Leave, TypeOK
<1>21. ASSUME NEW r \in Opened, NEW w \in Wallet, NEW m \in Mint, LateLanding(r, w, m) PROVE Rest'
  <2>1. r \in RoundId /\ <<r, w, m>> \in RoundId \X Wallet \X Mint
    BY OpenedRounds
  <2>2. round[r].transfer[w][m].amount \in Nat /\ round[r].transfer[w][m].amount <= vault[m]
    BY <1>21, <2>1 DEF LateLanding, TypeOK, RoundDoc
  <2>3. vault' \in [Mint -> Nat]
    BY <1>21, <2>2 DEF LateLanding, TypeOK
  <2> QED
    BY <1>21, <2>1, <2>3 DEF LateLanding, TypeOK, call
<1>22. CASE UNCHANGED vars
  BY <1>22 DEF vars, TypeOK, call
<1>23. QED
  BY NextCases, <1>1, <1>2, <1>3, <1>4, <1>5, <1>6, <1>7, <1>8, <1>9, <1>10, <1>11, <1>12, <1>13,
    <1>14, <1>15, <1>16, <1>17, <1>18, <1>19, <1>20, <1>21, <1>22

\* A process only works on a round of its own mode, at the step the round is at.
LEMMA CallStep ==
  ASSUME TypeOK, CallInv, [Next]_vars
  PROVE  CallInv'
<1>a. "mode" \notin hazards' => mode' = "LIVE" /\ \A r \in RoundId : round'[r].mode = "LIVE"
  <2> SUFFICES ASSUME "mode" \notin hazards PROVE mode' = "LIVE" /\ \A r \in RoundId : round'[r].mode = "LIVE"
    BY SameEnvironment
  <2>1. mode = "LIVE" /\ \A r \in RoundId : round[r].mode = "LIVE"
    BY DEF CallInv
  <2>2. mode' = "LIVE"
    BY <2>1, SameEnvironment DEF Restart
  <2>3. CASE Open
    <3>1. Becomes(opened + 1, NewRound(mode)) /\ NewRound(mode).mode = "LIVE"
      BY <2>1, <2>3, OpenDoc DEF NewRound
    <3> HIDE DEF NewRound
    <3> QED
      BY <2>1, <2>2, <3>1 DEF Becomes
  <2>4. ASSUME NEW r \in Opened, NEW e, Becomes(r, e), e.mode = round[r].mode PROVE \A q \in RoundId : round'[q].mode = "LIVE"
    BY <2>1, <2>4, OpenedRounds DEF Becomes
  <2> QED
    BY <2>1, <2>2, <2>3, <2>4, DocStep
<1>b. opened' = opened => Opened' = Opened
  BY DEF Opened
<1> DEFINE Rest == /\ pc = "open" => opened < MaxRounds
                   /\ pc \in {"work", "swap", "deliver", "close"} => cur \in Opened /\ Doc.mode = mode /\ Doc.status \in Steps
                   /\ pc = "swap" => Doc.status = "SWAPPING" /\ \A m \in todo : Doc.swap[m] \notin SWAP_UNTOUCHABLE
                   /\ pc \in {"deliver", "close"} => Doc.status = "DISTRIBUTING"
<1> SUFFICES Rest'
  BY <1>a DEF CallInv
<1>1. CASE Run
  <2>1. CASE pc' = "work"
    <3>1. /\ Unfinished # {} /\ cur' = CHOOSE r \in Unfinished : \A q \in Unfinished : r <= q
          /\ round[cur'].mode = mode /\ UNCHANGED <<round, opened, mode>>
      BY <1>1, <2>1 DEF Run
    <3>2. cur' \in Unfinished
      BY <3>1, OldestUnfinished
    <3>3. cur' \in Opened /\ cur' \in RoundId /\ round[cur'].status \notin TERMINAL /\ round[cur'].status # "none"
      BY <3>2, OpenedRounds DEF Unfinished
    <3>4. round[cur'].status \in Steps
      BY <3>3 DEF TypeOK, RoundDoc
    <3> QED
      BY <2>1, <3>1, <3>3, <3>4, <1>b DEF Doc
  <2>2. CASE pc' # "work"
    BY <1>1, <2>2 DEF Run
  <2> QED
    BY <2>1, <2>2
<1>2. CASE RunFresh
  BY <1>2 DEF RunFresh
<1>3. CASE Restart
  BY <1>3, <1>b DEF Restart, CallInv, call, Doc
<1>4. ASSUME NEW r \in Opened, NEW again \in BOOLEAN, Named(r, again) PROVE Rest'
  <2>1. pc' = "work" /\ cur' = r /\ UNCHANGED <<opened, mode>> /\ round[r].mode = mode /\ r \in RoundId
    BY <1>4, OpenedRounds DEF Named
  <2>2. round[r].status \notin TERMINAL => round[r].status \in Steps
    BY <2>1, OpenedRounds DEF TypeOK, RoundDoc
  <2>3. round'[r].mode = mode /\ round'[r].status \in Steps
    BY <1>4, <2>1, <2>2, NamedDoc DEF Becomes, SameWork
  <2> QED
    BY <2>1, <2>3, <1>b DEF Doc
<1>5. ASSUME NEW r \in Opened, NEW again \in BOOLEAN, NamedRefused(r, again) PROVE Rest'
  <2>1. pc' # "idle" => pc' = "open" /\ opened < MaxRounds /\ opened' = opened
    BY <1>5 DEF NamedRefused
  <2>2. pc' \in {"idle", "open"}
    BY <1>5 DEF NamedRefused
  <2> QED
    BY <2>1, <2>2
<1>6. CASE Open
  <2>1. pc' = "work" /\ cur' = opened + 1 /\ mode' = mode /\ opened' = opened + 1 /\ opened \in Nat
    BY <1>6 DEF Open, TypeOK
  <2>2. round'[opened + 1] = NewRound(mode)
    BY <1>6, OpenDoc DEF Becomes
  <2>3. NewRound(mode).mode = mode /\ NewRound(mode).status \in Steps
    BY DEF NewRound, Steps
  <2> HIDE DEF NewRound
  <2> QED
    BY <2>1, <2>2, <2>3 DEF Doc, Opened
<1>7. CASE Skip
  BY <1>7 DEF Skip, Leave
<1>8. CASE ReadPool
  <2>1. PICK e : Becomes(cur, e) /\ SameWork(Doc, e) /\ e.status = "SNAPSHOT"
    BY <1>8, ReadPoolDoc
  <2>2. pc = "work" /\ cur \in Opened /\ Doc.mode = mode
    BY <1>8, CurOpened DEF ReadPool
  <2>3. UNCHANGED <<pc, cur, mode, opened>>
    BY <1>8 DEF ReadPool, call
  <2>4. Doc' = e
    BY <2>1, <2>3 DEF Doc, Becomes
  <2> HIDE DEF Doc
  <2> QED
    BY <2>1, <2>2, <2>3, <2>4, <1>b DEF SameWork, Steps
<1>9. CASE Snapshot
  <2>1. PICK e : Becomes(cur, e) /\ e.mode = Doc.mode /\ e.status = "SWAPPING"
    BY <1>9, SnapshotDoc
  <2>2. pc = "work" /\ cur \in Opened /\ Doc.mode = mode
    BY <1>9, CurOpened DEF Snapshot
  <2>3. UNCHANGED <<pc, cur, mode, opened>>
    BY <1>9 DEF Snapshot, call
  <2>4. Doc' = e
    BY <2>1, <2>3 DEF Doc, Becomes
  <2> HIDE DEF Doc
  <2> QED
    BY <2>1, <2>2, <2>3, <2>4, <1>b DEF Steps
<1>10. CASE EnterSwapping
  <2>1. pc' = "swap" /\ UNCHANGED <<round, cur, mode, opened>> /\ Doc.status = "SWAPPING" /\ pc = "work"
    BY <1>10 DEF EnterSwapping
  <2>2. \A m \in todo' : Doc.swap[m] \notin SWAP_UNTOUCHABLE
    BY <1>10 DEF EnterSwapping
  <2>3. Doc' = Doc
    BY <2>1 DEF Doc
  <2> QED
    BY <2>1, <2>2, <2>3, <1>b, CurOpened
<1>11. ASSUME NEW m \in Mint, Intent(m) PROVE Rest'
  <2>1. PICK e : Becomes(cur, e) /\ e.status = Doc.status /\ e.mode = Doc.mode /\ e.swap = [Doc.swap EXCEPT ![m] = "SENDING"]
    BY <1>11, IntentDoc
  <2>2. /\ pc = "swap" /\ cur \in Opened /\ Doc.mode = mode /\ Doc.status = "SWAPPING" /\ Doc \in RoundDoc
        /\ \A n \in todo : Doc.swap[n] \notin SWAP_UNTOUCHABLE
    BY <1>11, CurOpened DEF Intent, CallInv
  <2>3. UNCHANGED <<pc, cur, mode, opened, todo>>
    BY <1>11 DEF Intent, call
  <2>4. Doc' = e
    BY <2>1, <2>3 DEF Doc, Becomes
  <2>5. \A n \in todo : e.swap[n] \notin SWAP_UNTOUCHABLE
    BY <2>1, <2>2 DEF SWAP_UNTOUCHABLE, RoundDoc, TypeOK
  <2> HIDE DEF Doc
  <2> QED
    BY <2>1, <2>2, <2>3, <2>4, <2>5, <1>b DEF Steps
<1>12. ASSUME NEW m \in Mint, Buy(m) PROVE Rest'
  <2>1. PICK e : Becomes(cur, e) /\ e.status = Doc.status /\ e.mode = Doc.mode /\ e.swap = [Doc.swap EXCEPT ![m] = "DONE"]
    BY <1>12, BuyDoc
  <2>2. /\ pc = "swap" /\ cur \in Opened /\ Doc.mode = mode /\ Doc.status = "SWAPPING" /\ Doc \in RoundDoc
        /\ \A n \in todo : Doc.swap[n] \notin SWAP_UNTOUCHABLE
    BY <1>12, CurOpened DEF Buy, CallInv
  <2>3. UNCHANGED <<pc, cur, mode, opened>> /\ todo' = todo \ {m}
    BY <1>12 DEF Buy
  <2>4. Doc' = e
    BY <2>1, <2>3 DEF Doc, Becomes
  <2>5. \A n \in todo \ {m} : e.swap[n] \notin SWAP_UNTOUCHABLE
    BY <2>1, <2>2 DEF SWAP_UNTOUCHABLE, RoundDoc, TypeOK
  <2> HIDE DEF Doc
  <2> QED
    BY <2>1, <2>2, <2>3, <2>4, <2>5, <1>b DEF Steps
<1>13. ASSUME NEW m \in Mint, BuyFails(m) PROVE Rest'
  <2>1. PICK e : /\ Becomes(cur, e) /\ e.status = Doc.status /\ e.mode = Doc.mode
                 /\ \E answer \in {"FAILED", "UNRESOLVED"} : e.swap = [Doc.swap EXCEPT ![m] = answer]
    BY <1>13, BuyFailsDoc
  <2>2. /\ pc = "swap" /\ cur \in Opened /\ Doc.mode = mode /\ Doc.status = "SWAPPING" /\ Doc \in RoundDoc
        /\ \A n \in todo : Doc.swap[n] \notin SWAP_UNTOUCHABLE
    BY <1>13, CurOpened DEF BuyFails, CallInv
  <2>3. UNCHANGED <<pc, cur, mode, opened>> /\ todo' = todo \ {m}
    BY <1>13 DEF BuyFails
  <2>4. Doc' = e
    BY <2>1, <2>3 DEF Doc, Becomes
  <2>5. \A n \in todo \ {m} : e.swap[n] \notin SWAP_UNTOUCHABLE
    BY <2>1, <2>2 DEF SWAP_UNTOUCHABLE, RoundDoc, TypeOK
  <2> HIDE DEF Doc
  <2> QED
    BY <2>1, <2>2, <2>3, <2>4, <2>5, <1>b DEF Steps
<1>14. CASE EndSwapping
  <2>1. PICK e : Becomes(cur, e) /\ e.mode = Doc.mode /\ e.status = "DISTRIBUTING"
    BY <1>14, EndSwappingDoc
  <2>2. pc = "swap" /\ cur \in Opened /\ Doc.mode = mode
    BY <1>14, CurOpened DEF EndSwapping
  <2>3. UNCHANGED <<cur, mode, opened>> /\ pc' = "work"
    BY <1>14 DEF EndSwapping
  <2>4. Doc' = e
    BY <2>1, <2>3 DEF Doc, Becomes
  <2> HIDE DEF Doc
  <2> QED
    BY <2>1, <2>2, <2>3, <2>4, <1>b DEF Steps
<1>15. CASE Allocate
  <2>1. PICK e : Becomes(cur, e) /\ e.mode = Doc.mode /\ e.status = Doc.status /\ Doc.status = "DISTRIBUTING"
    BY <1>15, AllocateDoc
  <2>2. pc = "work" /\ cur \in Opened /\ Doc.mode = mode
    BY <1>15, CurOpened DEF Allocate
  <2>3. UNCHANGED <<cur, mode, opened>> /\ pc' = "deliver"
    BY <1>15 DEF Allocate
  <2>4. Doc' = e
    BY <2>1, <2>3 DEF Doc, Becomes
  <2> HIDE DEF Doc
  <2> QED
    BY <2>1, <2>2, <2>3, <2>4, <1>b DEF Steps
<1>16. ASSUME NEW w \in Wallet, NEW m \in Mint, Deliver(w, m) PROVE Rest'
  <2>1. PICK e : Becomes(cur, e) /\ e.mode = Doc.mode /\ e.status = Doc.status /\ Doc.status = "DISTRIBUTING"
    BY <1>16, DeliverDoc
  <2>2. pc = "deliver" /\ cur \in Opened /\ Doc.mode = mode
    BY <1>16, CurOpened DEF Deliver
  <2>3. UNCHANGED <<pc, cur, mode, opened>>
    BY <1>16 DEF Deliver, call
  <2>4. Doc' = e
    BY <2>1, <2>3 DEF Doc, Becomes
  <2> HIDE DEF Doc
  <2> QED
    BY <2>1, <2>2, <2>3, <2>4, <1>b DEF Steps
<1>17. CASE WriteCarry
  <2>1. pc = "deliver" /\ pc' = "close" /\ UNCHANGED <<round, cur, mode, opened>>
    BY <1>17 DEF WriteCarry
  <2>2. Doc' = Doc
    BY <2>1 DEF Doc
  <2> QED
    BY <2>1, <2>2, <1>b DEF CallInv
<1>18. CASE Close
  BY <1>18, <1>b DEF Close, Leave, CallInv, call, Doc
<1>19. CASE Throw
  BY <1>19, <1>b DEF Throw, Leave, CallInv, call, Doc
<1>20. CASE Crash
  BY <1>20, <1>b DEF Crash, Leave, CallInv, call, Doc
<1>21. ASSUME NEW r \in Opened, NEW w \in Wallet, NEW m \in Mint, LateLanding(r, w, m) PROVE Rest'
  BY <1>21, <1>b DEF LateLanding, CallInv, call, Doc
<1>22. CASE UNCHANGED vars
  BY <1>22, <1>b DEF vars, CallInv, call, Doc
<1>23. QED
  BY NextCases, <1>1, <1>2, <1>3, <1>4, <1>5, <1>6, <1>7, <1>8, <1>9, <1>10, <1>11, <1>12, <1>13,
    <1>14, <1>15, <1>16, <1>17, <1>18, <1>19, <1>20, <1>21, <1>22

\* What is early has nothing in it: SNAPSHOT freezes the plan once.
LEMMA EarlyStep ==
  ASSUME TypeOK, CallInv, EarlyInv, [Next]_vars
  PROVE  EarlyInv'
<1> SUFFICES ASSUME NeverRefused, NEW r \in RoundId, At(round'[r], Early)
             PROVE  round'[r].swap = [m \in Mint |-> "none"]
  <2>1. NeverRefused' <=> NeverRefused
    BY SameEnvironment DEF NeverRefused
  <2> QED
    BY <2>1 DEF EarlyInv, At
<1>1. At(round[r], Early) => round[r].swap = [m \in Mint |-> "none"]
  BY DEF EarlyInv
<1>2. ASSUME NEW e, Becomes(cur, e), e.status \in {"SWAPPING", "DISTRIBUTING", "DONE"}
      PROVE  round'[r].swap = [m \in Mint |-> "none"]
  <2>1. r # cur
    BY <1>2 DEF Becomes, At, Early
  <2> QED
    BY <1>1, <1>2, <2>1 DEF Becomes
<1>3. CASE Restatus
  <2>1. CASE round' = round
    BY <1>1, <2>1
  <2>2. ASSUME NEW q \in Opened, NEW e, Becomes(q, e), SameWork(round[q], e), At(e, Early) => At(round[q], Early)
        PROVE  round'[r].swap = [m \in Mint |-> "none"]
    BY <1>1, <2>2 DEF Becomes, SameWork
  <2> QED
    BY <1>3, <2>1, <2>2 DEF Restatus
<1>4. CASE Open
  BY <1>1, <1>4, OpenDoc DEF Becomes, NewRound
<1>5. CASE Snapshot
  BY <1>2, <1>5, SnapshotDoc
<1>6. ASSUME NEW m \in Mint, Intent(m) PROVE round'[r].swap = [n \in Mint |-> "none"]
  <2>1. Doc.status = "SWAPPING"
    BY <1>6 DEF Intent, CallInv
  <2> QED
    BY <1>2, <1>6, <2>1, IntentDoc
<1>7. ASSUME NEW m \in Mint, Buy(m) PROVE round'[r].swap = [n \in Mint |-> "none"]
  <2>1. PICK e : Becomes(cur, e) /\ e.status = Doc.status /\ Doc.status = "SWAPPING"
    BY <1>7, BuyDoc
  <2> QED
    BY <1>2, <2>1
<1>8. ASSUME NEW m \in Mint, BuyFails(m) PROVE round'[r].swap = [n \in Mint |-> "none"]
  <2>1. Doc.status = "SWAPPING"
    BY <1>8 DEF BuyFails, CallInv
  <2> QED
    BY <1>2, <1>8, <2>1, BuyFailsDoc
<1>9. CASE EndSwapping
  BY <1>2, <1>9, EndSwappingDoc
<1>10. CASE Allocate
  BY <1>2, <1>10, AllocateDoc
<1>11. ASSUME NEW w \in Wallet, NEW m \in Mint, Deliver(w, m) PROVE round'[r].swap = [n \in Mint |-> "none"]
  BY <1>2, <1>11, DeliverDoc
<1>12. CASE Close
  BY <1>2, <1>12, CloseDoc
<1> QED
  BY DocCases, <1>3, <1>4, <1>5, <1>6, <1>7, <1>8, <1>9, <1>10, <1>11, <1>12

-----------------------------------------------------------------------------
(* The rows of a round.                                                    *)

\* What is worked out from a document depends on what was done in it.
LEMMA SameSums ==
  ASSUME NEW d \in RoundDoc, NEW e \in RoundDoc,
         e.swap = d.swap, e.received = d.received, e.carryIn = d.carryIn, e.transfer = d.transfer
  PROVE  /\ CarryOut(e) = CarryOut(d)
         /\ \A m \in Mint : Undelivered(e, m) = Undelivered(d, m) /\ Paid(e, m) = Paid(d, m) /\ Total(e, m) = Total(d, m)
         /\ \A m \in Mint, w \in Wallet : Share(e, w, m) = Share(d, w, m)
         /\ Complete(e) <=> Complete(d)
<1>1. ASSUME NEW m \in Mint
      PROVE  /\ Undelivered(e, m) = Undelivered(d, m) /\ Paid(e, m) = Paid(d, m) /\ Total(e, m) = Total(d, m)
             /\ \A w \in Wallet : Share(e, w, m) = Share(d, w, m)
  <2>1. LeftRows(e, m) = LeftRows(d, m) /\ DoneRows(e, m) = DoneRows(d, m)
    BY DEF LeftRows, DoneRows
  <2>2. Total(e, m) = Total(d, m)
    BY DEF Total
  <2>3. \A w \in Wallet : Share(e, w, m) = Share(d, w, m)
    BY <2>2 DEF Share
  <2> QED
    BY <2>1, <2>2, <2>3, RowSums
<1>2. ASSUME NEW m \in Mint PROVE AppliedCarry(e, m) = AppliedCarry(d, m)
  <2>1. [w \in Wallet |-> Share(e, w, m)] = [w \in Wallet |-> Share(d, w, m)]
    BY <1>1
  <2>2. Dust(e, m) = Dust(d, m)
    BY <2>1, <1>1 DEF Dust
  <2> QED
    BY <2>2 DEF AppliedCarry
<1>3. CarryOut(e) = CarryOut(d)
  BY <1>1, <1>2 DEF CarryOut
<1>4. Complete(e) <=> Complete(d)
  BY DEF Complete
<1> QED
  BY <1>1, <1>3, <1>4

LEMMA SameRowInv ==
  ASSUME NEW d \in RoundDoc, NEW e \in RoundDoc, RowInv(d),
         e.swap = d.swap, e.received = d.received, e.carryIn = d.carryIn, e.transfer = d.transfer,
         At(e, Early \cup {"SWAPPING"}) => At(d, Early \cup {"SWAPPING"})
  PROVE  RowInv(e)
BY SameSums DEF RowInv

\* Without rows, only the fills matter.
LEMMA NoRowsInv ==
  ASSUME NEW d \in RoundDoc, NEW e \in RoundDoc, RowInv(d), At(d, Early \cup {"SWAPPING"}),
         e.transfer = d.transfer, \A m \in Mint : e.swap[m] # "DONE" => e.received[m] = 0
  PROVE  RowInv(e)
<1>1. \A w \in Wallet, m \in Mint : e.transfer[w][m].status = "none" /\ e.transfer[w][m].amount = 0
  BY DEF RowInv
<1> QED
  BY <1>1 DEF RowInv

\* What a document must satisfy when it is written.
Written(e) ==
  /\ RowInv(e)
  /\ \A m \in Mint : e.swap[m] = "FAILED" => "swap" \in hazards
  /\ e.status = "DONE" =>
       Complete(e) /\ e.carryOut = CarryOut(e) /\ e.undelivered = [m \in Mint |-> Undelivered(e, m)]

LEMMA DocsWritten ==
  ASSUME TypeOK, NeverRefused, RowsInv
  PROVE  \A r \in RoundId : round[r] \in RoundDoc /\ Written(round[r])
BY DEF TypeOK, RowsInv, Written

\* Every document that is written keeps its books.
LEMMA WrittenStep ==
  ASSUME SwapsAreNotRetried, TypeOK, CallInv, EarlyInv, RowsInv, NeverRefused, [Next]_vars
  PROVE  \A r \in RoundId : Written(round'[r])
<1>0. \A r \in RoundId : round[r] \in RoundDoc /\ Written(round[r])
  BY DocsWritten
<1>a. ASSUME NEW r \in RoundId, NEW e, Becomes(r, e), Written(e) PROVE \A q \in RoundId : Written(round'[q])
  BY <1>0, <1>a DEF Becomes
<1>b. ASSUME pc \in {"work", "swap", "deliver", "close"}
      PROVE  /\ cur \in RoundId /\ Doc \in RoundDoc /\ RowInv(Doc) /\ Doc = round[cur]
             /\ \A m \in Mint : Doc.swap[m] = "FAILED" => "swap" \in hazards
  BY <1>0, <1>b, CurOpened DEF Doc, Written
<1>3. CASE Restatus
  <2>1. CASE round' = round
    BY <1>0, <2>1
  <2>2. ASSUME NEW q \in Opened, NEW e, Becomes(q, e), SameWork(round[q], e), e.status # "DONE",
               At(e, Early \cup {"SWAPPING"}) => At(round[q], Early \cup {"SWAPPING"})
        PROVE  \A r \in RoundId : Written(round'[r])
    <3>1. q \in RoundId /\ e \in RoundDoc
      BY <2>2, OpenedRounds DEF Becomes
    <3>2. RowInv(e)
      BY <1>0, <2>2, <3>1, SameRowInv DEF SameWork, Written
    <3>3. \A m \in Mint : e.swap[m] = "FAILED" => "swap" \in hazards
      BY <1>0, <2>2, <3>1 DEF SameWork, Written
    <3> QED
      BY <1>a, <2>2, <3>1, <3>2, <3>3 DEF Written
  <2> QED
    BY <1>3, <2>1, <2>2 DEF Restatus
<1>4. CASE Open
  <2>1. opened + 1 \in RoundId /\ Becomes(opened + 1, NewRound(mode))
    BY <1>4, OpenDoc
  <2> DEFINE e == NewRound(mode)
  <2>2. /\ \A w \in Wallet, m \in Mint : e.transfer[w][m].status = "none" /\ e.transfer[w][m].amount = 0
        /\ \A m \in Mint : e.swap[m] = "none" /\ e.received[m] = 0
        /\ e.status = "PENDING"
    BY DEF NewRound, Nothing, NoRow
  <2> HIDE DEF e
  <2>3. Written(e)
    BY <2>2 DEF Written, RowInv
  <2> QED
    BY <1>a, <2>1, <2>3 DEF e
<1>5. CASE Snapshot
  <2>1. PICK e : /\ Becomes(cur, e) /\ Doc.status = "SNAPSHOT" /\ e.status = "SWAPPING"
                 /\ e.received = Nothing /\ e.swap \in [Mint -> {"PENDING", "SKIPPED"}]
                 /\ e.transfer = Doc.transfer
    BY <1>5, SnapshotDoc
  <2>2. cur \in RoundId /\ Doc \in RoundDoc /\ RowInv(Doc) /\ e \in RoundDoc
    BY <1>5, <1>b, <2>1 DEF Snapshot, Becomes
  <2>3. RowInv(e)
    BY <2>1, <2>2, NoRowsInv DEF At, Early, Nothing
  <2> QED
    BY <1>a, <2>1, <2>2, <2>3 DEF Written
<1>6. ASSUME NEW m \in Mint, Intent(m) PROVE \A r \in RoundId : Written(round'[r])
  <2>1. PICK e : /\ Becomes(cur, e) /\ e.status = Doc.status
                 /\ e.received = Doc.received /\ e.transfer = Doc.transfer
                 /\ e.swap = [Doc.swap EXCEPT ![m] = "SENDING"]
                 /\ Doc.swap[m] \in {"PENDING", "FAILED"}
    BY <1>6, IntentDoc
  <2>2. /\ cur \in RoundId /\ Doc \in RoundDoc /\ RowInv(Doc) /\ e \in RoundDoc /\ Doc.status = "SWAPPING"
        /\ \A n \in Mint : Doc.swap[n] = "FAILED" => "swap" \in hazards
    BY <1>6, <1>b, <2>1 DEF Intent, Becomes, CallInv
  <2>3. \A n \in Mint : e.swap[n] = IF n = m THEN "SENDING" ELSE Doc.swap[n]
    BY <2>1, <2>2 DEF RoundDoc
  <2>4. \A n \in Mint : Doc.swap[n] # "DONE" => Doc.received[n] = 0
    BY <2>2 DEF RowInv
  <2>5. RowInv(e)
    BY <2>1, <2>2, <2>3, <2>4, NoRowsInv DEF At
  <2> QED
    BY <1>a, <2>1, <2>2, <2>3, <2>5 DEF Written
<1>7. ASSUME NEW m \in Mint, Buy(m) PROVE \A r \in RoundId : Written(round'[r])
  <2>1. PICK e : /\ Becomes(cur, e) /\ e.status = Doc.status /\ e.transfer = Doc.transfer
                 /\ e.swap = [Doc.swap EXCEPT ![m] = "DONE"]
                 /\ \A k \in Mint \ {m} : e.received[k] = Doc.received[k]
                 /\ Doc.status = "SWAPPING"
    BY <1>7, BuyDoc
  <2>2. /\ cur \in RoundId /\ Doc \in RoundDoc /\ RowInv(Doc) /\ e \in RoundDoc
        /\ \A n \in Mint : Doc.swap[n] = "FAILED" => "swap" \in hazards
    BY <1>7, <1>b, <2>1 DEF Buy, Becomes
  <2>3. \A n \in Mint : /\ e.swap[n] = IF n = m THEN "DONE" ELSE Doc.swap[n]
                        /\ n # m => e.received[n] = Doc.received[n]
    BY <2>1, <2>2 DEF RoundDoc
  <2>4. \A n \in Mint : Doc.swap[n] # "DONE" => Doc.received[n] = 0
    BY <2>2 DEF RowInv
  <2>5. RowInv(e)
    BY <2>1, <2>2, <2>3, <2>4, NoRowsInv DEF At
  <2> QED
    BY <1>a, <2>1, <2>2, <2>3, <2>5 DEF Written
<1>8. ASSUME NEW m \in Mint, BuyFails(m) PROVE \A r \in RoundId : Written(round'[r])
  <2>1. PICK e : \E answer \in {"FAILED", "UNRESOLVED"} :
                 /\ Becomes(cur, e) /\ e.status = Doc.status
                 /\ e.received = Doc.received /\ e.transfer = Doc.transfer
                 /\ e.swap = [Doc.swap EXCEPT ![m] = answer]
                 /\ Doc.swap[m] # "DONE" /\ (answer = "FAILED" => "swap" \in hazards)
    BY <1>8, BuyFailsDoc
  <2>2. /\ cur \in RoundId /\ Doc \in RoundDoc /\ RowInv(Doc) /\ e \in RoundDoc /\ Doc.status = "SWAPPING"
        /\ \A n \in Mint : Doc.swap[n] = "FAILED" => "swap" \in hazards
    BY <1>8, <1>b, <2>1 DEF BuyFails, Becomes, CallInv
  <2>3. /\ \A n \in Mint : n # m => e.swap[n] = Doc.swap[n]
        /\ e.swap[m] = "FAILED" => "swap" \in hazards
    BY <2>1, <2>2 DEF RoundDoc
  <2>4. \A n \in Mint : Doc.swap[n] # "DONE" => Doc.received[n] = 0
    BY <2>2 DEF RowInv
  <2>5. RowInv(e)
    BY <2>1, <2>2, <2>3, <2>4, NoRowsInv DEF At
  <2> QED
    BY <1>a, <2>1, <2>2, <2>3, <2>5 DEF Written
<1>9. CASE EndSwapping
  <2>1. PICK e : /\ Becomes(cur, e) /\ Doc.status = "SWAPPING" /\ e.status = "DISTRIBUTING"
                 /\ e.swap = Doc.swap /\ e.received = Doc.received /\ e.transfer = Doc.transfer
    BY <1>9, EndSwappingDoc
  <2>2. /\ cur \in RoundId /\ Doc \in RoundDoc /\ RowInv(Doc) /\ e \in RoundDoc
        /\ \A n \in Mint : Doc.swap[n] = "FAILED" => "swap" \in hazards
    BY <1>9, <1>b, <2>1 DEF EndSwapping, Becomes
  <2>3. \A n \in Mint : Doc.swap[n] # "DONE" => Doc.received[n] = 0
    BY <2>2 DEF RowInv
  <2>4. RowInv(e)
    BY <2>1, <2>2, <2>3, NoRowsInv DEF At
  <2> QED
    BY <1>a, <2>1, <2>2, <2>4 DEF Written
<1>10. CASE Allocate
  <2>1. PICK e : /\ Becomes(cur, e) /\ e.status = Doc.status /\ Doc.status = "DISTRIBUTING"
                 /\ e.carryIn = Doc.carryIn /\ e.received = Doc.received /\ e.swap = Doc.swap
                 /\ \A w \in Wallet, m \in Mint : e.transfer[w][m] = Row(Doc, w, m)
    BY <1>10, AllocateDoc
  <2>2. /\ cur \in RoundId /\ Doc \in RoundDoc /\ RowInv(Doc) /\ e \in RoundDoc
        /\ \A n \in Mint : Doc.swap[n] = "FAILED" => "swap" \in hazards
    BY <1>10, <1>b, <2>1 DEF Allocate, Becomes
  <2>3. ASSUME NEW w \in Wallet, NEW m \in Mint
        PROVE  /\ e.transfer[w][m].amount = IF e.transfer[w][m].status = "none" THEN 0 ELSE Share(e, w, m)
               /\ e.transfer[w][m].status # "none" => e.swap[m] = "DONE"
               /\ e.transfer[w][m].status = "SKIPPED_DUST" => e.transfer[w][m].amount = 0
               /\ e.transfer[w][m].status = "FAILED" => e.transfer[w][m].amount > 0
    <3>1. Share(e, w, m) = Share(Doc, w, m)
      BY <2>1 DEF Share, Total
    <3>2. e.transfer[w][m] = Row(Doc, w, m)
      BY <2>1
    <3>3. RowInv(Doc) /\ e.swap = Doc.swap
      BY <2>1, <2>2
    <3> QED
      BY <3>1, <3>2, <3>3 DEF Row, RowInv
  <2>4. RowInv(e)
    <3>1. ~At(e, Early \cup {"SWAPPING"})
      BY <2>1 DEF At, Early
    <3>2. \A m \in Mint : e.swap[m] # "DONE" => e.received[m] = 0
      BY <2>1, <2>2 DEF RowInv
    <3> QED
      BY <2>3, <3>1, <3>2 DEF RowInv
  <2> QED
    BY <1>a, <2>1, <2>2, <2>4 DEF Written
<1>11. ASSUME NEW w \in Wallet, NEW m \in Mint, Deliver(w, m) PROVE \A r \in RoundId : Written(round'[r])
  <2>1. PICK e : \E answer \in {"DONE", "FAILED", "UNRESOLVED", "SKIPPED_DUST"} :
                 /\ Becomes(cur, e) /\ e.status = Doc.status
                 /\ Doc.status = "DISTRIBUTING" /\ Doc.transfer[w][m].status = "PENDING"
                 /\ e.carryIn = Doc.carryIn /\ e.received = Doc.received /\ e.swap = Doc.swap
                 /\ e.transfer[w][m] = [status |-> answer, amount |-> Doc.transfer[w][m].amount]
                 /\ \A v \in Wallet, n \in Mint : v # w \/ n # m => e.transfer[v][n] = Doc.transfer[v][n]
                 /\ answer = "SKIPPED_DUST" <=> Live /\ Doc.transfer[w][m].amount = 0
                 /\ answer = "FAILED" => Live
    BY <1>11, DeliverDoc
  <2>2. /\ cur \in RoundId /\ Doc \in RoundDoc /\ RowInv(Doc) /\ e \in RoundDoc
        /\ \A n \in Mint : Doc.swap[n] = "FAILED" => "swap" \in hazards
    BY <1>11, <1>b, <2>1 DEF Deliver, Becomes
  <2>3. ASSUME NEW v \in Wallet, NEW n \in Mint
        PROVE  /\ e.transfer[v][n].amount = IF e.transfer[v][n].status = "none" THEN 0 ELSE Share(e, v, n)
               /\ e.transfer[v][n].status # "none" => e.swap[n] = "DONE"
               /\ e.transfer[v][n].status = "SKIPPED_DUST" => e.transfer[v][n].amount = 0
               /\ e.transfer[v][n].status = "FAILED" => e.transfer[v][n].amount > 0
    <3>1. Share(e, v, n) = Share(Doc, v, n)
      BY <2>1 DEF Share, Total
    <3>2. CASE v = w /\ n = m
      <4>1. /\ Doc.transfer[w][m].status = "PENDING" /\ Doc.transfer[w][m].amount \in Nat
            /\ Doc.transfer[w][m].amount = Share(Doc, w, m) /\ Doc.swap[m] = "DONE"
        BY <2>1, <2>2 DEF RowInv, RoundDoc
      <4> QED
        BY <2>1, <3>1, <3>2, <4>1
    <3>3. CASE v # w \/ n # m
      <4>1. e.transfer[v][n] = Doc.transfer[v][n] /\ e.swap = Doc.swap
        BY <2>1, <3>3
      <4> QED
        BY <2>2, <3>1, <4>1 DEF RowInv
    <3> QED
      BY <3>2, <3>3
  <2>4. RowInv(e)
    <3>1. ~At(e, Early \cup {"SWAPPING"})
      BY <2>1 DEF At, Early
    <3>2. \A n \in Mint : e.swap[n] # "DONE" => e.received[n] = 0
      BY <2>1, <2>2 DEF RowInv
    <3> QED
      BY <2>3, <3>1, <3>2 DEF RowInv
  <2> QED
    BY <1>a, <2>1, <2>2, <2>4 DEF Written
<1>12. CASE Close
  <2>1. PICK e : /\ Becomes(cur, e) /\ e.status = "DONE"
                 /\ e.carryIn = Doc.carryIn /\ e.received = Doc.received /\ e.swap = Doc.swap
                 /\ e.transfer = Doc.transfer
                 /\ e.carryOut = CarryOut(Doc) /\ e.undelivered = [m \in Mint |-> Undelivered(Doc, m)]
    BY <1>12, CloseDoc
  <2>2. /\ cur \in RoundId /\ Doc \in RoundDoc /\ RowInv(Doc) /\ e \in RoundDoc /\ Complete(Doc)
        /\ \A n \in Mint : Doc.swap[n] = "FAILED" => "swap" \in hazards
    BY <1>12, <1>b, <2>1 DEF Close, Becomes, RowsInv
  <2>3. /\ CarryOut(e) = CarryOut(Doc) /\ \A m \in Mint : Undelivered(e, m) = Undelivered(Doc, m)
        /\ Complete(e) <=> Complete(Doc)
    BY <2>1, <2>2, SameSums
  <2>4. RowInv(e)
    BY <2>1, <2>2, SameRowInv DEF At, Early
  <2>5. e.undelivered = [m \in Mint |-> Undelivered(e, m)]
    BY <2>1, <2>3
  <2> QED
    BY <1>a, <2>1, <2>2, <2>3, <2>4, <2>5 DEF Written
<1> QED
  BY DocCases, <1>3, <1>4, <1>5, <1>6, <1>7, <1>8, <1>9, <1>10, <1>11, <1>12

\* A round that is being delivered has all its rows.
LEMMA CompleteStep ==
  ASSUME TypeOK, CallInv, RowsInv, NeverRefused, [Next]_vars, pc' \in {"deliver", "close"}
  PROVE  Complete(Doc')
<1>1. CASE pc' = pc /\ UNCHANGED <<round, cur>>
  <2>1. Doc' = Doc
    BY <1>1 DEF Doc
  <2> QED
    BY <1>1, <2>1 DEF RowsInv
<1>2. CASE Allocate
  <2>1. PICK e : /\ Becomes(cur, e) /\ e.swap = Doc.swap
                 /\ \A w \in Wallet, m \in Mint : e.transfer[w][m] = Row(Doc, w, m)
    BY <1>2, AllocateDoc
  <2>2. Doc' = e
    BY <1>2, <2>1 DEF Doc, Becomes, Allocate
  <2>3. \A w \in Wallet, m \in Mint : Doc.swap[m] = "DONE" => Row(Doc, w, m).status # "none"
    BY DEF Row
  <2> QED
    BY <2>1, <2>2, <2>3 DEF Complete
<1>3. ASSUME NEW w \in Wallet, NEW m \in Mint, Deliver(w, m) PROVE Complete(Doc')
  <2>1. PICK e : \E answer \in {"DONE", "FAILED", "UNRESOLVED", "SKIPPED_DUST"} :
                 /\ Becomes(cur, e) /\ e.swap = Doc.swap
                 /\ e.transfer[w][m] = [status |-> answer, amount |-> Doc.transfer[w][m].amount]
                 /\ \A v \in Wallet, n \in Mint : v # w \/ n # m => e.transfer[v][n] = Doc.transfer[v][n]
    BY <1>3, DeliverDoc
  <2>2. Doc' = e /\ Complete(Doc)
    BY <1>3, <2>1 DEF Doc, Becomes, Deliver, call, RowsInv
  <2>3. e.transfer[w][m].status # "none"
    BY <2>1
  <2> QED
    BY <2>1, <2>2, <2>3 DEF Complete
<1>4. CASE WriteCarry
  <2>1. Doc' = Doc /\ Complete(Doc)
    BY <1>4 DEF Doc, WriteCarry, RowsInv
  <2> QED
    BY <2>1
<1> QED
  BY NextCases, <1>1, <1>2, <1>3, <1>4 DEF Run, RunFresh, Restart, Named, NamedRefused, Open, Skip, ReadPool,
    Snapshot, EnterSwapping, Intent, Buy, BuyFails, EndSwapping, Close, Throw, Crash, LateLanding, Leave, call, vars

LEMMA RowsStep ==
  ASSUME SwapsAreNotRetried, TypeOK, CallInv, EarlyInv, RowsInv, [Next]_vars
  PROVE  RowsInv'
<1>1. hazards' = hazards /\ (NeverRefused' <=> NeverRefused)
  BY SameEnvironment DEF NeverRefused
<1>2. ASSUME NeverRefused PROVE \A r \in RoundId : Written(round'[r])
  BY <1>2, WrittenStep
<1>3. ASSUME NeverRefused, pc' \in {"deliver", "close"} PROVE Complete(Doc')
  BY <1>3, CompleteStep
<1> QED
  BY <1>1, <1>2, <1>3 DEF RowsInv, Written

-----------------------------------------------------------------------------
(* The vault.                                                              *)

LEMMA Calm ==
  ASSUME Undisturbed, TypeOK, CallInv
  PROVE  /\ NeverRefused /\ mode = "LIVE" /\ Live /\ \A r \in RoundId : round[r].mode = "LIVE"
         /\ "unresolved" \notin hazards /\ "throw" \notin hazards /\ "mode" \notin hazards /\ "fresh" \notin hazards
BY DEF Undisturbed, NeverRefused, CallInv, Live

\* Only the newest round is ever taken up.
LEMMA CurIsNewest ==
  ASSUME Undisturbed, TypeOK, CallInv, VaultInv, pc \in {"work", "swap", "deliver", "close"}
  PROVE  /\ cur = opened /\ opened \in RoundId /\ opened \in Opened /\ opened # 0
         /\ Doc = round[opened] /\ Doc \in RoundDoc /\ MoneyInv(Doc)
<1>1. cur = opened /\ cur \in RoundId /\ cur \in Opened /\ Doc \in RoundDoc
  BY CurOpened DEF VaultInv
<1>2. cur # 0
  BY <1>1 DEF RoundId
<1> QED
  BY <1>1, <1>2 DEF VaultInv, Doc

\* A step of the newest round keeps the books of all of them.
LEMMA NewestStep ==
  ASSUME Undisturbed, TypeOK, CallInv, VaultInv, UNCHANGED <<opened, hazards>>,
         NEW e, opened \in Opened, Becomes(opened, e),
         e.status # "FAILED",
         \A w \in Wallet, m \in Mint : e.transfer[w][m].status # "UNRESOLVED",
         pc' # "open",
         pc' \in {"work", "swap", "deliver", "close"} => cur' = opened,
         MoneyInv(e)'
  PROVE  VaultInv'
<1>1. opened \in RoundId /\ Opened \subseteq RoundId /\ Opened' = Opened /\ opened # 0
  BY OpenedRounds DEF Opened
<1>2. round'[opened] = e /\ \A q \in RoundId \ {opened} : round'[q] = round[q]
  BY DEF Becomes
<1>3. \A r \in Opened : round'[r].status # "FAILED" /\ (r # opened => round'[r].status \in TERMINAL)
  BY <1>1, <1>2 DEF VaultInv
<1>4. \A r \in RoundId, w \in Wallet, m \in Mint : round'[r].transfer[w][m].status # "UNRESOLVED"
  BY <1>1, <1>2 DEF VaultInv
<1>5. MoneyInv(round[opened])'
  BY <1>2
<1> QED
  BY <1>1, <1>3, <1>4, <1>5 DEF VaultInv

\* A step that leaves the documents and the tokens alone.
LEMMA QuietStep ==
  ASSUME Undisturbed, TypeOK, CallInv, VaultInv, UNCHANGED <<round, opened, vault, carry, hazards>>,
         pc' = "open" => Unfinished = {},
         pc' \in {"work", "swap", "deliver", "close"} => cur' = opened,
         pc' = "close" => pc = "close"
  PROVE  VaultInv'
<1>1. Opened' = Opened /\ Unfinished' = Unfinished
  BY DEF Opened, Unfinished
<1>2. opened # 0 => MoneyInv(round[opened])'
  BY DEF VaultInv, MoneyInv, Paid, Total, CarryOut, AppliedCarry, Dust, Share, Undelivered
<1> QED
  BY <1>1, <1>2 DEF VaultInv

\* An older round is never reopened: what it could not deliver is another's.
LEMMA OnlyTheNewestReopens ==
  ASSUME SwapsAreNotRetried, Undisturbed, TypeOK, CallInv, RowsInv, VaultInv,
         NEW r \in Opened, NEW again \in BOOLEAN, Named(r, again)
  PROVE  r = opened /\ (round[r].status \in TERMINAL => round[r].status = "DONE" /\ ReopenAt(round[r]) = "DISTRIBUTING")
<1>1. r \in RoundId /\ round[r] \in RoundDoc /\ round[r].status # "FAILED"
  BY OpenedRounds DEF TypeOK, VaultInv
<1>2. CASE round[r].status \notin TERMINAL
  BY <1>2 DEF VaultInv
<1>3. CASE round[r].status \in TERMINAL
  <2>1. "retry" \in hazards /\ ReopenAt(round[r]) # "none" /\ ~CarriedOver(r)
    BY <1>3 DEF Named
  <2>2. "swap" \notin hazards /\ NeverRefused
    BY <2>1, Calm DEF SwapsAreNotRetried, TypeOK
  <2>3. ~Failed(round[r], "swap")
    BY <1>1, <2>2 DEF RowsInv, Failed
  <2>4. round[r].status = "DONE" /\ ReopenAt(round[r]) = "DISTRIBUTING" /\ Failed(round[r], "transfer")
    BY <1>1, <1>3, <2>1, <2>3 DEF ReopenAt, TERMINAL
  <2>5. PICK w \in Wallet, m \in Mint : round[r].transfer[w][m].status = "FAILED"
    BY <2>4 DEF Failed
  <2>6. round[r].transfer[w][m].amount > 0 /\ round[r].undelivered[m] = Undelivered(round[r], m)
    <3>1. RowInv(round[r])
      BY <1>1, <2>2 DEF RowsInv
    <3>2. round[r].undelivered = [n \in Mint |-> Undelivered(round[r], n)]
      BY <1>1, <2>2, <2>4 DEF RowsInv
    <3>3. round[r].transfer[w][m].amount > 0
      BY <2>5, <3>1 DEF RowInv
    <3> QED
      BY <3>2, <3>3
  <2>7. LeftRows(round[r], m)[w] = round[r].transfer[w][m].amount
    BY <2>5 DEF LeftRows
  <2>8. Undelivered(round[r], m) > 0
    <3>1. LeftRows(round[r], m)[w] <= SumFunction(LeftRows(round[r], m))
      BY <1>1, SumMember, RowsAreNat, SizesAssumption
    <3>2. round[r].transfer[w][m].amount \in Nat
      BY <1>1 DEF RoundDoc
    <3> QED
      BY <1>1, <2>6, <2>7, <3>1, <3>2, RowSums
  <2>9. round[r].undelivered # Nothing
    BY <2>6, <2>8 DEF Nothing
  <2> QED
    BY <2>1, <2>4, <2>9 DEF CarriedOver, Latest
<1> QED
  BY <1>2, <1>3

\* What the books say of the vault is what they say in the same document with
\* another step.
LEMMA SameMoney ==
  ASSUME NEW d \in RoundDoc, NEW e \in RoundDoc, SameWork(d, e)
  PROVE  /\ \A m \in Mint : Paid(e, m) = Paid(d, m) /\ Total(e, m) = Total(d, m)
         /\ CarryOut(e) = CarryOut(d)
BY SameSums DEF SameWork

\* What the books say in the next state, of a document that is given.
LEMMA MoneyNext ==
  ASSUME NEW e
  PROVE  MoneyInv(e)' <=>
           /\ e.status \notin {"SWAPPING", "DISTRIBUTING"} => vault' = carry'["LIVE"]
           /\ e.status = "SWAPPING" => e.carryIn = carry'["LIVE"]
           /\ e.status \in {"SWAPPING", "DISTRIBUTING", "DONE"} => \A m \in Mint : vault'[m] + Paid(e, m) = Total(e, m)
           /\ pc' = "close" => carry'["LIVE"] = CarryOut(e)
BY DEF MoneyInv, Paid, Total, CarryOut, AppliedCarry, Dust, Share, Undelivered

LEMMA RunMoney ==
  ASSUME Undisturbed, TypeOK, CallInv, VaultInv, Run
  PROVE  VaultInv'
<1>1. CASE Unfinished = {}
  BY <1>1, QuietStep DEF Run
<1>2. CASE Unfinished # {}
  <2> DEFINE r == CHOOSE r \in Unfinished : \A q \in Unfinished : r <= q
  <2>1. r \in Unfinished
    BY <1>2, OldestUnfinished
  <2>2. r \in Opened /\ round[r].status \notin TERMINAL /\ r \in RoundId
    BY <2>1, OpenedRounds DEF Unfinished
  <2>3. r = opened /\ round[r].mode = mode
    BY <2>2, Calm DEF VaultInv
  <2>4. pc' = "work" /\ cur' = r /\ UNCHANGED <<round, opened, vault, carry, hazards>>
    BY <1>2, <2>3 DEF Run
  <2> HIDE DEF r
  <2> QED
    BY <2>3, <2>4, QuietStep
<1> QED
  BY <1>1, <1>2

LEMMA NamedMoney ==
  ASSUME SwapsAreNotRetried, Undisturbed, TypeOK, CallInv, RowsInv, VaultInv,
         NEW r \in Opened, NEW again \in BOOLEAN, Named(r, again)
  PROVE  VaultInv'
<1>1. r = opened /\ (round[r].status \in TERMINAL => round[r].status = "DONE" /\ ReopenAt(round[r]) = "DISTRIBUTING")
  BY OnlyTheNewestReopens
<1>2. pc' = "work" /\ cur' = opened /\ UNCHANGED <<opened, vault, carry, hazards>>
  BY <1>1 DEF Named
<1>3. CASE round' = round
  BY <1>2, <1>3, QuietStep
<1>4. CASE round[r].status \in TERMINAL
  <2>1. PICK e : Becomes(r, e) /\ SameWork(round[r], e) /\ e.status = ReopenAt(round[r])
    BY <1>4, NamedDoc DEF TERMINAL
  <2>2. e.status = "DISTRIBUTING" /\ round[r].status = "DONE" /\ r \in RoundId /\ r # 0
    BY <1>1, <1>4, <2>1, OpenedRounds DEF RoundId
  <2>3. round[r] \in RoundDoc /\ e \in RoundDoc /\ MoneyInv(round[r])
    BY <1>1, <2>1, <2>2 DEF TypeOK, Becomes, VaultInv
  <2>4. \A m \in Mint : Paid(e, m) = Paid(round[r], m) /\ Total(e, m) = Total(round[r], m)
    BY <2>1, <2>3, SameMoney
  <2>5. MoneyInv(e)'
    BY <1>2, <2>2, <2>3, <2>4, MoneyNext DEF MoneyInv
  <2>6. \A w \in Wallet, m \in Mint : e.transfer[w][m].status # "UNRESOLVED"
    BY <2>1, <2>2 DEF SameWork, VaultInv
  <2> QED
    BY <1>1, <1>2, <2>1, <2>2, <2>5, <2>6, NewestStep
<1> QED
  BY <1>3, <1>4, NamedDoc

LEMMA OpenMoney ==
  ASSUME Undisturbed, TypeOK, CallInv, VaultInv, Open
  PROVE  VaultInv'
<1>1. PICK e : e = NewRound(mode) /\ opened + 1 \in RoundId /\ Becomes(opened + 1, e)
  BY OpenDoc
<1>2. e.status = "PENDING" /\ \A w \in Wallet, m \in Mint : e.transfer[w][m].status = "none"
  BY <1>1 DEF NewRound, NoRow
<1>3. /\ Unfinished = {} /\ opened \in Nat /\ opened' = opened + 1 /\ pc' = "work" /\ cur' = opened + 1
      /\ UNCHANGED <<vault, carry, hazards>>
  BY BoundsAssumption DEF Open, VaultInv, TypeOK
<1>4. vault = carry["LIVE"]
  <2>1. CASE opened = 0
    BY <2>1 DEF VaultInv
  <2>2. CASE opened # 0
    <3>1. opened \in Opened /\ MoneyInv(round[opened])
      BY <1>3, <2>2 DEF Opened, VaultInv
    <3>2. round[opened].status \in TERMINAL
      BY <1>3, <3>1 DEF Unfinished
    <3> QED
      BY <3>1, <3>2 DEF MoneyInv, TERMINAL
  <2> QED
    BY <2>1, <2>2
<1>5. round'[opened + 1] = e /\ \A q \in RoundId \ {opened + 1} : round'[q] = round[q]
  BY <1>1 DEF Becomes
<1>6. Opened' = Opened \cup {opened + 1} /\ Opened \subseteq RoundId /\ opened + 1 \notin Opened
  BY <1>3, OpenedRounds DEF Opened
<1>7. \A r \in Opened' : round'[r].status # "FAILED" /\ (r # opened + 1 => round'[r].status \in TERMINAL)
  <2>1. \A r \in Opened : round'[r].status # "FAILED" /\ round'[r].status \in TERMINAL
    BY <1>3, <1>5, <1>6 DEF VaultInv, Unfinished
  <2> QED
    BY <1>2, <1>5, <1>6, <2>1
<1>8. \A r \in RoundId, w \in Wallet, m \in Mint : round'[r].transfer[w][m].status # "UNRESOLVED"
  BY <1>2, <1>5 DEF VaultInv
<1>9. MoneyInv(e)'
  BY <1>2, <1>3, <1>4, MoneyNext
<1>10. MoneyInv(round[opened])'
  BY <1>3, <1>5, <1>9
<1> QED
  BY <1>3, <1>7, <1>8, <1>10 DEF VaultInv

LEMMA SkipMoney ==
  ASSUME Undisturbed, TypeOK, CallInv, VaultInv, Skip \/ ReadPool
  PROVE  VaultInv'
<1>1. /\ cur = opened /\ opened \in RoundId /\ opened \in Opened /\ Doc = round[opened] /\ Doc \in RoundDoc
      /\ MoneyInv(Doc)
  BY CurIsNewest DEF Skip, ReadPool
<1>2. PICK e : /\ Becomes(cur, e) /\ SameWork(Doc, e) /\ e.status \in {"SKIPPED", "SNAPSHOT"}
               /\ Doc.status \in {"PENDING", "SNAPSHOT"}
  BY SkipDoc, ReadPoolDoc
<1>3. /\ UNCHANGED <<opened, hazards, vault, carry>>
      /\ pc' \in {"idle", "work"} /\ (pc' = "work" => cur' = opened)
  BY <1>1 DEF Skip, ReadPool, Leave, call
<1>4. MoneyInv(e)'
  BY <1>1, <1>2, <1>3, MoneyNext DEF MoneyInv
<1>5. \A w \in Wallet, m \in Mint : e.transfer[w][m].status # "UNRESOLVED"
  BY <1>1, <1>2 DEF SameWork, VaultInv
<1> QED
  BY <1>1, <1>2, <1>3, <1>4, <1>5, NewestStep

LEMMA SnapshotMoney ==
  ASSUME Undisturbed, TypeOK, CallInv, RowsInv, VaultInv, Snapshot
  PROVE  VaultInv'
<1>1. /\ cur = opened /\ opened \in RoundId /\ opened \in Opened /\ Doc = round[opened] /\ Doc \in RoundDoc
      /\ MoneyInv(Doc) /\ mode = "LIVE" /\ NeverRefused
  BY CurIsNewest, Calm DEF Snapshot
<1>2. PICK e : /\ Becomes(cur, e) /\ Doc.status = "SNAPSHOT" /\ e.status = "SWAPPING"
               /\ e.carryIn = carry[mode] /\ e.received = Nothing /\ e.transfer = Doc.transfer
  BY SnapshotDoc
<1>3. UNCHANGED <<opened, hazards, vault, carry>> /\ pc' = "work" /\ cur' = opened
  BY <1>1 DEF Snapshot, call
<1>4. vault = carry["LIVE"] /\ e \in RoundDoc /\ vault \in [Mint -> Nat]
  BY <1>1, <1>2 DEF MoneyInv, Becomes, TypeOK
<1>5. \A w \in Wallet, m \in Mint : e.transfer[w][m].status = "none"
  BY <1>1, <1>2 DEF RowsInv, RowInv, At, Early
<1>6. ASSUME NEW m \in Mint PROVE vault'[m] + Paid(e, m) = Total(e, m)
  <2>1. Paid(e, m) = 0
    BY <1>4, <1>5, NothingPaidYet
  <2>2. Total(e, m) = vault[m] /\ vault[m] \in Nat
    BY <1>1, <1>2, <1>4 DEF Total, Nothing
  <2> QED
    BY <1>3, <2>1, <2>2
<1>7. MoneyInv(e)'
  BY <1>1, <1>2, <1>3, <1>6, MoneyNext
<1> QED
  BY <1>1, <1>2, <1>3, <1>5, <1>7, NewestStep

LEMMA IntentMoney ==
  ASSUME Undisturbed, TypeOK, CallInv, VaultInv, NEW m \in Mint, Intent(m) \/ BuyFails(m)
  PROVE  VaultInv'
<1>1. /\ cur = opened /\ opened \in RoundId /\ opened \in Opened /\ Doc = round[opened] /\ Doc \in RoundDoc
      /\ MoneyInv(Doc)
  BY CurIsNewest DEF Intent, BuyFails
<1>2. PICK e : /\ Becomes(cur, e) /\ e.status = Doc.status
               /\ e.carryIn = Doc.carryIn /\ e.received = Doc.received /\ e.transfer = Doc.transfer
  <2>1. CASE Intent(m)
    <3>1. PICK e : /\ Becomes(cur, e) /\ e.status = Doc.status /\ e.resumeFrom = Doc.resumeFrom /\ e.mode = Doc.mode
                   /\ e.carryIn = Doc.carryIn /\ e.received = Doc.received /\ e.transfer = Doc.transfer
                   /\ e.swap = [Doc.swap EXCEPT ![m] = "SENDING"]
                   /\ Doc.swap[m] \in {"PENDING", "FAILED"}
      BY <2>1, IntentDoc
    <3> QED
      BY <3>1
  <2>2. CASE BuyFails(m)
    <3>1. PICK e : \E answer \in {"FAILED", "UNRESOLVED"} :
                   /\ Becomes(cur, e) /\ e.status = Doc.status /\ e.resumeFrom = Doc.resumeFrom /\ e.mode = Doc.mode
                   /\ e.carryIn = Doc.carryIn /\ e.received = Doc.received /\ e.transfer = Doc.transfer
                   /\ e.swap = [Doc.swap EXCEPT ![m] = answer]
                   /\ Doc.swap[m] # "DONE" /\ (answer = "FAILED" => "swap" \in hazards)
      BY <2>2, BuyFailsDoc
    <3> QED
      BY <3>1
  <2> QED
    BY <2>1, <2>2
<1>3. UNCHANGED <<opened, hazards, vault, carry>> /\ pc' = "swap" /\ cur' = opened
  BY <1>1 DEF Intent, BuyFails, call
<1>4. \A n \in Mint : Paid(e, n) = Paid(Doc, n) /\ Total(e, n) = Total(Doc, n)
  BY <1>2 DEF Paid, Total
<1>5. Doc.status = "SWAPPING"
  BY DEF CallInv, Intent, BuyFails
<1>6. MoneyInv(e)'
  BY <1>1, <1>2, <1>3, <1>4, <1>5, MoneyNext DEF MoneyInv
<1>7. \A w \in Wallet, n \in Mint : e.transfer[w][n].status # "UNRESOLVED"
  BY <1>1, <1>2 DEF VaultInv
<1> QED
  BY <1>1, <1>2, <1>3, <1>5, <1>6, <1>7, NewestStep

LEMMA BuyMoney ==
  ASSUME Undisturbed, TypeOK, CallInv, RowsInv, VaultInv, NEW m \in Mint, Buy(m)
  PROVE  VaultInv'
<1>1. /\ cur = opened /\ opened \in RoundId /\ opened \in Opened /\ Doc = round[opened] /\ Doc \in RoundDoc
      /\ MoneyInv(Doc) /\ Live /\ NeverRefused
  BY CurIsNewest, Calm DEF Buy
<1>2. PICK e :
           /\ Becomes(cur, e) /\ e.status = Doc.status /\ e.resumeFrom = Doc.resumeFrom /\ e.mode = Doc.mode
           /\ e.carryIn = Doc.carryIn /\ e.transfer = Doc.transfer
           /\ e.swap = [Doc.swap EXCEPT ![m] = "DONE"]
           /\ \A k \in Mint \ {m} : e.received[k] = Doc.received[k] /\ vault'[k] = vault[k]
           /\ Doc.status = "SWAPPING" /\ Doc.swap[m] # "DONE"
           /\ vault'[m] = IF Live THEN vault[m] + e.received[m] ELSE vault[m]
  BY BuyDoc
<1>3. UNCHANGED <<opened, hazards, carry>> /\ pc' = "swap" /\ cur' = opened
  BY <1>1 DEF Buy
<1>4. e \in RoundDoc /\ vault \in [Mint -> Nat] /\ Doc.received[m] = 0
  <2>1. RowInv(Doc)
    BY <1>1 DEF RowsInv
  <2> QED
    BY <1>2, <2>1 DEF Becomes, TypeOK, RowInv
<1>5. ASSUME NEW n \in Mint PROVE vault'[n] + Paid(e, n) = Total(e, n)
  <2>1. Paid(e, n) = Paid(Doc, n)
    BY <1>2 DEF Paid
  <2>2. vault[n] + Paid(Doc, n) = Total(Doc, n)
    BY <1>1, <1>2 DEF MoneyInv
  <2>3. /\ Paid(Doc, n) \in Nat /\ vault[n] \in Nat /\ e.received[n] \in Nat /\ Doc.received[n] \in Nat
        /\ Doc.carryIn[n] \in Nat
    BY <1>1, <1>4, RowSums DEF RoundDoc
  <2>4. CASE n = m
    <3>1. vault'[n] = vault[n] + e.received[n] /\ Doc.received[n] = 0
      BY <1>1, <1>2, <1>4, <2>4
    <3> QED
      BY <1>2, <2>1, <2>2, <2>3, <3>1 DEF Total
  <2>5. CASE n # m
    BY <1>2, <2>1, <2>2, <2>5 DEF Total
  <2> QED
    BY <2>4, <2>5
<1>6. MoneyInv(e)'
  BY <1>1, <1>2, <1>3, <1>5, MoneyNext DEF MoneyInv
<1>7. \A w \in Wallet, n \in Mint : e.transfer[w][n].status # "UNRESOLVED"
  BY <1>1, <1>2 DEF VaultInv
<1> QED
  BY <1>1, <1>2, <1>3, <1>6, <1>7, NewestStep

LEMMA EndSwappingMoney ==
  ASSUME Undisturbed, TypeOK, CallInv, VaultInv, EndSwapping
  PROVE  VaultInv'
<1>1. /\ cur = opened /\ opened \in RoundId /\ opened \in Opened /\ Doc = round[opened] /\ Doc \in RoundDoc
      /\ MoneyInv(Doc) /\ mode = "LIVE"
  BY CurIsNewest, Calm DEF EndSwapping
<1>2. PICK e : /\ Becomes(cur, e) /\ Doc.status = "SWAPPING" /\ e.status = "DISTRIBUTING"
               /\ e.carryIn = (IF Doc.carryIn # Nothing THEN Doc.carryIn ELSE carry[mode])
               /\ e.received = Doc.received /\ e.transfer = Doc.transfer
  BY EndSwappingDoc
<1>3. UNCHANGED <<opened, hazards, vault, carry>> /\ pc' = "work" /\ cur' = opened
  BY <1>1 DEF EndSwapping
<1>4. e.carryIn = Doc.carryIn
  BY <1>1, <1>2 DEF MoneyInv
<1>5. \A n \in Mint : Paid(e, n) = Paid(Doc, n) /\ Total(e, n) = Total(Doc, n)
  BY <1>2, <1>4 DEF Paid, Total
<1>6. MoneyInv(e)'
  BY <1>1, <1>2, <1>3, <1>5, MoneyNext DEF MoneyInv
<1>7. \A w \in Wallet, n \in Mint : e.transfer[w][n].status # "UNRESOLVED"
  BY <1>1, <1>2 DEF VaultInv
<1> QED
  BY <1>1, <1>2, <1>3, <1>6, <1>7, NewestStep

LEMMA AllocateMoney ==
  ASSUME Undisturbed, TypeOK, CallInv, VaultInv, Allocate
  PROVE  VaultInv'
<1>1. /\ cur = opened /\ opened \in RoundId /\ opened \in Opened /\ Doc = round[opened] /\ Doc \in RoundDoc
      /\ MoneyInv(Doc)
  BY CurIsNewest DEF Allocate
<1>2. PICK e : /\ Becomes(cur, e) /\ e.status = Doc.status /\ Doc.status = "DISTRIBUTING"
               /\ e.carryIn = Doc.carryIn /\ e.received = Doc.received
               /\ \A w \in Wallet, m \in Mint : e.transfer[w][m] = Row(Doc, w, m)
  BY AllocateDoc
<1>3. UNCHANGED <<opened, hazards, vault, carry>> /\ pc' = "deliver" /\ cur' = opened
  BY <1>1 DEF Allocate
<1>4. ASSUME NEW w \in Wallet, NEW m \in Mint
      PROVE  /\ e.transfer[w][m].status = "DONE" <=> Doc.transfer[w][m].status = "DONE"
             /\ Doc.transfer[w][m].status = "DONE" => e.transfer[w][m].amount = Doc.transfer[w][m].amount
             /\ e.transfer[w][m].status = "UNRESOLVED" => Doc.transfer[w][m].status = "UNRESOLVED"
  <2>1. e.transfer[w][m] = Row(Doc, w, m)
    BY <1>2
  <2> QED
    BY <2>1 DEF Row
<1>5. ASSUME NEW m \in Mint PROVE Paid(e, m) = Paid(Doc, m) /\ Total(e, m) = Total(Doc, m)
  <2>1. DoneRows(e, m) = DoneRows(Doc, m)
    BY <1>4 DEF DoneRows
  <2>2. e \in RoundDoc
    BY <1>2 DEF Becomes
  <2> QED
    BY <1>1, <1>2, <2>1, <2>2, RowSums DEF Total
<1>6. MoneyInv(e)'
  BY <1>1, <1>2, <1>3, <1>5, MoneyNext DEF MoneyInv
<1>7. \A w \in Wallet, n \in Mint : e.transfer[w][n].status # "UNRESOLVED"
  BY <1>1, <1>4 DEF VaultInv
<1> QED
  BY <1>1, <1>2, <1>3, <1>6, <1>7, NewestStep

LEMMA DeliverMoney ==
  ASSUME Undisturbed, TypeOK, CallInv, VaultInv, NEW w \in Wallet, NEW m \in Mint, Deliver(w, m)
  PROVE  VaultInv'
<1>1. /\ cur = opened /\ opened \in RoundId /\ opened \in Opened /\ Doc = round[opened] /\ Doc \in RoundDoc
      /\ MoneyInv(Doc) /\ Live /\ "unresolved" \notin hazards
  BY CurIsNewest, Calm DEF Deliver
<1>2. PICK e : \E answer \in {"DONE", "FAILED", "UNRESOLVED", "SKIPPED_DUST"} :
           /\ Becomes(cur, e) /\ e.status = Doc.status /\ e.resumeFrom = Doc.resumeFrom /\ e.mode = Doc.mode
           /\ Doc.status = "DISTRIBUTING" /\ Doc.transfer[w][m].status = "PENDING"
           /\ e.carryIn = Doc.carryIn /\ e.received = Doc.received /\ e.swap = Doc.swap
           /\ e.transfer[w][m] = [status |-> answer, amount |-> Doc.transfer[w][m].amount]
           /\ \A v \in Wallet, n \in Mint : v # w \/ n # m => e.transfer[v][n] = Doc.transfer[v][n]
           /\ answer = "SKIPPED_DUST" <=> Live /\ Doc.transfer[w][m].amount = 0
           /\ answer = "DONE" /\ Live => Doc.transfer[w][m].amount <= vault[m]
           /\ answer = "FAILED" => Live
           /\ answer = "UNRESOLVED" => "unresolved" \in hazards
           /\ vault' \in [Mint -> Nat] /\ \A n \in Mint \ {m} : vault'[n] = vault[n]
           /\ vault'[m] = IF Live /\ answer = "DONE" THEN vault[m] - Doc.transfer[w][m].amount ELSE vault[m]
  BY DeliverDoc
<1>3. PICK answer \in {"DONE", "FAILED", "SKIPPED_DUST"} :
        /\ Becomes(cur, e) /\ e.status = Doc.status
        /\ Doc.status = "DISTRIBUTING" /\ Doc.transfer[w][m].status = "PENDING"
        /\ e.carryIn = Doc.carryIn /\ e.received = Doc.received
        /\ e.transfer[w][m] = [status |-> answer, amount |-> Doc.transfer[w][m].amount]
        /\ \A v \in Wallet, n \in Mint : v # w \/ n # m => e.transfer[v][n] = Doc.transfer[v][n]
        /\ \A n \in Mint \ {m} : vault'[n] = vault[n]
        /\ answer = "DONE" => vault'[m] = vault[m] - Doc.transfer[w][m].amount /\ Doc.transfer[w][m].amount <= vault[m]
        /\ answer # "DONE" => vault'[m] = vault[m]
  BY <1>1, <1>2
<1>4. UNCHANGED <<opened, hazards, carry>> /\ pc' = "deliver" /\ cur' = opened
  BY <1>1 DEF Deliver, call
<1>5. e \in RoundDoc /\ vault \in [Mint -> Nat] /\ Doc.transfer[w][m].amount \in Nat
  BY <1>1, <1>3 DEF Becomes, TypeOK, RoundDoc
<1>6. ASSUME NEW n \in Mint PROVE vault'[n] + Paid(e, n) = Total(e, n)
  <2>1. Total(e, n) = Total(Doc, n) /\ vault[n] + Paid(Doc, n) = Total(Doc, n)
    BY <1>1, <1>3 DEF MoneyInv, Total
  <2>2. /\ Paid(e, n) = SumFunction(DoneRows(e, n)) /\ Paid(Doc, n) = SumFunction(DoneRows(Doc, n))
        /\ DoneRows(e, n) \in [Wallet -> Nat] /\ DoneRows(Doc, n) \in [Wallet -> Nat]
        /\ Paid(e, n) \in Nat /\ Paid(Doc, n) \in Nat /\ vault[n] \in Nat
    BY <1>1, <1>5, RowSums, RowsAreNat
  <2>3. CASE n # m
    <3>1. DoneRows(e, n) = DoneRows(Doc, n)
      BY <1>3, <2>3 DEF DoneRows
    <3> QED
      BY <1>3, <2>1, <2>2, <2>3, <3>1
  <2>4. CASE n = m
    <3>1. \A v \in Wallet \ {w} : DoneRows(Doc, m)[v] = DoneRows(e, m)[v]
      BY <1>3 DEF DoneRows
    <3>2. DoneRows(Doc, m)[w] = 0
      BY <1>3 DEF DoneRows
    <3>3. DoneRows(e, m)[w] = IF answer = "DONE" THEN Doc.transfer[w][m].amount ELSE 0
      BY <1>3 DEF DoneRows
    <3>4. Paid(e, m) + DoneRows(Doc, m)[w] = Paid(Doc, m) + DoneRows(e, m)[w]
      BY <2>2, <2>4, <3>1, SumUpdate, SizesAssumption
    <3> QED
      BY <1>3, <1>5, <2>1, <2>2, <2>4, <3>2, <3>3, <3>4
  <2> QED
    BY <2>3, <2>4
<1>7. MoneyInv(e)'
  BY <1>1, <1>3, <1>4, <1>6, MoneyNext
<1>8. ASSUME NEW v \in Wallet, NEW n \in Mint PROVE e.transfer[v][n].status # "UNRESOLVED"
  <2>1. CASE v = w /\ n = m
    BY <1>3, <2>1
  <2>2. CASE v # w \/ n # m
    <3>1. e.transfer[v][n] = round[opened].transfer[v][n]
      BY <1>1, <1>3, <2>2
    <3> QED
      BY <1>1, <3>1 DEF VaultInv
  <2> QED
    BY <2>1, <2>2
<1> QED
  BY <1>1, <1>3, <1>4, <1>7, <1>8, NewestStep

LEMMA WriteCarryMoney ==
  ASSUME Undisturbed, TypeOK, CallInv, VaultInv, WriteCarry
  PROVE  VaultInv'
<1>1. /\ cur = opened /\ opened \in RoundId /\ opened \in Opened /\ Doc = round[opened] /\ Doc \in RoundDoc
      /\ MoneyInv(Doc) /\ mode = "LIVE" /\ opened # 0
  BY CurIsNewest, Calm DEF WriteCarry
<1>2. Doc.status = "DISTRIBUTING"
  BY DEF CallInv, WriteCarry
<1>3. PICK e : e = Doc
  OBVIOUS
<1>4. carry'["LIVE"] = CarryOut(e)
  <2>1. carry \in [Modes -> [Mint -> Nat]] /\ "LIVE" \in Modes
    BY DEF TypeOK, Modes
  <2> QED
    BY <1>1, <1>3, <2>1 DEF WriteCarry, Latest
<1>5. UNCHANGED <<round, opened, hazards, vault>> /\ pc' = "close" /\ cur' = opened
  BY <1>1 DEF WriteCarry
<1>6. MoneyInv(e)'
  BY <1>1, <1>2, <1>3, <1>4, <1>5, MoneyNext DEF MoneyInv
<1>7. MoneyInv(round[opened])' /\ Opened' = Opened
  BY <1>1, <1>3, <1>5, <1>6 DEF Opened
<1> QED
  BY <1>1, <1>5, <1>7 DEF VaultInv

LEMMA CloseMoney ==
  ASSUME Undisturbed, TypeOK, CallInv, RowsInv, VaultInv, Close
  PROVE  VaultInv'
<1>1. /\ cur = opened /\ opened \in RoundId /\ opened \in Opened /\ Doc = round[opened] /\ Doc \in RoundDoc
      /\ MoneyInv(Doc) /\ NeverRefused
  BY CurIsNewest, Calm DEF Close
<1>2. PICK e : /\ Becomes(cur, e) /\ e.status = "DONE"
               /\ e.carryIn = Doc.carryIn /\ e.received = Doc.received /\ e.swap = Doc.swap
               /\ e.transfer = Doc.transfer
  BY CloseDoc
<1>3. UNCHANGED <<opened, hazards, vault, carry>> /\ pc' = "idle"
  BY DEF Close, Leave
<1>4. Doc.status = "DISTRIBUTING" /\ carry["LIVE"] = CarryOut(Doc) /\ RowInv(Doc) /\ Complete(Doc)
  BY <1>1 DEF CallInv, MoneyInv, RowsInv, Close
<1>5. vault = carry["LIVE"]
  <2>1. vault \in [Mint -> Nat] /\ carry["LIVE"] \in [Mint -> Nat]
    BY <1>1, <1>4, CarryType DEF TypeOK
  <2>2. ASSUME NEW m \in Mint PROVE vault[m] = carry["LIVE"][m]
    <3>1. CarryOut(Doc)[m] + Paid(Doc, m) = Total(Doc, m)
      BY <1>1, <1>4, NothingIsLost
    <3>2. vault[m] + Paid(Doc, m) = Total(Doc, m)
      BY <1>1, <1>4 DEF MoneyInv
    <3>3. Paid(Doc, m) \in Nat /\ vault[m] \in Nat /\ CarryOut(Doc)[m] \in Nat
      BY <1>1, <1>4, <2>1, RowSums
    <3> QED
      BY <1>4, <3>1, <3>2, <3>3
  <2> QED
    BY <2>1, <2>2
<1>6. \A n \in Mint : Paid(e, n) = Paid(Doc, n) /\ Total(e, n) = Total(Doc, n)
  BY <1>2 DEF Paid, Total
<1>7. MoneyInv(e)'
  BY <1>1, <1>2, <1>3, <1>4, <1>5, <1>6, MoneyNext DEF MoneyInv
<1>8. \A w \in Wallet, n \in Mint : e.transfer[w][n].status # "UNRESOLVED"
  BY <1>1, <1>2 DEF VaultInv
<1> QED
  BY <1>1, <1>2, <1>3, <1>7, <1>8, NewestStep

\* Every step keeps the books of the vault.
LEMMA VaultStep ==
  ASSUME SwapsAreNotRetried, TypeOK, CallInv, EarlyInv, RowsInv, VaultInv, [Next]_vars
  PROVE  VaultInv'
<1>1. Undisturbed' <=> Undisturbed
  BY SameEnvironment DEF Undisturbed
<1>2. CASE ~Undisturbed
  BY <1>1, <1>2 DEF VaultInv
<1>3. CASE Undisturbed
  <2>1. ~RunFresh /\ ~Restart /\ ~Throw
    BY <1>3, Calm DEF RunFresh, Restart, Throw
  <2>2. ASSUME NEW r \in Opened, NEW again \in BOOLEAN, NamedRefused(r, again) PROVE FALSE
    BY <1>3, <2>2, Calm, OpenedRounds DEF NamedRefused
  <2>3. ASSUME NEW r \in Opened, NEW w \in Wallet, NEW m \in Mint, LateLanding(r, w, m) PROVE FALSE
    BY <1>3, <2>3, OpenedRounds DEF LateLanding, VaultInv
  <2>4. CASE EnterSwapping
    <3>1. cur = opened
      BY <1>3, <2>4, CurIsNewest DEF EnterSwapping
    <3> QED
      BY <1>3, <2>4, <3>1, QuietStep DEF EnterSwapping
  <2>5. CASE Crash
    BY <1>3, <2>5, QuietStep DEF Crash, Leave
  <2>6. CASE UNCHANGED vars
    <3>1. pc' \in {"work", "swap", "deliver", "close"} => cur' = opened
      BY <1>3, <2>6 DEF VaultInv, vars
    <3>2. pc' = "open" => Unfinished = {}
      BY <1>3, <2>6 DEF VaultInv, vars
    <3> QED
      BY <1>3, <2>6, <3>1, <3>2, QuietStep DEF vars
  <2> QED
    BY <1>3, <2>1, <2>2, <2>3, <2>4, <2>5, <2>6, NextCases, RunMoney, NamedMoney, OpenMoney, SkipMoney,
       SnapshotMoney, IntentMoney, BuyMoney, EndSwappingMoney, AllocateMoney, DeliverMoney, WriteCarryMoney,
       CloseMoney
<1> QED
  BY <1>2, <1>3

-----------------------------------------------------------------------------
(* The theorems.                                                           *)

LEMMA Start == ASSUME Init PROVE IInv
<1>1. \A r \in RoundId : /\ round[r] = NotOpened /\ NotOpened \in RoundDoc
                         /\ NotOpened.status = "none" /\ NotOpened.resumeFrom = "none" /\ NotOpened.mode = "LIVE"
                         /\ NotOpened.swap = [m \in Mint |-> "none"] /\ NotOpened.received = Nothing
                         /\ \A w \in Wallet, m \in Mint : NotOpened.transfer[w][m] = NoRow
  BY DEF Init, NotOpened, NewRound, RoundDoc, NoRow, Nothing, Modes, Steps, SwapStatus, RowStatus
<1> HIDE DEF NotOpened
<1>2. TypeOK
  <2>1. round \in [RoundId -> RoundDoc]
    BY <1>1 DEF Init
  <2>2. \A r \in RoundId : round[r].status = "none" <=> r > opened
    BY <1>1 DEF Init, RoundId
  <2>3. carry \in [Modes -> [Mint -> Nat]] /\ vault \in [Mint -> Nat] /\ mode \in Modes
    BY DEF Init, Modes, Nothing
  <2>4. /\ opened \in 0 .. MaxRounds /\ pc \in PCs /\ cur \in RoundId \cup {NoRound} /\ retry \in BOOLEAN
        /\ todo \subseteq Mint
    <3>1. opened \in 0 .. MaxRounds
      BY BoundsAssumption DEF Init
    <3> QED
      BY <3>1 DEF Init, PCs
  <2>5. late \subseteq RoundId \X Wallet \X Mint /\ hazards \in HazardSets /\ crashes \in Nat /\ retries \in Nat
    BY DEF Init
  <2> QED
    BY <2>1, <2>2, <2>3, <2>4, <2>5 DEF TypeOK
<1>3. CallInv
  BY <1>1 DEF Init, CallInv
<1>4. EarlyInv
  BY <1>1 DEF EarlyInv
<1>5. RowsInv
  <2>1. RowInv(NotOpened)
    <3>1. NoRow.status = "none" /\ NoRow.amount = 0
      BY DEF NoRow
    <3>2. \A w \in Wallet, m \in Mint : NotOpened.transfer[w][m] = NoRow
      BY DEF NotOpened, NewRound
    <3>3. \A m \in Mint : NotOpened.received[m] = 0
      BY DEF NotOpened, NewRound, Nothing
    <3> QED
      BY <3>1, <3>2, <3>3 DEF RowInv
  <2>2. \A r \in RoundId : round[r] = NotOpened
    BY <1>1
  <2> QED
    BY <1>1, <2>1, <2>2 DEF RowsInv, Init
<1>6. VaultInv
  BY <1>1 DEF Init, VaultInv, Opened, NoRow, Modes
<1> QED
  BY <1>2, <1>3, <1>4, <1>5, <1>6 DEF IInv

\* Every document, flag and counter stays in its range; the running call works
\* on a round that is open, at the step that round is at.
THEOREM TypeCorrect == Spec => []TypeOK
<1>1. Init => TypeOK /\ CallInv
  BY Start DEF IInv
<1>2. TypeOK /\ CallInv /\ [Next]_vars => (TypeOK /\ CallInv)'
  BY TypeStep, CallStep
<1> QED
  BY <1>1, <1>2, PTL DEF Spec

LEMMA EarlyHolds == Spec => [](TypeOK /\ CallInv /\ EarlyInv)
<1>1. Init => TypeOK /\ CallInv /\ EarlyInv
  BY Start DEF IInv
<1>2. TypeOK /\ CallInv /\ EarlyInv /\ [Next]_vars => (TypeOK /\ CallInv /\ EarlyInv)'
  BY TypeStep, CallStep, EarlyStep
<1> QED
  BY <1>1, <1>2, PTL DEF Spec

\* The rows of a round are the shares of what it had, the vault holds what the
\* carry key or the newest round says: kept by every step.
THEOREM Inductive == SwapsAreNotRetried => (Spec => []IInv)
<1> SUFFICES ASSUME SwapsAreNotRetried PROVE Spec => []IInv
  OBVIOUS
<1>1. Init => IInv
  BY Start
<1>2. IInv /\ [Next]_vars => IInv'
  BY TypeStep, CallStep, EarlyStep, RowsStep, VaultStep DEF IInv
<1> QED
  BY <1>1, <1>2, PTL DEF Spec

LEMMA BooksFollow == ASSUME IInv PROVE BooksBalance /\ EveryTransferIsFunded
<1>1. CarryIsTheVault
  <2> SUFFICES ASSUME Undisturbed, Settled PROVE carry["LIVE"] = vault
    BY DEF CarryIsTheVault
  <2>1. CASE opened = 0
    BY <2>1 DEF IInv, VaultInv
  <2>2. CASE opened # 0
    <3>1. opened \in Opened /\ MoneyInv(round[opened])
      BY <2>2, BoundsAssumption DEF IInv, TypeOK, VaultInv, Opened
    <3> QED
      BY <3>1 DEF Settled, MoneyInv
  <2> QED
    BY <2>1, <2>2
<1>2. ASSUME NeverRefused, NEW r \in Opened, NEW m \in Mint, round[r].status = "DONE", round[r].swap[m] = "DONE"
      PROVE  SumFunction([w \in Wallet |-> round[r].transfer[w][m].amount])
               + (round[r].carryOut[m] - round[r].undelivered[m])
             = round[r].received[m] + round[r].carryIn[m]
  <2>1. /\ round[r] \in RoundDoc /\ RowInv(round[r]) /\ Complete(round[r])
        /\ round[r].carryOut = CarryOut(round[r])
        /\ round[r].undelivered = [n \in Mint |-> Undelivered(round[r], n)]
    BY <1>2, OpenedRounds DEF IInv, TypeOK, RowsInv
  <2>2. PICK d : d = round[r]
    OBVIOUS
  <2>3. /\ d \in RoundDoc /\ RowInv(d) /\ Complete(d) /\ d.carryOut = CarryOut(d)
        /\ d.undelivered[m] = Undelivered(d, m)
    BY <2>1, <2>2
  <2>4. CarryOut(d)[m] + Paid(d, m) = Total(d, m) /\ Paid(d, m) + Undelivered(d, m) = SumFunction(Amounts(d, m))
    BY <2>3, NothingIsLost, RowsSplit
  <2>5. Paid(d, m) \in Nat /\ Undelivered(d, m) \in Nat /\ CarryOut(d)[m] \in Nat
    BY <2>3, RowSums, CarryType
  <2>6. SumFunction(Amounts(d, m)) + (CarryOut(d)[m] - Undelivered(d, m)) = Total(d, m)
    <3>1. ASSUME NEW c \in Nat, NEW p \in Nat, NEW u \in Nat, NEW s, NEW t, c + p = t, p + u = s
          PROVE  s + (c - u) = t
      BY <3>1
    <3> QED
      BY <2>4, <2>5, <3>1
  <2> QED
    BY <2>2, <2>3, <2>6 DEF Amounts, Total
<1>3. ASSUME Undisturbed, NEW r \in Opened, NEW m \in Mint, round[r].mode = "LIVE", round[r].status = "DISTRIBUTING"
      PROVE  SumFunction([w \in Wallet |->
               IF round[r].transfer[w][m].status = "PENDING" THEN round[r].transfer[w][m].amount ELSE 0]) <= vault[m]
  <2>1. NeverRefused /\ r \in RoundId /\ round[r] \in RoundDoc /\ RowInv(round[r])
    BY <1>3, OpenedRounds, Calm DEF IInv, TypeOK, RowsInv
  <2>2. r = opened /\ opened # 0
    BY <1>3, <2>1 DEF IInv, VaultInv, TERMINAL, RoundId
  <2>3. PICK d : d = round[r]
    OBVIOUS
  <2>4. vault[m] + Paid(d, m) = Total(d, m) /\ d \in RoundDoc /\ RowInv(d)
    BY <1>3, <2>1, <2>2, <2>3 DEF IInv, VaultInv, MoneyInv
  <2>5. Paid(d, m) + SumFunction(OpenRows(d, m)) <= Total(d, m)
    BY <2>4, RowsAreFunded
  <2>6. Paid(d, m) \in Nat /\ SumFunction(OpenRows(d, m)) \in Nat /\ vault[m] \in Nat
    BY <2>4, RowSums DEF IInv, TypeOK
  <2>7. SumFunction(OpenRows(d, m)) <= vault[m]
    BY <2>4, <2>5, <2>6
  <2> QED
    BY <2>3, <2>7 DEF OpenRows
<1> QED
  BY <1>1, <1>2, <1>3 DEF BooksBalance, RoundAddsUp, EveryTransferIsFunded

\* Unless swaps are retried: when all is settled and nothing disturbed it the
\* carry key is what the vault holds, and every published document adds up
\* (runner.js:1138-1160, engine/round.js applySwapResults).
THEOREM TheBooksBalance == SwapsAreNotRetried => (Spec => []BooksBalance)
<1>1. IInv => BooksBalance
  BY BooksFollow
<1> QED
  BY <1>1, Inductive, PTL

\* Unless swaps are retried: no LIVE round is ever told to send more than the
\* vault holds (runner.js DISTRIBUTING, engine/allocate.js).
THEOREM TransfersAreFunded == SwapsAreNotRetried => (Spec => []EveryTransferIsFunded)
<1>1. IInv => EveryTransferIsFunded
  BY BooksFollow
<1> QED
  BY <1>1, Inductive, PTL

\* What happened stays: a bought stock keeps its fill, a paid row its amount; and
\* a step works on a round of its own mode, or refuses it.
LEMMA HistoryStep ==
  ASSUME TypeOK, CallInv, EarlyInv, [Next]_vars
  PROVE  /\ NeverRefused =>
             \A r \in Opened, m \in Mint :
               /\ round[r].swap[m] = "DONE" =>
                    round'[r].swap[m] = "DONE" /\ round'[r].received[m] = round[r].received[m]
               /\ \A w \in Wallet : round[r].transfer[w][m].status = "DONE" =>
                    round'[r].transfer[w][m] = round[r].transfer[w][m]
         /\ \A r \in Opened : round'[r] # round[r] => mode = round[r].mode \/ round'[r].status = "FAILED"
         /\ carry'["LIVE"] # carry["LIVE"] => mode = "LIVE"
<1> DEFINE Keeps(d, e) ==
      \A m \in Mint :
        /\ d.swap[m] = "DONE" => e.swap[m] = "DONE" /\ e.received[m] = d.received[m]
        /\ \A w \in Wallet : d.transfer[w][m].status = "DONE" => e.transfer[w][m] = d.transfer[w][m]
<1>a. Opened \subseteq RoundId
  BY OpenedRounds
<1>1. ASSUME NeverRefused, NEW r \in Opened PROVE Keeps(round[r], round'[r])
  <2>1. ASSUME NEW q \in RoundId, NEW e, Becomes(q, e), q = r => Keeps(round[r], e)
        PROVE  Keeps(round[r], round'[r])
    <3>1. CASE q = r
      BY <2>1, <3>1 DEF Becomes
    <3>2. CASE q # r
      BY <1>a, <2>1, <3>2 DEF Becomes
    <3> QED
      BY <3>1, <3>2
  <2>2. CASE Restatus
    <3>1. CASE round' = round
      BY <3>1
    <3>2. CASE round' # round
      <4>1. PICK q \in Opened : \E e : Becomes(q, e) /\ SameWork(round[q], e)
        BY <2>2, <3>2 DEF Restatus
      <4>2. PICK e : Becomes(q, e) /\ SameWork(round[q], e)
        BY <4>1
      <4>3. Keeps(round[q], e)
        BY <4>2 DEF SameWork
      <4> QED
        BY <1>a, <2>1, <4>2, <4>3
    <3> QED
      BY <3>1, <3>2
  <2>3. CASE Open
    <3>1. PICK e : opened + 1 \in RoundId /\ Becomes(opened + 1, e)
      BY <2>3, OpenDoc
    <3>2. opened + 1 # r
      BY BoundsAssumption DEF TypeOK, Opened
    <3> QED
      BY <2>1, <3>1, <3>2
  <2>4. CASE Snapshot
    <3>1. PICK e : /\ Becomes(cur, e) /\ Doc.status = "SNAPSHOT" /\ e.transfer = Doc.transfer
      BY <2>4, SnapshotDoc
    <3>2. cur \in RoundId /\ Doc.swap = [m \in Mint |-> "none"]
      BY <1>1, <2>4, <3>1, CurOpened DEF Snapshot, EarlyInv, At, Early, Doc
    <3>3. Keeps(Doc, e)
      BY <3>1, <3>2
    <3> QED
      BY <2>1, <3>1, <3>2, <3>3 DEF Doc
  <2>5. ASSUME NEW m \in Mint, Intent(m) PROVE Keeps(round[r], round'[r])
    <3>1. PICK e : /\ Becomes(cur, e) /\ e.status = Doc.status /\ e.resumeFrom = Doc.resumeFrom /\ e.mode = Doc.mode
                   /\ e.carryIn = Doc.carryIn /\ e.received = Doc.received /\ e.transfer = Doc.transfer
                   /\ e.swap = [Doc.swap EXCEPT ![m] = "SENDING"]
                   /\ Doc.swap[m] \in {"PENDING", "FAILED"}
      BY <2>5, IntentDoc
    <3>2. cur \in RoundId /\ Doc \in RoundDoc
      BY <2>5, CurOpened DEF Intent
    <3>3. Keeps(Doc, e)
      BY <3>1, <3>2 DEF RoundDoc
    <3> QED
      BY <2>1, <3>1, <3>2, <3>3 DEF Doc
  <2>6. ASSUME NEW m \in Mint, Buy(m) PROVE Keeps(round[r], round'[r])
    <3>1. PICK e :
           /\ Becomes(cur, e) /\ e.status = Doc.status /\ e.resumeFrom = Doc.resumeFrom /\ e.mode = Doc.mode
           /\ e.carryIn = Doc.carryIn /\ e.transfer = Doc.transfer
           /\ e.swap = [Doc.swap EXCEPT ![m] = "DONE"]
           /\ \A k \in Mint \ {m} : e.received[k] = Doc.received[k] /\ vault'[k] = vault[k]
           /\ Doc.status = "SWAPPING" /\ Doc.swap[m] # "DONE"
           /\ vault'[m] = IF Live THEN vault[m] + e.received[m] ELSE vault[m]
      BY <2>6, BuyDoc
    <3>2. cur \in RoundId /\ Doc \in RoundDoc
      BY <2>6, CurOpened DEF Buy
    <3>3. Keeps(Doc, e) /\ Becomes(cur, e)
      BY <3>1, <3>2 DEF RoundDoc
    <3> QED
      BY <2>1, <3>2, <3>3 DEF Doc
  <2>7. ASSUME NEW m \in Mint, BuyFails(m) PROVE Keeps(round[r], round'[r])
    <3>1. PICK e : \E answer \in {"FAILED", "UNRESOLVED"} :
                   /\ Becomes(cur, e) /\ e.status = Doc.status /\ e.resumeFrom = Doc.resumeFrom /\ e.mode = Doc.mode
                   /\ e.carryIn = Doc.carryIn /\ e.received = Doc.received /\ e.transfer = Doc.transfer
                   /\ e.swap = [Doc.swap EXCEPT ![m] = answer]
                   /\ Doc.swap[m] # "DONE" /\ (answer = "FAILED" => "swap" \in hazards)
      BY <2>7, BuyFailsDoc
    <3>2. cur \in RoundId /\ Doc \in RoundDoc
      BY <2>7, CurOpened DEF BuyFails
    <3>3. Keeps(Doc, e) /\ Becomes(cur, e)
      BY <3>1, <3>2 DEF RoundDoc
    <3> QED
      BY <2>1, <3>2, <3>3 DEF Doc
  <2>8. CASE EndSwapping
    <3>1. PICK e : /\ Becomes(cur, e) /\ e.swap = Doc.swap /\ e.received = Doc.received /\ e.transfer = Doc.transfer
      BY <2>8, EndSwappingDoc
    <3>2. cur \in RoundId /\ Keeps(Doc, e)
      BY <2>8, <3>1, CurOpened DEF EndSwapping
    <3> QED
      BY <2>1, <3>1, <3>2 DEF Doc
  <2>9. CASE Allocate
    <3>1. PICK e : /\ Becomes(cur, e) /\ e.received = Doc.received /\ e.swap = Doc.swap
                   /\ \A w \in Wallet, m \in Mint : e.transfer[w][m] = Row(Doc, w, m)
      BY <2>9, AllocateDoc
    <3>2. \A w \in Wallet, m \in Mint : Doc.transfer[w][m].status = "DONE" => Row(Doc, w, m) = Doc.transfer[w][m]
      BY DEF Row
    <3>3. cur \in RoundId /\ Keeps(Doc, e)
      BY <2>9, <3>1, <3>2, CurOpened DEF Allocate
    <3> QED
      BY <2>1, <3>1, <3>3 DEF Doc
  <2>10. ASSUME NEW w \in Wallet, NEW m \in Mint, Deliver(w, m) PROVE Keeps(round[r], round'[r])
    <3>1. PICK e : \E answer \in {"DONE", "FAILED", "UNRESOLVED", "SKIPPED_DUST"} :
             /\ Becomes(cur, e) /\ e.status = Doc.status /\ e.resumeFrom = Doc.resumeFrom /\ e.mode = Doc.mode
             /\ Doc.status = "DISTRIBUTING" /\ Doc.transfer[w][m].status = "PENDING"
             /\ e.carryIn = Doc.carryIn /\ e.received = Doc.received /\ e.swap = Doc.swap
             /\ e.transfer[w][m] = [status |-> answer, amount |-> Doc.transfer[w][m].amount]
             /\ \A v \in Wallet, n \in Mint : v # w \/ n # m => e.transfer[v][n] = Doc.transfer[v][n]
             /\ answer = "SKIPPED_DUST" <=> Live /\ Doc.transfer[w][m].amount = 0
             /\ answer = "DONE" /\ Live => Doc.transfer[w][m].amount <= vault[m]
             /\ answer = "FAILED" => Live
             /\ answer = "UNRESOLVED" => "unresolved" \in hazards
             /\ vault' \in [Mint -> Nat] /\ \A n \in Mint \ {m} : vault'[n] = vault[n]
             /\ vault'[m] = IF Live /\ answer = "DONE" THEN vault[m] - Doc.transfer[w][m].amount ELSE vault[m]
      BY <2>10, DeliverDoc
    <3>2. cur \in RoundId /\ Keeps(Doc, e)
      BY <2>10, <3>1, CurOpened DEF Deliver
    <3> QED
      BY <2>1, <3>1, <3>2 DEF Doc
  <2>11. CASE Close
    <3>1. PICK e : /\ Becomes(cur, e) /\ e.swap = Doc.swap /\ e.received = Doc.received /\ e.transfer = Doc.transfer
      BY <2>11, CloseDoc
    <3>2. cur \in RoundId /\ Keeps(Doc, e)
      BY <2>11, <3>1, CurOpened DEF Close
    <3> QED
      BY <2>1, <3>1, <3>2 DEF Doc
  <2> HIDE DEF Keeps
  <2> QED
    BY DocCases, <2>2, <2>3, <2>4, <2>5, <2>6, <2>7, <2>8, <2>9, <2>10, <2>11
<1>2. ASSUME NEW r \in Opened, round'[r] # round[r] PROVE mode = round[r].mode \/ round'[r].status = "FAILED"
  <2>1. CASE Open
    <3>1. PICK e : opened + 1 \in RoundId /\ Becomes(opened + 1, e)
      BY <2>1, OpenDoc
    <3>2. opened + 1 # r
      BY BoundsAssumption DEF TypeOK, Opened
    <3> QED
      BY <1>2, <1>a, <3>1, <3>2 DEF Becomes
  <2>2. CASE ~Open
    <3>1. PICK q \in Opened : \E e : Becomes(q, e) /\ (mode = round[q].mode \/ e.status = "FAILED")
      BY <1>2, <2>2, DocStep
    <3>2. q = r
      BY <1>2, <1>a, <3>1 DEF Becomes
    <3> QED
      BY <3>1, <3>2 DEF Becomes
  <2> QED
    BY <2>1, <2>2
<1>3. ASSUME carry'["LIVE"] # carry["LIVE"] PROVE mode = "LIVE"
  <2>1. WriteCarry
    BY <1>3, NextCases DEF Run, RunFresh, Restart, Named, NamedRefused, Open, Skip, ReadPool, Snapshot,
      EnterSwapping, Intent, Buy, BuyFails, EndSwapping, Allocate, Deliver, Close, Throw, Crash, LateLanding, vars
  <2> QED
    BY <1>3, <2>1 DEF WriteCarry, TypeOK
<1> QED
  BY <1>1, <1>2, <1>3

\* Steps that are completed are never redone, in whatever order rounds are run,
\* retried, refused, interrupted and resumed; and no rehearsal touches what is
\* LIVE (runner.js runRound, "never redone").
THEOREM HistoryStays == Spec => HistoryStands
<1>1. TypeOK /\ CallInv /\ EarlyInv /\ [Next]_vars =>
        [ NeverRefused =>
            \A r \in Opened, m \in Mint :
              /\ round[r].swap[m] = "DONE" =>
                   round'[r].swap[m] = "DONE" /\ round'[r].received[m] = round[r].received[m]
              /\ \A w \in Wallet : round[r].transfer[w][m].status = "DONE" =>
                   round'[r].transfer[w][m] = round[r].transfer[w][m] ]_vars
  BY HistoryStep
<1>2. TypeOK /\ CallInv /\ EarlyInv /\ [Next]_vars =>
        [ /\ \A r \in Opened : round'[r] # round[r] =>
               mode = round[r].mode \/ round'[r].status = "FAILED"
          /\ carry'["LIVE"] # carry["LIVE"] => mode = "LIVE" ]_vars
  BY HistoryStep
<1> QED
  BY <1>1, <1>2, EarlyHolds, PTL DEF Spec, HistoryStands, DoneIsFinal, ModesDoNotMix
=============================================================================
