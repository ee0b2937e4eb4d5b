------------------------- MODULE DistributorProofs --------------------------
(***************************************************************************)
(* TLAPS proofs about Distributor, for every set of wallets, every bound   *)
(* and every set of faults under which the caller keeps the contract of    *)
(* the module's header.                                                    *)
(***************************************************************************)
EXTENDS Distributor, TLAPS

\* The next-state relation, action by action.
LEMMA NextCases ==
  ASSUME [Next]_vars
  PROVE  \/ Reopen \/ Call
         \/ SettlePrior \/ CheckMint \/ LoopTop \/ Refresh \/ SignFails \/ Sign
         \/ Record \/ RecordFails \/ Send \/ SendFails
         \/ PollStatus \/ ConfirmGivesUp \/ CheckHeight \/ Final
         \/ (\E w \in Wallet : SaveRow(w)) \/ PriorSaved \/ Return \/ CallThrows
         \/ Crash
         \/ (\E t \in Tx : Process(t) \/ Confirm(t) \/ ForkOut(t) \/ Expire(t))
         \/ UNCHANGED vars
BY DEF Next, Running, Cluster

LedgerRow  == [status : Status, tx : Tx \cup {NoTx}, attempted : Tx \cup {NoTx}]
CallResult == [status : Status \cup {"none"}, tx : Tx \cup {NoTx}]

\* What a look-up can return.
LEMMA RefreshesType ==
  ASSUME TypeOK, NEW out \in Refreshes
  PROVE  out \in [Tx -> Outcomes]
<1>1. \A t \in Tx : Refreshed(t) \in Outcomes
  BY DEF TypeOK, Refreshed, Outcomes
<1> QED
  BY <1>1 DEF TypeOK, Refreshes

\* What settle returns.
LEMMA SettledType ==
  ASSUME TypeOK, NEW rows \in SUBSET Wallet, NEW out \in [Tx -> Outcomes]
  PROVE  Settled(rows, out) \in [Wallet -> CallResult]
<1> SUFFICES ASSUME NEW w \in Wallet PROVE Settled(rows, out)[w] \in CallResult
  BY DEF Settled
<1>1. Verdict(w, out) \in Status \cup {"OPEN"}
  BY DEF Verdict, Status
<1>2. Confirming(w, out) \subseteq Tx
  BY DEF Confirming, AttemptsOf
<1>3. Verdict(w, out) = "DONE" => (CHOOSE t \in Confirming(w, out) : TRUE) \in Tx
  BY <1>2 DEF Verdict
<1> QED
  BY <1>1, <1>3 DEF Settled, TypeOK, CallResult, NoTx

\* Every variable keeps its type.
LEMMA TypeStep ==
  ASSUME TypeOK, unsaved \subseteq Called, [Next]_vars
  PROVE  TypeOK'
<1> USE BoundsAssumption DEF TypeOK
<1>1. CASE Reopen
  BY <1>1 DEF Reopen, Tx, NoTx, Status, ChainStates, PCs, Outcomes, world, local
<1>2. CASE Call
  BY <1>2 DEF Call, Open, Prior, NoResult, Tx, NoTx, Status, ChainStates, PCs, Outcomes, world, local
<1>3. CASE SettlePrior
  <2>1. PICK out \in Refreshes :
          /\ results' = Settled(Prior(remaining), out)
          /\ remaining' = (remaining \ Prior(remaining)) \cup StillOpen(Prior(remaining), out)
    BY <1>3 DEF SettlePrior
  <2>2. out \in [Tx -> Outcomes] /\ Prior(remaining) \subseteq Wallet
    BY RefreshesType DEF Prior
  <2>3. results' \in [Wallet -> CallResult]
    BY <2>1, <2>2, SettledType
  <2>4. remaining' \subseteq Wallet /\ unsaved' \subseteq Wallet
    BY <2>1, <2>2, <1>3 DEF SettlePrior, StillOpen
  <2> QED
    BY <1>3, <2>3, <2>4 DEF SettlePrior, CallResult, Outcomes, PCs, world
<1>4. CASE CheckMint
  BY <1>4 DEF CheckMint, Tx, NoTx, Status, ChainStates, PCs, Outcomes, world, local
<1>5. CASE LoopTop
  BY <1>5 DEF LoopTop, Tx, NoTx, Status, ChainStates, PCs, Outcomes, world, local
<1>6. CASE Refresh
  <2>1. PICK out \in Refreshes :
          outcome' = out /\ results' = Settled(remaining, out) /\ remaining' = StillOpen(remaining, out)
    BY <1>6 DEF Refresh
  <2>2. out \in [Tx -> Outcomes]
    BY RefreshesType
  <2>3. results' \in [Wallet -> CallResult]
    BY <2>1, <2>2, SettledType
  <2>4. remaining' \subseteq Wallet
    BY <2>1 DEF StillOpen
  <2> QED
    BY <1>6, <2>1, <2>2, <2>3, <2>4 DEF Refresh, CallResult, PCs, world
<1>7. CASE SignFails
  BY <1>7 DEF SignFails, NextAttempt, Tx, NoTx, Status, ChainStates, PCs, Outcomes, world, local
<1>8. CASE Sign
  BY <1>8 DEF Sign, Tx, NoTx, Status, ChainStates, PCs, Outcomes, world, local
<1>9. CASE Record
  BY <1>9 DEF Record, Tx, NoTx, Status, ChainStates, PCs, Outcomes, world, local
<1>10. CASE RecordFails
  <2>1. ledger' \in [Wallet -> LedgerRow]
    <3>1. PICK named \in (SUBSET remaining) \ {remaining} :
            ledger' = [w \in Wallet |->
              IF w \in named THEN [ledger[w] EXCEPT !.attempted = last] ELSE ledger[w]]
      BY <1>10 DEF RecordFails
    <3>2. \A w \in Wallet : [ledger[w] EXCEPT !.attempted = last] \in LedgerRow
      BY DEF LedgerRow
    <3> QED
      BY <3>1, <3>2 DEF LedgerRow
  <2> QED
    BY <1>10, <2>1 DEF RecordFails, NextAttempt, LedgerRow, PCs, world
<1>11. CASE Send
  BY <1>11 DEF Send, Tx, NoTx, Status, ChainStates, PCs, Outcomes, world, local
<1>12. CASE SendFails
  BY <1>12 DEF SendFails, Tx, NoTx, Status, ChainStates, PCs, Outcomes, world, local
<1>13. CASE PollStatus
  <2>1. CASE chain[last] = "confirmed"
    <3>1. outcome' \in [Tx -> Outcomes] /\ results' = Settled(remaining, outcome')
          /\ remaining' = StillOpen(remaining, outcome')
      BY <1>13, <2>1 DEF PollStatus, Outcomes
    <3>2. results' \in [Wallet -> CallResult] /\ remaining' \subseteq Wallet
      BY <3>1, SettledType DEF StillOpen
    <3> QED
      BY <1>13, <2>1, <3>1, <3>2 DEF PollStatus, CallResult, PCs, world
  <2>2. CASE chain[last] # "confirmed"
    BY <1>13, <2>2 DEF PollStatus, NextAttempt, Outcomes, PCs, world
  <2> QED
    BY <2>1, <2>2
<1>14. CASE ConfirmGivesUp
  BY <1>14 DEF ConfirmGivesUp, NextAttempt, Tx, NoTx, Status, ChainStates, PCs, Outcomes, world, local
<1>15. CASE CheckHeight
  BY <1>15 DEF CheckHeight, NextAttempt, Tx, NoTx, Status, ChainStates, PCs, Outcomes, world, local
<1>16. CASE Final
  <2>1. PICK out \in {outcome} \cup Refreshes :
          /\ outcome' = out
          /\ results' = [w \in Wallet |->
               IF w \in StillOpen(remaining, out) THEN [status |-> "FAILED", tx |-> NoTx]
               ELSE Settled(remaining, out)[w]]
    BY <1>16 DEF Final
  <2>2. out \in [Tx -> Outcomes]
    BY RefreshesType
  <2>3. Settled(remaining, out) \in [Wallet -> CallResult]
    BY <2>2, SettledType
  <2>4. results' \in [Wallet -> CallResult]
    BY <2>1, <2>3 DEF CallResult, Status, NoTx
  <2>5. unsaved' \subseteq Wallet
    BY <1>16 DEF Final, Called
  <2> QED
    BY <1>16, <2>1, <2>2, <2>4, <2>5 DEF Final, CallResult, PCs, world
<1>17. ASSUME NEW w \in Wallet, SaveRow(w) PROVE TypeOK'
  <2>1. results[w].status \in Status
    BY <1>17 DEF SaveRow, Called
  <2>2. Marked(w) \in LedgerRow
    BY <2>1 DEF Marked, LedgerRow
  <2> QED
    BY <1>17, <2>2 DEF SaveRow, LedgerRow, world
<1>18. CASE PriorSaved
  <2>1. unsaved' \subseteq Wallet /\ pc' \in PCs
    BY <1>18 DEF PriorSaved, Called, PCs
  <2> QED
    BY <1>18, <2>1 DEF PriorSaved, world
<1>19. CASE Return
  BY <1>19 DEF Return, Leave, NoResult, Tx, NoTx, Status, ChainStates, PCs, Outcomes, world, local
<1>20. CASE CallThrows
  BY <1>20 DEF CallThrows, Leave, NoResult, Tx, NoTx, Status, ChainStates, PCs, Outcomes, world, local
<1>21. CASE Crash
  BY <1>21 DEF Crash, Leave, NoResult, Tx, NoTx, Status, ChainStates, PCs, Outcomes, world, local
<1>22. ASSUME NEW t \in Tx, Process(t) PROVE TypeOK'
  BY <1>22 DEF Process, Tx, NoTx, Status, ChainStates, PCs, Outcomes, world, local
<1>23. ASSUME NEW t \in Tx, Confirm(t) PROVE TypeOK'
  BY <1>23 DEF Confirm, Tx, NoTx, Status, ChainStates, PCs, Outcomes, world, local
<1>24. ASSUME NEW t \in Tx, ForkOut(t) PROVE TypeOK'
  BY <1>24 DEF ForkOut, Tx, NoTx, Status, ChainStates, PCs, Outcomes, world, local
<1>25. ASSUME NEW t \in Tx, Expire(t) PROVE TypeOK'
  BY <1>25 DEF Expire, Tx, NoTx, Status, ChainStates, PCs, Outcomes, world, local
<1>26. CASE UNCHANGED vars
  BY <1>26 DEF vars, Tx, NoTx, Status, ChainStates, PCs, Outcomes, world, local
<1>27. QED
  BY NextCases, <1>1, <1>2, <1>3, <1>4, <1>5, <1>6, <1>7, <1>8, <1>9, <1>10, <1>11, <1>12, <1>13, <1>14, <1>15, <1>16, <1>17, <1>18, <1>19, <1>20, <1>21, <1>22, <1>23, <1>24, <1>25, <1>26

\* Only rows of the call are ever stored.
LEMMA UnsavedStep ==
  ASSUME TypeOK, unsaved \subseteq Called, [Next]_vars
  PROVE  (unsaved \subseteq Called)'
<1> USE DEF TypeOK
<1>1. CASE Reopen
  BY <1>1 DEF Reopen, Called, world, local
<1>2. CASE Call
  BY <1>2 DEF Call, Open, Prior, NoResult, Called, world, local
<1>3. CASE SettlePrior
  <2>1. PICK out \in Refreshes :
          /\ results' = Settled(Prior(remaining), out)
          /\ remaining' = (remaining \ Prior(remaining)) \cup StillOpen(Prior(remaining), out)
    BY <1>3 DEF SettlePrior
  <2> SUFFICES ASSUME NEW w \in Wallet, w \in remaining \ remaining' PROVE results'[w].status # "none"
    BY <1>3 DEF SettlePrior, Called, TypeOK
  <2>2. w \in Prior(remaining) /\ Verdict(w, out) # "OPEN"
    BY <2>1 DEF StillOpen
  <2> QED
    BY <2>1, <2>2 DEF Settled, Verdict
<1>4. CASE CheckMint
  BY <1>4 DEF CheckMint, Called, world, local
<1>5. CASE LoopTop
  BY <1>5 DEF LoopTop, Called, world, local
<1>6. CASE Refresh
  <2>1. PICK out : results' = Settled(remaining, out)
    BY <1>6 DEF Refresh
  <2>2. \A w \in Wallet : results[w].status # "none" => results'[w].status # "none"
    BY <2>1 DEF Settled, Verdict
  <2> QED
    BY <1>6, <2>2 DEF Refresh, Called, TypeOK
<1>7. CASE SignFails
  BY <1>7 DEF SignFails, NextAttempt, Called, world, local
<1>8. CASE Sign
  BY <1>8 DEF Sign, Called, world, local
<1>9. CASE Record
  BY <1>9 DEF Record, Called, world, local
<1>10. CASE RecordFails
  BY <1>10 DEF RecordFails, NextAttempt, Called, world, local
<1>11. CASE Send
  BY <1>11 DEF Send, Called, world, local
<1>12. CASE SendFails
  BY <1>12 DEF SendFails, Called, world, local
<1>13. CASE PollStatus
  <2>1. results' = results \/ results' = Settled(remaining, outcome')
    BY <1>13 DEF PollStatus
  <2>2. \A w \in Wallet : results[w].status # "none" => results'[w].status # "none"
    BY <2>1 DEF Settled, Verdict
  <2> QED
    BY <1>13, <2>2 DEF PollStatus, Called, TypeOK
<1>14. CASE ConfirmGivesUp
  BY <1>14 DEF ConfirmGivesUp, NextAttempt, Called, world, local
<1>15. CASE CheckHeight
  BY <1>15 DEF CheckHeight, NextAttempt, Called, world, local
<1>16. CASE Final
  <2>1. PICK out :
          results' = [w \in Wallet |->
            IF w \in StillOpen(remaining, out) THEN [status |-> "FAILED", tx |-> NoTx]
            ELSE Settled(remaining, out)[w]]
    BY <1>16 DEF Final
  <2>2. \A w \in Wallet : results[w].status # "none" => results'[w].status # "none"
    BY <2>1 DEF Settled, Verdict
  <2> QED
    BY <1>16, <2>2 DEF Final, Called, TypeOK
<1>17. ASSUME NEW w \in Wallet, SaveRow(w) PROVE (unsaved \subseteq Called)'
  BY <1>17 DEF SaveRow, Marked, Called, world, local
<1>18. CASE PriorSaved
  BY <1>18 DEF PriorSaved, Called, world, local
<1>19. CASE Return
  BY <1>19 DEF Return, Leave, NoResult, Called, world, local
<1>20. CASE CallThrows
  BY <1>20 DEF CallThrows, Leave, NoResult, Called, world, local
<1>21. CASE Crash
  BY <1>21 DEF Crash, Leave, NoResult, Called, world, local
<1>22. ASSUME NEW t \in Tx, Process(t) PROVE (unsaved \subseteq Called)'
  BY <1>22 DEF Process, Called, world, local
<1>23. ASSUME NEW t \in Tx, Confirm(t) PROVE (unsaved \subseteq Called)'
  BY <1>23 DEF Confirm, Called, world, local
<1>24. ASSUME NEW t \in Tx, ForkOut(t) PROVE (unsaved \subseteq Called)'
  BY <1>24 DEF ForkOut, Called, world, local
<1>25. ASSUME NEW t \in Tx, Expire(t) PROVE (unsaved \subseteq Called)'
  BY <1>25 DEF Expire, Called, world, local
<1>26. CASE UNCHANGED vars
  BY <1>26 DEF vars, Called, world, local
<1>27. QED
  BY NextCases, <1>1, <1>2, <1>3, <1>4, <1>5, <1>6, <1>7, <1>8, <1>9, <1>10, <1>11, <1>12, <1>13, <1>14, <1>15, <1>16, <1>17, <1>18, <1>19, <1>20, <1>21, <1>22, <1>23, <1>24, <1>25, <1>26

\* What a look-up says is true of the chain, and names the same transactions.
LEMMA RefreshesTrue ==
  ASSUME TypeOK, KnowledgeInv, NEW out \in Refreshes, NEW t \in Tx
  PROVE  /\ out[t] = "none" <=> outcome[t] = "none"
         /\ out[t] = "confirmed" => chain[t] = "confirmed"
         /\ out[t] = "expired" => t \in expired
         /\ out[t] = "dead" => ~CanPay(t)
<1>1. CASE out = outcome
  BY <1>1 DEF KnowledgeInv
<1>2. CASE out = [u \in Tx |-> Refreshed(u)]
  <2>1. out[t] = Refreshed(t)
    BY <1>2
  <2> QED
    BY <2>1 DEF Refreshed, KnowledgeInv, CanPay, TypeOK, Outcomes, ChainStates
<1> QED
  BY <1>1, <1>2 DEF Refreshes

\* classifyRow: a row is DONE when one of its attempts is confirmed, and stays
\* open only when all of them are dead.
LEMMA VerdictTrue ==
  ASSUME NEW w \in Wallet, NEW out
  PROVE  /\ Verdict(w, out) \in {"DONE", "UNRESOLVED", "OPEN"}
         /\ Verdict(w, out) = "DONE" => \E t \in AttemptsOf(w) : out[t] = "confirmed"
         /\ Verdict(w, out) = "OPEN" => \A t \in AttemptsOf(w) : out[t] = "dead"
BY DEF Verdict, Confirming

\* settle: it answers exactly the rows that do not stay open.
LEMMA SettledRows ==
  ASSUME NEW rows, NEW out, NEW w \in Wallet
  PROVE  /\ w \notin rows \/ w \in StillOpen(rows, out) => Settled(rows, out)[w] = results[w]
         /\ w \in rows \ StillOpen(rows, out) => Settled(rows, out)[w].status = Verdict(w, out)
         /\ w \in StillOpen(rows, out) <=> w \in rows /\ Verdict(w, out) = "OPEN"
<1>1. (w \notin rows \/ Verdict(w, out) = "OPEN") => Settled(rows, out)[w] = results[w]
  BY DEF Settled
<1>2. ~(w \notin rows \/ Verdict(w, out) = "OPEN") => Settled(rows, out)[w].status = Verdict(w, out)
  BY DEF Settled
<1>3. w \in StillOpen(rows, out) <=> w \in rows /\ Verdict(w, out) = "OPEN"
  BY DEF StillOpen
<1> QED
  BY <1>1, <1>2, <1>3

\* What one step does to a transaction: confirmed is for ever; only the send
\* makes one able to pay that was not; one that can pay keeps its rows.
LEMMA TxStep ==
  ASSUME TypeOK, KnowledgeInv, ControlInv, [Next]_vars, NEW t \in Tx
  PROVE  /\ chain[t] = "confirmed" => chain'[t] = "confirmed"
         /\ CanPay(t)' => CanPay(t) \/ (Send /\ t = last)
         /\ carries'[t] = carries[t] \/ (~CanPay(t) /\ ~CanPay(t)')
<1> USE DEF TypeOK, CanPay
<1>1. CASE Sign
  <2>1. made + 1 \in Tx /\ chain[made + 1] = "none" /\ chain'[made + 1] = "signed"
    BY <1>1, BoundsAssumption DEF Sign, Tx, KnowledgeInv
  <2>2. \A u \in Tx \ {made + 1} : chain'[u] = chain[u] /\ carries'[u] = carries[u]
    BY <1>1 DEF Sign
  <2> QED
    BY <1>1, <2>1, <2>2 DEF Sign
<1>2. CASE Send
  BY <1>2 DEF Send, ControlInv
<1>3. ASSUME NEW u \in Tx, Process(u) \/ Confirm(u) \/ ForkOut(u) \/ Expire(u)
      PROVE  /\ chain[t] = "confirmed" => chain'[t] = "confirmed"
             /\ CanPay(t)' => CanPay(t)
             /\ carries'[t] = carries[t]
  BY <1>3 DEF Process, Confirm, ForkOut, Expire
<1>4. CASE UNCHANGED world
  BY <1>4 DEF world
<1> QED
  BY <1>1, <1>2, <1>3, <1>4, NextCases DEF Reopen, Call, SettlePrior, CheckMint, LoopTop, Refresh, SignFails,
    Record, RecordFails, SendFails, PollStatus, ConfirmGivesUp, CheckHeight, Final, SaveRow,
    PriorSaved, Return, CallThrows, Crash, world, vars

\* What one step does to a row's payers: no payment is undone, and no step but
\* the send of the row's own transaction, when nothing can pay it, adds one.
LEMMA PayersStep ==
  ASSUME TypeOK, KnowledgeInv, ControlInv, [Next]_vars, NEW w \in Wallet
  PROVE  /\ Confirmed(w) \subseteq Confirmed(w)'
         /\ \/ Payers(w)' \subseteq Payers(w)
            \/ Send /\ w \in remaining /\ Payers(w) = {} /\ Payers(w)' \subseteq {last}
<1>1. Confirmed(w) \subseteq Confirmed(w)'
  BY TxStep DEF Confirmed, CanPay
<1>2. CASE Send
  <2>1. \A t \in Payers(w)' : t \in Payers(w) \/ (t = last /\ w \in remaining)
    BY <1>2, TxStep DEF Payers, Send, ControlInv
  <2> QED
    BY <1>1, <1>2, <2>1 DEF Send, ControlInv
<1>3. CASE ~Send
  BY <1>1, <1>3, TxStep DEF Payers
<1> QED
  BY <1>2, <1>3

\* What the call knows stays true.
LEMMA KnowledgeStep ==
  ASSUME IInv, [Next]_vars
  PROVE  KnowledgeInv'
<1> USE BoundsAssumption DEF IInv, TypeOK
<1>a. \A t \in Tx : (chain[t] = "confirmed" => chain'[t] = "confirmed")
                    /\ (CanPay(t)' => CanPay(t) \/ outcome'[t] = "unknown")
  BY TxStep DEF Send, ControlInv
<1>b. \A t \in Tx : carries'[t] \cap (Dust \cup Bad) = {}
  <2>1. CASE Sign
    BY <2>1 DEF Sign, KnowledgeInv, AnswersInv
  <2>2. CASE carries' = carries
    BY <2>2 DEF KnowledgeInv
  <2> QED
    BY <2>1, <2>2, NextCases DEF Reopen, Call, SettlePrior, CheckMint, LoopTop, Refresh, SignFails,
      Record, RecordFails, Send, SendFails, PollStatus, ConfirmGivesUp, CheckHeight, Final, SaveRow,
      PriorSaved, Return, CallThrows, Crash, Process, Confirm, ForkOut, Expire, world, vars
<1>1. CASE Reopen
  BY <1>1, <1>a, <1>b DEF Reopen, Tx, NoTx, world, local, TypeOK, KnowledgeInv
<1>2. CASE Call
  BY <1>2, <1>a, <1>b DEF Call, Open, Prior, NoResult, Tx, NoTx, world, local, TypeOK, KnowledgeInv
<1>3. CASE SettlePrior
  BY <1>3, <1>a, <1>b DEF SettlePrior, Tx, NoTx, world, local, TypeOK, KnowledgeInv
<1>4. CASE CheckMint
  BY <1>4, <1>a, <1>b DEF CheckMint, Tx, NoTx, world, local, TypeOK, KnowledgeInv
<1>5. CASE LoopTop
  BY <1>5, <1>a, <1>b DEF LoopTop, Tx, NoTx, world, local, TypeOK, KnowledgeInv
<1>6. CASE Refresh
  <2>1. outcome' = outcome \/ outcome' \in Refreshes
    BY <1>6 DEF Refresh
  <2> QED
    BY <1>6, <1>a, <1>b, <2>1, RefreshesTrue DEF Refresh, KnowledgeInv, world
<1>7. CASE SignFails
  BY <1>7, <1>a, <1>b DEF SignFails, NextAttempt, Tx, NoTx, world, local, TypeOK, KnowledgeInv
<1>8. CASE Sign
  BY <1>8, <1>a, <1>b DEF Sign, Tx, NoTx, world, local, TypeOK, KnowledgeInv
<1>9. CASE Record
  BY <1>9, <1>a, <1>b DEF Record, Tx, NoTx, world, local, TypeOK, KnowledgeInv
<1>10. CASE RecordFails
  BY <1>10, <1>a, <1>b DEF RecordFails, NextAttempt, Tx, NoTx, world, local, TypeOK, KnowledgeInv
<1>11. CASE Send
  BY <1>11, <1>a, <1>b DEF Send, ControlInv, KnowledgeInv
<1>12. CASE SendFails
  BY <1>12, <1>a, <1>b DEF SendFails, Tx, NoTx, world, local, TypeOK, KnowledgeInv
<1>13. CASE PollStatus
  <2>1. last \in Tx /\ outcome[last] = "unknown" /\ UNCHANGED <<chain, expired, made, carries, faults>>
    BY <1>13 DEF PollStatus, ControlInv, world
  <2>2. \/ outcome' = outcome
        \/ chain[last] = "confirmed" /\ outcome' = [outcome EXCEPT ![last] = "confirmed"]
        \/ chain[last] = "erred" /\ outcome' = [outcome EXCEPT ![last] = "dead"]
    BY <1>13 DEF PollStatus
  <2>3. \A t \in Tx : chain[t] = "erred" => ~CanPay(t)'
    BY <2>1 DEF CanPay
  <2> QED
    BY <1>a, <1>b, <2>1, <2>2, <2>3 DEF KnowledgeInv
<1>14. CASE ConfirmGivesUp
  BY <1>14, <1>a, <1>b DEF ConfirmGivesUp, NextAttempt, Tx, NoTx, world, local, TypeOK, KnowledgeInv
<1>15. CASE CheckHeight
  BY <1>15, <1>a, <1>b DEF CheckHeight, NextAttempt, Tx, NoTx, world, local, TypeOK, KnowledgeInv
<1>16. CASE Final
  <2>1. outcome' = outcome \/ outcome' \in Refreshes
    BY <1>16 DEF Final
  <2> QED
    BY <1>16, <1>a, <1>b, <2>1, RefreshesTrue DEF Final, KnowledgeInv, world
<1>17. ASSUME NEW w \in Wallet, SaveRow(w) PROVE KnowledgeInv'
  BY <1>17, <1>a, <1>b DEF SaveRow, Marked, Tx, NoTx, world, local, TypeOK, KnowledgeInv
<1>18. CASE PriorSaved
  BY <1>18, <1>a, <1>b DEF PriorSaved, Tx, NoTx, world, local, TypeOK, KnowledgeInv
<1>19. CASE Return
  BY <1>19, <1>a, <1>b DEF Return, Leave, NoResult, Tx, NoTx, world, local, TypeOK, KnowledgeInv
<1>20. CASE CallThrows
  BY <1>20, <1>a, <1>b DEF CallThrows, Leave, NoResult, Tx, NoTx, world, local, TypeOK, KnowledgeInv
<1>21. CASE Crash
  BY <1>21, <1>a, <1>b DEF Crash, Leave, NoResult, Tx, NoTx, world, local, TypeOK, KnowledgeInv
<1>22. ASSUME NEW t \in Tx, Process(t) PROVE KnowledgeInv'
  BY <1>22, <1>a, <1>b DEF Process, Tx, NoTx, world, local, TypeOK, KnowledgeInv
<1>23. ASSUME NEW t \in Tx, Confirm(t) PROVE KnowledgeInv'
  BY <1>23, <1>a, <1>b DEF Confirm, Tx, NoTx, world, local, TypeOK, KnowledgeInv
<1>24. ASSUME NEW t \in Tx, ForkOut(t) PROVE KnowledgeInv'
  BY <1>24, <1>a, <1>b DEF ForkOut, Tx, NoTx, world, local, TypeOK, KnowledgeInv
<1>25. ASSUME NEW t \in Tx, Expire(t) PROVE KnowledgeInv'
  BY <1>25, <1>a, <1>b DEF Expire, Tx, NoTx, world, local, TypeOK, KnowledgeInv
<1>26. CASE UNCHANGED vars
  BY <1>26, <1>a, <1>b DEF vars, Tx, NoTx, world, local, TypeOK, KnowledgeInv
<1>27. QED
  BY NextCases, <1>1, <1>2, <1>3, <1>4, <1>5, <1>6, <1>7, <1>8, <1>9, <1>10, <1>11, <1>12, <1>13, <1>14, <1>15, <1>16, <1>17, <1>18, <1>19, <1>20, <1>21, <1>22, <1>23, <1>24, <1>25, <1>26

\* Every point of the call finds what it relies on.
LEMMA ControlStep ==
  ASSUME IInv, [Next]_vars
  PROVE  ControlInv'
<1> USE BoundsAssumption DEF IInv, TypeOK
<1>a. \A w \in Wallet :
        \/ Payers(w)' \subseteq Payers(w)
        \/ pc = "send" /\ pc' = "confirm" /\ w \in remaining /\ Payers(w) = {} /\ Payers(w)' \subseteq {last}
  BY PayersStep DEF Send
<1>b. \A w \in Wallet : Payers(w) \subseteq Tx
  BY DEF Payers
<1>1. CASE Reopen
  BY <1>1, <1>a, <1>b DEF Reopen, Tx, NoTx, world, local, KnowledgeInv, ControlInv, Recording, Prior
<1>2. CASE Call
  <2> DEFINE rows == Open \ (Dust \cup Bad)
  <2>1. pc = "idle" /\ remaining' = rows /\ rows \subseteq Wallet /\ attempt' = 1
        /\ UNCHANGED <<ledger, faults, chain, expired, carries, made>>
    BY <1>2 DEF Call, world, Open
  <2>2. pc' = IF rows = {} THEN "save" ELSE IF Prior(rows) # {} THEN "prior" ELSE "mint"
    BY <1>2 DEF Call
  <2>3. outcome' = [t \in Tx |-> IF \E w \in Prior(rows) : ledger[w].attempted = t THEN "unknown" ELSE "none"]
    BY <1>2 DEF Call
  <2>4. \A w \in Wallet : Payers(w)' \subseteq Payers(w)
    BY <1>a, <2>1
  <2>5. CASE pc' = "prior"
    <3>1. PICK w \in rows : ledger[w].attempted # NoTx
      BY <2>2, <2>5 DEF Prior
    <3>2. Recording'
      BY <3>1, <2>1 DEF LedgerInv, Recording
    <3>3. Prior(remaining)' = Prior(rows)
      BY <2>1 DEF Prior
    <3>4. \A u \in Prior(rows) : ledger[u].attempted \in Tx
      BY <2>1 DEF Prior, NoTx
    <3>5. \A u \in Prior(remaining)' : outcome'[ledger'[u].attempted] # "none"
      BY <2>1, <2>3, <3>3, <3>4
    <3> QED
      BY <2>1, <2>5, <3>2, <3>5 DEF ControlInv, Prior
  <2>6. CASE pc' = "mint"
    <3>1. Prior(rows) = {}
      BY <2>2, <2>6
    <3>2. \A w \in rows : ledger[w].attempted = NoTx
      BY <3>1 DEF Prior
    <3>3. \A w \in rows : Payers(w) = {}
      BY <1>b, <2>1, <3>2 DEF LedgerInv, Tx, NoTx
    <3>4. \A t \in Tx : outcome'[t] = "none"
      BY <2>3, <3>1
    <3> QED
      BY <2>1, <2>4, <2>6, <3>3, <3>4 DEF ControlInv
  <2>7. CASE pc' = "save"
    <3>1. remaining' = {}
      BY <2>1, <2>2, <2>7
    <3> QED
      BY <2>1, <2>7, <3>1 DEF ControlInv
  <2> QED
    BY <2>2, <2>5, <2>6, <2>7
<1>3. CASE SettlePrior
  <2>1. PICK out \in Refreshes :
          remaining' = (remaining \ Prior(remaining)) \cup StillOpen(Prior(remaining), out)
    BY <1>3 DEF SettlePrior
  <2>2. pc = "prior" /\ pc' \in {"mint", "priorSave"} /\ attempt' = attempt /\ Recording /\ Recording'
        /\ (\A t \in Tx : outcome'[t] = "none")
    BY <1>3 DEF SettlePrior, ControlInv, Recording
  <2>3. \A w \in Wallet : Payers(w)' \subseteq Payers(w)
    BY <1>a, <2>2
  <2>4. ASSUME NEW w \in remaining' PROVE Payers(w) = {}
    <3>1. w \in Wallet /\ (w \in remaining \ Prior(remaining) \/ w \in StillOpen(Prior(remaining), out))
      BY <2>1, <2>4 DEF StillOpen, Prior
    <3>2. \A t \in Payers(w) : t = ledger[w].attempted
      BY <2>2, <3>1 DEF LedgerInv
    <3>3. CASE w \in remaining \ Prior(remaining)
      <4>1. ledger[w].attempted = NoTx
        BY <3>3 DEF Prior
      <4> QED
        BY <1>b, <3>1, <3>2, <4>1 DEF Tx, NoTx
    <3>4. CASE w \in StillOpen(Prior(remaining), out)
      <4>1. \A t \in AttemptsOf(w) : out[t] = "dead"
        BY <3>1, <3>4, SettledRows, VerdictTrue
      <4>2. AttemptsOf(w) = {ledger[w].attempted} \cap Tx
        BY <2>2 DEF AttemptsOf
      <4>3. \A t \in Payers(w) : t \in Tx /\ out[t] = "dead"
        BY <1>b, <3>1, <3>2, <4>1, <4>2
      <4>4. \A t \in Payers(w) : ~CanPay(t)
        BY <4>3, RefreshesTrue
      <4> QED
        BY <4>4 DEF Payers
    <3> QED
      BY <3>1, <3>3, <3>4
  <2>5. remaining' \subseteq Wallet
    BY <2>1 DEF StillOpen, Prior
  <2> QED
    BY <2>2, <2>3, <2>4, <2>5 DEF ControlInv
<1>4. CASE CheckMint
  BY <1>4, <1>a, <1>b DEF CheckMint, Tx, NoTx, world, local, KnowledgeInv, ControlInv, Recording, Prior
<1>5. CASE LoopTop
  BY <1>5, <1>a, <1>b DEF LoopTop, Tx, NoTx, world, local, KnowledgeInv, ControlInv, Recording, Prior
<1>6. CASE Refresh
  <2>1. PICK out \in Refreshes : outcome' = out /\ remaining' = StillOpen(remaining, out)
    BY <1>6 DEF Refresh
  <2>2. pc = "refresh" /\ pc' = (IF remaining' = {} THEN "final" ELSE "sign") /\ attempt' = attempt
    BY <1>6 DEF Refresh
  <2>3. \A w \in Wallet : Payers(w)' \subseteq Payers(w)
    BY <1>a, <2>2
  <2>4. ASSUME NEW w \in remaining' PROVE w \in Wallet /\ Payers(w) = {}
    <3>1. w \in Wallet /\ w \in remaining /\ Verdict(w, out) = "OPEN"
      BY <2>1, <2>4 DEF StillOpen
    <3>2. \A t \in AttemptsOf(w) : out[t] = "dead"
      BY <3>1, VerdictTrue
    <3>3. \A t \in Payers(w) : t \in AttemptsOf(w)
      BY <1>b, <2>2, <3>1 DEF AttemptsOf, ControlInv, Payers
    <3>4. \A t \in Payers(w) : ~CanPay(t)
      BY <1>b, <3>1, <3>2, <3>3, RefreshesTrue
    <3> QED
      BY <3>1, <3>4 DEF Payers
  <2> QED
    BY <2>2, <2>3, <2>4 DEF ControlInv
<1>7. CASE SignFails
  BY <1>7, <1>a, <1>b DEF SignFails, NextAttempt, Tx, NoTx, world, local, KnowledgeInv, ControlInv, Recording, Prior
<1>8. CASE Sign
  BY <1>8, <1>a, <1>b DEF Sign, Tx, NoTx, world, local, KnowledgeInv, ControlInv, Recording, Prior
<1>9. CASE Record
  BY <1>9, <1>a, <1>b DEF Record, Tx, NoTx, world, local, KnowledgeInv, ControlInv, Recording, Prior
<1>10. CASE RecordFails
  BY <1>10, <1>a, <1>b DEF RecordFails, NextAttempt, Tx, NoTx, world, local, KnowledgeInv, ControlInv, Recording, Prior
<1>11. CASE Send
  BY <1>11, <1>a, <1>b DEF Send, Tx, NoTx, world, local, KnowledgeInv, ControlInv, Recording, Prior
<1>12. CASE SendFails
  BY <1>12, <1>a, <1>b DEF SendFails, Tx, NoTx, world, local, KnowledgeInv, ControlInv, Recording, Prior
<1>13. CASE PollStatus
  <2>1. remaining' \subseteq remaining
    BY <1>13 DEF PollStatus, StillOpen
  <2>2. pc = "confirm" /\ attempt' \in Nat /\ attempt' >= attempt /\ UNCHANGED <<ledger, last, made, faults>>
        /\ \/ pc' = "final" /\ outcome' = [outcome EXCEPT ![last] = "confirmed"]
           \/ pc' = "loop" /\ attempt' = attempt + 1 /\ outcome' = [outcome EXCEPT ![last] = "dead"]
           \/ pc' = "deadline" /\ outcome' = outcome
    BY <1>13 DEF PollStatus, NextAttempt, world
  <2> QED
    BY <1>a, <1>b, <2>1, <2>2 DEF ControlInv, Recording, Tx
<1>14. CASE ConfirmGivesUp
  BY <1>14, <1>a, <1>b DEF ConfirmGivesUp, NextAttempt, Tx, NoTx, world, local, KnowledgeInv, ControlInv, Recording, Prior
<1>15. CASE CheckHeight
  BY <1>15, <1>a, <1>b DEF CheckHeight, NextAttempt, Tx, NoTx, world, local, KnowledgeInv, ControlInv, Recording, Prior
<1>16. CASE Final
  <2>1. pc' = "save" /\ remaining' = {} /\ attempt' = attempt
    BY <1>16 DEF Final
  <2> QED
    BY <2>1 DEF ControlInv
<1>17. ASSUME NEW w \in Wallet, SaveRow(w) PROVE ControlInv'
  BY <1>17, <1>a, <1>b DEF SaveRow, Marked, Tx, NoTx, world, local, KnowledgeInv, ControlInv, Recording, Prior
<1>18. CASE PriorSaved
  BY <1>18, <1>a, <1>b DEF PriorSaved, Tx, NoTx, world, local, KnowledgeInv, ControlInv, Recording, Prior
<1>19. CASE Return
  BY <1>19, <1>a, <1>b DEF Return, Leave, NoResult, Tx, NoTx, world, local, KnowledgeInv, ControlInv, Recording, Prior
<1>20. CASE CallThrows
  BY <1>20, <1>a, <1>b DEF CallThrows, Leave, NoResult, Tx, NoTx, world, local, KnowledgeInv, ControlInv, Recording, Prior
<1>21. CASE Crash
  BY <1>21, <1>a, <1>b DEF Crash, Leave, NoResult, Tx, NoTx, world, local, KnowledgeInv, ControlInv, Recording, Prior
<1>22. ASSUME NEW t \in Tx, Process(t) PROVE ControlInv'
  BY <1>22, <1>a, <1>b DEF Process, Tx, NoTx, world, local, KnowledgeInv, ControlInv, Recording, Prior
<1>23. ASSUME NEW t \in Tx, Confirm(t) PROVE ControlInv'
  BY <1>23, <1>a, <1>b DEF Confirm, Tx, NoTx, world, local, KnowledgeInv, ControlInv, Recording, Prior
<1>24. ASSUME NEW t \in Tx, ForkOut(t) PROVE ControlInv'
  BY <1>24, <1>a, <1>b DEF ForkOut, Tx, NoTx, world, local, KnowledgeInv, ControlInv, Recording, Prior
<1>25. ASSUME NEW t \in Tx, Expire(t) PROVE ControlInv'
  BY <1>25, <1>a, <1>b DEF Expire, Tx, NoTx, world, local, KnowledgeInv, ControlInv, Recording, Prior
<1>26. CASE UNCHANGED vars
  BY <1>26, <1>a, <1>b DEF vars, Tx, NoTx, world, local, KnowledgeInv, ControlInv, Recording, Prior
<1>27. QED
  BY NextCases, <1>1, <1>2, <1>3, <1>4, <1>5, <1>6, <1>7, <1>8, <1>9, <1>10, <1>11, <1>12, <1>13, <1>14, <1>15, <1>16, <1>17, <1>18, <1>19, <1>20, <1>21, <1>22, <1>23, <1>24, <1>25, <1>26

\* A row settled DONE by attempts of this batch has been paid by one of them.
LEMMA DoneIsPaid ==
  ASSUME TypeOK, pc # "prior", NEW out, NEW w \in Wallet,
         \A t \in Tx : out[t] = "confirmed" => chain[t] = "confirmed",
         Verdict(w, out) = "DONE"
  PROVE  Confirmed(w) # {}
<1>1. \E t \in AttemptsOf(w) : out[t] = "confirmed"
  BY VerdictTrue
<1>2. \A t \in AttemptsOf(w) : t \in Tx /\ w \in carries[t]
  BY DEF AttemptsOf
<1> QED
  BY <1>1, <1>2 DEF Confirmed

\* Settling the open rows of a batch leaves the answers true.
LEMMA SettleStep ==
  ASSUME IInv, pc \notin {"prior", "idle", "save"}, pc' \notin {"idle", "save"}, UNCHANGED <<ledger, unsaved>>,
         NEW out, \A t \in Tx : out[t] = "confirmed" => chain[t] = "confirmed",
         results' = Settled(remaining, out), remaining' = StillOpen(remaining, out),
         \A w \in Wallet : Confirmed(w) \subseteq Confirmed(w)' /\ Payers(w)' \subseteq Payers(w)
  PROVE  AnswersInv'
<1> USE DEF IInv, TypeOK
<1>1. ASSUME NEW w \in Wallet, w \in remaining \ remaining'
      PROVE  /\ results[w].status = "PENDING" /\ ledger[w].status = "PENDING"
             /\ results'[w].status \in {"DONE", "UNRESOLVED"}
             /\ results'[w].status = "DONE" => Confirmed(w) # {}
  <2>1. Verdict(w, out) # "OPEN" /\ results'[w].status = Verdict(w, out)
    BY <1>1, SettledRows
  <2>2. results[w].status = "PENDING" /\ ledger[w].status = "PENDING"
    BY <1>1 DEF AnswersInv, Called
  <2> QED
    BY <2>1, <2>2, VerdictTrue, DoneIsPaid
<1>2. ASSUME NEW w \in Wallet, w \notin remaining \ remaining'
      PROVE  results'[w] = results[w] /\ (w \in remaining' <=> w \in remaining)
  BY <1>2, SettledRows
<1>3. remaining' \subseteq remaining
  BY DEF StillOpen
<1> QED
  BY <1>1, <1>2, <1>3 DEF AnswersInv, Called, Open

\* What the call answers stays true, and no row of it is forgotten.
LEMMA AnswersStep ==
  ASSUME IInv, [Next]_vars
  PROVE  AnswersInv'
<1> USE DEF IInv, TypeOK
<1>a. \A w \in Wallet :
        /\ Confirmed(w) \subseteq Confirmed(w)'
        /\ \/ Payers(w)' \subseteq Payers(w)
           \/ pc = "send" /\ pc' = "confirm" /\ w \in remaining /\ Payers(w) = {} /\ Payers(w)' \subseteq {last}
  BY PayersStep DEF Send
<1>1. CASE Reopen
  BY <1>1, <1>a DEF Reopen, Tx, NoTx, world, local, Called, Open, AnswersInv
<1>2. CASE Call
  <2>1. pc = "idle" /\ pc' # "idle" /\ UNCHANGED <<ledger, faults>> /\ remaining' = Open \ (Dust \cup Bad)
        /\ unsaved' = (IF remaining' = {} THEN Open ELSE {}) /\ (pc' = "save" <=> remaining' = {})
    BY <1>2 DEF Call
  <2>2. \A w \in Wallet : results'[w].status =
          IF w \notin Open THEN "none"
          ELSE IF w \in Dust THEN "SKIPPED_DUST" ELSE IF w \in Bad THEN "FAILED" ELSE "PENDING"
    BY <1>2 DEF Call, NoResult
  <2>3. \A w \in Dust \cup Bad : Payers(w)' = {}
    BY <2>1, <1>a, RowsAssumption DEF KnowledgeInv, Payers
  <2> QED
    BY <2>1, <2>2, <2>3, RowsAssumption DEF AnswersInv, Called, Open
<1>3. CASE SettlePrior
  <2>1. PICK out \in Refreshes :
          /\ results' = Settled(Prior(remaining), out)
          /\ remaining' = (remaining \ Prior(remaining)) \cup StillOpen(Prior(remaining), out)
    BY <1>3 DEF SettlePrior
  <2>2. pc = "prior" /\ pc' \in {"mint", "priorSave"} /\ unsaved' = remaining \ remaining'
        /\ UNCHANGED ledger /\ Prior(remaining) \subseteq remaining
    BY <1>3 DEF SettlePrior, Prior
  <2>3. \A w \in Wallet : Payers(w)' \subseteq Payers(w)
    BY <1>a, <2>2
  <2>4. ASSUME NEW w \in Wallet, w \in remaining \ remaining'
        PROVE  /\ results[w].status = "PENDING" /\ ledger[w].status = "PENDING"
               /\ results'[w].status \in {"DONE", "UNRESOLVED"}
               /\ results'[w].status = "DONE" => Confirmed(w) # {}
    <3>1. w \in Prior(remaining) /\ Verdict(w, out) # "OPEN" /\ results'[w].status = Verdict(w, out)
      BY <2>1, <2>4, SettledRows
    <3>2. Verdict(w, out) = "DONE" => \E t \in AttemptsOf(w) : out[t] = "confirmed"
      BY VerdictTrue
    <3>3. \A t \in AttemptsOf(w) : t \in Tx /\ w \in carries[t]
      BY <2>2 DEF AttemptsOf, LedgerInv, Tx, NoTx
    <3>4. Verdict(w, out) = "DONE" => Confirmed(w) # {}
      BY <3>2, <3>3, RefreshesTrue DEF Confirmed
    <3> QED
      BY <2>4, <3>1, <3>4, VerdictTrue DEF AnswersInv, Called
  <2>5. ASSUME NEW w \in Wallet, w \notin remaining \ remaining'
        PROVE  results'[w] = results[w] /\ (w \in remaining' <=> w \in remaining)
    BY <2>1, <2>2, <2>5, SettledRows
  <2>6. remaining' \subseteq remaining
    BY <2>1, <2>2 DEF StillOpen
  <2> QED
    BY <1>a, <2>2, <2>3, <2>4, <2>5, <2>6 DEF AnswersInv, Called, Open
<1>4. CASE CheckMint
  BY <1>4, <1>a DEF CheckMint, Tx, NoTx, world, local, Called, Open, AnswersInv
<1>5. CASE LoopTop
  BY <1>5, <1>a DEF LoopTop, Tx, NoTx, world, local, Called, Open, AnswersInv
<1>6. CASE Refresh
  <2>1. PICK out \in Refreshes :
          results' = Settled(remaining, out) /\ remaining' = StillOpen(remaining, out)
    BY <1>6 DEF Refresh
  <2>2. pc = "refresh" /\ pc' \in {"final", "sign"} /\ UNCHANGED <<ledger, unsaved>>
    BY <1>6 DEF Refresh
  <2>3. \A t \in Tx : out[t] = "confirmed" => chain[t] = "confirmed"
    BY RefreshesTrue
  <2> QED
    BY <1>a, <2>1, <2>2, <2>3, SettleStep
<1>7. CASE SignFails
  BY <1>7, <1>a DEF SignFails, NextAttempt, Tx, NoTx, world, local, Called, Open, AnswersInv
<1>8. CASE Sign
  BY <1>8, <1>a DEF Sign, Tx, NoTx, world, local, Called, Open, AnswersInv
<1>9. CASE Record
  BY <1>9, <1>a DEF Record, Tx, NoTx, world, local, Called, Open, AnswersInv
<1>10. CASE RecordFails
  BY <1>10, <1>a DEF RecordFails, NextAttempt, Tx, NoTx, world, local, Called, Open, AnswersInv
<1>11. CASE Send
  BY <1>11, <1>a DEF Send, Tx, NoTx, world, local, Called, Open, AnswersInv
<1>12. CASE SendFails
  BY <1>12, <1>a DEF SendFails, Tx, NoTx, world, local, Called, Open, AnswersInv
<1>13. CASE PollStatus
  <2>1. pc = "confirm" /\ pc' \in {"final", "loop", "deadline"} /\ UNCHANGED <<ledger, unsaved, chain>>
    BY <1>13 DEF PollStatus, NextAttempt, world
  <2>2. CASE chain[last] = "confirmed"
    <3>1. outcome' = [outcome EXCEPT ![last] = "confirmed"] /\ results' = Settled(remaining, outcome')
          /\ remaining' = StillOpen(remaining, outcome')
      BY <1>13, <2>2 DEF PollStatus
    <3>2. \A t \in Tx : outcome'[t] = "confirmed" => chain[t] = "confirmed"
      BY <2>2, <3>1 DEF KnowledgeInv
    <3> QED
      BY <1>a, <2>1, <3>1, <3>2, SettleStep
  <2>3. CASE chain[last] # "confirmed"
    <3>1. UNCHANGED <<results, remaining>>
      BY <1>13, <2>3 DEF PollStatus
    <3> QED
      BY <1>a, <2>1, <3>1 DEF AnswersInv, Called, Open
  <2> QED
    BY <2>2, <2>3
<1>14. CASE ConfirmGivesUp
  BY <1>14, <1>a DEF ConfirmGivesUp, NextAttempt, Tx, NoTx, world, local, Called, Open, AnswersInv
<1>15. CASE CheckHeight
  BY <1>15, <1>a DEF CheckHeight, NextAttempt, Tx, NoTx, world, local, Called, Open, AnswersInv
<1>16. CASE Final
  <2>1. PICK out \in {outcome} \cup Refreshes :
          results' = [w \in Wallet |->
            IF w \in StillOpen(remaining, out) THEN [status |-> "FAILED", tx |-> NoTx]
            ELSE Settled(remaining, out)[w]]
    BY <1>16 DEF Final
  <2>2. pc = "final" /\ pc' = "save" /\ remaining' = {} /\ unsaved' = Called /\ UNCHANGED ledger
    BY <1>16 DEF Final, Called
  <2>3. \A t \in Tx : (out[t] = "confirmed" => chain[t] = "confirmed") /\ (out[t] = "dead" => ~CanPay(t))
    BY RefreshesTrue DEF KnowledgeInv
  <2>4. ASSUME NEW w \in Wallet, w \in remaining
        PROVE  /\ results'[w].status \in {"DONE", "UNRESOLVED", "FAILED"}
               /\ results'[w].status = "DONE" => Confirmed(w) # {}
               /\ results'[w].status = "FAILED" => Payers(w) = {}
    <3>1. CASE Verdict(w, out) = "OPEN"
      <4>1. results'[w].status = "FAILED"
        BY <2>1, <2>4, <3>1, SettledRows
      <4>2. \A t \in AttemptsOf(w) : out[t] = "dead"
        BY <3>1, VerdictTrue
      <4>3. \A t \in Payers(w) : t \in AttemptsOf(w) /\ t \in Tx
        BY <2>2, <2>4 DEF AttemptsOf, ControlInv, Payers
      <4>4. Payers(w) = {}
        BY <2>3, <4>2, <4>3 DEF Payers
      <4> QED
        BY <4>1, <4>4
    <3>2. CASE Verdict(w, out) # "OPEN"
      <4>1. results'[w].status = Verdict(w, out)
        BY <2>1, <2>4, <3>2, SettledRows
      <4> QED
        BY <2>2, <2>3, <2>4, <3>2, <4>1, VerdictTrue, DoneIsPaid
    <3> QED
      BY <3>1, <3>2
  <2>5. \A w \in Wallet : w \notin remaining => results'[w] = results[w]
    BY <2>1, SettledRows
  <2> QED
    BY <1>a, <2>2, <2>4, <2>5 DEF AnswersInv, Called, Open
<1>17. ASSUME NEW w \in Wallet, SaveRow(w) PROVE AnswersInv'
  <2>1. pc \in {"priorSave", "save"} /\ w \in unsaved /\ ledger' = [ledger EXCEPT ![w] = Marked(w)]
        /\ unsaved' = unsaved \ {w} /\ UNCHANGED <<pc, remaining, results>>
    BY <1>17 DEF SaveRow
  <2>2. results[w].status \notin {"PENDING", "none"}
    BY <2>1 DEF AnswersInv, Called
  <2>3. ledger'[w].status = results[w].status
    BY <2>1, <2>2 DEF Marked, AnswersInv, Called
  <2>4. \A u \in Wallet \ {w} : ledger'[u] = ledger[u]
    BY <2>1
  <2>5. Called' = Called /\ Open' \subseteq Open \ {w}
    BY <2>1, <2>2, <2>3, <2>4 DEF Called, Open
  <2> QED
    BY <1>a, <2>1, <2>3, <2>4, <2>5 DEF AnswersInv
<1>18. CASE PriorSaved
  BY <1>18, <1>a DEF PriorSaved, Tx, NoTx, world, local, Called, Open, AnswersInv
<1>19. CASE Return
  BY <1>19, <1>a DEF Return, Leave, NoResult, Tx, NoTx, world, local, Called, Open, AnswersInv
<1>20. CASE CallThrows
  BY <1>20, <1>a DEF CallThrows, Leave, NoResult, Tx, NoTx, world, local, Called, Open, AnswersInv
<1>21. CASE Crash
  BY <1>21, <1>a DEF Crash, Leave, NoResult, Tx, NoTx, world, local, Called, Open, AnswersInv
<1>22. ASSUME NEW t \in Tx, Process(t) PROVE AnswersInv'
  BY <1>22, <1>a DEF Process, Tx, NoTx, world, local, Called, Open, AnswersInv
<1>23. ASSUME NEW t \in Tx, Confirm(t) PROVE AnswersInv'
  BY <1>23, <1>a DEF Confirm, Tx, NoTx, world, local, Called, Open, AnswersInv
<1>24. ASSUME NEW t \in Tx, ForkOut(t) PROVE AnswersInv'
  BY <1>24, <1>a DEF ForkOut, Tx, NoTx, world, local, Called, Open, AnswersInv
<1>25. ASSUME NEW t \in Tx, Expire(t) PROVE AnswersInv'
  BY <1>25, <1>a DEF Expire, Tx, NoTx, world, local, Called, Open, AnswersInv
<1>26. CASE UNCHANGED vars
  BY <1>26, <1>a DEF vars, Tx, NoTx, world, local, Called, Open, AnswersInv
<1>27. QED
  BY NextCases, <1>1, <1>2, <1>3, <1>4, <1>5, <1>6, <1>7, <1>8, <1>9, <1>10, <1>11, <1>12, <1>13, <1>14, <1>15, <1>16, <1>17, <1>18, <1>19, <1>20, <1>21, <1>22, <1>23, <1>24, <1>25, <1>26

\* The stored rows stay true.
LEMMA LedgerStep ==
  ASSUME IInv, [Next]_vars
  PROVE  LedgerInv'
<1> USE DEF IInv, TypeOK
<1>a. \A w \in Wallet :
        /\ Confirmed(w) \subseteq Confirmed(w)'
        /\ \/ Payers(w)' \subseteq Payers(w)
           \/ pc = "send" /\ pc' = "confirm" /\ w \in remaining /\ Payers(w) = {} /\ Payers(w)' \subseteq {last}
  BY PayersStep DEF Send
<1>b. \A w \in Wallet : Payers(w) \subseteq Tx
  BY DEF Payers
<1>c. \A w \in Wallet : ledger[w].attempted # NoTx =>
        carries'[ledger[w].attempted] = carries[ledger[w].attempted]
  <2>1. CASE Sign
    BY <2>1 DEF Sign, LedgerInv, KnowledgeInv, Tx, NoTx
  <2>2. CASE carries' = carries
    BY <2>2
  <2> QED
    BY <2>1, <2>2, NextCases DEF Reopen, Call, SettlePrior, CheckMint, LoopTop, Refresh, SignFails,
      Record, RecordFails, Send, SendFails, PollStatus, ConfirmGivesUp, CheckHeight, Final, SaveRow,
      PriorSaved, Return, CallThrows, Crash, Process, Confirm, ForkOut, Expire, world, vars
<1>1. CASE Reopen
  BY <1>1, <1>a, <1>b, <1>c DEF Reopen, Tx, NoTx, world, local, Open, Recording, KnowledgeInv, ControlInv, AnswersInv, LedgerInv
<1>2. CASE Call
  BY <1>2, <1>a, <1>b, <1>c DEF Call, Open, Prior, NoResult, Tx, NoTx, world, local, Open, Recording, KnowledgeInv, ControlInv, AnswersInv, LedgerInv
<1>3. CASE SettlePrior
  BY <1>3, <1>a, <1>b, <1>c DEF SettlePrior, Tx, NoTx, world, local, Open, Recording, KnowledgeInv, ControlInv, AnswersInv, LedgerInv
<1>4. CASE CheckMint
  BY <1>4, <1>a, <1>b, <1>c DEF CheckMint, Tx, NoTx, world, local, Open, Recording, KnowledgeInv, ControlInv, AnswersInv, LedgerInv
<1>5. CASE LoopTop
  BY <1>5, <1>a, <1>b, <1>c DEF LoopTop, Tx, NoTx, world, local, Open, Recording, KnowledgeInv, ControlInv, AnswersInv, LedgerInv
<1>6. CASE Refresh
  BY <1>6, <1>a, <1>b, <1>c DEF Refresh, Tx, NoTx, world, local, Open, Recording, KnowledgeInv, ControlInv, AnswersInv, LedgerInv
<1>7. CASE SignFails
  BY <1>7, <1>a, <1>b, <1>c DEF SignFails, NextAttempt, Tx, NoTx, world, local, Open, Recording, KnowledgeInv, ControlInv, AnswersInv, LedgerInv
<1>8. CASE Sign
  BY <1>8, <1>a, <1>b, <1>c DEF Sign, Tx, NoTx, world, local, Open, Recording, KnowledgeInv, ControlInv, AnswersInv, LedgerInv
<1>9. CASE Record
  BY <1>9, <1>a, <1>b, <1>c DEF Record, Tx, NoTx, world, local, Open, Recording, KnowledgeInv, ControlInv, AnswersInv, LedgerInv
<1>10. CASE RecordFails
  BY <1>10, <1>a, <1>b, <1>c DEF RecordFails, NextAttempt, Tx, NoTx, world, local, Open, Recording, KnowledgeInv, ControlInv, AnswersInv, LedgerInv
<1>11. CASE Send
  <2>1. \A w \in remaining : ledger[w].status = "PENDING"
    BY DEF AnswersInv, Called
  <2>2. pc = "send" /\ pc' = "confirm" /\ UNCHANGED <<ledger, faults, carries>>
    BY <1>11 DEF Send, world
  <2> QED
    BY <1>a, <1>b, <1>c, <2>1, <2>2 DEF LedgerInv, ControlInv, Open, Recording
<1>12. CASE SendFails
  <2>1. \A w \in remaining : ledger[w].status = "PENDING"
    BY DEF AnswersInv, Called
  <2>2. pc = "send" /\ pc' = "confirm" /\ UNCHANGED <<ledger, faults, carries>>
    BY <1>12 DEF SendFails, world
  <2> QED
    BY <1>a, <1>b, <1>c, <2>1, <2>2 DEF LedgerInv, ControlInv, Open, Recording
<1>13. CASE PollStatus
  BY <1>13, <1>a, <1>b, <1>c DEF PollStatus, NextAttempt, Tx, NoTx, world, local, Open, Recording, KnowledgeInv, ControlInv, AnswersInv, LedgerInv
<1>14. CASE ConfirmGivesUp
  BY <1>14, <1>a, <1>b, <1>c DEF ConfirmGivesUp, NextAttempt, Tx, NoTx, world, local, Open, Recording, KnowledgeInv, ControlInv, AnswersInv, LedgerInv
<1>15. CASE CheckHeight
  BY <1>15, <1>a, <1>b, <1>c DEF CheckHeight, NextAttempt, Tx, NoTx, world, local, Open, Recording, KnowledgeInv, ControlInv, AnswersInv, LedgerInv
<1>16. CASE Final
  BY <1>16, <1>a, <1>b, <1>c DEF Final, Tx, NoTx, world, local, Open, Recording, KnowledgeInv, ControlInv, AnswersInv, LedgerInv
<1>17. ASSUME NEW w \in Wallet, SaveRow(w) PROVE LedgerInv'
  BY <1>17, <1>a, <1>b, <1>c DEF SaveRow, Marked, Tx, NoTx, world, local, Open, Recording, KnowledgeInv, ControlInv, AnswersInv, LedgerInv
<1>18. CASE PriorSaved
  BY <1>18, <1>a, <1>b, <1>c DEF PriorSaved, Tx, NoTx, world, local, Open, Recording, KnowledgeInv, ControlInv, AnswersInv, LedgerInv
<1>19. CASE Return
  BY <1>19, <1>a, <1>b, <1>c DEF Return, Leave, NoResult, Tx, NoTx, world, local, Open, Recording, KnowledgeInv, ControlInv, AnswersInv, LedgerInv
<1>20. CASE CallThrows
  BY <1>20, <1>a, <1>b, <1>c DEF CallThrows, Leave, NoResult, Tx, NoTx, world, local, Open, Recording, KnowledgeInv, ControlInv, AnswersInv, LedgerInv
<1>21. CASE Crash
  BY <1>21, <1>a, <1>b, <1>c DEF Crash, Leave, NoResult, Tx, NoTx, world, local, Open, Recording, KnowledgeInv, ControlInv, AnswersInv, LedgerInv
<1>22. ASSUME NEW t \in Tx, Process(t) PROVE LedgerInv'
  BY <1>22, <1>a, <1>b, <1>c DEF Process, Tx, NoTx, world, local, Open, Recording, KnowledgeInv, ControlInv, AnswersInv, LedgerInv
<1>23. ASSUME NEW t \in Tx, Confirm(t) PROVE LedgerInv'
  BY <1>23, <1>a, <1>b, <1>c DEF Confirm, Tx, NoTx, world, local, Open, Recording, KnowledgeInv, ControlInv, AnswersInv, LedgerInv
<1>24. ASSUME NEW t \in Tx, ForkOut(t) PROVE LedgerInv'
  BY <1>24, <1>a, <1>b, <1>c DEF ForkOut, Tx, NoTx, world, local, Open, Recording, KnowledgeInv, ControlInv, AnswersInv, LedgerInv
<1>25. ASSUME NEW t \in Tx, Expire(t) PROVE LedgerInv'
  BY <1>25, <1>a, <1>b, <1>c DEF Expire, Tx, NoTx, world, local, Open, Recording, KnowledgeInv, ControlInv, AnswersInv, LedgerInv
<1>26. CASE UNCHANGED vars
  BY <1>26, <1>a, <1>b, <1>c DEF vars, Tx, NoTx, world, local, Open, Recording, KnowledgeInv, ControlInv, AnswersInv, LedgerInv
<1>27. QED
  BY NextCases, <1>1, <1>2, <1>3, <1>4, <1>5, <1>6, <1>7, <1>8, <1>9, <1>10, <1>11, <1>12, <1>13, <1>14, <1>15, <1>16, <1>17, <1>18, <1>19, <1>20, <1>21, <1>22, <1>23, <1>24, <1>25, <1>26

-----------------------------------------------------------------------------
\* Initially every row is PENDING and nothing has been signed.
LEMMA InitIInv == Contract /\ Init => IInv
<1> SUFFICES ASSUME Contract, Init PROVE IInv
  OBVIOUS
<1>1. TypeOK
  BY BoundsAssumption DEF Init, TypeOK, Tx, NoTx, Status, NoResult, Outcomes, ChainStates, PCs
<1>2. \A t \in Tx : ~CanPay(t) /\ carries[t] = {} /\ chain[t] = "none" /\ outcome[t] = "none"
  BY DEF Init, CanPay
<1>3. \A w \in Wallet : Payers(w) = {} /\ ledger[w].status = "PENDING" /\ ledger[w].attempted = NoTx
                        /\ results[w].status = "none"
  BY <1>2 DEF Init, Payers, NoResult
<1>4. pc = "idle" /\ remaining = {} /\ unsaved = {} /\ attempt = 1 /\ Called = {}
  BY <1>3 DEF Init, Called
<1>5. faults \in FaultSets
  BY DEF Init
<1>6. KnowledgeInv
  BY <1>2, <1>5 DEF KnowledgeInv, Contract
<1>7. ControlInv /\ AnswersInv /\ LedgerInv
  BY <1>3, <1>4 DEF ControlInv, AnswersInv, LedgerInv
<1> QED
  BY <1>1, <1>6, <1>7 DEF IInv

\* TypeOK: every variable keeps its type, whatever the caller and the faults.
THEOREM TypeCorrect == Spec => []TypeOK
<1> DEFINE Inv == TypeOK /\ unsaved \subseteq Called
<1>1. Init => Inv
  BY BoundsAssumption DEF Init, TypeOK, Tx, NoTx, Status, NoResult, Outcomes, ChainStates, PCs
<1>2. Inv /\ [Next]_vars => Inv'
  BY TypeStep, UnsavedStep
<1>3. Inv => TypeOK
  OBVIOUS
<1> QED
  BY <1>1, <1>2, <1>3, PTL DEF Spec

\* The inductive invariant holds as long as the caller keeps the contract of the
\* module's header, or never has to: nothing dies or fails to be saved.
THEOREM Inductive == Contract => (Spec => []IInv)
<1> SUFFICES ASSUME Contract PROVE Spec => []IInv
  OBVIOUS
<1>1. Init => IInv
  BY InitIInv
<1>2. IInv /\ [Next]_vars => IInv'
  <2> SUFFICES ASSUME IInv, [Next]_vars PROVE IInv'
    OBVIOUS
  <2>1. TypeOK'
    BY TypeStep DEF IInv, AnswersInv, TypeOK
  <2> QED
    BY <2>1, KnowledgeStep, ControlStep, AnswersStep, LedgerStep DEF IInv
<1> QED
  BY <1>1, <1>2, PTL DEF Spec

\* PaidOnce: a holder is never paid twice.
THEOREM NobodyIsPaidTwice == Contract => (Spec => []PaidOnce)
<1>1. IInv => PaidOnce
  BY DEF IInv, LedgerInv, PaidOnce, Confirmed, Payers, CanPay
<1> QED
  BY <1>1, Inductive, PTL

\* No step but a confirmation changes what a row has been paid by.
LEMMA ConfirmedStep ==
  ASSUME IInv, [Next]_vars, NEW w \in Wallet
  PROVE  Confirmed(w)' = Confirmed(w) \/ \E t \in Tx : Confirm(t)
<1> USE DEF IInv, TypeOK
<1>1. CASE UNCHANGED <<chain, carries>>
  BY <1>1 DEF Confirmed
<1>2. CASE Sign
  <2>1. made + 1 \in Tx /\ chain[made + 1] = "none" /\ chain'[made + 1] = "signed"
    BY <1>2, BoundsAssumption DEF Sign, Tx, KnowledgeInv
  <2>2. \A u \in Tx \ {made + 1} : chain'[u] = chain[u] /\ carries'[u] = carries[u]
    BY <1>2 DEF Sign
  <2> QED
    BY <2>1, <2>2 DEF Confirmed
<1>3. CASE Send
  BY <1>3 DEF Send, ControlInv, Confirmed
<1>4. ASSUME NEW t \in Tx, Process(t) \/ ForkOut(t) PROVE Confirmed(w)' = Confirmed(w)
  BY <1>4 DEF Process, ForkOut, Confirmed
<1> QED
  BY <1>1, <1>2, <1>3, <1>4, NextCases DEF Reopen, Call, SettlePrior, CheckMint, LoopTop, Refresh, SignFails,
    Record, RecordFails, SendFails, PollStatus, ConfirmGivesUp, CheckHeight, Final, SaveRow,
    PriorSaved, Return, CallThrows, Crash, Expire, world, vars

\* A row's status changes in two places only: an answer of the call is stored
\* over PENDING, and a retry takes FAILED back.
LEMMA StatusStep ==
  ASSUME IInv, [Next]_vars, NEW w \in Wallet
  PROVE  \/ ledger'[w].status = ledger[w].status
         \/ ledger[w].status = "FAILED" /\ ledger'[w].status = "PENDING"
         \/ ledger[w].status = "PENDING" /\ ledger'[w].status \in {"DONE", "FAILED", "SKIPPED_DUST", "UNRESOLVED"}
<1> USE DEF IInv, TypeOK
<1>1. CASE UNCHANGED ledger
  BY <1>1
<1>2. CASE Reopen
  BY <1>2 DEF Reopen
<1>3. CASE Record \/ RecordFails
  BY <1>3 DEF Record, RecordFails
<1>4. ASSUME NEW u \in Wallet, SaveRow(u)
      PROVE  \/ ledger'[w].status = ledger[w].status
             \/ ledger[w].status = "PENDING" /\ ledger'[w].status \in {"DONE", "FAILED", "SKIPPED_DUST", "UNRESOLVED"}
  <2>1. CASE u # w
    BY <1>4, <2>1 DEF SaveRow
  <2>2. CASE u = w
    <3>1. results[w].status \in Status \ {"PENDING"} /\ w \in Called
      BY <1>4, <2>2 DEF SaveRow, AnswersInv, Called
    <3>2. ledger'[w].status = ledger[w].status \/ ledger'[w].status = results[w].status
      BY <1>4, <2>2 DEF SaveRow, Marked
    <3> QED
      BY <3>1, <3>2 DEF AnswersInv, Status
  <2> QED
    BY <2>1, <2>2
<1> QED
  BY <1>1, <1>2, <1>3, <1>4, NextCases DEF Call, SettlePrior, CheckMint, LoopTop, Refresh, SignFails, Sign,
    Send, SendFails, PollStatus, ConfirmGivesUp, CheckHeight, Final, PriorSaved, Return, CallThrows, Crash,
    Process, Confirm, ForkOut, Expire, vars

\* RowsKeepThePromise, one step of one row: with the chain, the row implements
\* SpendOnce.
LEMMA RowStep ==
  ASSUME IInv, IInv', [Next]_vars, NEW w \in Wallet
  PROVE  [Payment(w)!Next]_(Payment(w)!vars)
<1> USE DEF IInv, TypeOK
<1>1. Confirmed(w) \subseteq Confirmed(w)'
  BY PayersStep
<1>2. Confirmed(w) \subseteq Payers(w) /\ Payers(w) \subseteq Tx
  BY DEF Confirmed, Payers, CanPay
<1>3. CASE \E t \in Tx : Confirm(t)
  <2>1. PICK t \in Tx : Confirm(t)
    BY <1>3
  <2>2. UNCHANGED <<ledger, carries>> /\ chain[t] = "processed" /\ chain' = [chain EXCEPT ![t] = "confirmed"]
    BY <2>1 DEF Confirm
  <2>3. Answer(w)' = Answer(w)
    BY <2>2 DEF Answer
  <2>4. CASE w \in carries[t]
    <3>1. Confirmed(w)' = Confirmed(w) \cup {t}
      BY <2>2, <2>4 DEF Confirmed
    <3>2. t \in Payers(w) /\ t \notin Confirmed(w)
      BY <2>2, <2>4 DEF Payers, CanPay, Confirmed
    <3>3. Confirmed(w) = {}
      BY <1>2, <3>2 DEF LedgerInv
    <3>4. ledger[w].status \in {"PENDING", "UNRESOLVED"}
      BY <3>2, <3>3 DEF LedgerInv, Status
    <3>5. Answer(w) \in {"open", "unresolved"}
      BY <3>4 DEF Answer
    <3>6. Payment(w)!Spend
      BY <2>3, <3>1, <3>3, <3>5 DEF Payment!Spend
    <3> QED
      BY <3>6 DEF Payment!Next
  <2>5. CASE w \notin carries[t]
    <3>1. Confirmed(w)' = Confirmed(w)
      BY <2>2, <2>5 DEF Confirmed
    <3> QED
      BY <2>3, <3>1 DEF Payment!vars
  <2> QED
    BY <2>4, <2>5
<1>4. CASE Confirmed(w)' = Confirmed(w)
  <2>1. CASE ledger'[w].status = ledger[w].status
    BY <1>4, <2>1 DEF Answer, Payment!vars
  <2>2. CASE ledger[w].status = "FAILED" /\ ledger'[w].status = "PENDING"
    BY <1>4, <2>2 DEF Answer, Payment!Next, Payment!Reopen
  <2>3. CASE ledger[w].status = "PENDING" /\ ledger'[w].status = "DONE"
    <3>1. Confirmed(w)' # {}
      BY <2>3 DEF LedgerInv
    <3> QED
      BY <1>4, <2>3, <3>1 DEF Answer, Payment!Next, Payment!AnswerDone
  <2>4. CASE ledger[w].status = "PENDING" /\ ledger'[w].status \in {"FAILED", "SKIPPED_DUST"}
    <3>1. Confirmed(w)' \subseteq Payers(w)'
      BY DEF Confirmed, Payers, CanPay
    <3>2. Confirmed(w)' = {}
      BY <2>4, <3>1 DEF LedgerInv
    <3> QED
      BY <1>4, <2>4, <3>2 DEF Answer, Payment!Next, Payment!AnswerKept
  <2>5. CASE ledger[w].status = "PENDING" /\ ledger'[w].status = "UNRESOLVED"
    BY <1>4, <2>5 DEF Answer, Payment!Next, Payment!AnswerUnresolved
  <2> QED
    BY <2>1, <2>2, <2>3, <2>4, <2>5, StatusStep
<1> QED
  BY <1>3, <1>4, ConfirmedStep

\* RowsKeepThePromise: every row, with the chain, implements SpendOnce.
THEOREM RowsKeepTheirPromise == Contract => (Spec => RowsKeepThePromise)
<1>1. Init => \A w \in Wallet : Payment(w)!Init
  BY DEF Init, Payment!Init, Confirmed, Answer
<1>2. IInv /\ IInv' /\ [Next]_vars => [\A w \in Wallet : [Payment(w)!Next]_(Payment(w)!vars)]_vars
  BY RowStep
<1> QED
  BY <1>1, <1>2, Inductive, PTL DEF Spec, RowsKeepThePromise
=============================================================================
