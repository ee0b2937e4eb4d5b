---------------------------- MODULE Distributor -----------------------------
(***************************************************************************)
(* The sender of tokens, server/src/chain/distributor.js                   *)
(* ensureAndTransfer, for the rows of one mint that fit one batch, with    *)
(* the ledger rows it settles, the caller that persists them, and the      *)
(* chain.  The caller is either the one the module's header asks for (it   *)
(* persists every signature before the send, through onAttempt, and hands  *)
(* it back as attemptedTx) or the one server/src/keeper/runner.js is (it   *)
(* does neither: "unrecorded").                                            *)
(*                                                                         *)
(* A transaction is a number, in signing order.  It carries the transfers  *)
(* of a set of wallets.                                                    *)
(***************************************************************************)
EXTENDS Naturals, FiniteSets

CONSTANTS
  Wallet,       \* the recipients of the rows
  Dust, Bad,    \* those whose amount is zero, whose address cannot be paid
  MaxTx,        \* bound: transactions ever signed
  MaxCrashes,   \* bound: deaths of the process
  MaxAttempts,  \* the code's `maxAttempts` (3)
  FaultSets     \* the environments: what may go wrong beyond the chain itself

\* "status": refreshAttempts' getSignatureStatuses may throw
\* "store":  persisting a row may throw
\* "crash":  the process may die
\* "unrecorded": the caller does not persist signatures before the send
FaultKinds == {"status", "store", "crash", "unrecorded"}

ASSUME BoundsAssumption == MaxTx \in Nat /\ MaxCrashes \in Nat /\ MaxAttempts \in Nat
ASSUME RowsAssumption == Dust \subseteq Wallet /\ Bad \subseteq Wallet /\ Dust \cap Bad = {}
ASSUME FaultsAssumption == FaultSets \subseteq SUBSET FaultKinds

Tx   == 1 .. MaxTx
NoTx == 0

VARIABLES
  \* the stored rows: status, tx (the link that is published), attemptedTx
  ledger,
  \* the running call
  pc, attempt, remaining, outcome, results, last, unsaved,
  \* the chain
  chain, expired, carries, made,
  \* what may go wrong in this behaviour (chosen once), how often it died here
  faults, crashes

local == <<pc, attempt, remaining, outcome, results, last, unsaved>>
world == <<chain, expired, carries, made>>
vars  == <<ledger, pc, attempt, remaining, outcome, results, last, unsaved,
           chain, expired, carries, made, faults, crashes>>

Status      == {"PENDING", "DONE", "FAILED", "UNRESOLVED", "SKIPPED_DUST"}
Outcomes    == {"none", "unknown", "expired", "dead", "confirmed"}
ChainStates == {"none", "signed", "pending", "processed", "confirmed", "erred"}
PCs         == {"idle", "prior", "priorSave", "mint", "loop", "refresh", "sign", "record",
                "send", "confirm", "deadline", "final", "save"}

NoResult == [status |-> "none", tx |-> NoTx]

\* The transactions that have paid w, or still can.
Confirmed(w) == {t \in Tx : chain[t] = "confirmed" /\ w \in carries[t]}
CanPay(t) ==
  \/ chain[t] \in {"processed", "confirmed"}
  \/ chain[t] = "pending" /\ t \notin expired

TypeOK ==
  /\ ledger \in [Wallet -> [status : Status, tx : Tx \cup {NoTx}, attempted : Tx \cup {NoTx}]]
  /\ pc \in PCs
  /\ attempt \in Nat
  /\ remaining \subseteq Wallet /\ unsaved \subseteq Wallet
  /\ outcome \in [Tx -> Outcomes]
  /\ results \in [Wallet -> [status : Status \cup {"none"}, tx : Tx \cup {NoTx}]]
  /\ last \in Tx \cup {NoTx}
  /\ chain \in [Tx -> ChainStates]
  /\ expired \subseteq Tx
  /\ carries \in [Tx -> SUBSET Wallet]
  /\ made \in 0 .. MaxTx
  /\ faults \in FaultSets
  /\ crashes \in Nat

Init ==
  /\ ledger = [w \in Wallet |-> [status |-> "PENDING", tx |-> NoTx, attempted |-> NoTx]]
  /\ pc = "idle" /\ attempt = 1 /\ remaining = {} /\ unsaved = {} /\ last = NoTx
  /\ outcome = [t \in Tx |-> "none"]
  /\ results = [w \in Wallet |-> NoResult]
  /\ chain = [t \in Tx |-> "none"] /\ expired = {} /\ made = 0
  /\ carries = [t \in Tx |-> {}]
  /\ faults \in FaultSets /\ crashes = 0

-----------------------------------------------------------------------------
(* The caller.                                                             *)

\* Does the caller pass onAttempt, and attemptedTx back?
Recording == "unrecorded" \notin faults

Open == {w \in Wallet : ledger[w].status = "PENDING"}

\* priorSignatures: the rows an earlier run may have paid.
Prior(rows) == {w \in rows : ledger[w].attempted # NoTx}

\* Mutant: a retry reopens what nobody could resolve, too.
ReopenUnresolved ==
  /\ pc = "idle"
  /\ \E w \in Wallet : ledger[w].status \in {"FAILED", "UNRESOLVED"}
  /\ ledger' = [w \in Wallet |->
       IF ledger[w].status \in {"FAILED", "UNRESOLVED"}
         THEN [ledger[w] EXCEPT !.status = "PENDING"] ELSE ledger[w]]
  /\ UNCHANGED <<local, world, faults, crashes>>

\* --retry: every FAILED row is stored PENDING again.
Reopen ==
  /\ pc = "idle"
  /\ \E w \in Wallet : ledger[w].status = "FAILED"
  /\ ledger' = [w \in Wallet |->
       IF ledger[w].status = "FAILED" THEN [ledger[w] EXCEPT !.status = "PENDING"] ELSE ledger[w]]
  /\ UNCHANGED <<local, world, faults, crashes>>

\* The PENDING rows are handed over.  Zero amounts and addresses that cannot be
\* paid are answered at once; rows with a signature are settled against it first.
Call ==
  /\ pc = "idle" /\ Open # {}
  /\ results' = [w \in Wallet |->
       IF w \notin Open THEN NoResult
       ELSE [status |-> IF w \in Dust THEN "SKIPPED_DUST"
                        ELSE IF w \in Bad THEN "FAILED" ELSE "PENDING",
             tx |-> NoTx]]
  /\ attempt' = 1 /\ last' = NoTx
  /\ LET rows == Open \ (Dust \cup Bad) IN
       /\ remaining' = rows
       /\ unsaved' = IF rows = {} THEN Open ELSE {}
       /\ pc' = IF rows = {} THEN "save" ELSE IF Prior(rows) # {} THEN "prior" ELSE "mint"
       /\ outcome' = [t \in Tx |->
            IF \E w \in Prior(rows) : ledger[w].attempted = t THEN "unknown" ELSE "none"]
  /\ UNCHANGED <<ledger, world, faults, crashes>>

-----------------------------------------------------------------------------
(* What the cluster says, and what it proves about a row.                  *)

\* One open attempt, looked up with its full history.
Refreshed(t) ==
  CASE outcome[t] \in {"none", "confirmed", "dead"} -> outcome[t]
    [] outcome[t] \in {"unknown", "expired"} ->
         CASE chain[t] = "erred"     -> "dead"
           [] chain[t] = "confirmed" -> "confirmed"
           [] chain[t] = "processed" -> outcome[t]
           [] OTHER                  -> IF outcome[t] = "expired" THEN "dead" ELSE "unknown"

\* refreshAttempts: a look-up that throws is evidence of nothing.
Refreshes ==
  {[t \in Tx |-> Refreshed(t)]} \cup (IF "status" \in faults THEN {outcome} ELSE {})

\* The attempts that carried w: those its row names, or those of this batch.
AttemptsOf(w) ==
  IF pc = "prior" THEN {ledger[w].attempted} \cap Tx
                  ELSE {t \in Tx : outcome[t] # "none" /\ w \in carries[t]}

\* classifyRow
Confirming(w, out) == {t \in AttemptsOf(w) : out[t] = "confirmed"}
Verdict(w, out) ==
  CASE Confirming(w, out) # {}                                  -> "DONE"
    [] Confirming(w, out) = {}
       /\ \E t \in AttemptsOf(w) : out[t] # "dead"              -> "UNRESOLVED"
    [] OTHER                                                    -> "OPEN"

\* settle: the rows whose fate the attempts prove get their answer, the others
\* stay open.
Settled(rows, out) ==
  [w \in Wallet |->
     IF w \notin rows \/ Verdict(w, out) = "OPEN" THEN results[w]
     ELSE [status |-> Verdict(w, out),
           tx     |-> IF Verdict(w, out) = "DONE" THEN CHOOSE t \in Confirming(w, out) : TRUE ELSE NoTx]]
StillOpen(rows, out) == {w \in rows : Verdict(w, out) = "OPEN"}

Called == {w \in Wallet : results[w].status # "none"}

\* Rows of an earlier run are settled against their own signatures; those
\* resolved are reported first (onBatch).
SettlePrior ==
  /\ pc = "prior"
  /\ \E out \in Refreshes :
       /\ results' = Settled(Prior(remaining), out)
       /\ remaining' = (remaining \ Prior(remaining)) \cup StillOpen(Prior(remaining), out)
  /\ unsaved' = remaining \ remaining'
  /\ pc' = IF unsaved' = {} THEN "mint" ELSE "priorSave"
  /\ outcome' = [t \in Tx |-> "none"]
  /\ UNCHANGED <<ledger, attempt, last, world, faults, crashes>>

\* The mint is read before the first batch.
CheckMint ==
  /\ pc = "mint"
  /\ pc' = "loop"
  /\ UNCHANGED <<ledger, attempt, remaining, outcome, results, last, unsaved, world, faults, crashes>>

\* Top of the batch loop: after the first attempt the truth is established first.
LoopTop ==
  /\ pc = "loop"
  /\ pc' = IF attempt > MaxAttempts \/ remaining = {} THEN "final"
           ELSE IF attempt > 1 THEN "refresh" ELSE "sign"
  /\ UNCHANGED <<ledger, attempt, remaining, outcome, results, last, unsaved, world, faults, crashes>>

Refresh ==
  /\ pc = "refresh"
  /\ \E out \in Refreshes :
       /\ outcome' = out
       /\ results' = Settled(remaining, out)
       /\ remaining' = StillOpen(remaining, out)
  /\ pc' = IF remaining' = {} THEN "final" ELSE "sign"
  /\ UNCHANGED <<ledger, attempt, last, unsaved, world, faults, crashes>>

NextAttempt == attempt' = attempt + 1 /\ pc' = "loop"

\* No blockhash, or the transaction cannot be built.
SignFails ==
  /\ pc = "sign"
  /\ NextAttempt
  /\ UNCHANGED <<ledger, remaining, outcome, results, last, unsaved, world, faults, crashes>>

\* One transaction for every row still open.
Sign ==
  /\ pc = "sign" /\ made < MaxTx
  /\ made' = made + 1
  /\ last' = made + 1
  /\ chain' = [chain EXCEPT ![made + 1] = "signed"]
  /\ carries' = [carries EXCEPT ![made + 1] = remaining]
  /\ pc' = "record"
  /\ UNCHANGED <<ledger, attempt, remaining, outcome, results, unsaved, expired, faults, crashes>>

\* onAttempt, when there is one: the rows name the signature before it is sent.
Record ==
  /\ pc = "record"
  /\ ledger' = [w \in Wallet |->
       IF Recording /\ w \in remaining THEN [ledger[w] EXCEPT !.attempted = last] ELSE ledger[w]]
  /\ outcome' = [outcome EXCEPT ![last] = "unknown"]
  /\ pc' = "send"
  /\ UNCHANGED <<attempt, remaining, results, last, unsaved, world, faults, crashes>>

\* A rejection cancels the send; some of the rows may name the signature by then.
RecordFails ==
  /\ pc = "record" /\ Recording /\ "store" \in faults
  /\ \E named \in (SUBSET remaining) \ {remaining} :
       ledger' = [w \in Wallet |->
         IF w \in named THEN [ledger[w] EXCEPT !.attempted = last] ELSE ledger[w]]
  /\ NextAttempt
  /\ UNCHANGED <<remaining, outcome, results, last, unsaved, world, faults, crashes>>

\* Whether or not the call says so, the cluster has the transaction ...
Send ==
  /\ pc = "send"
  /\ chain' = [chain EXCEPT ![last] = "pending"]
  /\ pc' = "confirm"
  /\ UNCHANGED <<ledger, attempt, remaining, outcome, results, last, unsaved,
                 expired, carries, made, faults, crashes>>

\* ... or it never got there; what was signed is confirmed all the same.
SendFails ==
  /\ pc = "send"
  /\ pc' = "confirm"
  /\ UNCHANGED <<ledger, attempt, remaining, outcome, results, last, unsaved, world, faults, crashes>>

\* confirmSignature: the status ...
PollStatus ==
  /\ pc = "confirm"
  /\ \/ /\ chain[last] = "confirmed"
        /\ outcome' = [outcome EXCEPT ![last] = "confirmed"]
        /\ results' = Settled(remaining, outcome')
        /\ remaining' = StillOpen(remaining, outcome')
        /\ pc' = "final" /\ UNCHANGED attempt
     \/ /\ chain[last] = "erred"
        /\ outcome' = [outcome EXCEPT ![last] = "dead"]
        /\ NextAttempt /\ UNCHANGED <<results, remaining>>
     \/ /\ chain[last] \notin {"confirmed", "erred"}
        /\ pc' = "deadline" /\ UNCHANGED <<attempt, outcome, results, remaining>>
  /\ UNCHANGED <<ledger, last, unsaved, world, faults, crashes>>

\* Mutant: confirmSignature has no deadline.
NoDeadline == pc = "deadline" /\ FALSE /\ UNCHANGED vars

\* ... then the deadline (or a poll that throws) ...
ConfirmGivesUp ==
  /\ pc = "deadline"
  /\ NextAttempt
  /\ UNCHANGED <<ledger, remaining, outcome, results, last, unsaved, world, faults, crashes>>

\* Mutant: an expired transaction is dead without asking the history.
ExpiredIsDead ==
  /\ pc = "deadline"
  /\ IF last \in expired
       THEN outcome' = [outcome EXCEPT ![last] = "dead"] /\ NextAttempt
       ELSE pc' = "confirm" /\ UNCHANGED <<attempt, outcome>>
  /\ UNCHANGED <<ledger, remaining, results, last, unsaved, world, faults, crashes>>

\* ... then the block height.  Expired is not dead: the history is asked first.
CheckHeight ==
  /\ pc = "deadline"
  /\ IF last \in expired
       THEN outcome' = [outcome EXCEPT ![last] = "expired"] /\ NextAttempt
       ELSE pc' = "confirm" /\ UNCHANGED <<attempt, outcome>>
  /\ UNCHANGED <<ledger, remaining, results, last, unsaved, world, faults, crashes>>

\* The last reconciliation; what is still open then has FAILED.
Final ==
  /\ pc = "final"
  /\ \E out \in (IF remaining = {} THEN {outcome} ELSE Refreshes) :
       /\ outcome' = out
       /\ results' = [w \in Wallet |->
            IF w \in StillOpen(remaining, out) THEN [status |-> "FAILED", tx |-> NoTx]
            ELSE Settled(remaining, out)[w]]
  /\ remaining' = {}
  /\ unsaved' = Called
  /\ pc' = "save"
  /\ UNCHANGED <<ledger, attempt, last, world, faults, crashes>>

-----------------------------------------------------------------------------
(* onBatch: the caller stores the answers, one row after the other.        *)

\* markTransfer, with mergeTransfer's rule: DONE is never taken back.
Marked(w) ==
  IF ledger[w].status = "DONE" THEN ledger[w]
  ELSE [ledger[w] EXCEPT !.status = results[w].status, !.tx = results[w].tx]

SaveRow(w) ==
  /\ pc \in {"priorSave", "save"} /\ w \in unsaved
  /\ ledger' = [ledger EXCEPT ![w] = Marked(w)]
  /\ unsaved' = unsaved \ {w}
  /\ UNCHANGED <<pc, attempt, remaining, outcome, results, last, world, faults, crashes>>

\* The rows resolved from an earlier run are stored: on with the rest.
PriorSaved ==
  /\ pc = "priorSave" /\ unsaved = {}
  /\ IF remaining = {} THEN pc' = "save" /\ unsaved' = Called
                       ELSE pc' = "mint" /\ UNCHANGED unsaved
  /\ UNCHANGED <<ledger, attempt, remaining, outcome, results, last, world, faults, crashes>>

\* The call is over and its local state is gone.
Leave ==
  /\ pc' = "idle" /\ attempt' = 1 /\ remaining' = {} /\ unsaved' = {} /\ last' = NoTx
  /\ outcome' = [t \in Tx |-> "none"]
  /\ results' = [w \in Wallet |-> NoResult]

Return ==
  /\ pc = "save" /\ unsaved = {}
  /\ Leave
  /\ UNCHANGED <<ledger, world, faults, crashes>>

\* The mint is not transferable any more, or a save throws: the call is over
\* and the round stops (FAILED); a retry calls again.
CallThrows ==
  /\ pc = "mint" \/ (pc \in {"priorSave", "save"} /\ "store" \in faults)
  /\ Leave
  /\ UNCHANGED <<ledger, world, faults, crashes>>

Crash ==
  /\ "crash" \in faults
  /\ pc # "idle" /\ crashes < MaxCrashes
  /\ crashes' = crashes + 1
  /\ Leave
  /\ UNCHANGED <<ledger, world, faults>>

-----------------------------------------------------------------------------
(* The cluster.                                                            *)

Process(t) ==
  /\ chain[t] = "pending" /\ t \notin expired
  /\ \E fate \in {"processed", "erred"} : chain' = [chain EXCEPT ![t] = fate]
  /\ UNCHANGED <<ledger, local, expired, carries, made, faults, crashes>>

Confirm(t) ==
  /\ chain[t] = "processed"
  /\ chain' = [chain EXCEPT ![t] = "confirmed"]
  /\ UNCHANGED <<ledger, local, expired, carries, made, faults, crashes>>

ForkOut(t) ==
  /\ chain[t] = "processed"
  /\ chain' = [chain EXCEPT ![t] = "pending"]
  /\ UNCHANGED <<ledger, local, expired, carries, made, faults, crashes>>

\* The confirmed chain passes the transaction's lastValidBlockHeight.
Expire(t) ==
  /\ chain[t] \notin {"none", "processed"} /\ t \notin expired
  /\ expired' = expired \cup {t}
  /\ UNCHANGED <<ledger, local, chain, carries, made, faults, crashes>>

Cluster == \E t \in Tx : Process(t) \/ Confirm(t) \/ ForkOut(t) \/ Expire(t)

-----------------------------------------------------------------------------
Running ==
  \/ SettlePrior \/ CheckMint \/ LoopTop \/ Refresh \/ SignFails \/ Sign
  \/ Record \/ RecordFails \/ Send \/ SendFails
  \/ PollStatus \/ ConfirmGivesUp \/ CheckHeight \/ Final
  \/ (\E w \in Wallet : SaveRow(w)) \/ PriorSaved \/ Return \/ CallThrows

Next == Reopen \/ Call \/ Running \/ Crash \/ Cluster

Spec == Init /\ [][Next]_vars

\* The process runs, a round that stopped is resumed or retried, a mint is not
\* refused for ever, and a confirmation's deadline is a clock.  Nothing is
\* assumed of the cluster.
Fairness == WF_vars(Running) /\ WF_vars(Call) /\ SF_vars(ConfirmGivesUp) /\ SF_vars(CheckMint)

FairSpec == Spec /\ Fairness

-----------------------------------------------------------------------------
(* Properties.                                                             *)

\* "A holder must never be paid twice": however the process dies and whatever
\* is retried, one row's tokens leave the vault at most once.
PaidOnce == \A w \in Wallet : \A t, u \in Confirmed(w) : t = u

\* The row of w as the abstract specification sees it.
Answer(w) ==
  CASE ledger[w].status = "PENDING"                   -> "open"
    [] ledger[w].status = "DONE"                      -> "done"
    [] ledger[w].status \in {"FAILED", "SKIPPED_DUST"} -> "kept"
    [] ledger[w].status = "UNRESOLVED"                -> "unresolved"

Payment(w) == INSTANCE SpendOnce WITH spent <- Confirmed(w), answer <- Answer(w)

\* Every row keeps the promise of SpendOnce: \A w \in Wallet : Payment(w)!Spec,
\* in the form TLC checks.
RowsKeepThePromise ==
  /\ \A w \in Wallet : Payment(w)!Init
  /\ [][\A w \in Wallet : [Payment(w)!Next]_(Payment(w)!vars)]_vars

\* No row stays PENDING for ever, while the store takes what it is given.
RowsSettle ==
  \A w \in Wallet : ledger[w].status = "PENDING" /\ "store" \notin faults ~> ledger[w].status # "PENDING"

-----------------------------------------------------------------------------
(* The inductive invariant behind PaidOnce and RowsKeepThePromise.         *)

\* The header's contract with the caller: it records every signature before the
\* send, or the process neither dies nor fails to save what the call answers.
Contract == \A f \in FaultSets : "unrecorded" \in f => f \cap {"crash", "store"} = {}

Payers(w) == {t \in Tx : CanPay(t) /\ w \in carries[t]}

\* What the call knows of its transactions is true of the chain.
KnowledgeInv ==
  /\ \A t \in Tx :
       /\ t > made => chain[t] = "none" /\ carries[t] = {}
       /\ outcome[t] = "confirmed" => chain[t] = "confirmed"
       /\ outcome[t] = "expired" => t \in expired
       /\ outcome[t] = "dead" => ~CanPay(t)
       /\ carries[t] \cap (Dust \cup Bad) = {}
  /\ "unrecorded" \in faults => faults \cap {"crash", "store"} = {}

\* What each point of the call relies on.
ControlInv ==
  /\ pc \in {"prior", "priorSave", "mint"} => attempt = 1
  /\ attempt > 0
  /\ pc = "priorSave" \/ pc = "mint" \/ (pc = "loop" /\ attempt = 1) => \A t \in Tx : outcome[t] = "none"
  /\ pc \in {"prior", "priorSave"} => Recording
  /\ pc = "prior" => \A w \in Prior(remaining) : outcome[ledger[w].attempted] # "none"
  \* the rows still open: whatever can pay them is an attempt of this call ...
  /\ pc # "prior" => \A w \in remaining : \A t \in Payers(w) : outcome[t] # "none"
  \* ... and nothing can when the next one is made
  /\ pc \in {"priorSave", "mint", "sign", "record", "send"} => \A w \in remaining : Payers(w) = {}
  /\ pc \in {"record", "send", "confirm", "deadline"} => last \in Tx /\ last <= made
  /\ pc \in {"send", "confirm", "deadline"} => outcome[last] = "unknown"
  /\ pc \in {"record", "send"} => chain[last] = "signed" /\ carries[last] = remaining
  /\ pc = "send" /\ Recording => \A w \in remaining : ledger[w].attempted = last

\* The answers of the call are true, and every row of it has one or is open.
AnswersInv ==
  /\ remaining \cap (Dust \cup Bad) = {}
  /\ \A w \in Wallet :
       /\ w \in remaining <=> results[w].status = "PENDING"
       /\ results[w].status \in {"FAILED", "SKIPPED_DUST"} => Payers(w) = {}
       /\ results[w].status = "DONE" => Confirmed(w) # {}
       /\ w \in unsaved => w \in Called \ remaining
       /\ w \in Called => ledger[w].status \in {"PENDING", results[w].status}
  /\ pc = "idle" => Called = {}
  /\ pc = "save" => remaining = {}
  /\ pc # "idle" => \A w \in Open : w \in Called /\ (pc = "save" => w \in unsaved)

\* The stored rows are true; whoever records can name what may still pay.
LedgerInv ==
  \A w \in Wallet :
    /\ \A t, u \in Payers(w) : t = u
    /\ ledger[w].status \in {"FAILED", "SKIPPED_DUST"} => Payers(w) = {}
    /\ ledger[w].status = "DONE" => Confirmed(w) # {}
    /\ Recording => \A t \in Payers(w) : ledger[w].attempted = t
    /\ ledger[w].attempted # NoTx => Recording /\ w \in carries[ledger[w].attempted]
    /\ ~Recording /\ pc \in {"idle", "mint"} /\ w \in Open => Payers(w) = {}

IInv == TypeOK /\ KnowledgeInv /\ ControlInv /\ AnswersInv /\ LedgerInv
=============================================================================
