------------------------------ MODULE SwapRow -------------------------------
(***************************************************************************)
(* One LIVE swap row of a round: server/src/keeper/runner.js swapOne and   *)
(* reconcileSwap, the part of the SWAPPING step that drives them, the poll *)
(* loop of chain/rpc.js confirmSignature, the ledger row they persist and  *)
(* the chain the transactions land (or do not land) on.                    *)
(*                                                                         *)
(* A transaction is a number, in the order the vault signs them.  A token  *)
(* balance is the SET of fills it contains, so "the balance rose since     *)
(* beforeRaw" is "it contains a fill that beforeRaw did not".              *)
(***************************************************************************)
EXTENDS Naturals, FiniteSets

CONSTANTS
  MaxTx,       \* bound: transactions ever signed for this row
  MaxCrashes,  \* bound: times the process dies in the middle of the row
  Attempts,    \* the code's `attempts` (3)
  FaultSets,   \* the environments: which calls may go wrong beyond the chain itself
  NoReading    \* beforeRaw === null

\* "status":  reconcileSwap's getSignatureStatuses may throw
\* "balance": a balance read may throw
\* "lag":     a balance read may be answered by a node that lags
\* "store":   persisting the row may throw (with or without having written it)
FaultKinds == {"status", "balance", "lag", "store"}

ASSUME BoundsAssumption == MaxTx \in Nat /\ MaxCrashes \in Nat /\ Attempts \in Nat
ASSUME FaultsAssumption == FaultSets \subseteq SUBSET FaultKinds
ASSUME NoReadingAssumption == \A fills \in SUBSET (1 .. MaxTx) : fills # NoReading

Tx       == 1 .. MaxTx
NoTx     == 0
Readings == {NoReading} \cup SUBSET Tx

VARIABLES
  \* the ledger row, as it is in the store
  row,
  \* the running call of swapOne
  pc, attempt, before, verdict, last, result,
  \* the chain and the vault's signer
  chain, expired, made,
  \* what may go wrong in this behaviour (chosen once), how often it died here
  faults, crashes

local == <<pc, attempt, before, verdict, last, result>>
world == <<chain, expired, made>>
vars  == <<row, pc, attempt, before, verdict, last, result,
            chain, expired, made, faults, crashes>>

RowStatus   == {"PENDING", "SENDING", "DONE", "FAILED", "UNRESOLVED"}
\* Mutant: UNRESOLVED rows are taken up like FAILED ones.
UnresolvedIsTouched == {"DONE"}
Untouchable == {"DONE", "UNRESOLVED"}
Verdicts    == {"none", "unknown", "dead", "landed"}
ChainStates == {"none", "signed", "pending", "processed", "confirmed", "erred"}
PCs         == {"idle", "loop", "status", "balance", "before", "build", "intent",
                "send", "confirm", "deadline", "measure", "save"}

Row(status, tx, reading, received) ==
  [status |-> status, tx |-> tx, before |-> reading, received |-> received]

Sent      == {t \in Tx : verdict[t] # "none"}     \* the local array `sent`
Landed    == {t \in Sent : verdict[t] = "landed"}
Confirmed == {t \in Tx : chain[t] = "confirmed"}

\* A transaction that has moved the SOL, or still can.
CanSpend(t) ==
  \/ chain[t] \in {"processed", "confirmed"}
  \/ chain[t] = "pending" /\ t \notin expired

TypeOK ==
  /\ row \in [status : RowStatus, tx : Tx \cup {NoTx}, before : Readings, received : SUBSET Tx]
  /\ pc \in PCs
  /\ attempt \in Nat
  /\ before \in Readings
  /\ verdict \in [Tx -> Verdicts]
  /\ last \in Tx \cup {NoTx}
  /\ result \in [status : RowStatus, tx : Tx \cup {NoTx}, before : Readings, received : SUBSET Tx]
  /\ chain \in [Tx -> ChainStates]
  /\ expired \subseteq Tx
  /\ made \in 0 .. MaxTx
  /\ faults \in FaultSets
  /\ crashes \in Nat

Fresh == Row("PENDING", NoTx, NoReading, {})

Init ==
  /\ row = Fresh
  /\ pc = "idle" /\ attempt = 1 /\ before = NoReading
  /\ verdict = [t \in Tx |-> "none"] /\ last = NoTx /\ result = Fresh
  /\ chain = [t \in Tx |-> "none"] /\ expired = {} /\ made = 0
  /\ faults \in FaultSets /\ crashes = 0

-----------------------------------------------------------------------------
(* The SWAPPING loop hands the row to swapOne, or leaves it alone.         *)

\* Mutant: a resumed row measures against a reading taken on resume.
TakeRowRereading(retry) ==
  /\ pc = "idle"
  /\ row.status \notin Untouchable
  /\ row.status = "FAILED" => retry
  /\ pc' = "loop" /\ attempt' = 1
  /\ before' = IF row.status = "SENDING" THEN Confirmed ELSE NoReading
  /\ last' = IF row.status = "SENDING" THEN row.tx ELSE NoTx
  /\ verdict' = [t \in Tx |-> IF t = last' THEN "unknown" ELSE "none"]
  /\ UNCHANGED <<row, result, world, faults, crashes>>

\* Mutant: a resumed row starts from scratch, its signature forgotten.
TakeRowBlind(retry) ==
  /\ pc = "idle"
  /\ row.status \notin Untouchable
  /\ row.status = "FAILED" => retry
  /\ pc' = "loop" /\ attempt' = 1
  /\ before' = NoReading /\ last' = NoTx /\ verdict' = [t \in Tx |-> "none"]
  /\ UNCHANGED <<row, result, world, faults, crashes>>

\* A SENDING row brings its signature and its reading along (`prior`); a FAILED
\* one is taken up again only by an operator's --retry, and starts clean.
TakeRow(retry) ==
  /\ pc = "idle"
  /\ row.status \notin Untouchable
  /\ row.status = "FAILED" => retry
  /\ pc' = "loop" /\ attempt' = 1
  /\ IF row.status = "SENDING"
       THEN /\ before' = row.before
            /\ last' = row.tx
            /\ verdict' = [t \in Tx |-> IF t = row.tx THEN "unknown" ELSE "none"]
       ELSE /\ before' = NoReading
            /\ last' = NoTx
            /\ verdict' = [t \in Tx |-> "none"]
  /\ UNCHANGED <<row, result, world, faults, crashes>>

\* What swapOne returns; the loop then persists it.
Finish(status, tx, received) ==
  /\ result' = Row(status, tx, before, received)
  /\ pc' = "save"

\* An exception anywhere in an attempt is caught and the loop goes round.
NextAttempt ==
  /\ attempt' = attempt + 1
  /\ pc' = "loop"

\* Top of the for loop: anything ever sent is reconciled before a new attempt.
LoopTop ==
  /\ pc = "loop" /\ attempt =< Attempts
  /\ pc' = IF Sent # {} THEN "status" ELSE "before"
  /\ UNCHANGED <<row, attempt, before, verdict, last, result, world, faults, crashes>>

\* Out of attempts: what was sent is settled before this is called a no-op.
OutOfAttempts ==
  /\ pc = "loop" /\ attempt > Attempts
  /\ IF Sent # {} THEN pc' = "status" /\ UNCHANGED result ELSE Finish("FAILED", NoTx, {})
  /\ UNCHANGED <<row, attempt, before, verdict, last, world, faults, crashes>>

-----------------------------------------------------------------------------
(* reconcileSwap: two reads, then a verdict.                               *)

\* What the cluster says of a signature, full history searched.
StatusVerdict(t) ==
  CASE chain[t] = "erred"     -> "dead"
    [] chain[t] = "confirmed" -> "landed"
    [] chain[t] = "processed" -> "unknown"
    [] OTHER                  -> verdict[t]

\* Skipped when a signature is already known to have landed; a read that throws
\* leaves the verdicts as they were.
ReconcileStatus ==
  /\ pc = "status"
  /\ \/ Landed = {} /\ verdict' = [t \in Tx |-> IF t \in Sent THEN StatusVerdict(t) ELSE "none"]
     \/ (Landed # {} \/ "status" \in faults) /\ UNCHANGED verdict
  /\ pc' = "balance"
  /\ UNCHANGED <<row, attempt, before, last, result, world, faults, crashes>>

\* The fills a balance read may show.
BalanceReads == IF "lag" \in faults THEN SUBSET Confirmed ELSE {Confirmed}

\* measureReceived: what came in since `before`; NoReading when it threw.
Measured ==
  (IF before = NoReading THEN {} ELSE {seen \ before : seen \in BalanceReads})
    \cup (IF before = NoReading \/ "balance" \in faults THEN {NoReading} ELSE {})

\* `landed ?? sent[sent.length - 1]`
Adopted == IF Landed = {} THEN last ELSE CHOOSE t \in Landed : TRUE

AllDead == \A t \in Sent : verdict[t] = "dead"

\* The vault's balance is read, or cannot be, and the two reads give a verdict:
\* landed (adopt it), dead (a fresh attempt is safe), or unknown (a person's).
ReconcileBalance ==
  /\ pc = "balance"
  /\ \E received \in Measured :
       LET landed == received # NoReading /\ (Landed # {} \/ received # {}) IN
       \/ landed /\ Finish("DONE", Adopted, received)
       \/ ~landed /\ ~AllDead /\ Finish("UNRESOLVED", last, {})
       \/ ~landed /\ AllDead /\ attempt =< Attempts /\ pc' = "before" /\ UNCHANGED result
       \/ ~landed /\ AllDead /\ attempt > Attempts /\ Finish("FAILED", NoTx, {})
  /\ UNCHANGED <<row, attempt, before, verdict, last, world, faults, crashes>>

-----------------------------------------------------------------------------
(* One attempt: quote, read the balance, build, sign, persist, send,       *)
(* confirm, measure.                                                       *)

\* A quote was had; the balance before attempt ONE is read once.
ReadBefore ==
  /\ pc = "before"
  /\ pc' = "build"
  /\ IF before = NoReading THEN before' \in BalanceReads ELSE UNCHANGED before
  /\ UNCHANGED <<row, attempt, verdict, last, result, world, faults, crashes>>

\* No quote, no balance, no transaction, or its simulation failed.
AttemptFails ==
  /\ pc \in {"before", "build"}
  /\ NextAttempt
  /\ UNCHANGED <<row, before, verdict, last, result, world, faults, crashes>>

\* The signature exists from here on, and `sent` has it.
BuildAndSign ==
  /\ pc = "build"
  /\ made < MaxTx
  /\ made' = made + 1
  /\ chain' = [chain EXCEPT ![made + 1] = "signed"]
  /\ verdict' = [verdict EXCEPT ![made + 1] = "unknown"]
  /\ last' = made + 1
  /\ pc' = "intent"
  /\ UNCHANGED <<row, attempt, before, result, expired, faults, crashes>>

Intent == [row EXCEPT !.status = "SENDING", !.tx = last, !.before = before]

\* Mutant: the intent reaches the store only with the result.
PersistIntentLater ==
  /\ pc = "intent"
  /\ pc' = "send"
  /\ UNCHANGED <<row, attempt, before, verdict, last, result, world, faults, crashes>>

\* onIntent: the row says SENDING, with the signature and the reading, before
\* the cluster sees anything.
PersistIntent ==
  /\ pc = "intent"
  /\ row' = Intent
  /\ pc' = "send"
  /\ UNCHANGED <<attempt, before, verdict, last, result, world, faults, crashes>>

IntentFails ==
  /\ pc = "intent" /\ "store" \in faults
  /\ row' \in {row, Intent}
  /\ NextAttempt
  /\ UNCHANGED <<before, verdict, last, result, world, faults, crashes>>

\* The cluster has the transaction, whether or not the call says so.
Send ==
  /\ pc = "send"
  /\ chain' = [chain EXCEPT ![last] = "pending"]
  /\ \/ pc' = "confirm" /\ UNCHANGED attempt
     \/ NextAttempt
  /\ UNCHANGED <<row, before, verdict, last, result, expired, made, faults, crashes>>

\* The preflight rejected it, or it never got there.
SendFails ==
  /\ pc = "send"
  /\ NextAttempt
  /\ UNCHANGED <<row, before, verdict, last, result, world, faults, crashes>>

\* confirmSignature polls: the status is read first ...
PollStatus ==
  /\ pc = "confirm"
  /\ \/ /\ chain[last] = "confirmed"
        /\ verdict' = [verdict EXCEPT ![last] = "landed"]
        /\ pc' = "measure" /\ UNCHANGED attempt
     \/ /\ chain[last] = "erred"
        /\ verdict' = [verdict EXCEPT ![last] = "dead"]
        /\ NextAttempt
     \/ /\ chain[last] \notin {"confirmed", "erred"}
        /\ pc' = "deadline" /\ UNCHANGED <<attempt, verdict>>
  /\ UNCHANGED <<row, before, last, result, world, faults, crashes>>

\* Mutant: confirmSignature has no deadline.
NoDeadline == pc = "deadline" /\ FALSE /\ UNCHANGED vars

\* ... the deadline passes (or a poll throws): nothing is known ...
ConfirmGivesUp ==
  /\ pc = "deadline"
  /\ NextAttempt
  /\ UNCHANGED <<row, before, verdict, last, result, world, faults, crashes>>

\* Mutant: the confirmation's own word is stored as the verdict.
CheckHeightVerbatim ==
  /\ pc = "deadline"
  /\ IF last \in expired
       THEN verdict' = [verdict EXCEPT ![last] = "expired"] /\ NextAttempt
       ELSE pc' = "confirm" /\ UNCHANGED <<attempt, verdict>>
  /\ UNCHANGED <<row, before, last, result, world, faults, crashes>>

\* ... or the block height is read, after the status and not with it.
CheckHeight ==
  /\ pc = "deadline"
  /\ IF last \in expired
       THEN verdict' = [verdict EXCEPT ![last] = "dead"] /\ NextAttempt
       ELSE pc' = "confirm" /\ UNCHANGED <<attempt, verdict>>
  /\ UNCHANGED <<row, before, last, result, world, faults, crashes>>

\* Confirmed: the fill is what the balance says it is.
Measure ==
  /\ pc = "measure"
  /\ \E received \in Measured :
       IF received = NoReading
         THEN NextAttempt /\ UNCHANGED result
         ELSE Finish("DONE", last, received) /\ UNCHANGED attempt
  /\ UNCHANGED <<row, before, verdict, last, world, faults, crashes>>

\* The call is over and its local state is gone.
Leave ==
  /\ pc' = "idle" /\ attempt' = 1 /\ before' = NoReading
  /\ verdict' = [t \in Tx |-> "none"] /\ last' = NoTx /\ result' = Fresh

\* The loop persists what swapOne returned.
SaveResult ==
  /\ pc = "save"
  /\ row' = result
  /\ Leave
  /\ UNCHANGED <<world, faults, crashes>>

\* The save throws and the round stops (FAILED); the row stays as it was.
SaveFails ==
  /\ pc = "save" /\ "store" \in faults
  /\ Leave
  /\ UNCHANGED <<row, world, faults, crashes>>

\* The process dies: the store and the chain are what is left.
Crash ==
  /\ pc # "idle" /\ crashes < MaxCrashes
  /\ crashes' = crashes + 1
  /\ Leave
  /\ UNCHANGED <<row, world, faults>>

-----------------------------------------------------------------------------
(* The cluster.                                                            *)

Process(t) ==
  /\ chain[t] = "pending" /\ t \notin expired
  /\ \E outcome \in {"processed", "erred"} : chain' = [chain EXCEPT ![t] = outcome]
  /\ UNCHANGED <<row, local, expired, made, faults, crashes>>

Confirm(t) ==
  /\ chain[t] = "processed"
  /\ chain' = [chain EXCEPT ![t] = "confirmed"]
  /\ UNCHANGED <<row, local, expired, made, faults, crashes>>

ForkOut(t) ==
  /\ chain[t] = "processed"
  /\ chain' = [chain EXCEPT ![t] = "pending"]
  /\ UNCHANGED <<row, local, expired, made, faults, crashes>>

\* The confirmed chain passes lastValidBlockHeight of t.  (Heights are read at
\* the commitment "confirmed": what is processed on that fork is confirmed first.)
Expire(t) ==
  /\ chain[t] \notin {"none", "processed"} /\ t \notin expired
  /\ expired' = expired \cup {t}
  /\ UNCHANGED <<row, local, chain, made, faults, crashes>>

Cluster == \E t \in Tx : Process(t) \/ Confirm(t) \/ ForkOut(t) \/ Expire(t)

-----------------------------------------------------------------------------
Keeper ==
  \/ \E retry \in BOOLEAN : TakeRow(retry)
  \/ LoopTop \/ OutOfAttempts \/ ReconcileStatus \/ ReconcileBalance
  \/ ReadBefore \/ AttemptFails \/ BuildAndSign \/ PersistIntent \/ IntentFails
  \/ Send \/ SendFails \/ PollStatus \/ ConfirmGivesUp \/ CheckHeight \/ Measure
  \/ SaveResult \/ SaveFails

Next == Keeper \/ Crash \/ Cluster

Spec == Init /\ [][Next]_vars

\* The process runs, a boot or a tick resumes an unfinished round, and the
\* deadline of a confirmation is a clock: it passes however often the block
\* height is read before.  Nothing is assumed of the cluster or the operator.
Fairness ==
  /\ WF_vars(Keeper /\ pc # "idle")
  /\ WF_vars(TakeRow(FALSE))
  /\ SF_vars(ConfirmGivesUp)

FairSpec == Spec /\ Fairness

-----------------------------------------------------------------------------
(* Properties.                                                             *)

\* "The LIVE path never sends twice for one allocation" (swapOne): whatever the
\* crashes, resumes and retries, the SOL of one row leaves the vault once.
NeverSpentTwice == \A t, u \in Confirmed : t = u

\* Whatever has moved the SOL, or still can, is the very transaction the stored
\* row names, and the row is not one that calls the SOL unspent: a process that
\* dies at any point leaves the evidence behind (the intent record of onIntent).
SpendOnRecord ==
  \A t \in Tx : CanSpend(t) =>
    row.tx = t /\ row.status \in {"SENDING", "DONE", "UNRESOLVED"}

\* "a fill from any attempt is counted rather than stranded": a DONE row has
\* received exactly what the chain delivered for it, from whichever attempt, as
\* long as the node that reads the vault does not lag behind the confirmation.
DoneCountsTheFill == row.status = "DONE" /\ "lag" \notin faults => row.received = Confirmed

\* A transaction is handed to the cluster only when nothing sent before it has
\* moved the SOL or ever can.
SendIsSafe ==
  [][ \A t \in Tx : chain[t] = "signed" /\ chain'[t] = "pending" =>
        \A u \in Tx \ {t} : ~CanSpend(u) ]_vars

\* The inductive invariant behind the four (SwapRowProofs proves it so).

\* At most one of the two sources reconcileSwap consults is unreliable.
Trustworthy == \A F \in FaultSets : "status" \notin F \/ F \cap {"balance", "lag"} = {}

\* What a call knows of what it sent: whatever can still spend is the last
\* thing sent; "dead" and "landed" are true; the balance before attempt one
\* had no fill in it.
KnowledgeInv ==
  /\ \A t \in Tx : t > made => chain[t] = "none" /\ verdict[t] = "none"
  /\ \A t \in Tx : chain[t] = "processed" => t \notin expired
  /\ pc # "idle" => \A t \in Tx : CanSpend(t) => t = last /\ verdict[t] # "none"
  /\ \A t \in Tx : verdict[t] = "dead" =>
       chain[t] = "erred" \/ (t \in expired /\ chain[t] \in {"pending", "confirmed"})
  /\ \A t \in Tx : verdict[t] = "landed" => chain[t] = "confirmed"
  /\ before \in {NoReading, {}}
  /\ Sent # {} => before # NoReading

\* What each point of the call may rely on.
ControlInv ==
  /\ pc # "idle" => row.status \notin Untouchable
  /\ pc \in {"before", "build", "intent", "send"} => \A t \in Tx : ~CanSpend(t)
  /\ pc \in {"build", "intent", "send", "confirm", "deadline", "measure"} => before # NoReading
  /\ pc \in {"intent", "send"} => last \in Tx /\ verdict[last] # "none" /\ chain[last] = "signed"
  /\ pc \in {"send", "confirm", "deadline", "measure"} => row.status = "SENDING" /\ row.tx = last
  /\ pc \in {"confirm", "deadline"} =>
       last \in Tx /\ verdict[last] # "none" /\ chain[last] \in {"pending", "processed", "confirmed", "erred"}
  /\ pc = "measure" => last \in Tx /\ verdict[last] = "landed"
  /\ pc = "balance" /\ "status" \notin faults /\ Landed = {} =>
       \A t \in Tx : verdict[t] = "dead" => ~CanSpend(t)
  /\ pc = "save" =>
       /\ result.status \in {"DONE", "FAILED", "UNRESOLVED"}
       /\ result.status = "FAILED" => \A t \in Tx : ~CanSpend(t)
       /\ result.status # "FAILED" => result.tx = last
       /\ result.status = "DONE" => result.tx \in Tx /\ chain[result.tx] = "confirmed"

\* What the store says.
LedgerInv ==
  /\ SpendOnRecord
  /\ row.status = "SENDING" => row.tx \in Tx /\ row.tx =< made /\ row.before = {}
  /\ row.status = "DONE" => row.tx \in Tx /\ chain[row.tx] = "confirmed"

IInv == TypeOK /\ KnowledgeInv /\ ControlInv /\ LedgerInv

\* On top of it: what swapOne is about to answer counts the fill, too.
FillInv ==
  /\ DoneCountsTheFill
  /\ pc = "save" /\ result.status = "DONE" /\ "lag" \notin faults => result.received = Confirmed

\* The row as the abstract allocation sees it.
Answer ==
  CASE row.status \in {"PENDING", "SENDING"} -> "open"
    [] row.status = "DONE"                   -> "done"
    [] row.status = "FAILED"                 -> "kept"
    [] row.status = "UNRESOLVED"             -> "unresolved"

Allocation == INSTANCE SpendOnce WITH spent <- Confirmed, answer <- Answer

\* The row keeps the promise of SpendOnce: DONE only after the SOL went,
\* FAILED only when it stayed and nothing in flight can still take it.
KeepsThePromise == Allocation!Spec

\* A row that was taken up is settled, or its retry is, however the process
\* dies: no answer of the cluster (or lack of one) keeps it SENDING for ever, while
\* the store takes what it is given.
RowSettles == row.status \in {"PENDING", "SENDING"} /\ "store" \notin faults ~> row.status \in {"DONE", "FAILED", "UNRESOLVED"}

=============================================================================
