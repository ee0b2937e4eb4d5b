--------------------------- MODULE SwapRowProofs ----------------------------
(***************************************************************************)
(* TLAPS proofs about SwapRow, for every bound, every number of attempts   *)
(* and every set of faults that leaves reconcileSwap one source to trust.  *)
(***************************************************************************)
EXTENDS SwapRow, TLAPS

\* The next-state relation, action by action.
LEMMA NextCases ==
  ASSUME [Next]_vars
  PROVE  \/ \E retry \in BOOLEAN : TakeRow(retry)
         \/ LoopTop \/ OutOfAttempts \/ ReconcileStatus \/ ReconcileBalance
         \/ ReadBefore \/ AttemptFails \/ BuildAndSign \/ PersistIntent \/ IntentFails
         \/ Send \/ SendFails \/ PollStatus \/ ConfirmGivesUp \/ CheckHeight \/ Measure
         \/ SaveResult \/ SaveFails \/ Crash
         \/ \E t \in Tx : Process(t) \/ Confirm(t) \/ ForkOut(t) \/ Expire(t)
         \/ UNCHANGED vars
BY DEF Next, Keeper, Cluster

Rows == [status : RowStatus, tx : Tx \cup {NoTx}, before : Readings, received : SUBSET Tx]

\* What the helpers return: a measured fill, the adopted signature, the row
\* with the intent written into it.
LEMMA MeasuredType == ASSUME NEW received \in Measured, received # NoReading
                      PROVE  received \subseteq Tx
BY DEF Measured, BalanceReads, Confirmed

LEMMA AdoptedType == ASSUME TypeOK PROVE Adopted \in Tx \cup {NoTx}
BY DEF TypeOK, Adopted, Landed, Sent

LEMMA IntentType == ASSUME TypeOK PROVE Intent \in Rows
BY DEF TypeOK, Intent, Rows, RowStatus

\* Every variable keeps its type.
LEMMA TypeStep == TypeOK /\ [Next]_vars => TypeOK'
<1> SUFFICES ASSUME TypeOK, [Next]_vars PROVE TypeOK'
  OBVIOUS
<1> USE BoundsAssumption DEF TypeOK
<1>1. ASSUME NEW retry \in BOOLEAN, TakeRow(retry) PROVE TypeOK'
  BY <1>1 DEF Tx, NoTx, Readings, RowStatus, Verdicts, ChainStates, PCs, world, local, TakeRow
<1>2. CASE LoopTop
  BY <1>2 DEF Tx, NoTx, Readings, RowStatus, Verdicts, ChainStates, PCs, world, local, LoopTop
<1>3. CASE OutOfAttempts
  BY <1>3 DEF Tx, NoTx, Readings, RowStatus, Verdicts, ChainStates, PCs, world, local, OutOfAttempts, Finish, Row
<1>4. CASE ReconcileStatus
  BY <1>4 DEF Tx, NoTx, Readings, RowStatus, Verdicts, ChainStates, PCs, world, local, ReconcileStatus, StatusVerdict
<1>5. CASE ReconcileBalance
  <2>1. PICK received \in Measured :
            \/ Finish("DONE", Adopted, received) /\ received # NoReading
            \/ Finish("UNRESOLVED", last, {})
            \/ pc' = "before" /\ UNCHANGED result
            \/ Finish("FAILED", NoTx, {})
    BY <1>5 DEF ReconcileBalance
  <2>2. received # NoReading => received \subseteq Tx
    BY MeasuredType
  <2>3. result' \in Rows /\ pc' \in PCs
    BY <2>1, <2>2, AdoptedType DEF Finish, Row, Rows, RowStatus, PCs, NoTx
  <2>4. UNCHANGED <<row, attempt, before, verdict, last, chain, expired, made, faults, crashes>>
    BY <1>5 DEF ReconcileBalance, world
  <2> QED
    BY <2>3, <2>4 DEF Rows
<1>6. CASE ReadBefore
  BY <1>6 DEF Tx, NoTx, Readings, RowStatus, Verdicts, ChainStates, PCs, world, local, ReadBefore, BalanceReads, Confirmed
<1>7. CASE AttemptFails
  BY <1>7 DEF Tx, NoTx, Readings, RowStatus, Verdicts, ChainStates, PCs, world, local, AttemptFails, NextAttempt
<1>8. CASE BuildAndSign
  BY <1>8 DEF Tx, NoTx, Readings, RowStatus, Verdicts, ChainStates, PCs, world, local, BuildAndSign
<1>9. CASE PersistIntent
  BY <1>9, IntentType DEF PersistIntent, Rows, PCs, world
<1>10. CASE IntentFails
  <2>1. row' \in Rows
    BY <1>10, IntentType DEF IntentFails, Rows
  <2> QED
    BY <1>10, <2>1 DEF IntentFails, NextAttempt, Rows, PCs, world
<1>11. CASE Send
  <2>1. chain' \in [Tx -> ChainStates]
    BY <1>11 DEF Send, ChainStates
  <2>2. attempt' \in Nat /\ pc' \in PCs
    BY <1>11 DEF Send, NextAttempt, PCs
  <2> QED
    BY <1>11, <2>1, <2>2 DEF Send
<1>12. CASE SendFails
  BY <1>12 DEF Tx, NoTx, Readings, RowStatus, Verdicts, ChainStates, PCs, world, local, SendFails, NextAttempt
<1>13. CASE PollStatus
  BY <1>13 DEF Tx, NoTx, Readings, RowStatus, Verdicts, ChainStates, PCs, world, local, PollStatus, NextAttempt
<1>14. CASE ConfirmGivesUp
  BY <1>14 DEF Tx, NoTx, Readings, RowStatus, Verdicts, ChainStates, PCs, world, local, ConfirmGivesUp, NextAttempt
<1>15. CASE CheckHeight
  BY <1>15 DEF Tx, NoTx, Readings, RowStatus, Verdicts, ChainStates, PCs, world, local, CheckHeight, NextAttempt
<1>16. CASE Measure
  <2>1. PICK received \in Measured :
            \/ NextAttempt /\ UNCHANGED result
            \/ received # NoReading /\ Finish("DONE", last, received) /\ UNCHANGED attempt
    BY <1>16 DEF Measure
  <2>2. received # NoReading => received \subseteq Tx
    BY MeasuredType
  <2>3. result' \in Rows /\ pc' \in PCs /\ attempt' \in Nat
    BY <2>1, <2>2 DEF Finish, NextAttempt, Row, Rows, RowStatus, PCs
  <2> QED
    BY <1>16, <2>3 DEF Measure, Rows, world
<1>17. CASE SaveResult
  BY <1>17 DEF Tx, NoTx, Readings, RowStatus, Verdicts, ChainStates, PCs, world, local, SaveResult, Leave, Fresh, Row
<1>18. CASE SaveFails
  BY <1>18 DEF Tx, NoTx, Readings, RowStatus, Verdicts, ChainStates, PCs, world, local, SaveFails, Leave, Fresh, Row
<1>19. CASE Crash
  BY <1>19 DEF Tx, NoTx, Readings, RowStatus, Verdicts, ChainStates, PCs, world, local, Crash, Leave, Fresh, Row
<1>20. ASSUME NEW t \in Tx, Process(t) PROVE TypeOK'
  BY <1>20 DEF Tx, NoTx, Readings, RowStatus, Verdicts, ChainStates, PCs, world, local, Process
<1>21. ASSUME NEW t \in Tx, Confirm(t) PROVE TypeOK'
  BY <1>21 DEF Tx, NoTx, Readings, RowStatus, Verdicts, ChainStates, PCs, world, local, Confirm
<1>22. ASSUME NEW t \in Tx, ForkOut(t) PROVE TypeOK'
  BY <1>22 DEF Tx, NoTx, Readings, RowStatus, Verdicts, ChainStates, PCs, world, local, ForkOut
<1>23. ASSUME NEW t \in Tx, Expire(t) PROVE TypeOK'
  BY <1>23 DEF Tx, NoTx, Readings, RowStatus, Verdicts, ChainStates, PCs, world, local, Expire
<1>24. CASE UNCHANGED vars
  BY <1>24 DEF vars
<1>25. QED
  BY NextCases, <1>1, <1>2, <1>3, <1>4, <1>5, <1>6, <1>7, <1>8, <1>9, <1>10, <1>11, <1>12, <1>13, <1>14, <1>15, <1>16, <1>17, <1>18, <1>19, <1>20, <1>21, <1>22, <1>23, <1>24

\* The heart of the matter, in two lemmas: when reconcileSwap finds everything
\* dead, nothing can spend any more ...
LEMMA DeadIsDead ==
  ASSUME IInv, Trustworthy, pc = "balance", AllDead,
         NEW received \in Measured,
         ~(received # NoReading /\ (Landed # {} \/ received # {}))
  PROVE  \A t \in Tx : ~CanSpend(t)
<1> SUFFICES ASSUME NEW t \in Tx, CanSpend(t) PROVE FALSE
  OBVIOUS
<1>1. verdict[t] = "dead" /\ t \in Sent
  BY DEF IInv, KnowledgeInv, AllDead, Sent
<1>2. Landed = {}
  BY DEF AllDead, Landed
<1>3. CASE "status" \notin faults
  BY <1>1, <1>2, <1>3 DEF IInv, ControlInv
<1>4. CASE "balance" \notin faults /\ "lag" \notin faults
  <2>1. before = {}
    BY <1>1 DEF IInv, KnowledgeInv, Sent
  <2>2. Measured = {Confirmed \ before}
    BY <1>4, <2>1, NoReadingAssumption DEF Measured, BalanceReads, Tx
  <2>3. t \in Confirmed
    BY <1>1 DEF IInv, KnowledgeInv, CanSpend, Confirmed
  <2>4. received = Confirmed
    BY <2>1, <2>2
  <2>5. Confirmed # NoReading
    BY NoReadingAssumption DEF Confirmed, Tx
  <2> QED
    BY <2>3, <2>4, <2>5
<1> QED
  BY <1>3, <1>4 DEF Trustworthy, IInv, TypeOK

\* ... and when it adopts a transaction, that one is confirmed and the last.
LEMMA AdoptedLanded ==
  ASSUME IInv, pc = "balance", NEW received \in Measured,
         received # NoReading, Landed # {} \/ received # {}
  PROVE  Adopted = last /\ last \in Tx /\ chain[last] = "confirmed"
<1>1. \A t \in Confirmed : t = last
  BY DEF IInv, KnowledgeInv, CanSpend, Confirmed
<1>2. Landed \subseteq Confirmed
  BY DEF IInv, KnowledgeInv, Landed, Sent, Confirmed
<1>3. received \subseteq Confirmed
  BY DEF Measured, BalanceReads
<1>4. last \in Confirmed
  BY <1>1, <1>2, <1>3
<1>5. Adopted = last
  BY <1>1, <1>2 DEF Adopted
<1> QED
  BY <1>4, <1>5 DEF Confirmed

\* What a call believes stays true.
LEMMA KnowledgeStep ==
  ASSUME IInv, [Next]_vars, Trustworthy
  PROVE  KnowledgeInv'
<1> USE BoundsAssumption, NoReadingAssumption DEF IInv, TypeOK, KnowledgeInv, ControlInv, LedgerInv, SpendOnRecord, CanSpend, Tx, NoTx
<1>1. ASSUME NEW retry \in BOOLEAN, TakeRow(retry) PROVE KnowledgeInv'
  <2>1. UNCHANGED <<row, chain, expired, made>> /\ pc' = "loop" /\ pc = "idle"
    BY <1>1 DEF TakeRow, world
  <2>2. CASE row.status = "SENDING"
    <3>1. last' = row.tx /\ before' = {} /\ row.tx \in Tx /\ row.tx =< made
      BY <1>1, <2>2 DEF TakeRow
    <3>2. verdict' = [t \in Tx |-> IF t = row.tx THEN "unknown" ELSE "none"]
      BY <1>1, <2>2 DEF TakeRow
    <3>3. \A t \in Tx : verdict'[t] = IF t = row.tx THEN "unknown" ELSE "none"
      BY <3>2
    <3> QED
      BY <2>1, <3>1, <3>3 DEF Sent
  <2>3. CASE row.status # "SENDING"
    <3>1. before' = NoReading /\ \A t \in Tx : verdict'[t] = "none"
      BY <1>1, <2>3 DEF TakeRow
    <3>2. \A t \in Tx : ~CanSpend(t)
      BY <1>1, <2>3 DEF TakeRow, Untouchable
    <3> QED
      BY <2>1, <3>1, <3>2 DEF Sent
  <2> QED
    BY <2>2, <2>3
<1>2. CASE LoopTop
  BY <1>2 DEF LoopTop, Sent, world, local
<1>3. CASE OutOfAttempts
  BY <1>3 DEF OutOfAttempts, Finish, Row, Sent, world, local
<1>4. CASE ReconcileStatus
  BY <1>4 DEF ReconcileStatus, StatusVerdict, Verdicts, Sent, world, local
<1>5. CASE ReconcileBalance
  BY <1>5 DEF ReconcileBalance, Finish, Row, Measured, BalanceReads, Adopted, Landed, Sent, Confirmed, world, local, AllDead
<1>6. CASE ReadBefore
  BY <1>6 DEF ReadBefore, BalanceReads, Confirmed, Sent, world, local
<1>7. CASE AttemptFails
  BY <1>7 DEF AttemptFails, NextAttempt, Sent, world, local
<1>8. CASE BuildAndSign
  BY <1>8 DEF BuildAndSign, Sent, world, local
<1>9. CASE PersistIntent
  BY <1>9 DEF PersistIntent, Intent, Sent, world, local
<1>10. CASE IntentFails
  BY <1>10 DEF IntentFails, Intent, NextAttempt, Sent, world, local
<1>11. CASE Send
  BY <1>11 DEF Send, NextAttempt, Sent, world, local
<1>12. CASE SendFails
  BY <1>12 DEF SendFails, NextAttempt, Sent, world, local
<1>13. CASE PollStatus
  BY <1>13 DEF PollStatus, NextAttempt, Sent, world, local
<1>14. CASE ConfirmGivesUp
  BY <1>14 DEF ConfirmGivesUp, NextAttempt, Sent, world, local
<1>15. CASE CheckHeight
  BY <1>15 DEF CheckHeight, NextAttempt, Sent, world, local
<1>16. CASE Measure
  BY <1>16 DEF Measure, NextAttempt, Finish, Row, Measured, BalanceReads, Confirmed, Sent, world, local
<1>17. CASE SaveResult
  BY <1>17 DEF SaveResult, Leave, Fresh, Row, Sent, world, local
<1>18. CASE SaveFails
  BY <1>18 DEF SaveFails, Leave, Fresh, Row, Sent, world, local
<1>19. CASE Crash
  BY <1>19 DEF Crash, Leave, Fresh, Row, Sent, world, local
<1>20. ASSUME NEW t \in Tx, Process(t) PROVE KnowledgeInv'
  BY <1>20 DEF Process, Sent, world, local
<1>21. ASSUME NEW t \in Tx, Confirm(t) PROVE KnowledgeInv'
  BY <1>21 DEF Confirm, Sent, world, local
<1>22. ASSUME NEW t \in Tx, ForkOut(t) PROVE KnowledgeInv'
  BY <1>22 DEF ForkOut, Sent, world, local
<1>23. ASSUME NEW t \in Tx, Expire(t) PROVE KnowledgeInv'
  BY <1>23 DEF Expire, Sent, world, local
<1>24. CASE UNCHANGED vars
  BY <1>24 DEF vars, Sent
<1>25. QED
  BY NextCases, <1>1, <1>2, <1>3, <1>4, <1>5, <1>6, <1>7, <1>8, <1>9, <1>10, <1>11, <1>12, <1>13, <1>14, <1>15, <1>16, <1>17, <1>18, <1>19, <1>20, <1>21, <1>22, <1>23, <1>24

\* Every point of the call finds what it relies on.
LEMMA ControlStep ==
  ASSUME IInv, [Next]_vars, Trustworthy
  PROVE  ControlInv'
<1> USE BoundsAssumption, NoReadingAssumption DEF IInv, TypeOK, KnowledgeInv, ControlInv, LedgerInv, SpendOnRecord, CanSpend, Tx, NoTx
<1>1. ASSUME NEW retry \in BOOLEAN, TakeRow(retry) PROVE ControlInv'
  BY <1>1 DEF TakeRow, Sent, Landed, Untouchable, world, local
<1>2. CASE LoopTop
  BY <1>2 DEF LoopTop, Sent, Landed, Untouchable, world, local
<1>3. CASE OutOfAttempts
  BY <1>3 DEF OutOfAttempts, Finish, Row, Sent, Landed, Untouchable, world, local
<1>4. CASE ReconcileStatus
  BY <1>4 DEF ReconcileStatus, StatusVerdict, Verdicts, Sent, Landed, Untouchable, world, local
<1>5. CASE ReconcileBalance
  <2>1. PICK received \in Measured :
          LET landed == received # NoReading /\ (Landed # {} \/ received # {}) IN
          \/ landed /\ Finish("DONE", Adopted, received)
          \/ ~landed /\ ~AllDead /\ Finish("UNRESOLVED", last, {})
          \/ ~landed /\ AllDead /\ attempt =< Attempts /\ pc' = "before" /\ UNCHANGED result
          \/ ~landed /\ AllDead /\ attempt > Attempts /\ Finish("FAILED", NoTx, {})
    BY <1>5 DEF ReconcileBalance
  <2>2. pc = "balance" /\ UNCHANGED <<row, attempt, before, verdict, last, chain, expired>>
    BY <1>5 DEF ReconcileBalance, world
  <2>3. row.status \notin Untouchable
    BY <2>2
  <2>4. CASE received # NoReading /\ (Landed # {} \/ received # {})
    <3>1. Adopted = last /\ last \in Tx /\ chain[last] = "confirmed"
      BY <2>2, <2>4, AdoptedLanded
    <3>2. result' = Row("DONE", last, before, received) /\ pc' = "save"
      BY <2>1, <2>4, <3>1 DEF Finish
    <3> QED
      BY <2>2, <2>3, <3>1, <3>2 DEF Row
  <2>5. CASE ~(received # NoReading /\ (Landed # {} \/ received # {})) /\ AllDead
    <3>1. \A t \in Tx : ~CanSpend(t)
      BY <2>2, <2>5, DeadIsDead
    <3>2. \A t \in Tx : ~CanSpend(t)'
      BY <2>2, <3>1
    <3>3. \/ pc' = "before"
          \/ pc' = "save" /\ result' = Row("FAILED", NoTx, before, {})
      BY <2>1, <2>5 DEF Finish
    <3> QED
      BY <2>2, <2>3, <3>2, <3>3 DEF Row
  <2>6. CASE ~(received # NoReading /\ (Landed # {} \/ received # {})) /\ ~AllDead
    <3>1. pc' = "save" /\ result' = Row("UNRESOLVED", last, before, {})
      BY <2>1, <2>6 DEF Finish
    <3> QED
      BY <2>2, <2>3, <3>1 DEF Row
  <2> QED
    BY <2>4, <2>5, <2>6
<1>6. CASE ReadBefore
  BY <1>6 DEF ReadBefore, BalanceReads, Confirmed, Sent, Landed, Untouchable, world, local
<1>7. CASE AttemptFails
  BY <1>7 DEF AttemptFails, NextAttempt, Sent, Landed, Untouchable, world, local
<1>8. CASE BuildAndSign
  BY <1>8 DEF BuildAndSign, Sent, Landed, Untouchable, world, local
<1>9. CASE PersistIntent
  BY <1>9 DEF PersistIntent, Intent, Sent, Landed, Untouchable, world, local
<1>10. CASE IntentFails
  BY <1>10 DEF IntentFails, Intent, NextAttempt, Sent, Landed, Untouchable, world, local
<1>11. CASE Send
  BY <1>11 DEF Send, NextAttempt, Sent, Landed, Untouchable, world, local
<1>12. CASE SendFails
  BY <1>12 DEF SendFails, NextAttempt, Sent, Landed, Untouchable, world, local
<1>13. CASE PollStatus
  BY <1>13 DEF PollStatus, NextAttempt, Sent, Landed, Untouchable, world, local
<1>14. CASE ConfirmGivesUp
  BY <1>14 DEF ConfirmGivesUp, NextAttempt, Sent, Landed, Untouchable, world, local
<1>15. CASE CheckHeight
  BY <1>15 DEF CheckHeight, NextAttempt, Sent, Landed, Untouchable, world, local
<1>16. CASE Measure
  BY <1>16 DEF Measure, NextAttempt, Finish, Row, Measured, BalanceReads, Confirmed, Sent, Landed, Untouchable, world, local
<1>17. CASE SaveResult
  BY <1>17 DEF SaveResult, Leave, Fresh, Row, Sent, Landed, Untouchable, world, local
<1>18. CASE SaveFails
  BY <1>18 DEF SaveFails, Leave, Fresh, Row, Sent, Landed, Untouchable, world, local
<1>19. CASE Crash
  BY <1>19 DEF Crash, Leave, Fresh, Row, Sent, Landed, Untouchable, world, local
<1>20. ASSUME NEW t \in Tx, Process(t) PROVE ControlInv'
  BY <1>20 DEF Process, Sent, Landed, Untouchable, world, local
<1>21. ASSUME NEW t \in Tx, Confirm(t) PROVE ControlInv'
  BY <1>21 DEF Confirm, Sent, Landed, Untouchable, world, local
<1>22. ASSUME NEW t \in Tx, ForkOut(t) PROVE ControlInv'
  BY <1>22 DEF ForkOut, Sent, Landed, Untouchable, world, local
<1>23. ASSUME NEW t \in Tx, Expire(t) PROVE ControlInv'
  BY <1>23 DEF Expire, Sent, Landed, Untouchable, world, local
<1>24. CASE UNCHANGED vars
  BY <1>24 DEF vars, Sent, Landed, Untouchable
<1>25. QED
  BY NextCases, <1>1, <1>2, <1>3, <1>4, <1>5, <1>6, <1>7, <1>8, <1>9, <1>10, <1>11, <1>12, <1>13, <1>14, <1>15, <1>16, <1>17, <1>18, <1>19, <1>20, <1>21, <1>22, <1>23, <1>24

\* The store stays truthful.
LEMMA LedgerStep ==
  ASSUME IInv, [Next]_vars, Trustworthy
  PROVE  LedgerInv'
<1> USE BoundsAssumption, NoReadingAssumption DEF IInv, TypeOK, KnowledgeInv, ControlInv, LedgerInv, SpendOnRecord, CanSpend, Tx, NoTx
<1>1. ASSUME NEW retry \in BOOLEAN, TakeRow(retry) PROVE LedgerInv'
  BY <1>1 DEF TakeRow, Untouchable, world, local
<1>2. CASE LoopTop
  BY <1>2 DEF LoopTop, Untouchable, world, local
<1>3. CASE OutOfAttempts
  BY <1>3 DEF OutOfAttempts, Finish, Row, Untouchable, world, local
<1>4. CASE ReconcileStatus
  BY <1>4 DEF ReconcileStatus, StatusVerdict, Verdicts, Untouchable, world, local
<1>5. CASE ReconcileBalance
  BY <1>5 DEF ReconcileBalance, Finish, Row, Measured, BalanceReads, Adopted, Landed, Sent, Confirmed, Untouchable, world, local, AllDead
<1>6. CASE ReadBefore
  BY <1>6 DEF ReadBefore, BalanceReads, Confirmed, Untouchable, world, local
<1>7. CASE AttemptFails
  BY <1>7 DEF AttemptFails, NextAttempt, Untouchable, world, local
<1>8. CASE BuildAndSign
  BY <1>8 DEF BuildAndSign, Untouchable, world, local
<1>9. CASE PersistIntent
  BY <1>9 DEF PersistIntent, Intent, Untouchable, world, local
<1>10. CASE IntentFails
  <2>1. \A t \in Tx : ~CanSpend(t)'
    BY <1>10 DEF IntentFails, world
  <2>2. row.status \notin Untouchable /\ last \in Tx /\ last =< made /\ before = {}
    BY <1>10 DEF IntentFails, Untouchable
  <2>3. CASE row' = row
    BY <1>10, <2>1, <2>2, <2>3 DEF IntentFails, Untouchable, world
  <2>4. CASE row' = Intent
    <3>1. row'.status = "SENDING" /\ row'.tx = last /\ row'.before = {}
      BY <2>2, <2>4 DEF Intent
    <3> QED
      BY <1>10, <2>1, <2>2, <3>1 DEF IntentFails, world
  <2> QED
    BY <1>10, <2>3, <2>4 DEF IntentFails
<1>11. CASE Send
  BY <1>11 DEF Send, NextAttempt, Untouchable, world, local
<1>12. CASE SendFails
  BY <1>12 DEF SendFails, NextAttempt, Untouchable, world, local
<1>13. CASE PollStatus
  BY <1>13 DEF PollStatus, NextAttempt, Untouchable, world, local
<1>14. CASE ConfirmGivesUp
  BY <1>14 DEF ConfirmGivesUp, NextAttempt, Untouchable, world, local
<1>15. CASE CheckHeight
  BY <1>15 DEF CheckHeight, NextAttempt, Untouchable, world, local
<1>16. CASE Measure
  BY <1>16 DEF Measure, NextAttempt, Finish, Row, Measured, BalanceReads, Confirmed, Untouchable, world, local
<1>17. CASE SaveResult
  BY <1>17 DEF SaveResult, Leave, Fresh, Row, Untouchable, world, local
<1>18. CASE SaveFails
  BY <1>18 DEF SaveFails, Leave, Fresh, Row, Untouchable, world, local
<1>19. CASE Crash
  BY <1>19 DEF Crash, Leave, Fresh, Row, Untouchable, world, local
<1>20. ASSUME NEW t \in Tx, Process(t) PROVE LedgerInv'
  BY <1>20 DEF Process, Untouchable, world, local
<1>21. ASSUME NEW t \in Tx, Confirm(t) PROVE LedgerInv'
  BY <1>21 DEF Confirm, Untouchable, world, local
<1>22. ASSUME NEW t \in Tx, ForkOut(t) PROVE LedgerInv'
  BY <1>22 DEF ForkOut, Untouchable, world, local
<1>23. ASSUME NEW t \in Tx, Expire(t) PROVE LedgerInv'
  BY <1>23 DEF Expire, Untouchable, world, local
<1>24. CASE UNCHANGED vars
  BY <1>24 DEF vars, Untouchable
<1>25. QED
  BY NextCases, <1>1, <1>2, <1>3, <1>4, <1>5, <1>6, <1>7, <1>8, <1>9, <1>10, <1>11, <1>12, <1>13, <1>14, <1>15, <1>16, <1>17, <1>18, <1>19, <1>20, <1>21, <1>22, <1>23, <1>24

-----------------------------------------------------------------------------
\* TypeOK: every variable keeps its type, whatever the faults.
THEOREM TypeCorrect == Spec => []TypeOK
<1>1. Init => TypeOK
  BY BoundsAssumption DEF Init, TypeOK, Fresh, Row, Tx, NoTx, Readings, RowStatus, Verdicts, ChainStates, PCs
<1> QED
  BY <1>1, TypeStep, PTL DEF Spec

\* The inductive invariant holds as long as signature statuses can be read or
\* balances can be read truly.
THEOREM Inductive == Trustworthy => (Spec => []IInv)
<1> SUFFICES ASSUME Trustworthy PROVE Spec => []IInv
  OBVIOUS
<1>1. Init => IInv
  <2> SUFFICES ASSUME Init PROVE IInv
    OBVIOUS
  <2>1. TypeOK
    BY BoundsAssumption DEF Init, TypeOK, Fresh, Row, Tx, NoTx, Readings, RowStatus, Verdicts, ChainStates, PCs
  <2>2. \A t \in Tx : ~CanSpend(t) /\ verdict[t] = "none" /\ chain[t] = "none"
    BY DEF Init, CanSpend
  <2>3. pc = "idle" /\ before = NoReading /\ row.status = "PENDING"
    BY DEF Init, Fresh, Row
  <2> QED
    BY <2>1, <2>2, <2>3 DEF IInv, KnowledgeInv, ControlInv, LedgerInv, SpendOnRecord, Sent
<1>2. IInv /\ [Next]_vars => IInv'
  <2> SUFFICES ASSUME IInv, [Next]_vars PROVE IInv'
    OBVIOUS
  <2>1. TypeOK'
    BY TypeStep DEF IInv
  <2> QED
    BY <2>1, KnowledgeStep, ControlStep, LedgerStep DEF IInv
<1> QED
  BY <1>1, <1>2, PTL DEF Spec

\* SpendOnRecord: a transaction that moved the SOL, or still can, is the one
\* the stored row names, and that row never calls the SOL unspent.
THEOREM SpendIsOnRecord == Trustworthy => (Spec => []SpendOnRecord)
<1>1. IInv => SpendOnRecord
  BY DEF IInv, LedgerInv
<1> QED
  BY <1>1, Inductive, PTL

\* NeverSpentTwice: the SOL of one row leaves the vault at most once.
THEOREM SpentAtMostOnce == Trustworthy => (Spec => []NeverSpentTwice)
<1>1. SpendOnRecord => NeverSpentTwice
  BY DEF SpendOnRecord, NeverSpentTwice, CanSpend, Confirmed
<1> QED
  BY <1>1, SpendIsOnRecord, PTL

\* SendIsSafe: a transaction is handed to the cluster only when nothing sent
\* before it has moved the SOL or ever can.
THEOREM SendsAreSafe == Trustworthy => (Spec => SendIsSafe)
<1> DEFINE Safe == \A t \in Tx : chain[t] = "signed" /\ chain'[t] = "pending" =>
                     \A u \in Tx \ {t} : ~CanSpend(u)
<1>1. IInv /\ [Next]_vars => [Safe]_vars
  <2> SUFFICES ASSUME IInv, [Next]_vars,
                      NEW t \in Tx, chain[t] = "signed", chain'[t] = "pending",
                      NEW u \in Tx \ {t}
               PROVE  ~CanSpend(u)
    BY DEF Safe
  <2>1. Send
    <3>1. chain' # chain
      OBVIOUS
    <3> QED
      BY <3>1, NextCases DEF TakeRow, LoopTop, OutOfAttempts, ReconcileStatus, ReconcileBalance, ReadBefore,
        AttemptFails, BuildAndSign, PersistIntent, IntentFails, SendFails, PollStatus,
        ConfirmGivesUp, CheckHeight, Measure, SaveResult, SaveFails, Crash, Process, Confirm,
        ForkOut, Expire, world, vars, IInv, TypeOK
  <2> QED
    BY <2>1 DEF Send, IInv, ControlInv
<1> QED
  BY <1>1, Inductive, PTL DEF Spec, SendIsSafe

\* No step but a confirmation changes the set of confirmed transactions.
LEMMA ConfirmedStep ==
  ASSUME IInv, [Next]_vars
  PROVE  Confirmed' = Confirmed \/ \E t \in Tx : Confirm(t)
<1> USE DEF IInv, TypeOK
<1>1. CASE chain' = chain
  BY <1>1 DEF Confirmed
<1>2. CASE BuildAndSign
  <2>1. made + 1 \in Tx /\ chain' = [chain EXCEPT ![made + 1] = "signed"]
    BY <1>2, BoundsAssumption DEF BuildAndSign, Tx
  <2>2. chain[made + 1] = "none"
    BY <2>1 DEF KnowledgeInv
  <2> QED
    BY <2>1, <2>2 DEF Confirmed
<1>3. CASE Send
  BY <1>3 DEF Send, ControlInv, Confirmed
<1>4. ASSUME NEW t \in Tx, Process(t) \/ ForkOut(t) PROVE Confirmed' = Confirmed
  BY <1>4 DEF Process, ForkOut, Confirmed
<1> QED
  BY <1>1, <1>2, <1>3, <1>4, NextCases DEF TakeRow, LoopTop, OutOfAttempts, ReconcileStatus, ReconcileBalance,
    ReadBefore, AttemptFails, PersistIntent, IntentFails, SendFails, PollStatus, ConfirmGivesUp,
    CheckHeight, Measure, SaveResult, SaveFails, Crash, Expire, world, vars

\* The stored row changes in two places only.
LEMMA RowStep ==
  ASSUME [Next]_vars
  PROVE  row' = row \/ (pc = "intent" /\ row' = Intent) \/ (pc = "save" /\ row' = result)
BY NextCases DEF TakeRow, LoopTop, OutOfAttempts, ReconcileStatus, ReconcileBalance, ReadBefore, AttemptFails,
  BuildAndSign, PersistIntent, IntentFails, Send, SendFails, PollStatus, ConfirmGivesUp,
  CheckHeight, Measure, SaveResult, SaveFails, Crash, Process, Confirm, ForkOut, Expire, world,
  local, vars

\* A fill that is counted is the whole fill: no other transaction can confirm
\* once the answer is DONE.
LEMMA FillStep ==
  ASSUME IInv, IInv', FillInv, [Next]_vars
  PROVE  FillInv'
<1> USE DEF IInv, TypeOK
<1>1. CASE \E t \in Tx : Confirm(t)
  <2>1. PICK t \in Tx : Confirm(t)
    BY <1>1
  <2>2. chain[t] = "processed" /\ UNCHANGED <<row, pc, result, faults>>
    BY <2>1 DEF Confirm, local
  <2>3. CanSpend(t)
    BY <2>2 DEF CanSpend
  <2>4. row.tx = t
    BY <2>3 DEF LedgerInv, SpendOnRecord
  <2>5. row.status # "DONE"
    BY <2>2, <2>4 DEF LedgerInv
  <2>6. ~(pc = "save" /\ result.status = "DONE")
    <3> SUFFICES ASSUME pc = "save", result.status = "DONE" PROVE FALSE
      OBVIOUS
    <3>1. result.tx \in Tx /\ chain[result.tx] = "confirmed"
      BY DEF ControlInv
    <3>2. CanSpend(result.tx)
      BY <3>1 DEF CanSpend
    <3>3. row.tx = result.tx
      BY <3>1, <3>2 DEF LedgerInv, SpendOnRecord
    <3> QED
      BY <3>1, <3>3, <2>2, <2>4
  <2> QED
    BY <2>2, <2>5, <2>6 DEF FillInv, DoneCountsTheFill
<1>2. CASE Confirmed' = Confirmed
  <2>1. faults' = faults
    BY NextCases DEF TakeRow, LoopTop, OutOfAttempts, ReconcileStatus, ReconcileBalance, ReadBefore, AttemptFails,
      BuildAndSign, PersistIntent, IntentFails, Send, SendFails, PollStatus, ConfirmGivesUp,
      CheckHeight, Measure, SaveResult, SaveFails, Crash, Process, Confirm, ForkOut, Expire, vars
  <2>2. DoneCountsTheFill'
    BY <1>2, <2>1, RowStep, IntentType DEF FillInv, DoneCountsTheFill, Intent
  <2>3. CASE pc' = pc /\ result' = result
    BY <1>2, <2>1, <2>2, <2>3 DEF FillInv
  <2>4. ASSUME NEW received \in Measured, received # NoReading, "lag" \notin faults
        PROVE  received = Confirmed
    BY <2>4 DEF Measured, BalanceReads, KnowledgeInv
  <2>5. CASE ReconcileBalance
    <3>1. pc' = "save" /\ result'.status = "DONE" =>
            \E received \in Measured : received # NoReading /\ result' = Row("DONE", Adopted, before, received)
      BY <2>5 DEF ReconcileBalance, Finish, Row
    <3> QED
      BY <1>2, <2>1, <2>2, <2>4, <3>1 DEF FillInv, Row
  <2>6. CASE Measure
    <3>1. pc' = "save" =>
            \E received \in Measured : received # NoReading /\ result' = Row("DONE", last, before, received)
      BY <2>6 DEF Measure, Finish, NextAttempt
    <3> QED
      BY <1>2, <2>1, <2>2, <2>4, <3>1 DEF FillInv, Row
  <2>7. CASE OutOfAttempts
    BY <1>2, <2>1, <2>2, <2>7 DEF FillInv, OutOfAttempts, Finish, Row
  <2>8. \/ pc' # "save" \/ (pc' = pc /\ result' = result)
        \/ ReconcileBalance \/ Measure \/ OutOfAttempts
    BY NextCases DEF TakeRow, LoopTop, ReconcileStatus, ReadBefore, AttemptFails, NextAttempt, Leave,
      BuildAndSign, PersistIntent, IntentFails, Send, SendFails, PollStatus, ConfirmGivesUp,
      CheckHeight, SaveResult, SaveFails, Crash, Process, Confirm, ForkOut, Expire, local, vars
  <2> QED
    BY <2>2, <2>3, <2>5, <2>6, <2>7, <2>8 DEF FillInv
<1> QED
  BY <1>1, <1>2, ConfirmedStep

\* DoneCountsTheFill: a DONE row has received what the chain delivered, from
\* whichever attempt, unless the node that reads the vault lags.
THEOREM TheFillIsCounted == Trustworthy => (Spec => []DoneCountsTheFill)
<1>1. Init => FillInv
  BY DEF Init, FillInv, DoneCountsTheFill, Fresh, Row
<1>2. IInv /\ IInv' /\ FillInv /\ [Next]_vars => FillInv'
  BY FillStep
<1>3. FillInv => DoneCountsTheFill
  BY DEF FillInv
<1> QED
  BY <1>1, <1>2, <1>3, Inductive, PTL DEF Spec

\* KeepsThePromise: the row, with the chain, implements SpendOnce.
THEOREM RowKeepsThePromise == Trustworthy => (Spec => KeepsThePromise)
<1>1. Init => Allocation!Init
  BY DEF Init, Fresh, Row, Allocation!Init, Confirmed, Answer
<1>2. IInv /\ IInv' /\ [Next]_vars => [Allocation!Next]_(Allocation!vars)
  <2> SUFFICES ASSUME IInv, IInv', [Next]_vars PROVE [Allocation!Next]_(Allocation!vars)
    OBVIOUS
  <2> USE DEF IInv, TypeOK
  <2>1. CASE \E t \in Tx : Confirm(t)
    <3>1. PICK t \in Tx : Confirm(t)
      BY <2>1
    <3>2. chain[t] = "processed" /\ row' = row /\ Confirmed' = Confirmed \cup {t}
      BY <3>1 DEF Confirm, Confirmed
    <3>3. row.tx = t /\ row.status \in {"SENDING", "UNRESOLVED"}
      BY <3>2 DEF LedgerInv, SpendOnRecord, CanSpend
    <3>4. Confirmed = {}
      BY <3>2, <3>3 DEF LedgerInv, SpendOnRecord, CanSpend, Confirmed
    <3>5. Answer \in {"open", "unresolved"} /\ Answer' = Answer
      BY <3>2, <3>3 DEF Answer
    <3>6. Allocation!Spend
      BY <3>2, <3>4, <3>5 DEF Allocation!Spend
    <3> QED
      BY <3>6 DEF Allocation!Next
  <2>2. CASE Confirmed' = Confirmed /\ row' = row
    BY <2>2 DEF Allocation!vars, Answer
  <2>3. CASE Confirmed' = Confirmed /\ pc = "intent" /\ row' = Intent
    <3>1. row'.status = "SENDING" /\ row.status \in {"PENDING", "SENDING", "FAILED"}
      BY <2>3 DEF Intent, ControlInv, Untouchable, RowStatus
    <3>2. Answer' = "open" /\ Answer \in {"open", "kept"}
      BY <3>1 DEF Answer
    <3> QED
      BY <2>3, <3>2 DEF Allocation!Next, Allocation!Reopen, Allocation!vars
  <2>4. CASE Confirmed' = Confirmed /\ pc = "save" /\ row' = result
    <3>1. row.status \in {"PENDING", "SENDING", "FAILED"}
      BY <2>4 DEF ControlInv, Untouchable, RowStatus
    <3>2. row'.status \in {"DONE", "FAILED", "UNRESOLVED"}
      BY <2>4 DEF ControlInv
    <3>3. CASE row'.status = "DONE"
      <4>1. Confirmed # {} /\ \E t \in Tx : CanSpend(t)
        BY <2>4, <3>3 DEF ControlInv, Confirmed, CanSpend
      <4>2. row.status = "SENDING"
        BY <4>1, <3>1 DEF LedgerInv, SpendOnRecord
      <4> QED
        BY <2>4, <3>3, <4>1, <4>2 DEF Answer, Allocation!Next, Allocation!AnswerDone
    <3>4. CASE row'.status = "FAILED"
      <4>1. Confirmed = {}
        BY <2>4, <3>4 DEF ControlInv, Confirmed, CanSpend
      <4> QED
        BY <2>4, <3>1, <3>4, <4>1 DEF Answer, Allocation!Next, Allocation!AnswerKept, Allocation!vars
    <3>5. CASE row'.status = "UNRESOLVED"
      BY <2>4, <3>1, <3>5 DEF Answer, Allocation!Next, Allocation!AnswerUnresolved
    <3> QED
      BY <3>2, <3>3, <3>4, <3>5
  <2> QED
    BY <2>1, <2>2, <2>3, <2>4, ConfirmedStep, RowStep
<1> QED
  BY <1>1, <1>2, Inductive, PTL DEF Spec, KeepsThePromise, Allocation!Spec
=============================================================================
