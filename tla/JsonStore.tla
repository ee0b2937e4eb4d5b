----------------------------- MODULE JsonStore ------------------------------
(***************************************************************************)
(* The round files of server/src/db/json.js: one document per round, an    *)
(* index.json of summaries, and a cache of both in memory.  A mutation     *)
(* changes the cache, writes the document, then the index, each file       *)
(* atomically, and answers; the process may die in between and a write may *)
(* fail.  Its only client is the keeper, one call at a time: it picks the  *)
(* unfinished round, or creates one, and moves it on to a terminal status  *)
(* (keeper/runner.js runRound).                                            *)
(*                                                                         *)
(* A document is represented by its version: 0 no such file, and of the    *)
(* others some carry a terminal status.                                    *)
(***************************************************************************)
EXTENDS Naturals

CONSTANTS
  MaxRounds,    \* bound: rounds ever created
  MaxWrites,    \* bound: the last version of a round, the one that records a failure
  Finished,     \* the versions that carry a terminal status
  MaxCrashes,   \* bound: deaths of the process
  MaxErrors     \* bound: writes that fail

ASSUME WritesAssumption ==
  /\ MaxRounds \in Nat /\ MaxCrashes \in Nat /\ MaxErrors \in Nat
  /\ MaxWrites \in Nat /\ Finished \subseteq 2 .. MaxWrites /\ MaxWrites \in Finished

Id      == 1 .. MaxRounds
NoId    == 0
Absent  == 0
Terminal(v) == v \in Finished

VARIABLES
  doc, index,         \* the files
  cached, indexed,    \* the process's copies of them
  loaded,             \* the documents it has a copy of
  ready,              \* has it read the index since it started?
  pc, cur, want,      \* the call in progress: the round, its new version
  answered,           \* history: the last version of each round a call answered
  crashes, errors

files   == <<doc, index>>
memory  == <<cached, indexed, loaded, ready>>
storeVars    == <<doc, index, cached, indexed, loaded, ready, pc, cur, want, answered, crashes, errors>>

StoreTypeOK ==
  /\ {doc, index, cached, indexed, answered} \subseteq [Id -> 0 .. MaxWrites]
  /\ loaded \subseteq Id /\ ready \in BOOLEAN
  /\ pc \in {"tick", "run", "document", "index"}
  /\ cur \in Id \cup {NoId} /\ want \in 0 .. MaxWrites
  /\ crashes \in Nat /\ errors \in Nat

StoreInit ==
  /\ doc = [i \in Id |-> Absent] /\ index = doc /\ cached = doc /\ indexed = doc
  /\ answered = doc
  /\ loaded = {} /\ ready = FALSE
  /\ pc = "tick" /\ cur = NoId /\ want = Absent
  /\ crashes = 0 /\ errors = 0

-----------------------------------------------------------------------------
(* Reading.                                                                *)

\* loadRound: the copy in memory, or the file.
Loaded(i) == IF i \in loaded THEN cached[i] ELSE doc[i]

\* loadIndex: the copy in memory, or the file.
Index == IF ready THEN indexed ELSE index

\* Mutant: only rounds that have not started yet are picked up.
OpenNew == {i \in Id : Index[i] = 1}

\* unfinishedRound: the oldest one the INDEX calls unfinished ...
Open == {i \in Id : Index[i] # Absent /\ ~Terminal(Index[i])}
UnfinishedRound == IF Open = {} THEN NoId ELSE CHOOSE i \in Open : \A j \in Open : i <= j

\* ... nextRoundId: the first the FILES do not know.
Free == {i \in Id : Loaded(i) = Absent}

-----------------------------------------------------------------------------
(* The keeper.                                                             *)

\* Resume the unfinished round, or create one.  A terminal round is returned
\* as it is.
Tick ==
  /\ pc = "tick"
  /\ ready' = TRUE /\ indexed' = Index
  /\ IF UnfinishedRound # NoId
       THEN /\ loaded' = loaded \cup {UnfinishedRound}
            /\ cached' = [cached EXCEPT ![UnfinishedRound] = Loaded(UnfinishedRound)]
            /\ IF Terminal(Loaded(UnfinishedRound))
                 THEN UNCHANGED <<pc, cur, want>>
                 ELSE pc' = "run" /\ cur' = UnfinishedRound /\ UNCHANGED want
       ELSE /\ Free # {}
            /\ cur' = CHOOSE i \in Free : \A j \in Free : i <= j
            /\ want' = 1
            /\ loaded' = loaded \cup {cur'}
            /\ cached' = [cached EXCEPT ![cur'] = 1]
            /\ pc' = "document"
  /\ UNCHANGED <<files, answered, crashes, errors>>

\* updateRound (and markTransfer, which may leave the summary as it is).
Update ==
  /\ pc = "run" /\ ~Terminal(cached[cur])
  /\ want' \in (cached[cur] + 1) .. (MaxWrites - 1)
  /\ cached' = [cached EXCEPT ![cur] = want']
  /\ pc' = "document"
  /\ UNCHANGED <<files, indexed, loaded, ready, cur, answered, crashes, errors>>

\* A retry reopens a finished round.
Reopen(i) ==
  /\ pc = "tick" /\ Terminal(Loaded(i))
  /\ Loaded(i) < MaxWrites /\ ~Terminal(Loaded(i) + 1)
  /\ cur' = i /\ want' = Loaded(i) + 1
  /\ loaded' = loaded \cup {i}
  /\ cached' = [cached EXCEPT ![i] = want']
  /\ ready' = TRUE /\ indexed' = Index
  /\ pc' = "document"
  /\ UNCHANGED <<files, answered, crashes, errors>>

\* The round is settled: back to sleep.
Finish ==
  /\ pc = "run" /\ Terminal(cached[cur])
  /\ pc' = "tick" /\ cur' = NoId /\ want' = Absent
  /\ UNCHANGED <<files, memory, answered, crashes, errors>>

-----------------------------------------------------------------------------
(* Writing.                                                                *)

\* Mutant: the index is written before the document.
FlushIndexFirst ==
  /\ pc = "document"
  /\ indexed' = [indexed EXCEPT ![cur] = want] /\ index' = indexed'
  /\ pc' = "index"
  /\ UNCHANGED <<doc, cached, loaded, ready, cur, want, answered, crashes, errors>>

\* Mutant: the call answers before the document is on disk.
AnswerEarly ==
  /\ pc = "document"
  /\ answered' = [answered EXCEPT ![cur] = want]
  /\ pc' = "run"
  /\ UNCHANGED <<files, memory, cur, want, crashes, errors>>

\* flushRound
FlushRound ==
  /\ pc = "document"
  /\ doc' = [doc EXCEPT ![cur] = cached[cur]]
  /\ pc' = "index"
  /\ UNCHANGED <<index, memory, cur, want, answered, crashes, errors>>

\* Mutant: the index is left to a later call.
SyncLater ==
  /\ pc = "index"
  /\ answered' = [answered EXCEPT ![cur] = want]
  /\ pc' = "run"
  /\ UNCHANGED <<doc, index, cached, indexed, loaded, ready, cur, want, crashes, errors>>

\* syncIndex: written only when the copy in memory differs; then the call answers.
SyncIndex ==
  /\ pc = "index"
  /\ indexed' = [indexed EXCEPT ![cur] = cached[cur]]
  /\ index' = IF indexed[cur] = cached[cur] THEN index ELSE indexed'
  /\ answered' = [answered EXCEPT ![cur] = want]
  /\ pc' = "run"
  /\ UNCHANGED <<doc, cached, loaded, ready, cur, want, crashes, errors>>

\* A write fails: the call throws, and the copies in memory keep what was not
\* written.  runRound records the failure with another write; when that fails
\* too it gives up.
WriteFails ==
  /\ pc \in {"document", "index"} /\ errors < MaxErrors
  /\ errors' = errors + 1
  /\ indexed' = IF pc = "index" THEN [indexed EXCEPT ![cur] = cached[cur]] ELSE indexed
  /\ IF cached[cur] < MaxWrites
       THEN /\ want' = MaxWrites
            /\ cached' = [cached EXCEPT ![cur] = MaxWrites]
            /\ pc' = "document" /\ UNCHANGED cur
       ELSE pc' = "tick" /\ cur' = NoId /\ want' = Absent /\ UNCHANGED cached
  /\ UNCHANGED <<files, loaded, ready, answered, crashes>>

\* The process dies; the next one reads the files.
Crash ==
  /\ crashes < MaxCrashes
  /\ crashes' = crashes + 1
  /\ cached' = [i \in Id |-> Absent] /\ indexed' = cached'
  /\ loaded' = {} /\ ready' = FALSE
  /\ pc' = "tick" /\ cur' = NoId /\ want' = Absent
  /\ UNCHANGED <<files, answered, errors>>

StoreNext ==
  \/ Tick \/ Update \/ (\E i \in Id : Reopen(i)) \/ Finish
  \/ FlushRound \/ SyncIndex \/ WriteFails \/ Crash

StoreSpec == StoreInit /\ [][StoreNext]_storeVars
FairSpec == StoreSpec /\ WF_storeVars(Tick \/ Update \/ Finish \/ FlushRound \/ SyncIndex)

-----------------------------------------------------------------------------
(* Properties.                                                             *)

\* What a call answered is on disk, whatever dies or fails afterwards.
AnswersAreDurable == \A i \in Id : doc[i] >= answered[i]

\* The index file is never ahead of the documents: no round the index calls
\* finished, or knows at all, is less than that on disk, so none is forgotten
\* half done.
IndexIsNeverAhead == \A i \in Id : index[i] <= doc[i]

\* A created round is listed from the moment the call that created it answered.
AnsweredIsListed == \A i \in Id : answered[i] # Absent => index[i] # Absent

\* The index keeps step with the documents: ahead of none, and with a row for every
\* round whose creation was answered (json.js:320-370).
IndexKeepsStep == IndexIsNeverAhead /\ AnsweredIsListed

\* What no run checks, for the code does not keep it after a crash between the
\* document and its index:
\* "unfinishedRound() -> Round|null, status not in DONE/SKIPPED/FAILED".
UnfinishedIsUnfinished ==
  pc = "tick" /\ UnfinishedRound # NoId => ~Terminal(Loaded(UnfinishedRound))

\* Every round that is listed is finished in the end, however often the process
\* is started again, unless an index left stale stands in the way of all others.
KeeperMovesOn ==
  \A i \in Id : index[i] # Absent ~> Terminal(doc[i]) \/ \E j \in Id : index[j] < doc[j]

-----------------------------------------------------------------------------
(* The inductive invariant behind AnswersAreDurable and IndexKeepsStep.    *)

\* The copies in memory are never behind the files they were read from, and the
\* index in memory is no further than the documents.
MemoryInv ==
  \A i \in Id :
    /\ i \in loaded => doc[i] <= cached[i]
    /\ ready => index[i] <= indexed[i] /\ indexed[i] <= doc[i]

\* A call works on a round it has loaded; what it writes is new to the index, and
\* the document is there before the index is touched.
CallInv ==
  /\ pc # "tick" => ready /\ cur \in loaded
  /\ pc \in {"document", "index"} => want = cached[cur] /\ indexed[cur] < want
  /\ pc = "index" => doc[cur] = want

StoreIInv == StoreTypeOK /\ AnswersAreDurable /\ IndexKeepsStep /\ MemoryInv /\ CallInv
=============================================================================
