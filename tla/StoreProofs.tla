---------------------------- MODULE StoreProofs -----------------------------
(***************************************************************************)
(* TLAPS proofs about what the process stores in its files: the rounds of  *)
(* JsonStore, for every number of rounds, versions, crashes and failed     *)
(* writes, and the baskets of Basket, for every set of rules, stocks and   *)
(* top lists, every slider, and any number of edits, saves and mishaps.    *)
(***************************************************************************)
EXTENDS JsonStore, Basket, Sums, SequenceTheorems, WellFoundedInduction

\* unfinishedRound finds an unfinished round of the index when there is one,
\* nextRoundId one that is free.
LEMMA PickedRound ==
  ASSUME StoreTypeOK
  PROVE  /\ UnfinishedRound # NoId => UnfinishedRound \in Open
         /\ Free # {} => (CHOOSE i \in Free : \A j \in Free : i <= j) \in Free
<1>1. Open \subseteq Nat /\ Free \subseteq Nat
  BY WritesAssumption DEF Open, Free, Id
<1>2. Open # {} => \E i \in Open : \A j \in Open : i <= j
  BY <1>1, LeastNumber
<1>3. Free # {} => \E i \in Free : \A j \in Free : i <= j
  BY <1>1, LeastNumber
<1>4. UnfinishedRound # NoId => UnfinishedRound = CHOOSE i \in Open : \A j \in Open : i <= j
  BY DEF UnfinishedRound
<1>5. UnfinishedRound # NoId => Open # {}
  BY DEF UnfinishedRound
<1> QED
  BY <1>2, <1>3, <1>4, <1>5

\* What the helpers read is a version, and no further back than the disk's.
LEMMA ReadTypes ==
  ASSUME StoreTypeOK, MemoryInv, IndexKeepsStep
  PROVE  /\ Index \in [Id -> 0 .. MaxWrites]
         /\ \A i \in Id : /\ Loaded(i) \in 0 .. MaxWrites /\ doc[i] <= Loaded(i)
                          /\ index[i] <= Index[i] /\ Index[i] <= doc[i]
<1> USE DEF StoreTypeOK
<1>1. Index \in [Id -> 0 .. MaxWrites]
  BY DEF Index
<1>2. ASSUME NEW i \in Id
      PROVE  /\ Loaded(i) \in 0 .. MaxWrites /\ doc[i] <= Loaded(i)
             /\ index[i] <= Index[i] /\ Index[i] <= doc[i]
  BY DEF Loaded, Index, MemoryInv, IndexKeepsStep, IndexIsNeverAhead
<1> QED
  BY <1>1, <1>2

\* StoreTypeOK, variable by variable.
LEMMA StoreTypeParts ==
  ASSUME \A f \in {doc, index, cached, indexed, answered} : f \in [Id -> 0 .. MaxWrites],
         loaded \subseteq Id, ready \in BOOLEAN, pc \in {"tick", "run", "document", "index"},
         cur \in Id \cup {NoId}, want \in 0 .. MaxWrites, crashes \in Nat, errors \in Nat
  PROVE  StoreTypeOK
<1>1. {doc, index, cached, indexed, answered} \subseteq [Id -> 0 .. MaxWrites]
  OBVIOUS
<1> QED
  BY <1>1 DEF StoreTypeOK

\* The next-state relation, action by action.
LEMMA StoreNextCases ==
  ASSUME [StoreNext]_storeVars
  PROVE  \/ Tick \/ Update \/ (\E i \in Id : Reopen(i)) \/ Finish
         \/ FlushRound \/ SyncIndex \/ WriteFails \/ Crash \/ UNCHANGED storeVars
BY DEF StoreNext

\* One step keeps the whole inductive invariant.
LEMMA StoreStep ==
  ASSUME StoreIInv, [StoreNext]_storeVars
  PROVE  StoreIInv'
<1> USE WritesAssumption DEF StoreIInv, StoreTypeOK, AnswersAreDurable, IndexKeepsStep, IndexIsNeverAhead, AnsweredIsListed, Absent
<1>1. CASE Tick
  <2>1. UNCHANGED <<doc, index, answered, crashes, errors>> /\ pc = "tick" /\ ready' = TRUE /\ indexed' = Index
    BY <1>1 DEF Tick, files
  <2>2. CASE UnfinishedRound # NoId
    <3>1. UnfinishedRound \in Id
      BY <2>2, PickedRound DEF Open
    <3>2. loaded' = loaded \cup {UnfinishedRound}
          /\ cached' = [cached EXCEPT ![UnfinishedRound] = Loaded(UnfinishedRound)]
      BY <1>1, <2>2 DEF Tick
    <3>3. \/ UNCHANGED <<pc, cur, want>>
          \/ pc' = "run" /\ cur' = UnfinishedRound /\ UNCHANGED want
      BY <1>1, <2>2 DEF Tick
    <3> QED
      BY <2>1, <3>1, <3>2, <3>3, ReadTypes DEF MemoryInv, CallInv
  <2>3. CASE UnfinishedRound = NoId
    <3>1. cur' = (CHOOSE i \in Free : \A j \in Free : i <= j) /\ Free # {} /\ want' = 1
          /\ loaded' = loaded \cup {cur'} /\ cached' = [cached EXCEPT ![cur'] = 1] /\ pc' = "document"
      BY <1>1, <2>3 DEF Tick
    <3>2. cur' \in Id /\ Loaded(cur') = 0
      BY <3>1, PickedRound DEF Free
    <3>3. doc[cur'] = 0 /\ Index[cur'] = 0
      BY <3>2, ReadTypes
    <3>4. StoreTypeOK'
      <4>1. cached' \in [Id -> 0 .. MaxWrites] /\ indexed' \in [Id -> 0 .. MaxWrites]
        BY <2>1, <3>1, <3>2, ReadTypes
      <4>2. ({doc, index, cached, indexed, answered} \subseteq [Id -> 0 .. MaxWrites])'
        BY <2>1, <4>1
      <4>3. loaded' \subseteq Id
        BY <3>1, <3>2
      <4>4. want' \in 0 .. MaxWrites
        BY <3>1
      <4> QED
        BY <2>1, <3>1, <3>2, <4>2, <4>3, <4>4
    <3>5. MemoryInv'
      <4> SUFFICES ASSUME NEW i \in Id
                   PROVE  /\ i \in loaded' => doc[i] <= cached'[i]
                          /\ index[i] <= Index[i] /\ Index[i] <= doc[i]
        BY <2>1 DEF MemoryInv
      <4>1. index[i] <= Index[i] /\ Index[i] <= doc[i]
        BY ReadTypes
      <4>2. CASE i = cur'
        BY <3>1, <3>3, <4>1, <4>2
      <4>3. CASE i # cur'
        BY <3>1, <4>1, <4>3 DEF MemoryInv
      <4> QED
        BY <4>2, <4>3
    <3>6. CallInv'
      BY <2>1, <3>1, <3>2, <3>3, ReadTypes DEF CallInv
    <3> QED
      BY <2>1, <3>4, <3>5, <3>6
  <2> QED
    BY <2>2, <2>3
<1>2. CASE Update
  BY <1>2 DEF Update, files, MemoryInv, CallInv
<1>3. ASSUME NEW i \in Id, Reopen(i) PROVE StoreIInv'
  <2>1. cur' = i /\ want' = Loaded(i) + 1 /\ want' <= MaxWrites /\ loaded' = loaded \cup {i}
        /\ cached' = [cached EXCEPT ![i] = want'] /\ ready' = TRUE /\ indexed' = Index /\ pc' = "document"
        /\ UNCHANGED <<doc, index, answered, crashes, errors>>
    BY <1>3, ReadTypes DEF Reopen, files
  <2> QED
    BY <2>1, ReadTypes DEF MemoryInv, CallInv
<1>4. CASE Finish
  BY <1>4 DEF Finish, files, memory, MemoryInv, CallInv
<1>5. CASE FlushRound
  BY <1>5 DEF FlushRound, memory, MemoryInv, CallInv
<1>6. CASE SyncIndex
  BY <1>6 DEF SyncIndex, MemoryInv, CallInv
<1>7. CASE WriteFails
  BY <1>7 DEF WriteFails, files, MemoryInv, CallInv
<1>8. CASE Crash
  <2>1. cached' \in [Id -> 0 .. MaxWrites] /\ indexed' \in [Id -> 0 .. MaxWrites]
    BY <1>8 DEF Crash
  <2>2. UNCHANGED <<doc, index, answered>> /\ loaded' = {} /\ ready' = FALSE /\ pc' = "tick"
        /\ cur' = NoId /\ want' = 0 /\ crashes' \in Nat /\ errors' \in Nat
    BY <1>8 DEF Crash, files
  <2>3. ({doc, index, cached, indexed, answered} \subseteq [Id -> 0 .. MaxWrites])'
    BY <2>1, <2>2
  <2>4. want' \in 0 .. MaxWrites /\ loaded' \subseteq Id
    BY <2>2
  <2>5. pc' \in {"tick", "run", "document", "index"} /\ cur' \in Id \cup {NoId}
    BY <2>2
  <2>6. StoreTypeOK'
    BY <2>2, <2>3, <2>4, <2>5
  <2> QED
    BY <2>2, <2>6 DEF MemoryInv, CallInv
<1>9. CASE UNCHANGED storeVars
  BY <1>9 DEF storeVars, MemoryInv, CallInv
<1> QED
  BY StoreNextCases, <1>1, <1>2, <1>3, <1>4, <1>5, <1>6, <1>7, <1>8, <1>9

-----------------------------------------------------------------------------
\* The inductive invariant: the copies in memory are never behind the disk, the
\* index never ahead of the documents.
THEOREM StoreInductive == StoreSpec => []StoreIInv
<1>1. StoreInit => StoreIInv
  <2> SUFFICES ASSUME StoreInit PROVE StoreIInv
    OBVIOUS
  <2>1. doc = [i \in Id |-> 0] /\ index = doc /\ cached = doc /\ indexed = doc /\ answered = doc
    BY DEF StoreInit, Absent
  <2>2. doc \in [Id -> 0 .. MaxWrites]
    BY <2>1, WritesAssumption
  <2>3. StoreTypeOK
    <3>1. \A f \in {doc, index, cached, indexed, answered} : f \in [Id -> 0 .. MaxWrites]
      BY <2>1, <2>2
    <3>2. loaded \subseteq Id /\ ready \in BOOLEAN /\ pc \in {"tick", "run", "document", "index"}
      BY DEF StoreInit
    <3>3. cur \in Id \cup {NoId} /\ want \in 0 .. MaxWrites /\ crashes \in Nat /\ errors \in Nat
      BY WritesAssumption DEF StoreInit, Absent
    <3> QED
      BY <3>1, <3>2, <3>3, StoreTypeParts
  <2>4. \A i \in Id : doc[i] = 0
    BY <2>1
  <2> QED
    BY <2>1, <2>3, <2>4 DEF StoreInit, StoreIInv, AnswersAreDurable, IndexKeepsStep, IndexIsNeverAhead,
      AnsweredIsListed, MemoryInv, CallInv, Absent
<1> QED
  BY <1>1, StoreStep, PTL DEF StoreSpec

\* StoreTypeOK: every variable keeps its type.
THEOREM StoreTypeCorrect == StoreSpec => []StoreTypeOK
<1>1. StoreIInv => StoreTypeOK
  BY DEF StoreIInv
<1> QED
  BY <1>1, StoreInductive, PTL

\* AnswersAreDurable: what a call answered stays on disk, whatever dies or fails.
THEOREM AnswersStayOnDisk == StoreSpec => []AnswersAreDurable
<1>1. StoreIInv => AnswersAreDurable
  BY DEF StoreIInv
<1> QED
  BY <1>1, StoreInductive, PTL

\* IndexKeepsStep: the index file is ahead of no document and lists every round
\* whose creation was answered.
THEOREM IndexStaysInStep == StoreSpec => []IndexKeepsStep
<1>1. StoreIInv => IndexKeepsStep
  BY DEF StoreIInv
<1> QED
  BY <1>1, StoreInductive, PTL

-----------------------------------------------------------------------------
(* Auto-balance.                                                           *)

Shares(list) == [i \in DOMAIN list |-> list[i].pct]

\* What the rules of the page and the server are numbers of.
LEMMA Rules ==
  /\ MinPicks \in Nat /\ MaxPicks \in Nat /\ MinPct \in Nat /\ MaxPct \in Nat /\ DefaultSize \in Nat
  /\ DefaultSize > 0 /\ MinPct <= MaxPct /\ MinPct % 5 = 0 /\ MaxPct % 5 = 0
  BY RulesAssumption DEF STEP

\* The parts of a list of picks.
LEMMA ListFacts ==
  ASSUME NEW list \in Lists
  PROVE  /\ DOMAIN list = 1 .. Len(list) /\ Len(list) \in Nat
         /\ IsFiniteSet(DOMAIN list) /\ Cardinality(DOMAIN list) = Len(list)
         /\ \A i \in DOMAIN list : /\ list[i] \in Pick /\ list[i].pct \in Nat /\ list[i].mint \in Mints
                                   /\ MinPct <= list[i].pct /\ list[i].pct <= MaxPct
         /\ Shares(list) \in [DOMAIN list -> Nat]
         /\ Total(list) = SumFunction(Shares(list)) /\ Total(list) \in Nat
  <1>1. list \in Seq(Pick)
    BY DEF Lists
  <1>2. DOMAIN list = 1 .. Len(list) /\ Len(list) \in Nat /\ \A i \in DOMAIN list : list[i] \in Pick
    BY <1>1
  <1>3. IsFiniteSet(1 .. Len(list)) /\ Cardinality(1 .. Len(list)) = Len(list)
    BY <1>2, FS_Interval
  <1>4. \A p \in Pick : p.pct \in Nat /\ p.mint \in Mints /\ MinPct <= p.pct /\ p.pct <= MaxPct
    BY Rules DEF Pick
  <1>5. Shares(list) \in [DOMAIN list -> Nat]
    BY <1>2, <1>4 DEF Shares
  <1>6. Total(list) = SumFunction(Shares(list))
    BY DEF Total, Shares
  <1>7. SumFunction(Shares(list)) \in Nat
    BY <1>2, <1>3, <1>5, SumType
  <1>8. QED
    BY <1>2, <1>3, <1>4, <1>5, <1>6, <1>7

\* The unit is one point, or five where the basket and what it lacks are fives.
LEMMA UnitCases ==
  ASSUME NEW list \in Lists
  PROVE  \/ Unit(list) = 1
         \/ Unit(list) = 5 /\ (100 - Total(list)) % 5 = 0 /\ \A i \in DOMAIN list : list[i].pct % 5 = 0
  <1>1. DOMAIN list = 1 .. Len(list)
    BY ListFacts
  <1>2. \A i \in DOMAIN list : list[i] \in ToSet(list)
    BY <1>1 DEF ToSet
  <1>3. QED
    BY <1>2 DEF Unit, STEP

\* A distance between two multiples of the unit is so many units.
LEMMA Exactly ==
  ASSUME NEW u \in {1, 5}, NEW a \in Nat, NEW b \in Nat, a <= b, u = 5 => (b - a) % 5 = 0
  PROVE  (b - a) \div u \in Nat /\ u * ((b - a) \div u) = b - a
  OBVIOUS

\* Rooms are whole numbers of units, up to the limit or down to it.
LEMMA RoomFacts ==
  ASSUME NEW list \in Lists
  PROVE  /\ Room(list) \in [DOMAIN list -> Nat]
         /\ \A i \in DOMAIN list :
              Unit(list) * Room(list)[i]
                = IF Total(list) < 100 THEN MaxPct - list[i].pct ELSE list[i].pct - MinPct
  <1>1. Unit(list) \in {1, 5}
    BY UnitCases
  <1>2. ASSUME NEW i \in DOMAIN list
        PROVE  /\ Room(list)[i] \in Nat
               /\ Unit(list) * Room(list)[i]
                    = IF Total(list) < 100 THEN MaxPct - list[i].pct ELSE list[i].pct - MinPct
    <2>1. list[i].pct \in Nat /\ MinPct <= list[i].pct /\ list[i].pct <= MaxPct
      BY ListFacts
    <2>2. Unit(list) = 5 => (MaxPct - list[i].pct) % 5 = 0 /\ (list[i].pct - MinPct) % 5 = 0
      <3>1. Unit(list) = 5 => list[i].pct % 5 = 0
        BY UnitCases
      <3>2. QED
        BY <2>1, <3>1, Rules
    <2>3. Room(list)[i] = (IF Total(list) < 100 THEN MaxPct - list[i].pct ELSE list[i].pct - MinPct)
                            \div Unit(list)
      BY DEF Room
    <2>4. CASE Total(list) < 100
      BY <1>1, <2>1, <2>2, <2>3, <2>4, Rules, Exactly
    <2>5. CASE ~(Total(list) < 100)
      BY <1>1, <2>1, <2>2, <2>3, <2>5, Rules, Exactly
    <2>6. QED
      BY <2>4, <2>5
  <1>3. Room(list) = [i \in DOMAIN list |-> Room(list)[i]]
    BY DEF Room
  <1>4. QED
    BY <1>2, <1>3

\* So is what is to be moved.
LEMMA MovesFacts ==
  ASSUME NEW list \in Lists
  PROVE  /\ Moves(list) \in Nat
         /\ Unit(list) * Moves(list) = IF Total(list) < 100 THEN 100 - Total(list) ELSE Total(list) - 100
  <1>1. Unit(list) \in {1, 5} /\ Total(list) \in Nat
    BY UnitCases, ListFacts
  <1>2. Unit(list) = 5 => (100 - Total(list)) % 5 = 0 /\ (Total(list) - 100) % 5 = 0
    <2>1. Unit(list) = 5 => (100 - Total(list)) % 5 = 0
      BY UnitCases
    <2>2. QED
      BY <1>1, <2>1
  <1>3. CASE Total(list) < 100
    <2>1. Moves(list) = (100 - Total(list)) \div Unit(list)
      BY <1>3 DEF Moves
    <2>2. QED
      BY <1>1, <1>2, <1>3, <2>1, Exactly
  <1>4. CASE ~(Total(list) < 100)
    <2>1. Moves(list) = (Total(list) - 100) \div Unit(list)
      BY <1>4 DEF Moves
    <2>2. QED
      BY <1>1, <1>2, <1>4, <2>1, Exactly
  <1>5. QED
    BY <1>3, <1>4

\* What has been moved after n turns.
LEMMA AfterFacts ==
  ASSUME NEW S, IsFiniteSet(S), NEW room \in [S -> Nat], NEW n \in Nat
  PROVE  /\ After(room, n) \in [S -> Nat] /\ SumFunction(After(room, n)) \in Nat
         /\ \A i \in S : After(room, n)[i] = IF room[i] < n THEN room[i] ELSE n
         /\ SumFunction(After(room, n)) <= SumFunction(room)
  <1>2. /\ After(room, n) \in [S -> Nat]
        /\ \A i \in S : After(room, n)[i] = IF room[i] < n THEN room[i] ELSE n
    BY DEF After, Min2
  <1>3. \A i \in S : After(room, n)[i] <= room[i]
    BY <1>2
  <1>4. SumFunction(After(room, n)) <= SumFunction(room)
    BY <1>2, <1>3, SumBelow
  <1>5. SumFunction(After(room, n)) \in Nat
    BY <1>2, SumType
  <1>6. QED
    BY <1>2, <1>4, <1>5

\* One turn more moves the picks that still have room.
LEMMA OneTurnMore ==
  ASSUME NEW S, IsFiniteSet(S), NEW room \in [S -> Nat], NEW n \in Nat,
         NEW more \in SUBSET S, \A i \in S : i \in more <=> room[i] > n
  PROVE  SumFunction(After(room, n + 1)) = SumFunction(After(room, n)) + Cardinality(more)
  <1> DEFINE one == [i \in S |-> IF i \in more THEN 1 ELSE 0]
           now  == After(room, n)
           next == After(room, n + 1)
  <1>1. n + 1 \in Nat /\ \A i \in S : room[i] \in Nat
    OBVIOUS
  <1>2. /\ now \in [S -> Nat] /\ next \in [S -> Nat]
        /\ \A i \in S : now[i] = IF room[i] < n THEN room[i] ELSE n
        /\ \A i \in S : next[i] = IF room[i] < n + 1 THEN room[i] ELSE n + 1
    BY <1>1, AfterFacts
  <1>3. one \in [S -> Nat] /\ \A i \in S : one[i] = IF i \in more THEN 1 ELSE 0
    OBVIOUS
  <1> HIDE DEF one, now, next
  <1>4. \A i \in S : now[i] + one[i] = next[i]
    BY <1>1, <1>2, <1>3
  <1>5. SumFunction(one) = Cardinality(more)
    BY <1>3, SumIndicator
  <1>6. SumFunction(now) + SumFunction(one) = SumFunction(next)
    BY <1>2, <1>3, <1>4, SumPlus
  <1>7. QED
    BY <1>5, <1>6 DEF now, next

\* The turns there are: as many as the moves allow.
LEMMA TurnsFacts ==
  ASSUME NEW S, IsFiniteSet(S), NEW room \in [S -> Nat], NEW moves \in Nat
  PROVE  /\ Turns(room, moves) \in 0 .. moves
         /\ ~Over(room, Turns(room, moves), moves)
         /\ Over(room, Turns(room, moves) + 1, moves) \/ Turns(room, moves) = moves
  <1> DEFINE Ends == {n \in 0 .. moves : Over(room, n + 1, moves) \/ n = moves}
  <1>1. moves \in Ends /\ Ends \in SUBSET Nat
    OBVIOUS
  <1>2. PICK n \in Ends : \A m \in Ends : n <= m
    BY <1>1, LeastNumber
  <1>3. n \in 0 .. moves /\ (Over(room, n + 1, moves) \/ n = moves)
    OBVIOUS
  <1>4. ~Over(room, n, moves)
    <2>1. CASE n = 0
      <3>2. /\ After(room, 0) \in [S -> Nat]
            /\ \A i \in S : After(room, 0)[i] = IF room[i] < 0 THEN room[i] ELSE 0
        BY AfterFacts
      <3>3. SumFunction(After(room, 0)) = 0
        <4>1. \A i \in S : After(room, 0)[i] = 0
          BY <3>2
        <4>2. QED
          BY <3>2, <4>1, SumOfNothing
      <3>4. QED
        BY <2>1, <3>3 DEF Over
    <2>2. CASE n # 0
      <3>1. n - 1 \notin Ends /\ n - 1 \in 0 .. moves
        BY <1>2, <1>3, <2>2
      <3>2. ~Over(room, (n - 1) + 1, moves)
        BY <3>1
      <3>3. (n - 1) + 1 = n
        BY <1>3
      <3>4. QED
        BY <3>2, <3>3
    <2>3. QED
      BY <2>1, <2>2
  <1> HIDE DEF Ends
  <1>5. QED
    BY <1>3, <1>4 DEF Turns

\* No pick is moved further than it has room.
LEMMA MovedInRoom ==
  ASSUME NEW S, IsFiniteSet(S), NEW room \in [S -> Nat], NEW n \in Nat, NEW moves \in Nat
  PROVE  /\ Moved(room, n, moves) \in [S -> Nat]
         /\ \A i \in S : Moved(room, n, moves)[i] <= room[i]
  <1>1. Moved(room, n, moves) = [i \in S |-> Moved(room, n, moves)[i]]
    BY DEF Moved
  <1>2. ASSUME NEW i \in S
        PROVE  Moved(room, n, moves)[i] \in Nat /\ Moved(room, n, moves)[i] <= room[i]
    <2>1. Moved(room, n, moves)[i] \in {IF room[i] > n THEN n + 1 ELSE Min2(room[i], n), Min2(room[i], n)}
      BY DEF Moved
    <2>2. QED
      BY <2>1 DEF Min2
  <1>3. QED
    BY <1>1, <1>2

\* Where there is room for them, all the moves are made: the turns, and one more for the first.
LEMMA AllMovesAreMade ==
  ASSUME NEW S, IsFiniteSet(S), \A i \in S : i \in Nat, NEW room \in [S -> Nat], NEW moves \in Nat, moves <= SumFunction(room)
  PROVE  SumFunction(Moved(room, Turns(room, moves), moves)) = moves
  <1> DEFINE n     == Turns(room, moves)
             done  == SumFunction(After(room, n))
             left  == moves - done
             more  == {i \in S : room[i] > n}
             Before == [i \in more |-> Luckier(room, n, i)]
             lucky == {i \in more : Cardinality(Before[i]) < left}
             one   == [i \in S |-> IF i \in lucky THEN 1 ELSE 0]
             moved == Moved(room, n, moves)
  <1>1. n \in 0 .. moves /\ ~Over(room, n, moves) /\ (Over(room, n + 1, moves) \/ n = moves)
    BY TurnsFacts
  <1>2. DOMAIN room = S /\ more \in SUBSET S /\ lucky \in SUBSET S
    OBVIOUS
  <1>3. IsFiniteSet(more)
    BY <1>2, FS_Subset
  <1>4. Cardinality(more) \in Nat
    BY <1>3, FS_CardinalityType
  <1>5. /\ After(room, n) \in [S -> Nat] /\ done \in Nat /\ done <= SumFunction(room)
        /\ \A i \in S : After(room, n)[i] = IF room[i] < n THEN room[i] ELSE n
        /\ SumFunction(After(room, n + 1)) = done + Cardinality(more)
    <2>1. n \in Nat
      BY <1>1
    <2>2. more \in SUBSET S /\ \A i \in S : i \in more <=> room[i] > n
      OBVIOUS
    <2> HIDE DEF n, more
    <2>3. SumFunction(After(room, n + 1)) = done + Cardinality(more)
      BY <2>1, <2>2, OneTurnMore
    <2>4. QED
      BY <2>1, <2>3, AfterFacts
  <1>6. done <= moves
    BY <1>1, <1>5 DEF Over
  <1>7. \A i \in more : Before[i] = {j \in more : j < i}
    BY <1>2 DEF Luckier
  <1>8. Linear(more, Before)
    <2> HIDE DEF more
    <2>1. \A i \in more : i \in Nat
      BY <1>2
    <2>2. Before = [i \in more |-> Before[i]]
      OBVIOUS
    <2> HIDE DEF Before
    <2>3. \A i \in more : Before[i] \in SUBSET more
      BY <1>7
    <2>4. Before \in [more -> SUBSET more]
      BY <2>2, <2>3
    <2>5. QED
      BY <1>7, <2>1, <2>4 DEF Linear
  <1>9. \A i \in S : moved[i] = IF i \in lucky THEN n + 1 ELSE IF room[i] < n THEN room[i] ELSE n
    BY <1>1, <1>2 DEF Moved, Min2
  <1>10. one \in [S -> Nat] /\ \A i \in S : one[i] = IF i \in lucky THEN 1 ELSE 0
    OBVIOUS
  <1>11. moved \in [S -> Nat]
    BY <1>1, MovedInRoom
  <1>12. \A i \in lucky : room[i] > n
    OBVIOUS
  <1>13. left <= Cardinality(more)
    <2>1. CASE Over(room, n + 1, moves)
      BY <1>4, <1>5, <2>1 DEF Over
    <2>2. CASE n = moves /\ more = {}
      <3>1. \A i \in S : After(room, n)[i] = room[i]
        <4>1. \A i \in S : ~(room[i] > n)
          BY <2>2
        <4>2. QED
          BY <1>1, <1>5, <4>1
      <3>2. After(room, n) = room
        <4> DEFINE now == After(room, n)
        <4>1. now \in [S -> Nat] /\ \A i \in S : now[i] = room[i]
          BY <1>5, <3>1
        <4> HIDE DEF now
        <4>2. now = room
          BY <4>1
        <4>3. QED
          BY <4>2 DEF now
      <3>3. QED
        BY <1>4, <1>5, <3>2
    <2>3. CASE n = moves /\ more # {}
      <3>1. PICK i \in more : TRUE
        BY <2>3
      <3>2. i \in S /\ After(room, n)[i] = n
        BY <1>1, <1>5, <3>1
      <3>3. n <= done
        BY <1>2, <1>5, <3>2, SumMember
      <3>4. QED
        BY <1>4, <1>5, <2>3, <3>3
    <2>4. QED
      BY <1>1, <2>1, <2>2, <2>3
  <1>14. left \in 0 .. Cardinality(more)
    BY <1>4, <1>5, <1>6, <1>13
  <1> HIDE DEF Before, more, left, done, n
  <1>15. Cardinality(lucky) = left
    BY <1>3, <1>8, <1>14, FirstAreMany
  <1>16. \A i \in S : After(room, n)[i] + one[i] = moved[i]
    <2> HIDE DEF lucky, one, moved
    <2>1. n \in Nat
      BY <1>1
    <2>2. \A i \in S : i \in lucky => room[i] > n
      BY <1>12
    <2>3. \A i \in S : room[i] \in Nat
      OBVIOUS
    <2>4. QED
      BY <2>1, <2>2, <2>3, <1>5, <1>9, <1>10
  <1> HIDE DEF lucky, one, moved
  <1>17. SumFunction(one) = Cardinality(lucky)
    BY <1>2, <1>10, SumIndicator
  <1>18. SumFunction(After(room, n)) + SumFunction(one) = SumFunction(moved)
    <2> DEFINE now == After(room, n)
    <2>1. now \in [S -> Nat] /\ \A i \in S : now[i] + one[i] = moved[i]
      BY <1>5, <1>16
    <2> HIDE DEF now
    <2>2. SumFunction(now) + SumFunction(one) = SumFunction(moved)
      BY <2>1, <1>10, <1>11, SumPlus
    <2>3. QED
      BY <2>2 DEF now
  <1>19. SumFunction(moved) = moves
    BY <1>5, <1>14, <1>15, <1>17, <1>18 DEF left, done
  <1>20. QED
    BY <1>19 DEF moved, n

\* Sums are added pick by pick.
LEMMA AddedUp ==
  ASSUME NEW S, IsFiniteSet(S), NEW f, NEW g, NEW h,
         f \in [S -> Nat] /\ g \in [S -> Nat] /\ h \in [S -> Nat] /\ \A i \in S : f[i] + g[i] = h[i]
  PROVE  SumFunction(f) + SumFunction(g) = SumFunction(h)
  BY SumPlus

\* Auto-balance, pick by pick.
LEMMA Balanced ==
  ASSUME NEW list \in Lists
  PROVE  LET moved == Moved(Room(list), Turns(Room(list), Moves(list)), Moves(list))
         IN /\ moved \in [DOMAIN list -> Nat] /\ \A i \in DOMAIN list : moved[i] <= Room(list)[i]
            /\ DOMAIN AutoBalance(list) = DOMAIN list
            /\ \A i \in DOMAIN list :
                 AutoBalance(list)[i] =
                   [mint |-> list[i].mint,
                    pct  |-> IF Total(list) < 100 THEN list[i].pct + Unit(list) * moved[i]
                             ELSE list[i].pct - Unit(list) * moved[i]]
  <1> DEFINE moved == Moved(Room(list), Turns(Room(list), Moves(list)), Moves(list))
             S == DOMAIN list
             n == Turns(Room(list), Moves(list))
  <1>1. IsFiniteSet(S) /\ Room(list) \in [S -> Nat] /\ Moves(list) \in Nat
    BY ListFacts, RoomFacts, MovesFacts
  <1>2. n \in Nat
    <2>1. n \in 0 .. Moves(list)
      BY <1>1, TurnsFacts
    <2>2. QED
      BY <1>1, <2>1
  <1>3. moved \in [S -> Nat] /\ \A i \in S : moved[i] <= Room(list)[i]
    <2> HIDE DEF n, S
    <2>1. QED
      BY <1>1, <1>2, MovedInRoom DEF n
  <1>4. AutoBalance(list) =
          [i \in S |-> [list[i] EXCEPT !.pct = IF Total(list) < 100 THEN @ + Unit(list) * moved[i]
                                               ELSE @ - Unit(list) * moved[i]]]
    BY DEF AutoBalance
  <1>5. \A i \in S : list[i] \in Pick
    BY ListFacts
  <1> HIDE DEF moved, S
  <1>6. DOMAIN AutoBalance(list) = S
    BY <1>4
  <1>7. ASSUME NEW i \in S
        PROVE  AutoBalance(list)[i] =
                 [mint |-> list[i].mint,
                  pct  |-> IF Total(list) < 100 THEN list[i].pct + Unit(list) * moved[i]
                           ELSE list[i].pct - Unit(list) * moved[i]]
    <2>1. AutoBalance(list)[i] =
            [list[i] EXCEPT !.pct = IF Total(list) < 100 THEN @ + Unit(list) * moved[i]
                                    ELSE @ - Unit(list) * moved[i]]
      BY <1>4
    <2>2. QED
      BY <1>5, <2>1 DEF Pick
  <1>8. QED
    BY <1>3, <1>6, <1>7 DEF moved, S

\* Auto-balance keeps the stocks and leaves every share within the limits.
LEMMA BalanceType ==
  ASSUME NEW list \in Lists
  PROVE  /\ AutoBalance(list) \in Lists /\ Len(AutoBalance(list)) = Len(list)
         /\ \A i \in DOMAIN list : AutoBalance(list)[i].mint = list[i].mint
  <1> DEFINE moved == Moved(Room(list), Turns(Room(list), Moves(list)), Moves(list))
             new == AutoBalance(list)
             Pct(i) == IF Total(list) < 100 THEN list[i].pct + Unit(list) * moved[i]
                       ELSE list[i].pct - Unit(list) * moved[i]
  <1>1. /\ moved \in [DOMAIN list -> Nat] /\ \A i \in DOMAIN list : moved[i] <= Room(list)[i]
        /\ DOMAIN new = DOMAIN list
        /\ \A i \in DOMAIN list : new[i] = [mint |-> list[i].mint, pct |-> Pct(i)]
    BY Balanced
  <1>2. DOMAIN list = 1 .. Len(list) /\ Len(list) \in Nat
    BY ListFacts
  <1> HIDE DEF moved
  <1>3. ASSUME NEW i \in DOMAIN list
        PROVE  Pct(i) \in MinPct .. MaxPct
    <2>1. Unit(list) \in {1, 5} /\ moved[i] \in Nat /\ Room(list)[i] \in Nat /\ moved[i] <= Room(list)[i]
      BY <1>1, UnitCases, RoomFacts
    <2>2. list[i].pct \in Nat /\ MinPct <= list[i].pct /\ list[i].pct <= MaxPct
      BY ListFacts
    <2>3. Unit(list) * Room(list)[i] = IF Total(list) < 100 THEN MaxPct - list[i].pct ELSE list[i].pct - MinPct
      BY RoomFacts
    <2>4. QED
      BY <2>1, <2>2, <2>3, Rules
  <1>4. \A i \in DOMAIN list : new[i] \in Pick /\ new[i].mint = list[i].mint
    <2> HIDE DEF new, Pct
    <2>1. \A i \in DOMAIN list : list[i].mint \in Mints
      BY ListFacts
    <2>2. QED
      BY <1>1, <1>3, <2>1 DEF Pick
  <1>5. new = [i \in 1 .. Len(list) |-> new[i]]
    BY <1>1, <1>2 DEF AutoBalance
  <1> HIDE DEF new
  <1>6. new \in Seq(Pick) /\ Len(new) = Len(list)
    BY <1>2, <1>4, <1>5
  <1>7. QED
    BY <1>4, <1>6 DEF Lists, new

\* A product is no smaller for a larger factor.
LEMMA ProductGrows ==
  ASSUME NEW a \in Nat, NEW b \in Nat, NEW c \in Nat, a <= b
  PROVE  c * a <= c * b
  OBVIOUS

\* A permitted number of stocks has room enough to reach 100%.
LEMMA RoomEnough ==
  ASSUME NEW list \in Lists, Len(list) \in MinPicks .. MaxPicks
  PROVE  Moves(list) <= SumFunction(Room(list))
  <1> DEFINE S     == DOMAIN list
             unit  == Unit(list)
             room  == Room(list)
             share == Shares(list)
             ones  == [i \in S |-> 1]
             steps == [i \in S |-> unit * room[i]]
             full  == [i \in S |-> MaxPct]
             least == [i \in S |-> MinPct]
  <1>1. IsFiniteSet(S) /\ Cardinality(S) = Len(list) /\ Len(list) \in Nat
    BY ListFacts
  <1>2. unit \in Nat /\ unit \in {1, 5}
    BY UnitCases
  <1>3. room \in [S -> Nat] /\ share \in [S -> Nat] /\ Total(list) = SumFunction(share) /\ Total(list) \in Nat
    BY ListFacts, RoomFacts
  <1>4. ones \in [S -> Nat] /\ full \in [S -> Nat] /\ least \in [S -> Nat]
    BY Rules
  <1>5. steps \in [S -> Nat]
    <2> HIDE DEF unit, room, S
    <2>1. \A i \in S : unit * room[i] \in Nat
      BY <1>2, <1>3
    <2>2. QED
      BY <2>1
  <1>6. /\ \A i \in S : ones[i] = IF i \in S THEN 1 ELSE 0
        /\ \A i \in S : steps[i] = unit * room[i]
        /\ \A i \in S : full[i] = MaxPct * ones[i]
        /\ \A i \in S : least[i] = MinPct * ones[i]
    BY Rules
  <1>7. \A i \in S : IF Total(list) < 100 THEN share[i] + steps[i] = full[i] ELSE least[i] + steps[i] = share[i]
    <2> SUFFICES ASSUME NEW i \in S
                 PROVE  IF Total(list) < 100 THEN share[i] + steps[i] = full[i] ELSE least[i] + steps[i] = share[i]
      OBVIOUS
    <2>1. /\ steps[i] = IF Total(list) < 100 THEN MaxPct - list[i].pct ELSE list[i].pct - MinPct
          /\ list[i].pct \in Nat
      BY RoomFacts, ListFacts
    <2>2. share[i] = list[i].pct /\ full[i] = MaxPct /\ least[i] = MinPct
      BY DEF Shares
    <2> HIDE DEF steps, share, full, least, S
    <2>3. QED
      BY <2>1, <2>2, Rules
  <1> HIDE DEF S, unit, room, share, ones, steps, full, least
  <1>8. SumFunction(ones) = Len(list)
    BY <1>1, <1>4, <1>6, SumIndicator
  <1>9. SumFunction(room) \in Nat /\ SumFunction(steps) = unit * SumFunction(room)
    <2>1. IsFiniteSet(S) /\ unit \in Nat /\ room \in [S -> Nat]
      BY <1>1, <1>2, <1>3
    <2>2. \A i \in S : steps[i] = unit * room[i]
      BY <1>6
    <2>3. SumFunction(steps) = unit * SumFunction(room)
      BY <1>5, <2>1, <2>2, SumTimes
    <2>4. SumFunction(room) \in Nat
      BY <2>1, SumType
    <2>5. QED
      BY <2>3, <2>4
  <1>10. SumFunction(full) = MaxPct * Len(list) /\ SumFunction(least) = MinPct * Len(list)
    <2>1. IsFiniteSet(S) /\ MinPct \in Nat /\ MaxPct \in Nat
      BY <1>1, Rules
    <2>2. \A i \in S : full[i] = MaxPct * ones[i]
      BY <1>6
    <2>3. \A i \in S : least[i] = MinPct * ones[i]
      BY <1>6
    <2>4. SumFunction(full) = MaxPct * SumFunction(ones)
      BY <1>4, <2>1, <2>2, SumTimes
    <2>5. SumFunction(least) = MinPct * SumFunction(ones)
      BY <1>4, <2>1, <2>3, SumTimes
    <2>6. QED
      BY <1>8, <2>4, <2>5
  <1>11. unit * Moves(list) = (IF Total(list) < 100 THEN 100 - Total(list) ELSE Total(list) - 100) /\ Moves(list) \in Nat
    BY MovesFacts DEF unit
  <1>12. MaxPct * Len(list) \in Nat /\ MaxPct * Len(list) >= 100
    <2>1. MaxPct * MinPicks <= MaxPct * Len(list)
      BY <1>1, Rules, ProductGrows
    <2>2. MaxPct * MinPicks = MinPicks * MaxPct /\ MinPicks * MaxPct >= 100
      BY Rules, RulesAssumption
    <2>3. MaxPct * MinPicks \in Nat /\ MaxPct * Len(list) \in Nat
      BY <1>1, Rules
    <2>4. QED
      BY <2>1, <2>2, <2>3
  <1>13. MinPct * Len(list) \in Nat /\ MinPct * Len(list) <= 100
    <2>1. MinPct * Len(list) <= MinPct * MaxPicks
      BY <1>1, Rules, ProductGrows
    <2>2. MinPct * MaxPicks = MaxPicks * MinPct /\ MaxPicks * MinPct <= 100
      BY Rules, RulesAssumption
    <2>3. MinPct * MaxPicks \in Nat /\ MinPct * Len(list) \in Nat
      BY <1>1, Rules
    <2>4. QED
      BY <2>1, <2>2, <2>3
  <1>14. unit * Moves(list) <= SumFunction(steps)
    <2>1. CASE Total(list) < 100
      <3>1. SumFunction(share) + SumFunction(steps) = SumFunction(full)
        <4>1. \A i \in S : share[i] + steps[i] = full[i]
          BY <1>7, <2>1
        <4>2. IsFiniteSet(S)
          BY <1>1
        <4>3. share \in [S -> Nat] /\ steps \in [S -> Nat] /\ full \in [S -> Nat] /\ \A i \in S : share[i] + steps[i] = full[i]
          BY <1>3, <1>4, <1>5, <4>1
        <4>4. QED
          BY <4>2, <4>3, SumPlus, SMTT(30)
      <3>2. SumFunction(steps) \in Nat
        BY <1>1, <1>5, SumType
      <3>3. QED
        BY <1>3, <1>10, <1>11, <1>12, <2>1, <3>1, <3>2
    <2>2. CASE ~(Total(list) < 100)
      <3>1. SumFunction(least) + SumFunction(steps) = SumFunction(share)
        <4>1. \A i \in S : least[i] + steps[i] = share[i]
          BY <1>7, <2>2
        <4>2. IsFiniteSet(S)
          BY <1>1
        <4>3. share \in [S -> Nat] /\ steps \in [S -> Nat] /\ least \in [S -> Nat] /\ \A i \in S : least[i] + steps[i] = share[i]
          BY <1>3, <1>4, <1>5, <4>1
        <4>4. QED
          BY <4>2, <4>3, SumPlus, SMTT(30)
      <3>2. SumFunction(steps) \in Nat
        BY <1>1, <1>5, SumType
      <3>3. QED
        BY <1>3, <1>10, <1>11, <1>13, <2>2, <3>1, <3>2
    <2>3. QED
      BY <2>1, <2>2
  <1>15. QED
    BY <1>2, <1>9, <1>11, <1>14 DEF room

\* Auto-balance reaches 100%.
LEMMA BalanceIs100 ==
  ASSUME NEW list \in Lists, Len(list) \in MinPicks .. MaxPicks
  PROVE  Total(AutoBalance(list)) = 100
  <1> DEFINE S     == DOMAIN list
             unit  == Unit(list)
             room  == Room(list)
             moves == Moves(list)
             moved == Moved(room, Turns(room, moves), moves)
             new   == AutoBalance(list)
             share == Shares(list)
             after == Shares(new)
             steps == [i \in S |-> unit * moved[i]]
  <1>1. IsFiniteSet(S)
    BY ListFacts
  <1>2. unit \in Nat /\ unit \in {1, 5}
    BY UnitCases
  <1>3. share \in [S -> Nat] /\ Total(list) = SumFunction(share) /\ Total(list) \in Nat
    BY ListFacts
  <1>4. new \in Lists /\ DOMAIN new = S
    BY BalanceType, Balanced
  <1>5. after \in [S -> Nat] /\ Total(new) = SumFunction(after) /\ Total(new) \in Nat
    <2> HIDE DEF new, S
    <2>1. QED
      BY <1>4, ListFacts
  <1>6. moved \in [S -> Nat]
    BY Balanced
  <1>7. \A i \in S : after[i] = IF Total(list) < 100 THEN share[i] + unit * moved[i] ELSE share[i] - unit * moved[i]
    <2>1. \A i \in S : new[i].pct = IF Total(list) < 100 THEN list[i].pct + unit * moved[i]
                                     ELSE list[i].pct - unit * moved[i]
      <3>1. \A i \in S : new[i] = [mint |-> list[i].mint,
                                   pct  |-> IF Total(list) < 100 THEN list[i].pct + unit * moved[i]
                                            ELSE list[i].pct - unit * moved[i]]
        BY Balanced
      <3> HIDE DEF new, S, unit, moved
      <3>2. ASSUME NEW i \in S, NEW a, NEW b, new[i] = [mint |-> a, pct |-> b] PROVE new[i].pct = b
        BY <3>2
      <3>3. QED
        BY <3>1, <3>2, ZenonT(20)
    <2>2. \A i \in S : after[i] = new[i].pct /\ share[i] = list[i].pct
      BY <1>4 DEF Shares
    <2>3. QED
      BY <2>1, <2>2
  <1>8. SumFunction(moved) = moves
    <2>1. moves <= SumFunction(room) /\ room \in [S -> Nat] /\ moves \in Nat
      BY RoomEnough, RoomFacts, MovesFacts
    <2>2. \A i \in S : i \in Nat
      <3>1. S = 1 .. Len(list)
        BY ListFacts
      <3>2. QED
        BY <3>1
    <2> HIDE DEF S, room, moves
    <2>3. QED
      BY <1>1, <2>1, <2>2, AllMovesAreMade
  <1>9. unit * moves = (IF Total(list) < 100 THEN 100 - Total(list) ELSE Total(list) - 100) /\ moves \in Nat
    BY MovesFacts
  <1> HIDE DEF moved, after, share, new, room, moves, unit, S
  <1>10. steps \in [S -> Nat] /\ \A i \in S : steps[i] = unit * moved[i]
    <2>1. \A i \in S : unit * moved[i] \in Nat
      BY <1>2, <1>6
    <2>2. QED
      BY <2>1
  <1> HIDE DEF steps
  <1>11. SumFunction(steps) = unit * moves
    <2>1. unit \in Nat
      BY <1>2
    <2>2. SumFunction(steps) = unit * SumFunction(moved)
      BY <1>1, <1>6, <1>10, <2>1, SumTimes
    <2>3. QED
      BY <1>8, <2>2
  <1>12. CASE Total(list) < 100
    <2>1. \A i \in S : share[i] + steps[i] = after[i]
      BY <1>7, <1>10, <1>12
    <2>2. SumFunction(share) + SumFunction(steps) = SumFunction(after)
      <3>1. share \in [S -> Nat] /\ after \in [S -> Nat] /\ steps \in [S -> Nat]
        BY <1>3, <1>5, <1>10
      <3>2. QED
        BY <1>1, <2>1, <3>1, SumPlus
    <2>3. QED
      BY <1>3, <1>5, <1>9, <1>11, <1>12, <2>2 DEF new
  <1>13. CASE ~(Total(list) < 100)
    <2>1. \A i \in S : after[i] + steps[i] = share[i]
      <3>1. \A i \in S : share[i] \in Nat /\ steps[i] \in Nat
        BY <1>3, <1>10
      <3>2. QED
        BY <1>7, <1>10, <1>13, <3>1
    <2>2. SumFunction(after) + SumFunction(steps) = SumFunction(share)
      <3>1. share \in [S -> Nat] /\ after \in [S -> Nat] /\ steps \in [S -> Nat]
        BY <1>3, <1>5, <1>10
      <3>2. QED
        BY <1>1, <2>1, <3>1, AddedUp
    <2>3. QED
      BY <1>3, <1>5, <1>9, <1>11, <1>13, <2>2 DEF new
  <1>14. QED
    BY <1>12, <1>13

-----------------------------------------------------------------------------
(* Suggestions.                                                            *)

\* A list is one of picks when its entries are.
LEMMA MadeOfPicks ==
  ASSUME NEW k \in Nat, NEW list, list = [i \in 1 .. k |-> list[i]], \A i \in 1 .. k : list[i] \in Pick
  PROVE  list \in Lists /\ Len(list) = k /\ DOMAIN list = 1 .. k
  BY DEF Lists

\* evenSplit gives picks within the limits.
LEMMA SplitType ==
  ASSUME NEW mints \in Seq(Mints)
  PROVE  EvenSplit(mints) \in Lists
  <1>1. CASE mints = <<>>
    BY <1>1 DEF EvenSplit, Lists
  <1>2. CASE mints # <<>>
    <2> DEFINE base == Clamp(((100 \div Len(mints)) \div STEP) * STEP, MinPct, MaxPct)
               even == [i \in DOMAIN mints |-> [mint |-> mints[i], pct |-> base]]
    <2>1. Len(mints) \in Nat /\ Len(mints) > 0 /\ DOMAIN mints = 1 .. Len(mints)
      BY <1>2
    <2>2. base \in MinPct .. MaxPct
      <3>1. 100 \div Len(mints) \in Int
        BY <2>1
      <3>2. ((100 \div Len(mints)) \div STEP) * STEP \in Int
        BY <3>1 DEF STEP
      <3>3. \A n \in Int : Clamp(n, MinPct, MaxPct) \in MinPct .. MaxPct
        BY Rules DEF Clamp, Min2
      <3>4. QED
        BY <3>2, <3>3
    <2> HIDE DEF base
    <2>3. \A i \in DOMAIN mints : even[i] \in Pick
      BY <2>2 DEF Pick
    <2>4. even = [i \in 1 .. Len(mints) |-> even[i]]
      BY <2>1
    <2> HIDE DEF even
    <2>5. even \in Lists
      BY <2>1, <2>3, <2>4, MadeOfPicks
    <2>6. AutoBalance(even) \in Lists
      BY <2>5, BalanceType
    <2>7. EvenSplit(mints) = AutoBalance(even)
      BY <1>2 DEF EvenSplit, even, base
    <2>8. QED
      BY <2>6, <2>7
  <1>3. QED
    BY <1>1, <1>2

\* So does every suggestion.
LEMMA DefaultType ==
  ASSUME NEW top \in Tops \cup {<<>>}
  PROVE  DefaultBasket[top] \in Lists
  <1> DEFINE size == Min2(DefaultSize, Len(top))
             best == SubSeq(top, 1, size)
  <1>1. top \in Seq(Mints)
    <2>1. CASE top = <<>>
      BY <2>1
    <2>2. CASE top \in Tops
      <3>1. top \in Seq(Nat)
        BY <2>2, TopsAssumption
      <3>2. top = [i \in 1 .. Len(top) |-> top[i]] /\ Len(top) \in Nat
        BY <3>1
      <3>3. \A i \in 1 .. Len(top) : top[i] \in Mints
        BY <2>2, <3>1 DEF Mints, ToSet
      <3>4. QED
        BY <3>2, <3>3
    <2>3. QED
      BY <2>1, <2>2
  <1>2. Len(top) \in Nat /\ size \in 0 .. Len(top)
    BY <1>1, Rules DEF Min2
  <1>3. best \in Seq(Mints)
    <2> HIDE DEF size
    <2>1. QED
      BY <1>1, <1>2, SubSeqProperties
  <1>4. DefaultBasket[top] = EvenSplit(best)
    BY DEF DefaultBasket
  <1> HIDE DEF best
  <1>5. QED
    BY <1>3, <1>4, SplitType

-----------------------------------------------------------------------------
(* The rules.                                                              *)

\* A list is found good when there are enough picks, none is bad, and they add up.
LEMMA JudgedOk ==
  ASSUME NEW list \in Lists, NEW codes
  PROVE  Judge(list, codes) = "ok" <=>
           /\ Len(list) \in MinPicks .. MaxPicks
           /\ \A i \in DOMAIN list : codes[i] = "ok"
           /\ Total(list) = 100
  <1> DEFINE bad == {i \in DOMAIN list : codes[i] # "ok"}
             first == CHOOSE i \in bad : \A j \in bad : i <= j
  <1>1. bad # {} => first \in bad
    <2>1. bad \in SUBSET Nat
      <3>1. DOMAIN list = 1 .. Len(list)
        BY ListFacts
      <3>2. QED
        BY <3>1
    <2> HIDE DEF bad
    <2>2. bad # {} => \E i \in bad : \A j \in bad : i <= j
      BY <2>1, LeastNumber
    <2>3. QED
      BY <2>2
  <1>2. Judge(list, codes) =
          CASE Len(list) \notin MinPicks .. MaxPicks -> "count"
            [] Len(list) \in MinPicks .. MaxPicks /\ bad # {} -> codes[first]
            [] OTHER -> IF Total(list) = 100 THEN "ok" ELSE "sum"
    BY DEF Judge
  <1>3. bad = {} <=> \A i \in DOMAIN list : codes[i] = "ok"
    OBVIOUS
  <1>4. first \in bad => codes[first] # "ok"
    OBVIOUS
  <1> HIDE DEF bad, first
  <1>5. QED
    BY <1>1, <1>2, <1>3, <1>4

\* A list of picks repeats no stock when its stocks are all different.
LEMMA NoneRepeated ==
  ASSUME NEW list \in Lists
  PROVE  IsInjective([i \in DOMAIN list |-> list[i].mint]) <=> \A i \in DOMAIN list : ~Repeated(list, i)
  <1>1. DOMAIN list = 1 .. Len(list) /\ Len(list) \in Nat
    BY ListFacts
  <1>2. IsInjective([i \in DOMAIN list |-> list[i].mint])
          <=> \A i, j \in DOMAIN list : list[i].mint = list[j].mint => i = j
    BY DEF IsInjective
  <1>3. ASSUME \A i, j \in DOMAIN list : list[i].mint = list[j].mint => i = j, NEW i \in DOMAIN list
        PROVE  ~Repeated(list, i)
    BY <1>1, <1>3 DEF Repeated
  <1>4. ASSUME \A i \in DOMAIN list : ~Repeated(list, i), NEW i \in DOMAIN list, NEW j \in DOMAIN list,
               list[i].mint = list[j].mint
        PROVE  i = j
    <2>1. ~(i < j)
      BY <1>1, <1>4 DEF Repeated
    <2>2. ~(j < i)
      BY <1>1, <1>4 DEF Repeated
    <2>3. QED
      BY <1>1, <2>1, <2>2
  <1>5. QED
    BY <1>2, <1>3, <1>4

\* Every share of a list of picks is within the limits.
LEMMA InRange ==
  ASSUME NEW list \in Lists
  PROVE  /\ \A i \in DOMAIN list : ~OutOfRange(list[i])
         /\ \A p \in ToSet(list) : p.pct \in MinPct .. MaxPct
         /\ \A top : MintsOf(list) \subseteq top <=> \A i \in DOMAIN list : list[i].mint \in top
  <1>1. \A i \in DOMAIN list : list[i].pct \in MinPct .. MaxPct
    BY ListFacts, Rules
  <1>2. ToSet(list) = {list[i] : i \in DOMAIN list}
    BY ListFacts DEF ToSet
  <1>3. MintsOf(list) = {list[i].mint : i \in DOMAIN list}
    BY <1>2 DEF MintsOf
  <1>4. QED
    BY <1>1, <1>2, <1>3 DEF OutOfRange

\* validatePicks accepts the baskets of the list, and nothing else.
LEMMA PicksJudged ==
  ASSUME NEW list \in Lists, NEW top
  PROVE  ValidatePicks(list, top) = "ok" <=> IsABasket(list) /\ MintsOf(list) \subseteq ToSet(top)
  <1> DEFINE codes == [i \in DOMAIN list |->
               CASE OutOfRange(list[i]) -> "range"
                 [] ~OutOfRange(list[i]) /\ list[i].mint \notin ToSet(top) -> "not_in_universe"
                 [] OTHER -> IF Repeated(list, i) THEN "duplicate" ELSE "ok"]
  <1>1. ValidatePicks(list, top) = Judge(list, codes)
    BY DEF ValidatePicks
  <1>2. \A i \in DOMAIN list : codes[i] = "ok" <=> list[i].mint \in ToSet(top) /\ ~Repeated(list, i)
    BY InRange
  <1> HIDE DEF codes
  <1>3. ValidatePicks(list, top) = "ok" <=>
          /\ Len(list) \in MinPicks .. MaxPicks /\ Total(list) = 100
          /\ \A i \in DOMAIN list : list[i].mint \in ToSet(top) /\ ~Repeated(list, i)
    BY <1>1, <1>2, JudgedOk
  <1>4. MintsOf(list) \subseteq ToSet(top) <=> \A i \in DOMAIN list : list[i].mint \in ToSet(top)
    BY InRange
  <1>5. IsABasket(list) <=>
          /\ Len(list) \in MinPicks .. MaxPicks /\ Total(list) = 100
          /\ \A i \in DOMAIN list : ~Repeated(list, i)
    <2>1. \A p \in ToSet(list) : p.pct \in MinPct .. MaxPct
      BY InRange
    <2>2. QED
      BY <2>1, NoneRepeated DEF IsABasket
  <1>6. QED
    BY <1>3, <1>4, <1>5

\* What the page finds good is a basket, and one of the list it knows.
LEMMA BasketJudged ==
  ASSUME NEW list \in Lists, ValidateBasket(list) = "ok"
  PROVE  IsABasket(list) /\ (UniverseKnown => MintsOf(list) \subseteq ToSet(uni))
  <1> DEFINE codes == [i \in DOMAIN list |->
               CASE Repeated(list, i) -> "duplicate"
                 [] ~Repeated(list, i) /\ UniverseKnown /\ list[i].mint \notin ToSet(uni) -> "not_in_universe"
                 [] OTHER -> IF OutOfRange(list[i]) THEN "range" ELSE "ok"]
  <1>1. ValidateBasket(list) = Judge(list, codes)
    BY DEF ValidateBasket
  <1>2. \A i \in DOMAIN list : codes[i] = "ok" =>
          ~Repeated(list, i) /\ (UniverseKnown => list[i].mint \in ToSet(uni))
    OBVIOUS
  <1> HIDE DEF codes
  <1>3. /\ Len(list) \in MinPicks .. MaxPicks /\ Total(list) = 100
        /\ \A i \in DOMAIN list : ~Repeated(list, i) /\ (UniverseKnown => list[i].mint \in ToSet(uni))
    BY <1>1, <1>2, JudgedOk
  <1>4. MintsOf(list) \subseteq ToSet(uni) <=> \A i \in DOMAIN list : list[i].mint \in ToSet(uni)
    BY InRange
  <1>5. \A p \in ToSet(list) : p.pct \in MinPct .. MaxPct
    BY InRange
  <1>6. IsABasket(list)
    BY <1>3, <1>5, NoneRepeated DEF IsABasket
  <1>7. QED
    BY <1>3, <1>4, <1>6

-----------------------------------------------------------------------------
(* Sorting.                                                                *)

\* When the stocks are all different, the picks before each are a linear order.
LEMMA AheadIsLinear ==
  ASSUME NEW list \in Lists, \A i, j \in DOMAIN list : list[i].mint = list[j].mint => i = j
  PROVE  Linear(DOMAIN list, [i \in DOMAIN list |-> Ahead(list, i)])
  <1> DEFINE S      == DOMAIN list
             Before == [i \in S |-> Ahead(list, i)]
  <1>1. \A i \in S : list[i].pct \in Nat /\ list[i].mint \in Nat
    <2>1. Mints \subseteq Nat
      BY TopsAssumption DEF Mints, ToSet
    <2>2. QED
      BY <2>1, ListFacts
  <1>2. \A i \in S : \A j \in S : i \in Before[j] <=>
          list[i].pct > list[j].pct \/ (list[i].pct = list[j].pct /\ list[i].mint < list[j].mint)
    BY DEF Ahead, ComparePicks
  <1>3. Before \in [S -> SUBSET S]
    BY DEF Ahead
  <1>4. \A i \in S : Before[i] \subseteq S
    BY <1>3
  <1> HIDE DEF Before
  <1>5. \A i \in S : i \notin Before[i]
    BY <1>1, <1>2
  <1>6. ASSUME NEW i \in S, NEW j \in Before[i]
        PROVE  Before[j] \subseteq Before[i]
    <2> SUFFICES ASSUME NEW l \in Before[j] PROVE l \in Before[i]
      OBVIOUS
    <2>1. j \in S /\ l \in S
      BY <1>4
    <2>2. QED
      BY <1>1, <1>2, <2>1
  <1>7. \A i \in S : \A j \in S : i # j => i \in Before[j] \/ j \in Before[i]
    <2> SUFFICES ASSUME NEW i \in S, NEW j \in S, i # j PROVE i \in Before[j] \/ j \in Before[i]
      OBVIOUS
    <2>1. list[i].mint # list[j].mint
      OBVIOUS
    <2>2. QED
      BY <1>1, <1>2, <2>1
  <1>8. Linear(S, Before)
    BY <1>3, <1>5, <1>6, <1>7 DEF Linear
  <1>9. QED
    BY <1>8 DEF Before

\* normalisePicks puts the picks in another order, and loses none.
LEMMA SortedBy ==
  ASSUME NEW list \in Lists, \A i, j \in DOMAIN list : list[i].mint = list[j].mint => i = j
  PROVE  \E p \in [DOMAIN list -> DOMAIN list] :
           /\ SortPicks(list) = [n \in DOMAIN list |-> list[p[n]]]
           /\ \A i \in DOMAIN list : \E n \in DOMAIN list : p[n] = i
           /\ \A n, m \in DOMAIN list : p[n] = p[m] => n = m
  <1> DEFINE S      == DOMAIN list
             Before == [i \in S |-> Ahead(list, i)]
             Place(i) == Cardinality(Ahead(list, i))
             p      == [n \in S |-> CHOOSE i \in S : Place(i) = n - 1]
  <1>1. S = 1 .. Len(list) /\ Len(list) \in Nat /\ IsFiniteSet(S) /\ Cardinality(S) = Len(list)
    BY ListFacts
  <1>2. Linear(S, Before)
    BY AheadIsLinear
  <1>3. \A i \in S : Place(i) = Cardinality(Before[i])
    OBVIOUS
  <1> HIDE DEF Before, Place, S
  <1>4. /\ \A i \in S : Cardinality(Before[i]) \in 0 .. Len(list) - 1
        /\ \A i \in S : \A j \in Before[i] : Cardinality(Before[j]) < Cardinality(Before[i])
    <2>1. /\ \A i \in S : Cardinality(Before[i]) \in 0 .. Cardinality(S) - 1
          /\ \A i \in S : \A j \in Before[i] : Cardinality(Before[j]) < Cardinality(Before[i])
      BY <1>1, <1>2, FewerBefore
    <2>2. QED
      BY <1>1, <2>1
  <1>5. \A i \in S : \A j \in S : Place(i) = Place(j) => i = j
    <2> SUFFICES ASSUME NEW i \in S, NEW j \in S, Place(i) = Place(j), i # j PROVE FALSE
      OBVIOUS
    <2>1. i \in Before[j] \/ j \in Before[i]
      BY <1>2 DEF Linear
    <2>2. Place(i) < Place(j) \/ Place(j) < Place(i)
      BY <1>3, <1>4, <2>1
    <2>3. Place(i) \in Nat /\ Place(j) \in Nat
      BY <1>1, <1>3, <1>4
    <2>4. QED
      BY <2>2, <2>3
  <1>6. ASSUME NEW n \in S
        PROVE  \E i \in S : Place(i) = n - 1
    <2> DEFINE Below(k) == {i \in S : Cardinality(Before[i]) < k}
    <2>1. n \in Nat /\ n \in 0 .. Cardinality(S) /\ n - 1 \in 0 .. Cardinality(S)
      BY <1>1
    <2>2. Cardinality(Below(n)) = n
      BY <1>1, <1>2, <2>1, FirstAreMany
    <2>3. Cardinality(Below(n - 1)) = n - 1
      BY <1>1, <1>2, <2>1, FirstAreMany
    <2>4. Below(n) # Below(n - 1)
      <3> HIDE DEF Below
      <3>1. QED
        BY <2>1, <2>2, <2>3
    <2>5. \A i \in S : Cardinality(Before[i]) \in Nat
      BY <1>1, <1>4
    <2>6. PICK i \in S : ~(Cardinality(Before[i]) < n <=> Cardinality(Before[i]) < n - 1)
      BY <2>4
    <2>7. Place(i) = n - 1
      BY <1>3, <2>1, <2>5, <2>6
    <2>8. QED
      BY <2>7
  <1>7. \A n \in S : p[n] \in S /\ Place(p[n]) = n - 1
    BY <1>6
  <1>8. p \in [S -> S]
    BY <1>7
  <1>9. SortPicks(list) = [n \in S |-> list[p[n]]]
    BY DEF SortPicks, S, Place
  <1> HIDE DEF p
  <1>10. ASSUME NEW i \in S
         PROVE  \E n \in S : p[n] = i
    <2>1. Place(i) \in 0 .. Len(list) - 1
      BY <1>3, <1>4
    <2>2. Place(i) + 1 \in S /\ (Place(i) + 1) - 1 = Place(i)
      BY <1>1, <2>1
    <2>3. p[Place(i) + 1] \in S /\ Place(p[Place(i) + 1]) = Place(i)
      BY <1>7, <2>2
    <2>4. p[Place(i) + 1] = i
      BY <1>5, <2>3
    <2>5. QED
      BY <2>2, <2>4
  <1>11. \A n, m \in S : p[n] = p[m] => n = m
    <2> SUFFICES ASSUME NEW n \in S, NEW m \in S, p[n] = p[m] PROVE n = m
      OBVIOUS
    <2>1. n - 1 = m - 1
      BY <1>7
    <2>2. n \in Nat /\ m \in Nat
      BY <1>1
    <2>3. QED
      BY <2>1, <2>2
  <1>12. QED
    BY <1>8, <1>9, <1>10, <1>11 DEF S

\* A basket that is sorted is still a basket.
LEMMA SortedBasket ==
  ASSUME NEW list \in Lists, IsABasket(list)
  PROVE  SortPicks(list) \in Lists /\ IsABasket(SortPicks(list))
  <1> DEFINE S      == DOMAIN list
             sorted == SortPicks(list)
  <1>1. S = 1 .. Len(list) /\ Len(list) \in Nat /\ IsFiniteSet(S) /\ \A i \in S : list[i] \in Pick
    BY ListFacts
  <1>2. \A i, j \in S : list[i].mint = list[j].mint => i = j
    BY DEF IsABasket, IsInjective
  <1>3. PICK p \in [S -> S] :
          /\ sorted = [n \in S |-> list[p[n]]]
          /\ \A i \in S : \E n \in S : p[n] = i
          /\ \A n, m \in S : p[n] = p[m] => n = m
    BY <1>2, SortedBy
  <1>4. sorted \in Lists /\ Len(sorted) = Len(list) /\ DOMAIN sorted = S
    <2>1. sorted = [n \in 1 .. Len(list) |-> sorted[n]]
      BY <1>1, <1>3
    <2>2. \A n \in 1 .. Len(list) : sorted[n] \in Pick
      BY <1>1, <1>3
    <2> HIDE DEF sorted, S
    <2>3. QED
      BY <1>1, <2>1, <2>2, MadeOfPicks
  <1>5. Total(sorted) = Total(list)
    <2> DEFINE f == Shares(list)
               g == Shares(sorted)
    <2>1. f \in [S -> Nat] /\ Total(list) = SumFunction(f)
      BY ListFacts
    <2> HIDE DEF sorted
    <2>2. g \in [S -> Nat] /\ Total(sorted) = SumFunction(g)
      BY <1>4, ListFacts
    <2>3. \A n \in S : g[n] = f[p[n]]
      BY <1>3, <1>4 DEF Shares
    <2> HIDE DEF f, g, S
    <2>4. IsFiniteSet(S) /\ p \in [S -> S] /\ f \in [S -> Nat] /\ g \in [S -> Nat]
      BY <1>1, <2>1, <2>2
    <2>5. \A i \in S : \E n \in S : p[n] = i
      BY <1>3
    <2>6. \A n \in S : \A m \in S : p[n] = p[m] => n = m
      BY <1>3
    <2>7. SumFunction(g) = SumFunction(f)
      BY <2>3, <2>4, <2>5, <2>6, SumPermuted, SMTT(30)
    <2>8. QED
      BY <2>1, <2>2, <2>7
  <1>6. IsInjective([n \in DOMAIN sorted |-> sorted[n].mint])
    <2>1. \A n, m \in S : sorted[n].mint = sorted[m].mint => n = m
      BY <1>2, <1>3
    <2> HIDE DEF sorted
    <2>2. QED
      BY <1>4, <2>1 DEF IsInjective
  <1> HIDE DEF sorted
  <1>7. \A q \in ToSet(sorted) : q.pct \in MinPct .. MaxPct
    BY <1>4, InRange
  <1>8. IsABasket(sorted)
    BY <1>4, <1>5, <1>6, <1>7 DEF IsABasket
  <1>9. QED
    BY <1>4, <1>8 DEF sorted

-----------------------------------------------------------------------------
(* Types.                                                                  *)

\* Adding, removing and sliding a pick leaves a list of picks.
LEMMA EditedLists ==
  ASSUME NEW list \in Lists
  PROVE  /\ \A p \in Pick : Append(list, p) \in Lists
         /\ \A i \in DOMAIN list : RemoveAt(list, i) \in Lists
         /\ \A i \in DOMAIN list, pct \in MinPct .. MaxPct :
              /\ [list EXCEPT ![i].pct = pct] \in Lists
              /\ Len([list EXCEPT ![i].pct = pct]) = Len(list)
  <1>1. list \in Seq(Pick) /\ DOMAIN list = 1 .. Len(list) /\ Len(list) \in Nat
    BY ListFacts DEF Lists
  <1>2. \A p \in Pick : Append(list, p) \in Lists
    BY <1>1 DEF Lists
  <1>3. ASSUME NEW i \in DOMAIN list
        PROVE  RemoveAt(list, i) \in Lists
    <2>1. i \in 1 .. Len(list)
      BY <1>1
    <2>2. \A j \in 1 .. Len(list) : list[j] \in Pick
      BY <1>1
    <2>3. SubSeq(list, 1, i - 1) \in Seq(Pick)
      <3>1. \A j \in 1 .. i - 1 : list[j] \in Pick
        BY <1>1, <2>1, <2>2
      <3>2. 1 \in Int /\ i - 1 \in Int
        BY <2>1
      <3>3. QED
        BY <3>1, <3>2, SubSeqProperties
    <2>4. SubSeq(list, i + 1, Len(list)) \in Seq(Pick)
      <3>1. \A j \in i + 1 .. Len(list) : list[j] \in Pick
        BY <1>1, <2>1, <2>2
      <3>2. i + 1 \in Int /\ Len(list) \in Int
        BY <1>1, <2>1
      <3>3. QED
        BY <3>1, <3>2, SubSeqProperties
    <2>5. RemoveAt(list, i) = SubSeq(list, 1, i - 1) \o SubSeq(list, i + 1, Len(list))
      BY DEF RemoveAt
    <2>6. \A s, t \in Seq(Pick) : s \o t \in Seq(Pick)
      OBVIOUS
    <2>7. QED
      BY <2>3, <2>4, <2>5, <2>6 DEF Lists
  <1>4. ASSUME NEW i \in DOMAIN list, NEW pct \in MinPct .. MaxPct
        PROVE  /\ [list EXCEPT ![i].pct = pct] \in Lists
               /\ Len([list EXCEPT ![i].pct = pct]) = Len(list)
    <2> DEFINE new == [list EXCEPT ![i].pct = pct]
    <2>1. new = [j \in 1 .. Len(list) |-> new[j]]
      BY <1>1
    <2>2. \A j \in 1 .. Len(list) : new[j] \in Pick
      <3>1. \A q \in Pick : [q EXCEPT !.pct = pct] \in Pick
        BY DEF Pick
      <3>2. \A j \in 1 .. Len(list) : new[j] = IF j = i THEN [list[j] EXCEPT !.pct = pct] ELSE list[j]
        BY <1>1
      <3>3. QED
        BY <1>1, <3>1, <3>2
    <2> HIDE DEF new
    <2>3. new \in Lists /\ Len(new) = Len(list)
      BY <1>1, <2>1, <2>2, MadeOfPicks
    <2>4. QED
      BY <2>3 DEF new
  <1>5. QED
    BY <1>2, <1>3, <1>4

\* What a save in each of its states carries.
LEMMA SaveParts ==
  ASSUME NEW s \in Save
  PROVE  /\ s.at \in {"signer", "sign", "send"} =>
              s.checked \in Lists /\ s.seen \in SUBSET Mints /\ s.known \in BOOLEAN
         /\ s.at = "sign" => s.text \in SUBSET Pick /\ s.by \in {"own", "other"}
         /\ s.at = "send" => s.message \in Message \cup {None}
         /\ s.at = "put" => s.try \in 1 .. 2 /\ s.put \in Put
         /\ s.at = "put" => [s EXCEPT !.try = 2] = [at |-> "put", try |-> 2, put |-> s.put]
         /\ s.at = "answer" => s.picks \in Lists
         /\ s.at = "refused" => s.clean \in BOOLEAN
  BY DEF Save, Idle

\* The states a save is put into.
LEMMA SaveMade ==
  /\ Idle \in Save
  /\ \A c \in Lists, s \in SUBSET Mints, k \in BOOLEAN :
       [at |-> "signer", checked |-> c, seen |-> s, known |-> k] \in Save
  /\ \A c \in Lists, s \in SUBSET Mints, k \in BOOLEAN, t \in SUBSET Pick, b \in {"own", "other"} :
       [at |-> "sign", checked |-> c, seen |-> s, known |-> k, text |-> t, by |-> b] \in Save
  /\ \A c \in Lists, s \in SUBSET Mints, k \in BOOLEAN, m \in Message \cup {None} :
       [at |-> "send", checked |-> c, seen |-> s, known |-> k, message |-> m] \in Save
  /\ \A n \in 1 .. 2, p \in Put : [at |-> "put", try |-> n, put |-> p] \in Save
  /\ \A l \in Lists : [at |-> "answer", picks |-> l] \in Save
  /\ \A c \in Codes, k \in BOOLEAN : Refused(c, k) \in Save
  <1>1. Idle \in Save
    BY DEF Save
  <1>2. \A c \in Lists, s \in SUBSET Mints, k \in BOOLEAN :
          [at |-> "signer", checked |-> c, seen |-> s, known |-> k] \in Save
    BY DEF Save
  <1>3. \A c \in Lists, s \in SUBSET Mints, k \in BOOLEAN, t \in SUBSET Pick, b \in {"own", "other"} :
          [at |-> "sign", checked |-> c, seen |-> s, known |-> k, text |-> t, by |-> b] \in Save
    BY DEF Save
  <1>4. \A c \in Lists, s \in SUBSET Mints, k \in BOOLEAN, m \in Message \cup {None} :
          [at |-> "send", checked |-> c, seen |-> s, known |-> k, message |-> m] \in Save
    BY DEF Save
  <1>5. \A n \in 1 .. 2, p \in Put : [at |-> "put", try |-> n, put |-> p] \in Save
    BY DEF Save
  <1>6. \A l \in Lists : [at |-> "answer", picks |-> l] \in Save
    BY DEF Save
  <1>7. \A c \in Codes, k \in BOOLEAN : Refused(c, k) \in Save
    BY DEF Save, Refused
  <1>8. QED
    BY <1>1, <1>2, <1>3, <1>4, <1>5, <1>6, <1>7

\* A complaint is a word.
LEMMA ComplaintType ==
  ASSUME NEW list \in Lists, NEW top
  PROVE  ValidatePicks(list, top) \in Codes
  <1> DEFINE codes == [i \in DOMAIN list |->
               CASE OutOfRange(list[i]) -> "range"
                 [] ~OutOfRange(list[i]) /\ list[i].mint \notin ToSet(top) -> "not_in_universe"
                 [] OTHER -> IF Repeated(list, i) THEN "duplicate" ELSE "ok"]
             bad == {i \in DOMAIN list : codes[i] # "ok"}
             first == CHOOSE i \in bad : \A j \in bad : i <= j
  <1>1. \A i \in DOMAIN list : codes[i] \in Codes
    BY DEF Codes
  <1>2. bad # {} => first \in bad
    <2>1. bad \in SUBSET Nat
      <3>1. DOMAIN list = 1 .. Len(list)
        BY ListFacts
      <3> HIDE DEF codes
      <3>2. QED
        BY <3>1
    <2> HIDE DEF bad
    <2>2. bad # {} => \E i \in bad : \A j \in bad : i <= j
      BY <2>1, LeastNumber
    <2>3. QED
      BY <2>2
  <1>3. ValidatePicks(list, top) =
          CASE Len(list) \notin MinPicks .. MaxPicks -> "count"
            [] Len(list) \in MinPicks .. MaxPicks /\ bad # {} -> codes[first]
            [] OTHER -> IF Total(list) = 100 THEN "ok" ELSE "sum"
    BY DEF ValidatePicks, Judge
  <1>4. first \in bad => first \in DOMAIN list
    OBVIOUS
  <1> HIDE DEF bad, first, codes
  <1>5. "count" \in Codes /\ "ok" \in Codes /\ "sum" \in Codes
    BY DEF Codes
  <1>6. QED
    BY <1>1, <1>2, <1>3, <1>4, <1>5

\* TypeOK, by who keeps the variables.
EditorType ==
  /\ uni \in Tops \cup {<<>>} /\ failed \in BOOLEAN /\ connected \in BOOLEAN
  /\ working \in Lists /\ saved \in Lists \cup {None}
LoginType == session \in BOOLEAN /\ active \in Accounts
CallsType ==
  /\ save \in Save
  /\ reset \in {Idle} \cup [at : {"delete"}, try : 1 .. 2] \cup [at : {"deleted", "failed"}]
  /\ poll \in {Idle} \cup [at : {"answer"}, picks : Lists \cup {None}]
  /\ net \subseteq Put \cup [kind : {"delete"}, live : BOOLEAN]
ServerType == listed \in Tops /\ prefs \in Prefs \cup {None} /\ file \in Prefs \cup {None}
BoundsType == edits \in 0 .. MaxEdits /\ saves \in 0 .. MaxSaves /\ mishaps \in 0 .. MaxMishaps

LEMMA TypeParts ==
  /\ TypeOK <=> EditorType /\ LoginType /\ CallsType /\ ServerType /\ BoundsType
  /\ TypeOK' <=> EditorType' /\ LoginType' /\ CallsType' /\ ServerType' /\ BoundsType'
  BY DEF TypeOK, EditorType, LoginType, CallsType, ServerType, BoundsType

\* Groups of variables that a step leaves alone keep their types.
LEMMA TypesKept ==
  /\ UNCHANGED editor => (EditorType => EditorType')
  /\ UNCHANGED login => (LoginType => LoginType')
  /\ UNCHANGED calls => (CallsType => CallsType')
  /\ UNCHANGED server => (ServerType => ServerType')
  /\ UNCHANGED bounds => (BoundsType => BoundsType')
  BY DEF EditorType, LoginType, CallsType, ServerType, BoundsType, editor, login, calls, server, bounds

\* Counters stay within their bounds.
LEMMA BoundsKept ==
  ASSUME BoundsType, edits' = edits \/ (edits < MaxEdits /\ edits' = edits + 1),
         saves' = saves \/ (saves < MaxSaves /\ saves' = saves + 1),
         mishaps' = mishaps \/ Mishap
  PROVE  BoundsType'
  BY BoundsAssumption DEF BoundsType, Mishap

\* Every step of the system is one of these.
LEMMA NextCases ==
  ASSUME [Next]_vars
  PROVE  \/ \E mint \in Mints : AddMint(mint)
         \/ \E mint \in Mints : RemoveMint(mint)
         \/ \E i \in DOMAIN working, value \in Percents : SetPct(i, value)
         \/ PressBalance \/ PressRevert \/ PressDefault
         \/ LoadUniverse \/ SignedIn \/ Disconnect \/ AccountsChanged \/ AskMe \/ GotMe
         \/ ClickSave \/ EnsureSigner \/ SignMessage \/ SendPut \/ SaveAnswered \/ SaveRefused
         \/ GiveUpPut \/ ClickReset \/ GiveUpReset \/ ResetDone
         \/ \E r \in net : HandlePut(r)
         \/ \E r \in net : HandleDelete(r)
         \/ Restart \/ Rerank \/ UNCHANGED vars
  BY DEF Next, Edit, ToggleMint, SaveStep, Serve

\* An edit replaces the list that is shown by another, and no more.
LEMMA EditCases ==
  ASSUME TypeOK,
         \/ \E mint \in Mints : AddMint(mint)
         \/ \E mint \in Mints : RemoveMint(mint)
         \/ \E i \in DOMAIN working, value \in Percents : SetPct(i, value)
         \/ PressBalance \/ PressRevert \/ PressDefault
  PROVE  /\ working' \in Lists /\ UNCHANGED <<uni, failed, saved, connected, login, calls, server, saves, mishaps>>
         /\ edits' = edits \/ (edits < MaxEdits /\ edits' = edits + 1)
  <1>1. working \in Lists /\ saved \in Lists \cup {None} /\ uni \in Tops \cup {<<>>}
    BY DEF TypeOK
  <1>2. ASSUME NEW list \in Lists, EditTo(list) \/ (SetWorking(list) /\ UNCHANGED edits)
        PROVE  /\ working' \in Lists
               /\ UNCHANGED <<uni, failed, saved, connected, login, calls, server, saves, mishaps>>
               /\ edits' = edits \/ (edits < MaxEdits /\ edits' = edits + 1)
    BY <1>2 DEF EditTo, SetWorking
  <1>3. ASSUME NEW mint \in Mints, AddMint(mint)
        PROVE  \E list \in Lists : EditTo(list)
    <2>1. [mint |-> mint, pct |-> MinPct] \in Pick
      BY Rules DEF Pick
    <2>2. AutoBalance(Append(working, [mint |-> mint, pct |-> MinPct])) \in Lists
      BY <1>1, <2>1, EditedLists, BalanceType
    <2>3. QED
      BY <1>3, <2>2 DEF AddMint
  <1>4. ASSUME NEW mint \in Mints, RemoveMint(mint)
        PROVE  \E list \in Lists : EditTo(list)
    <2>1. PICK i \in DOMAIN working : EditTo(AutoBalance(RemoveAt(working, i)))
      BY <1>4 DEF RemoveMint
    <2>2. RemoveAt(working, i) \in Lists
      BY <1>1, EditedLists
    <2>3. AutoBalance(RemoveAt(working, i)) \in Lists
      BY <2>2, BalanceType
    <2>4. QED
      BY <2>1, <2>3
  <1>5. ASSUME NEW i \in DOMAIN working, NEW value \in Percents, SetPct(i, value)
        PROVE  \E list \in Lists : EditTo(list)
    <2>1. Clamp(value, MinPct, MaxPct) \in MinPct .. MaxPct
      BY PercentsAssumption, Rules DEF Clamp, Min2
    <2>2. [working EXCEPT ![i].pct = Clamp(value, MinPct, MaxPct)] \in Lists
      BY <1>1, <2>1, EditedLists
    <2>3. QED
      BY <1>5, <2>2 DEF SetPct
  <1>6. ASSUME PressBalance \/ PressRevert \/ PressDefault
        PROVE  \E list \in Lists : SetWorking(list) /\ UNCHANGED edits
    <2>1. AutoBalance(working) \in Lists /\ DefaultBasket[uni] \in Lists
      BY <1>1, BalanceType, DefaultType
    <2>2. QED
      BY <1>1, <1>6, <2>1 DEF PressBalance, PressRevert, PressDefault
  <1>7. \E list \in Lists : EditTo(list) \/ (SetWorking(list) /\ UNCHANGED edits)
    BY <1>3, <1>4, <1>5, <1>6
  <1>8. QED
    BY <1>2, <1>7

\* The picks the server has are a list, or nothing.
LEMMA StoredType ==
  ASSUME TypeOK
  PROVE  Stored \in Lists \cup {None}
  BY DEF TypeOK, Stored, Prefs

\* What is rendered is a list.
LEMMA RenderType ==
  ASSUME TypeOK, NEW picks \in Lists \cup {None}, RenderMe(picks), UNCHANGED <<uni, failed>>
  PROVE  EditorType'
  <1>1. EditorType /\ DefaultBasket[uni] \in Lists
    BY TypeParts, DefaultType DEF EditorType
  <1>2. QED
    BY <1>1 DEF EditorType, RenderMe

Requests == Put \cup [kind : {"delete"}, live : BOOLEAN]

\* A request nobody waits for any more is still a request.
LEMMA RequestsType ==
  ASSUME NEW requests \in SUBSET Requests, NEW kind
  PROVE  Deaf(requests, kind) \in SUBSET Requests /\ Without(requests, kind) \in SUBSET Requests
  <1>1. \A r \in Requests : [r EXCEPT !.live = FALSE] \in Requests
    BY DEF Requests, Put
  <1>2. QED
    BY <1>1 DEF Deaf, Without

\* A request to store carries a list and the message about it.
LEMMA PutParts ==
  ASSUME NEW r \in Requests, r.kind = "put"
  PROVE  /\ r \in Put /\ r.picks \in Lists /\ r.message \in Message \cup {None}
         /\ r.clean \in BOOLEAN /\ r.seen \in SUBSET Mints
  BY DEF Requests, Put

\* The calls of the page keep their types.
LEMMA CallsKept ==
  ASSUME CallsType, save' \in Save, UNCHANGED <<reset, poll>>, net' \in SUBSET Requests
  PROVE  CallsType'
  BY DEF CallsType, Requests

\* Every step keeps the types.
LEMMA TypeStep == TypeOK /\ [Next]_vars => TypeOK'
  <1> SUFFICES ASSUME TypeOK, [Next]_vars PROVE EditorType' /\ LoginType' /\ CallsType' /\ ServerType' /\ BoundsType'
    BY TypeParts
  <1>a. EditorType /\ LoginType /\ CallsType /\ ServerType /\ BoundsType
    BY TypeParts
  <1>b. save \in Save /\ net \in SUBSET Requests /\ working \in Lists /\ DefaultBasket[uni] \in Lists
    BY <1>a, DefaultType DEF CallsType, EditorType, Requests
  <1> DEFINE Goal == EditorType' /\ LoginType' /\ CallsType' /\ ServerType' /\ BoundsType'
  <1>1. CASE \/ \E mint \in Mints : AddMint(mint)
             \/ \E mint \in Mints : RemoveMint(mint)
             \/ \E i \in DOMAIN working, value \in Percents : SetPct(i, value)
             \/ PressBalance \/ PressRevert \/ PressDefault
    <2>1. /\ working' \in Lists /\ UNCHANGED <<uni, failed, saved, connected, login, calls, server, saves, mishaps>>
          /\ edits' = edits \/ (edits < MaxEdits /\ edits' = edits + 1)
      BY <1>1, EditCases
    <2>2. EditorType'
      BY <1>a, <2>1 DEF EditorType
    <2>3. QED
      BY <1>a, <2>1, <2>2, TypesKept, BoundsKept
  <1>2. CASE LoadUniverse
    <2>1. DefaultBasket[listed] \in Lists /\ listed \in Tops
      BY <1>a, DefaultType DEF ServerType
    <2>2. EditorType'
      BY <1>2, <1>a, <2>1 DEF LoadUniverse, EditorType
    <2>3. UNCHANGED <<login, calls, server, edits, saves>> /\ (mishaps' = mishaps \/ Mishap)
      BY <1>2 DEF LoadUniverse
    <2>4. QED
      BY <1>a, <2>2, <2>3, TypesKept, BoundsKept
  <1>3. CASE SignedIn
    <2>1. PICK told \in {Stored, None} : RenderMe(told)
      BY <1>3 DEF SignedIn
    <2>2. EditorType'
      BY <1>3, <2>1, StoredType, RenderType DEF SignedIn
    <2>3. LoginType'
      BY <1>3 DEF SignedIn, LoginType, Accounts
    <2>4. QED
      BY <1>3, <1>a, <2>2, <2>3, TypesKept DEF SignedIn
  <1>4. CASE Disconnect
    <2>1. EditorType'
      BY <1>4, <1>a, <1>b DEF Disconnect, SetDisconnected, EditorType
    <2>2. LoginType'
      BY <1>4 DEF Disconnect, LoginType, Accounts
    <2>3. QED
      BY <1>4, <1>a, <2>1, <2>2, TypesKept, BoundsKept DEF Disconnect
  <1>5. CASE AccountsChanged
    <2>1. LoginType'
      BY <1>5, <1>a DEF AccountsChanged, LoginType
    <2>2. QED
      BY <1>5, <1>a, <2>1, TypesKept, BoundsKept DEF AccountsChanged
  <1>6. CASE AskMe
    <2>1. CallsType'
      BY <1>6, <1>a, StoredType DEF AskMe, CallsType
    <2>2. QED
      BY <1>6, <1>a, <2>1, TypesKept DEF AskMe
  <1>7. CASE GotMe
    <2>1. poll.picks \in Lists \cup {None}
      BY <1>7, <1>a DEF GotMe, CallsType, Idle
    <2>2. EditorType'
      BY <1>7, <2>1, RenderType DEF GotMe
    <2>3. CallsType'
      BY <1>7, <1>a DEF GotMe, CallsType
    <2>4. QED
      BY <1>7, <1>a, <2>2, <2>3, TypesKept DEF GotMe
  <1>8. CASE ClickSave
    <2>1. ToSet(uni) \in SUBSET Mints /\ UniverseKnown \in BOOLEAN
      BY <1>a DEF EditorType, Mints, ToSet, UniverseKnown
    <2>2. save' \in Save
      BY <1>8, <1>b, <2>1, SaveMade DEF ClickSave
    <2>3. CallsType'
      BY <1>8, <1>a, <1>b, <2>2, CallsKept DEF ClickSave
    <2>4. QED
      BY <1>8, <1>a, <2>3, TypesKept, BoundsKept DEF ClickSave
  <1>9. CASE EnsureSigner
    <2>1. PICK account \in IF active = None THEN Accounts ELSE {active} :
            /\ active' = account
            /\ save' = IF active # None \/ account = "own"
                       THEN [at |-> "sign", checked |-> save.checked, seen |-> save.seen,
                             known |-> save.known, text |-> PrefsMessage(working), by |-> account]
                       ELSE [at |-> "send", checked |-> save.checked, seen |-> save.seen,
                             known |-> save.known, message |-> None]
      BY <1>9 DEF EnsureSigner
    <2>2. account \in Accounts /\ (active # None \/ account = "own" => account \in {"own", "other"})
      BY <1>a, <2>1 DEF LoginType, Accounts
    <2>3. save.checked \in Lists /\ save.seen \in SUBSET Mints /\ save.known \in BOOLEAN
      BY <1>9, <1>b, SaveParts DEF EnsureSigner
    <2>4. PrefsMessage(working) \in SUBSET Pick
      BY <1>b, ListFacts DEF PrefsMessage, ToSet
    <2>5. save' \in Save
      BY <2>1, <2>2, <2>3, <2>4, SaveMade
    <2>6. LoginType'
      BY <1>9, <1>a, <2>1, <2>2 DEF EnsureSigner, LoginType
    <2>7. CallsType'
      BY <1>9, <1>a, <1>b, <2>5, CallsKept DEF EnsureSigner
    <2>8. QED
      BY <1>9, <1>a, <2>6, <2>7, TypesKept DEF EnsureSigner
  <1>10. CASE SignMessage
    <2>1. save.checked \in Lists /\ save.seen \in SUBSET Mints /\ save.known \in BOOLEAN
      BY <1>10, <1>b, SaveParts DEF SignMessage
    <2>2. [text |-> save.text, by |-> save.by] \in Message
      BY <1>10, <1>b, SaveParts DEF SignMessage, Message
    <2>3. save' \in Save
      BY <1>10, <2>1, <2>2, SaveMade DEF SignMessage
    <2>4. CallsType'
      BY <1>10, <1>a, <1>b, <2>3, CallsKept DEF SignMessage, CallOnly
    <2>5. QED
      BY <1>10, <1>a, <2>4, TypesKept, BoundsKept DEF SignMessage, CallOnly
  <1>11. CASE SendPut
    <2> DEFINE put == [kind |-> "put", picks |-> working, message |-> save.message,
                       clean |-> working = save.checked /\ save.known, seen |-> save.seen, live |-> TRUE]
    <2>1. save.message \in Message \cup {None} /\ save.seen \in SUBSET Mints /\ save.known \in BOOLEAN
      BY <1>11, <1>b, SaveParts DEF SendPut
    <2>2. put \in Put
      BY <1>b, <2>1 DEF Put
    <2>3. IF session THEN save' = [at |-> "put", try |-> 1, put |-> put] /\ net' = net \cup {put}
          ELSE save' = Refused("unauthorized", FALSE) /\ UNCHANGED net
      BY <1>11 DEF SendPut
    <2> HIDE DEF put
    <2>4. save' \in Save
      <3>1. "unauthorized" \in Codes
        BY DEF Codes
      <3>2. Refused("unauthorized", FALSE) \in Save
        BY <3>1, SaveMade
      <3>3. [at |-> "put", try |-> 1, put |-> put] \in Save
        BY <2>2, SaveMade
      <3>4. QED
        BY <2>3, <3>2, <3>3
    <2>5. net' \in SUBSET Requests
      BY <1>b, <2>2, <2>3 DEF Requests
    <2>6. CallsType'
      BY <1>11, <1>a, <2>4, <2>5, CallsKept DEF SendPut, CallOnly
    <2>7. QED
      BY <1>11, <1>a, <2>6, TypesKept, BoundsKept DEF SendPut, CallOnly
  <1>12. CASE SaveAnswered
    <2>1. save.picks \in Lists
      BY <1>12, <1>b, SaveParts DEF SaveAnswered
    <2>2. EditorType'
      BY <1>12, <1>a, <2>1 DEF SaveAnswered, EditorType
    <2>3. CallsType'
      BY <1>12, <1>a, <1>b, SaveMade, CallsKept DEF SaveAnswered
    <2>4. QED
      BY <1>12, <1>a, <2>2, <2>3, TypesKept DEF SaveAnswered
  <1>13. CASE SaveRefused
    <2>1. CallsType'
      BY <1>13, <1>a, <1>b, SaveMade, CallsKept DEF SaveRefused, CallOnly
    <2>2. QED
      BY <1>13, <1>a, <2>1, TypesKept, BoundsKept DEF SaveRefused, CallOnly
  <1>14. CASE GiveUpPut
    <2>1. PICK rest \in {Deaf(net, "put"), Without(net, "put")} :
            IF save.try = 1 /\ session
            THEN save' = [save EXCEPT !.try = 2] /\ net' = rest \cup {save.put}
            ELSE save' = Refused("timeout", FALSE) /\ net' = rest
      BY <1>14 DEF GiveUpPut
    <2>2. save.put \in Put /\ [save EXCEPT !.try = 2] = [at |-> "put", try |-> 2, put |-> save.put]
      BY <1>14, <1>b, SaveParts DEF GiveUpPut
    <2>3. save' \in Save
      <3>1. "timeout" \in Codes
        BY DEF Codes
      <3>2. Refused("timeout", FALSE) \in Save
        BY <3>1, SaveMade
      <3>3. [save EXCEPT !.try = 2] \in Save
        BY <2>2, SaveMade
      <3>4. QED
        BY <2>1, <3>2, <3>3
    <2>4. rest \in SUBSET Requests
      BY <1>b, RequestsType
    <2>5. net' \in SUBSET Requests
      BY <2>1, <2>2, <2>4 DEF Requests
    <2>6. CallsType'
      BY <1>14, <1>a, <2>3, <2>5, CallsKept DEF GiveUpPut, CallOnly
    <2>7. QED
      BY <1>14, <1>a, <2>6, TypesKept, BoundsKept DEF GiveUpPut, CallOnly
  <1>15. CASE ClickReset
    <2>1. EditorType'
      BY <1>15, <1>a, <1>b DEF ClickReset, EditorType
    <2>2. [kind |-> "delete", live |-> TRUE] \in Requests
      BY DEF Requests
    <2>3. net' \in SUBSET Requests /\ UNCHANGED <<save, poll>>
      BY <1>15, <1>b, <2>2 DEF ClickReset
    <2>4. reset' \in {reset} \cup [at : {"delete"}, try : 1 .. 2] \cup [at : {"deleted", "failed"}]
      BY <1>15 DEF ClickReset
    <2>5. CallsType'
      BY <1>a, <2>3, <2>4 DEF CallsType, Requests
    <2>6. QED
      BY <1>15, <1>a, <2>1, <2>5, TypesKept, BoundsKept DEF ClickReset
  <1>16. CASE GiveUpReset
    <2>1. PICK rest \in {Deaf(net, "delete"), Without(net, "delete")} :
            IF reset.try = 1 /\ session
            THEN reset' = [reset EXCEPT !.try = 2] /\ net' = rest \cup {[kind |-> "delete", live |-> TRUE]}
            ELSE reset' = [at |-> "failed"] /\ net' = rest
      BY <1>16 DEF GiveUpReset
    <2>2. rest \in SUBSET Requests
      BY <1>b, RequestsType
    <2>3. net' \in SUBSET Requests
      <3>1. [kind |-> "delete", live |-> TRUE] \in Requests
        BY DEF Requests
      <3>2. QED
        BY <2>1, <2>2, <3>1
    <2>4. reset' \in [at : {"delete"}, try : 1 .. 2] \cup [at : {"deleted", "failed"}]
      BY <1>16, <1>a, <2>1 DEF GiveUpReset, CallsType, Idle
    <2>5. CallsType'
      BY <1>16, <1>a, <2>3, <2>4 DEF GiveUpReset, CallsType, Requests
    <2>6. QED
      BY <1>16, <1>a, <2>5, TypesKept, BoundsKept DEF GiveUpReset
  <1>17. CASE ResetDone
    <2>1. EditorType'
      BY <1>17, <1>a DEF ResetDone, EditorType
    <2>2. CallsType'
      BY <1>17, <1>a DEF ResetDone, CallsType
    <2>3. QED
      BY <1>17, <1>a, <2>1, <2>2, TypesKept DEF ResetDone
  <1>18. ASSUME NEW r \in net, HandlePut(r) PROVE Goal
    <2> DEFINE code == IF listed = <<>> THEN "universe_unavailable" ELSE ValidatePicks(r.picks, listed)
               kept == [picks |-> SortPicks(r.picks), message |-> r.message]
    <2>1. r \in Requests /\ r.kind = "put" /\ net' = net \ {r} /\ UNCHANGED <<listed, editor, login, reset, poll, edits, saves>>
      BY <1>18, <1>b DEF HandlePut
    <2>2. r.picks \in Lists /\ r.message \in Message \cup {None} /\ r.clean \in BOOLEAN
      BY <2>1, PutParts
    <2>3. code \in Codes
      BY <2>2, ComplaintType DEF Codes
    <2>4. code = "ok" => SortPicks(r.picks) \in Lists
      BY <2>2, PicksJudged, SortedBasket
    <2>5. IF code # "ok"
          THEN /\ save' = (IF r.live THEN Refused(code, r.clean /\ r.seen = ToSet(listed)) ELSE save)
               /\ UNCHANGED <<prefs, file, mishaps>>
          ELSE \E wrote \in BOOLEAN :
                 /\ Keep(kept, wrote)
                 /\ save' = IF r.live
                            THEN IF wrote THEN [at |-> "answer", picks |-> SortPicks(r.picks)]
                                 ELSE Refused("internal", FALSE)
                            ELSE save
      BY <1>18 DEF HandlePut
    <2>6. save' \in Save
      <3> HIDE DEF code, kept
      <3>1. (r.clean /\ r.seen = ToSet(listed)) \in BOOLEAN
        BY <2>2
      <3>2. "internal" \in Codes
        BY DEF Codes
      <3>3. QED
        BY <1>b, <2>3, <2>4, <2>5, <3>1, <3>2, SaveMade
    <2>7. ServerType'
      <3>1. code = "ok" => kept \in Prefs
        BY <2>2, <2>4 DEF Prefs
      <3> HIDE DEF code, kept
      <3>2. QED
        BY <1>a, <2>1, <2>5, <3>1 DEF ServerType, Keep
    <2>8. mishaps' = mishaps \/ Mishap
      BY <2>5 DEF Keep
    <2>9. CallsType'
      BY <1>a, <1>b, <2>1, <2>6, CallsKept
    <2>10. QED
      BY <1>a, <2>1, <2>7, <2>8, <2>9, TypesKept, BoundsKept
  <1>19. ASSUME NEW r \in net, HandleDelete(r) PROVE Goal
    <2>1. /\ net' = net \ {r} /\ UNCHANGED <<listed, editor, login, save, poll, edits, saves>>
          /\ reset' \in {reset, [at |-> "deleted"], [at |-> "failed"]}
          /\ \/ UNCHANGED <<prefs, file, mishaps>>
             \/ \E wrote \in BOOLEAN : Keep(None, wrote)
      BY <1>19 DEF HandleDelete
    <2>2. ServerType'
      BY <1>a, <2>1 DEF ServerType, Keep
    <2>3. mishaps' = mishaps \/ Mishap
      BY <2>1 DEF Keep
    <2>4. CallsType'
      BY <1>a, <2>1 DEF CallsType
    <2>5. QED
      BY <1>a, <2>1, <2>2, <2>3, <2>4, TypesKept, BoundsKept
  <1>20. CASE Restart
    <2>1. ServerType' /\ CallsType'
      BY <1>20, <1>a DEF Restart, ServerType, CallsType
    <2>2. QED
      BY <1>20, <1>a, <2>1, TypesKept, BoundsKept DEF Restart
  <1>21. CASE Rerank
    <2>1. ServerType'
      BY <1>21, <1>a DEF Rerank, ServerType
    <2>2. QED
      BY <1>21, <1>a, <2>1, TypesKept, BoundsKept DEF Rerank
  <1>22. CASE UNCHANGED vars
    <2>1. UNCHANGED editor /\ UNCHANGED login /\ UNCHANGED calls /\ UNCHANGED server /\ UNCHANGED bounds
      BY <1>22 DEF vars, editor, login, calls, server, bounds
    <2>2. QED
      BY <1>a, <2>1, TypesKept
  <1>23. QED
    BY NextCases, <1>1, <1>2, <1>3, <1>4, <1>5, <1>6, <1>7, <1>8, <1>9, <1>10, <1>11, <1>12, <1>13,
       <1>14, <1>15, <1>16, <1>17, <1>18, <1>19, <1>20, <1>21, <1>22

\* The first state is of its type.
LEMMA TypeInit == Init => TypeOK
  <1> SUFFICES ASSUME Init PROVE TypeOK
    OBVIOUS
  <1>1. listed \in Tops /\ DefaultBasket[listed] \in Lists
    BY DefaultType DEF Init
  <1>2. prefs \in Prefs \cup {None} /\ file = prefs
    BY <1>1 DEF Init, Prefs
  <1>3. EditorType
    <2>1. <<>> \in Lists
      BY DEF Lists
    <2>2. QED
      BY <2>1 DEF Init, EditorType
  <1>4. CallsType
    BY DEF Init, CallsType, Save
  <1>5. LoginType /\ ServerType /\ BoundsType
    BY <1>1, <1>2, BoundsAssumption DEF Init, LoginType, ServerType, BoundsType, Accounts
  <1>6. QED
    BY <1>3, <1>4, <1>5, TypeParts

-----------------------------------------------------------------------------
(* What is stored.                                                         *)

\* The invariant, but for the types, and what it reads.
KeptInv == StoredIsABasket /\ SaveInv /\ RefusedForAReason

\* A step that leaves the save, the requests and the store alone keeps it.
LEMMA KeptAlone ==
  ASSUME KeptInv, UNCHANGED <<save, net, prefs, file>>
  PROVE  KeptInv'
  BY DEF KeptInv, StoredIsABasket, SaveInv, PutInv, RefusedForAReason

\* What is judged good is a basket of the list the page knew, if it knew one.
LEMMA JudgedIs ==
  ASSUME TypeOK, ValidateBasket(working) = "ok"
  PROVE  Judged(working, ToSet(uni), UniverseKnown)
  <1>1. working \in Lists /\ uni \in Tops \cup {<<>>}
    BY DEF TypeOK
  <1>2. IsABasket(working) /\ (UniverseKnown => MintsOf(working) \subseteq ToSet(uni))
    BY <1>1, BasketJudged
  <1>3. UniverseKnown => ToSet(uni) # {}
    <2>1. uni \in Tops => uni \in Seq(Nat)
      BY TopsAssumption
    <2>2. UniverseKnown => uni # <<>> /\ uni \in Seq(Nat)
      BY <1>1, <2>1 DEF UniverseKnown
    <2>3. UniverseKnown => uni[1] \in ToSet(uni)
      BY <2>2 DEF ToSet
    <2>4. QED
      BY <2>3
  <1>4. QED
    BY <1>2, <1>3 DEF Judged

\* Requests that are given up, or lost, are judged as they were.
LEMMA RequestsInv ==
  ASSUME NEW requests \in SUBSET Requests, \A r \in requests : PutInv(r), NEW kind
  PROVE  /\ \A r \in Deaf(requests, kind) : PutInv(r)
         /\ \A r \in Without(requests, kind) : PutInv(r)
  <1>1. ASSUME NEW r \in requests
        PROVE  PutInv([r EXCEPT !.live = FALSE])
    <2> DEFINE deaf == [r EXCEPT !.live = FALSE]
    <2>1. r.kind = "put" => deaf.picks = r.picks /\ deaf.seen = r.seen /\ deaf.clean = r.clean
      BY DEF Requests, Put
    <2>2. deaf.kind = r.kind
      BY DEF Requests, Put
    <2> HIDE DEF deaf
    <2>3. PutInv(deaf)
      BY <2>1, <2>2 DEF PutInv
    <2>4. QED
      BY <2>3 DEF deaf
  <1>2. QED
    BY <1>1 DEF Deaf, Without

\* Every step keeps the invariant.
LEMMA KeptStep == TypeOK /\ KeptInv /\ [Next]_vars => KeptInv'
  <1> SUFFICES ASSUME TypeOK, KeptInv, [Next]_vars PROVE KeptInv'
    OBVIOUS
  <1>a. save \in Save /\ net \in SUBSET Requests /\ working \in Lists
    BY DEF TypeOK, Requests
  <1>b. StoredIsABasket /\ SaveInv /\ RefusedForAReason /\ \A r \in net : PutInv(r)
    BY DEF KeptInv, SaveInv
  <1>c. ASSUME UNCHANGED <<prefs, file>> PROVE StoredIsABasket'
    BY <1>b, <1>c DEF StoredIsABasket
  <1>1. CASE \/ \E mint \in Mints : AddMint(mint)
             \/ \E mint \in Mints : RemoveMint(mint)
             \/ \E i \in DOMAIN working, value \in Percents : SetPct(i, value)
             \/ PressBalance \/ PressRevert \/ PressDefault
    <2>1. UNCHANGED <<calls, server>>
      BY <1>1, EditCases
    <2>2. QED
      BY <2>1, KeptAlone DEF calls, server
  <1>2. CASE LoadUniverse \/ SignedIn \/ Disconnect \/ AccountsChanged \/ AskMe \/ GotMe
             \/ ResetDone \/ Rerank \/ UNCHANGED vars
    <2>1. UNCHANGED <<save, net, prefs, file>>
      BY <1>2 DEF LoadUniverse, SignedIn, Disconnect, AccountsChanged, AskMe, GotMe, ResetDone, Rerank,
                  vars, calls, server
    <2>2. QED
      BY <2>1, KeptAlone
  <1>3. CASE ClickSave
    <2>1. /\ save' = [at |-> "signer", checked |-> working, seen |-> ToSet(uni), known |-> UniverseKnown]
          /\ UNCHANGED <<net, prefs, file>> /\ ValidateBasket(working) = "ok"
      BY <1>3 DEF ClickSave, CanSave, server
    <2>2. Judged(working, ToSet(uni), UniverseKnown)
      BY <2>1, JudgedIs
    <2>3. SaveInv' /\ RefusedForAReason'
      BY <1>b, <2>1, <2>2 DEF SaveInv, RefusedForAReason
    <2>4. QED
      BY <1>c, <2>1, <2>3 DEF KeptInv
  <1>4. CASE EnsureSigner \/ SignMessage
    <2>1. Judged(save.checked, save.seen, save.known) /\ UNCHANGED <<net, prefs, file>>
      BY <1>4, <1>b DEF EnsureSigner, SignMessage, CallOnly, server, SaveInv
    <2>2. \/ save' = Idle
          \/ /\ save'.at \in {"sign", "send"} /\ save'.checked = save.checked
             /\ save'.seen = save.seen /\ save'.known = save.known
      BY <1>4 DEF EnsureSigner, SignMessage
    <2>3. SaveInv' /\ RefusedForAReason'
      BY <1>b, <2>1, <2>2 DEF SaveInv, RefusedForAReason, Idle
    <2>4. QED
      BY <1>c, <2>1, <2>3 DEF KeptInv
  <1>5. CASE SendPut
    <2> DEFINE put == [kind |-> "put", picks |-> working, message |-> save.message,
                       clean |-> working = save.checked /\ save.known, seen |-> save.seen, live |-> TRUE]
    <2>1. /\ UNCHANGED <<prefs, file>>
          /\ IF session THEN save' = [at |-> "put", try |-> 1, put |-> put] /\ net' = net \cup {put}
             ELSE save' = Refused("unauthorized", FALSE) /\ UNCHANGED net
      BY <1>5 DEF SendPut, CallOnly, server
    <2>2. PutInv(put)
      <3>1. Judged(save.checked, save.seen, save.known)
        BY <1>5, <1>b DEF SendPut, SaveInv
      <3>2. Judged(put.picks, put.seen, put.clean)
        BY <3>1 DEF Judged
      <3>3. QED
        BY <3>2 DEF PutInv
    <2> HIDE DEF put
    <2>3. SaveInv' /\ RefusedForAReason'
      BY <1>b, <2>1, <2>2 DEF SaveInv, RefusedForAReason, Refused
    <2>4. QED
      BY <1>c, <2>1, <2>3 DEF KeptInv
  <1>6. CASE SaveAnswered \/ SaveRefused
    <2>1. save' = Idle /\ UNCHANGED <<net, prefs, file>>
      BY <1>6 DEF SaveAnswered, SaveRefused, CallOnly, server
    <2>2. SaveInv' /\ RefusedForAReason'
      BY <1>b, <2>1 DEF SaveInv, RefusedForAReason, Idle
    <2>3. QED
      BY <1>c, <2>1, <2>2 DEF KeptInv
  <1>7. CASE GiveUpPut
    <2>1. PICK rest \in {Deaf(net, "put"), Without(net, "put")} :
            IF save.try = 1 /\ session
            THEN save' = [save EXCEPT !.try = 2] /\ net' = rest \cup {save.put}
            ELSE save' = Refused("timeout", FALSE) /\ net' = rest
      BY <1>7 DEF GiveUpPut
    <2>2. save.at = "put" /\ PutInv(save.put) /\ UNCHANGED <<prefs, file>>
      BY <1>7, <1>b DEF GiveUpPut, CallOnly, server, SaveInv
    <2>3. [save EXCEPT !.try = 2] = [at |-> "put", try |-> 2, put |-> save.put]
      BY <1>a, <2>2, SaveParts
    <2>4. \A r \in rest : PutInv(r)
      BY <1>a, <1>b, RequestsInv
    <2>5. SaveInv' /\ RefusedForAReason'
      BY <2>1, <2>2, <2>3, <2>4 DEF SaveInv, RefusedForAReason, Refused
    <2>6. QED
      BY <1>c, <2>2, <2>5 DEF KeptInv
  <1>8. CASE ClickReset \/ GiveUpReset
    <2>1. UNCHANGED <<save, prefs, file>>
      BY <1>8 DEF ClickReset, GiveUpReset, server
    <2>2. PutInv([kind |-> "delete", live |-> TRUE])
      BY DEF PutInv
    <2>3. \A r \in net' : PutInv(r)
      <3>1. /\ \A r \in Deaf(net, "delete") : PutInv(r)
            /\ \A r \in Without(net, "delete") : PutInv(r)
        BY <1>a, <1>b, RequestsInv
      <3>2. \E rest \in {net, Deaf(net, "delete"), Without(net, "delete")} :
              net' = rest \/ net' = rest \cup {[kind |-> "delete", live |-> TRUE]}
        BY <1>8 DEF ClickReset, GiveUpReset
      <3>3. QED
        BY <1>b, <2>2, <3>1, <3>2
    <2>4. SaveInv' /\ RefusedForAReason'
      BY <1>b, <2>1, <2>3 DEF SaveInv, RefusedForAReason
    <2>5. QED
      BY <1>c, <2>1, <2>4 DEF KeptInv
  <1>9. ASSUME NEW r \in net, HandlePut(r) PROVE KeptInv'
    <2> DEFINE code == IF listed = <<>> THEN "universe_unavailable" ELSE ValidatePicks(r.picks, listed)
               kept == [picks |-> SortPicks(r.picks), message |-> r.message]
    <2>1. r \in Requests /\ r.kind = "put" /\ net' = net \ {r} /\ r.picks \in Lists /\ PutInv(r)
      BY <1>9, <1>a, <1>b, PutParts DEF HandlePut
    <2>2. IF code # "ok"
          THEN /\ save' = (IF r.live THEN Refused(code, r.clean /\ r.seen = ToSet(listed)) ELSE save)
               /\ UNCHANGED <<prefs, file, mishaps>>
          ELSE \E wrote \in BOOLEAN :
                 /\ Keep(kept, wrote)
                 /\ save' = IF r.live
                            THEN IF wrote THEN [at |-> "answer", picks |-> SortPicks(r.picks)]
                                 ELSE Refused("internal", FALSE)
                            ELSE save
      BY <1>9 DEF HandlePut
    <2>3. code = "ok" => IsABasket(kept.picks)
      BY <2>1, PicksJudged, SortedBasket
    <2>4. code # "ok" => ~(r.clean /\ r.seen = ToSet(listed))
      <3> SUFFICES ASSUME r.clean, r.seen = ToSet(listed) PROVE code = "ok"
        OBVIOUS
      <3>1. IsABasket(r.picks) /\ MintsOf(r.picks) \subseteq ToSet(listed) /\ ToSet(listed) # {}
        BY <2>1 DEF PutInv, Judged
      <3>2. listed # <<>>
        BY <3>1 DEF ToSet
      <3>3. ValidatePicks(r.picks, listed) = "ok"
        BY <2>1, <3>1, PicksJudged
      <3>4. QED
        BY <3>2, <3>3
    <2>5. StoredIsABasket'
      <3>1. CASE code # "ok"
        BY <1>c, <2>2, <3>1
      <3>2. CASE code = "ok"
        <4>1. prefs' \in {prefs, kept} /\ file' \in {file, kept}
          BY <2>2, <3>2 DEF Keep
        <4> HIDE DEF code, kept
        <4>2. QED
          BY <1>b, <2>3, <3>2, <4>1 DEF StoredIsABasket
      <3>3. QED
        BY <3>1, <3>2
    <2> HIDE DEF code, kept
    <2>6. save' = save \/ save'.at = "answer" \/ (save'.at = "refused" /\ ~save'.clean)
      <3>1. \A c : Refused(c, FALSE).at = "refused" /\ Refused(c, FALSE).clean = FALSE
        BY DEF Refused
      <3>2. save' = save \/ save'.at = "answer" \/ \E c : save' = Refused(c, FALSE)
        <4>1. CASE code # "ok"
          <5>1. (r.clean /\ r.seen = ToSet(listed)) = FALSE
            BY <2>4, <4>1
          <5>2. QED
            BY <2>2, <4>1, <5>1
        <4>2. CASE code = "ok"
          <5>1. save' \in {save, [at |-> "answer", picks |-> SortPicks(r.picks)], Refused("internal", FALSE)}
            BY <2>2, <4>2
          <5>2. [at |-> "answer", picks |-> SortPicks(r.picks)].at = "answer"
            OBVIOUS
          <5>3. CASE save' = [at |-> "answer", picks |-> SortPicks(r.picks)]
            BY <5>2, <5>3
          <5>4. CASE save' = Refused("internal", FALSE)
            BY <5>4
          <5>5. QED
            BY <5>1, <5>3, <5>4
        <4>3. QED
          BY <4>1, <4>2
      <3>3. QED
        BY <3>1, <3>2
    <2>7. SaveInv' /\ RefusedForAReason'
      BY <1>b, <2>1, <2>6 DEF SaveInv, RefusedForAReason
    <2>8. QED
      BY <2>5, <2>7 DEF KeptInv
  <1>10. ASSUME NEW r \in net, HandleDelete(r) PROVE KeptInv'
    <2>1. net' = net \ {r} /\ save' = save /\ prefs' \in {prefs, None} /\ file' \in {file, None}
      BY <1>10 DEF HandleDelete, Keep
    <2>2. StoredIsABasket'
      BY <1>b, <2>1 DEF StoredIsABasket
    <2>3. SaveInv' /\ RefusedForAReason'
      BY <1>b, <2>1 DEF SaveInv, RefusedForAReason
    <2>4. QED
      BY <2>2, <2>3 DEF KeptInv
  <1>11. CASE Restart
    <2>1. net' \in {{}, net} /\ save' = save /\ prefs' = file /\ file' = file
      BY <1>11 DEF Restart
    <2>2. StoredIsABasket'
      BY <1>b, <2>1 DEF StoredIsABasket
    <2>3. SaveInv' /\ RefusedForAReason'
      BY <1>b, <2>1 DEF SaveInv, RefusedForAReason
    <2>4. QED
      BY <2>2, <2>3 DEF KeptInv
  <1>12. QED
    BY NextCases, <1>1, <1>2, <1>3, <1>4, <1>5, <1>6, <1>7, <1>8, <1>9, <1>10, <1>11

-----------------------------------------------------------------------------
(* The theorems.                                                           *)

\* What is stored is a basket, and what the page has judged stays judged: this holds in
\* the first state and is kept by every step.
THEOREM Inductive == Spec => []IInv
  <1>1. Init => IInv
    <2> SUFFICES ASSUME Init PROVE IInv
      OBVIOUS
    <2>1. TypeOK
      BY TypeInit
    <2>2. StoredIsABasket
      <3>1. DefaultBasket[listed] \in Lists
        BY DefaultType DEF Init
      <3>2. ASSUME ValidatePicks(DefaultBasket[listed], listed) = "ok"
            PROVE  IsABasket(DefaultBasket[listed])
        BY <3>1, <3>2, PicksJudged
      <3>3. file = prefs /\ (prefs = None \/ IsABasket(prefs.picks))
        BY <3>2 DEF Init
      <3>4. QED
        BY <3>3 DEF StoredIsABasket
    <2>3. SaveInv /\ RefusedForAReason
      BY DEF Init, SaveInv, RefusedForAReason, Idle
    <2>4. QED
      BY <2>1, <2>2, <2>3 DEF IInv
  <1>2. IInv /\ [Next]_vars => IInv'
    BY TypeStep, KeptStep DEF IInv, KeptInv
  <1>3. QED
    BY <1>1, <1>2, PTL DEF Spec

\* Every variable of the basket's page and routes keeps its type.
THEOREM TypeCorrect == Spec => []TypeOK
  <1>1. IInv => TypeOK
    BY DEF IInv
  <1>2. QED
    BY <1>1, Inductive, PTL

\* The server keeps nothing but baskets by the rules.
THEOREM OnlyBasketsAreStored == Spec => []StoredIsABasket
  <1>1. IInv => StoredIsABasket
    BY DEF IInv
  <1>2. QED
    BY <1>1, Inductive, PTL

\* A basket the page found good is refused only when the top list has changed.
THEOREM RefusalsHaveAReason == Spec => []RefusedForAReason
  <1>1. IInv => RefusedForAReason
    BY DEF IInv
  <1>2. QED
    BY <1>1, Inductive, PTL

\* Auto-balance never gets stuck: for any rules that leave room for 100%, any picks and any
\* number of them that is permitted, it reaches 100% within the limits.
THEOREM AutoBalanceReaches == Spec => []BalanceReaches
  <1>1. ASSUME TypeOK PROVE BalanceReaches
    <2> SUFFICES ASSUME Len(working) \in MinPicks .. MaxPicks, NEW i \in DOMAIN working, NEW value \in Percents
                 PROVE  LET list == AutoBalance([working EXCEPT ![i].pct = Clamp(value, MinPct, MaxPct)])
                        IN Total(list) = 100 /\ \A p \in ToSet(list) : ~OutOfRange(p)
      BY DEF BalanceReaches
    <2> DEFINE set == [working EXCEPT ![i].pct = Clamp(value, MinPct, MaxPct)]
    <2>1. working \in Lists
      BY <1>1 DEF TypeOK
    <2>2. Clamp(value, MinPct, MaxPct) \in MinPct .. MaxPct
      BY PercentsAssumption, Rules DEF Clamp, Min2
    <2>3. set \in Lists /\ Len(set) = Len(working)
      BY <2>1, <2>2, EditedLists
    <2> HIDE DEF set
    <2>4. Total(AutoBalance(set)) = 100 /\ AutoBalance(set) \in Lists
      BY <2>3, BalanceIs100, BalanceType
    <2>5. \A p \in ToSet(AutoBalance(set)) : ~OutOfRange(p)
      BY <2>4, InRange DEF OutOfRange
    <2>6. QED
      BY <2>4, <2>5 DEF set
  <1>2. QED
    BY <1>1, TypeCorrect, PTL
=============================================================================
