--------------------------- MODULE ServicesProofs ---------------------------
(***************************************************************************)
(* What the list of stocks, the pre-flight, the sign-in, the snapshots and *)
(* the totals promise: Universe for any visitors, hour, attempts and       *)
(* restarts, Preflight for every world it can look at, SignIn for every    *)
(* set of accounts, every time limit, with SESSION_SECRET and without,     *)
(* Holders for any accounts, amounts, pages and parts, whichever call      *)
(* fails, Totals for any rounds the pages hold, whatever fails.            *)
(***************************************************************************)
EXTENDS Universe, Preflight, SignIn, Holders, Totals, Sums, SequenceTheorems, FiniteSetTheorems, TLAPS

-----------------------------------------------------------------------------
(* Universe: lists and refreshes.                                          *)

\* A list is its four fields.
LEMMA Fields ==
  ASSUME NEW list \in List
  PROVE  /\ list.source \in Sources /\ list.rows \in Rows /\ list.age \in 0 .. Hour /\ list.stale \in BOOLEAN
         /\ list.age \in Nat /\ Hour \in Nat \ {0}
  BY UniverseAssumption DEF List

\* Every list that is built is one.
LEMMA ListsAreBuilt ==
  /\ NoList \in List /\ NoList.stale /\ NoList.age = Hour
  /\ FromSeed \in List /\ FromSeed.stale
  /\ Build("jupiter", "live", 0, FALSE) \in List
  BY UniverseAssumption DEF NoList, FromSeed, SeedRows, Build, List, Rows, Sources

\* loadFromKv: what it makes of a document is stale unless the document is fresh.
LEMMA KvListIsAList ==
  ASSUME NEW doc \in List
  PROVE  /\ FromKv(doc) \in List /\ FromKv(doc).rows = doc.rows /\ FromKv(doc).age = doc.age
         /\ FromKv(doc).stale <=> doc.age >= Hour
  <1>1. CASE doc.age < Hour
    <2>1. FromKv(doc) = [source |-> IF doc.source = "jupiter" THEN "jupiter" ELSE "cache",
                         rows |-> doc.rows, age |-> doc.age, stale |-> FALSE]
      BY <1>1 DEF FromKv, Build
    <2>2. (IF doc.source = "jupiter" THEN "jupiter" ELSE "cache") \in Sources
      BY DEF Sources
    <2>3. QED
      BY <1>1, <2>1, <2>2, Fields DEF List
  <1>2. CASE ~(doc.age < Hour)
    <2>1. FromKv(doc) = [source |-> "cache", rows |-> doc.rows, age |-> doc.age, stale |-> TRUE]
      BY <1>2 DEF FromKv, Build
    <2>2. QED
      BY <1>2, <2>1, Fields DEF List, Sources
  <1>3. QED
    BY <1>1, <1>2

\* A list that is marked stale, and one that is older, is a list.
LEMMA StaleListIsAList ==
  ASSUME NEW list \in List
  PROVE  /\ [list EXCEPT !.stale = TRUE] \in List /\ [list EXCEPT !.stale = TRUE].stale
         /\ Older(list) \in List /\ Older(list).rows = list.rows /\ Older(list).stale = list.stale
         /\ Older(list).age = IF list.age < Hour THEN list.age + 1 ELSE Hour
  <1>1. [list EXCEPT !.stale = TRUE] \in List /\ [list EXCEPT !.stale = TRUE].stale
    BY DEF List
  <1>2. (IF list.age < Hour THEN list.age + 1 ELSE Hour) \in 0 .. Hour
    BY Fields
  <1>3. QED
    BY <1>1, <1>2, UniverseAssumption DEF Older, List

\* The lists a refresh finds are of this moment, or the seed and marked.
LEMMA FoundLists ==
  /\ \A rows \in {"live", "mixed"}, source \in {"jupiter", "jupiter+seed"} :
       HonestRefresh(Found(source, rows, 0))
  /\ HonestRefresh(Found("seed", "seed", Hour))
  <1>1. ASSUME NEW list \in List PROVE [at |-> "found", list |-> list] \in Refresh
    <2>1. [at |-> "found", list |-> list] \in [at : {"found", "put"}, list : List]
      OBVIOUS
    <2>2. QED
      BY <2>1 DEF Refresh
  <1>2. 0 \in 0 .. Hour /\ Hour \in 0 .. Hour /\ 0 < Hour /\ ~(Hour < Hour)
    BY UniverseAssumption
  <1>3. ASSUME NEW rows \in {"live", "mixed"}, NEW source \in {"jupiter", "jupiter+seed"}
        PROVE  HonestRefresh(Found(source, rows, 0))
    <2> DEFINE list == [source |-> source, rows |-> rows, age |-> 0, stale |-> FALSE]
    <2>1. list \in List /\ list.rows \in {"live", "mixed"} /\ list.age = 0
      BY <1>2 DEF List, Rows, Sources
    <2>2. Found(source, rows, 0) = [at |-> "found", list |-> list]
      BY DEF Found, Build
    <2> HIDE DEF list
    <2>3. QED
      BY <1>1, <2>1, <2>2 DEF HonestRefresh, HonestDoc, FromJupiter
  <1>4. HonestRefresh(Found("seed", "seed", Hour))
    <2> DEFINE list == [source |-> "seed", rows |-> "seed", age |-> Hour, stale |-> TRUE]
    <2>1. list \in List /\ list.stale /\ list.age = Hour
      BY <1>2 DEF List, Rows, Sources
    <2>2. Found("seed", "seed", Hour) = [at |-> "found", list |-> list]
      BY DEF Found, Build
    <2> HIDE DEF list
    <2>3. QED
      BY <1>1, <1>2, <2>1, <2>2 DEF HonestRefresh, HonestDoc
  <1>5. QED
    BY <1>3, <1>4

\* What a refresh goes on to, and ends with.
LEMMA RefreshesGoOn ==
  /\ HonestRefresh(NoRefresh) /\ HonestRefresh([at |-> "failed"]) /\ HonestRefresh([at |-> "kv"])
  /\ \A t \in 1 .. Attempts :
       HonestRefresh([at |-> "search", try |-> t]) /\ HonestRefresh([at |-> "prices", try |-> t])
  /\ 1 \in 1 .. Attempts
  /\ HonestRefresh(SearchFellBack)
  /\ HonestRefresh(Found("jupiter", ToStocks(TRUE), 0)) /\ HonestRefresh(Found("jupiter", ToStocks(FALSE), 0))
  /\ HonestRefresh(Found("jupiter+seed", ToStocks(FALSE), 0))
  <1>1. 1 \in 1 .. Attempts
    BY UniverseAssumption
  <1>2. HonestRefresh(NoRefresh) /\ HonestRefresh([at |-> "failed"]) /\ HonestRefresh([at |-> "kv"])
    BY DEF HonestRefresh, Refresh, NoRefresh
  <1>3. \A t \in 1 .. Attempts :
          HonestRefresh([at |-> "search", try |-> t]) /\ HonestRefresh([at |-> "prices", try |-> t])
    BY DEF HonestRefresh, Refresh
  <1>4. HonestRefresh(SearchFellBack)
    BY <1>2, FoundLists DEF SearchFellBack
  <1>5. ToStocks(TRUE) = "live" /\ ToStocks(FALSE) = "mixed"
    BY DEF ToStocks
  <1>6. QED
    BY <1>1, <1>2, <1>3, <1>4, <1>5, FoundLists

\* request, when it fails: another attempt, or what the caller makes of it.
LEMMA AttemptedGoesOn ==
  ASSUME HonestRefresh(refresh), refresh.at \in {"search", "prices"},
         NEW answered, NEW given, HonestRefresh(answered), HonestRefresh(given), Attempted(TRUE, answered, given)
  PROVE  HonestRefresh(refresh') /\ UNCHANGED <<layers, asking, served, world>>
  <1>1. CASE RefreshGoes(answered)
    BY <1>1 DEF RefreshGoes
  <1>2. CASE RefreshGoes(IF refresh.try < Attempts THEN [refresh EXCEPT !.try = @ + 1] ELSE given)
    <2>1. refresh \in [at : {"search", "prices"}, try : 1 .. Attempts]
      BY DEF HonestRefresh, Refresh, NoRefresh
    <2>2. refresh.try < Attempts => refresh.try + 1 \in 1 .. Attempts
      BY <2>1, UniverseAssumption
    <2>3. [refresh EXCEPT !.try = @ + 1] = [at |-> refresh.at, try |-> refresh.try + 1]
      BY <2>1
    <2>4. refresh.try < Attempts => HonestRefresh([refresh EXCEPT !.try = @ + 1])
      BY <2>2, <2>3, RefreshesGoOn
    <2>5. QED
      BY <1>2, <2>4 DEF RefreshGoes
  <1>3. QED
    BY <1>1, <1>2 DEF Attempted

\* The end of get(): the current list when it is fresh, or a refresh.
LEMMA AnswerIsHonest ==
  ASSUME UniverseIInv, NEW v \in Visitors, NEW list, NEW since, HonestCurrent(list, since),
         AnswerOrRefresh(v, list, since)
  PROVE  /\ HonestAnswer(served') /\ HonestRefresh(refresh')
         /\ asking' \in [Visitors -> {"no", "kv", "refresh"}]
  <1>1. CASE list # NoList /\ since < Hour
    <2>1. HonestAnswer(list)
      BY <1>1, Fields DEF HonestCurrent, HonestAnswer
    <2>2. QED
      BY <1>1, <2>1 DEF AnswerOrRefresh, UniverseIInv
  <1>2. CASE ~(list # NoList /\ since < Hour)
    BY <1>2, RefreshesGoOn DEF AnswerOrRefresh, UniverseIInv
  <1>3. QED
    BY <1>1, <1>2

\* A document that is read from the store, while it is marked stale or as it is.
LEMMA KvIsHonest ==
  ASSUME NEW doc, HonestDoc(doc), NEW since \in 0 .. Hour
  PROVE  /\ HonestCurrent(FromKv(doc), IF doc.age < Hour THEN doc.age ELSE since)
         /\ FromKv(doc) \in List
  <1>1. doc \in List
    BY DEF HonestDoc
  <1>2. QED
    BY <1>1, KvListIsAList, Fields DEF HonestDoc, HonestCurrent, FromJupiter

\* A list that is marked stale is honest whatever it is.
LEMMA MarkedIsHonest ==
  ASSUME NEW list \in List, NEW since \in 0 .. Hour
  PROVE  /\ HonestCurrent([list EXCEPT !.stale = TRUE], since) /\ HonestAnswer([list EXCEPT !.stale = TRUE])
  BY StaleListIsAList DEF HonestCurrent, HonestAnswer

-----------------------------------------------------------------------------
(* Universe: steps.                                                        *)

\* Every step of the list is one of these.
LEMMA UniverseCases ==
  [UniverseNext]_universeVars <=>
    \/ \E v \in Visitors : Ask(v)
    \/ \E v \in Visitors : KvRead(v)
    \/ \E v \in Visitors : ForceRefresh(v)
    \/ SearchXStocks \/ Prices \/ TakeLive \/ PutLive \/ RefreshFails
    \/ UniverseTick \/ JupiterChanges \/ UniverseRestart
    \/ UNCHANGED universeVars
  BY DEF UniverseNext, AskAny, KvReadAny, ForceAny, RefreshStep


\* Everything that is kept, found or answered stays honest.
LEMMA UniverseStep ==
  UniverseIInv /\ [UniverseNext]_universeVars => UniverseIInv'
  <1> SUFFICES ASSUME UniverseIInv, [UniverseNext]_universeVars PROVE UniverseIInv'
    OBVIOUS
<1>1. ASSUME NEW v \in Visitors, Ask(v) PROVE UniverseIInv'
  <2>1. CASE asking' = [asking EXCEPT ![v] = "kv"] /\ kvLoaded' = TRUE /\ UNCHANGED <<refresh, served>>
    BY <1>1, <2>1 DEF Ask, UniverseIInv, world
  <2>2. CASE AnswerOrRefresh(v, current, fetched) /\ UNCHANGED kvLoaded
    <3>1. /\ HonestAnswer(served') /\ HonestRefresh(refresh')
          /\ asking' \in [Visitors -> {"no", "kv", "refresh"}]
      BY <2>2, AnswerIsHonest DEF UniverseIInv
    <3>2. QED
      BY <1>1, <2>2, <3>1 DEF Ask, UniverseIInv, world
  <2>3. QED
    BY <1>1, <2>1, <2>2 DEF Ask
<1>2. ASSUME NEW v \in Visitors, KvRead(v) PROVE UniverseIInv'
  <2>1. PICK found \in {kv, NoList} : KvFound(found)
    BY <1>2 DEF KvRead
  <2>2. HonestDoc(kv) /\ fetched \in 0 .. Hour
    BY DEF UniverseIInv, HonestCurrent
  <2>3. HonestCurrent(current', fetched')
    <3>1. CASE found = NoList
      BY <2>1, <3>1 DEF KvFound, UniverseIInv
    <3>2. CASE found # NoList
      BY <2>1, <2>2, <3>2, KvIsHonest DEF KvFound
    <3>3. QED
      BY <3>1, <3>2
  <2>4. /\ HonestAnswer(served') /\ HonestRefresh(refresh')
        /\ asking' \in [Visitors -> {"no", "kv", "refresh"}]
    BY <1>2, <2>3, AnswerIsHonest DEF KvRead
  <2>5. QED
    BY <1>2, <2>3, <2>4 DEF KvRead, UniverseIInv, world
<1>3. ASSUME NEW v \in Visitors, ForceRefresh(v) PROVE UniverseIInv'
  <2>1. HonestCurrent(NoList, Hour)
    BY ListsAreBuilt, UniverseAssumption DEF HonestCurrent
  <2>2. /\ HonestAnswer(served') /\ HonestRefresh(refresh')
        /\ asking' \in [Visitors -> {"no", "kv", "refresh"}]
    BY <1>3, <2>1, AnswerIsHonest DEF ForceRefresh
  <2>3. QED
    BY <1>3, <2>2 DEF ForceRefresh, UniverseIInv, layers, world
<1>4. CASE SearchXStocks
  <2>1. HonestRefresh(refresh') /\ UNCHANGED <<layers, asking, served, world>>
    <3>1. CASE Attempted(TRUE, [at |-> "prices", try |-> 1], SearchFellBack)
      BY <1>4, <3>1, RefreshesGoOn, AttemptedGoesOn DEF SearchXStocks, UniverseIInv
    <3>2. CASE RefreshGoes(SearchFellBack)
      BY <3>2, RefreshesGoOn DEF RefreshGoes
    <3>3. QED
      BY <1>4, <3>1, <3>2 DEF SearchXStocks
  <2>2. QED
    BY <2>1 DEF UniverseIInv, layers, world
<1>5. CASE Prices
  <2>1. HonestRefresh(refresh') /\ UNCHANGED <<layers, asking, served, world>>
    <3>1. CASE Attempted(TRUE, Found("jupiter", ToStocks(TRUE), 0), Found("jupiter+seed", ToStocks(FALSE), 0))
      BY <1>5, <3>1, RefreshesGoOn, AttemptedGoesOn DEF Prices, UniverseIInv
    <3>2. CASE RefreshGoes(Found("jupiter", ToStocks(FALSE), 0))
      BY <3>2, RefreshesGoOn DEF RefreshGoes
    <3>3. QED
      BY <1>5, <3>1, <3>2 DEF Prices
  <2>2. QED
    BY <2>1 DEF UniverseIInv, layers, world
<1>6. CASE TakeLive
  <2> DEFINE list == refresh.list
  <2>1. HonestDoc(list) /\ (~list.stale => FromJupiter(list) /\ list.age = 0)
    BY <1>6 DEF TakeLive, UniverseIInv, HonestRefresh
  <2>2. HonestCurrent(current', fetched')
    <3>1. current' = list /\ fetched' = 0
      BY <1>6 DEF TakeLive
    <3>2. QED
      BY <2>1, <3>1, UniverseAssumption DEF HonestCurrent, HonestDoc
  <2>3. HonestRefresh(refresh')
    <3>1. refresh' = [at |-> "put", list |-> list] /\ list \in List
      BY <1>6, <2>1 DEF TakeLive, HonestDoc
    <3>2. QED
      BY <2>1, <3>1 DEF HonestRefresh, Refresh
  <2>4. QED
    BY <1>6, <2>1, <2>2, <2>3 DEF TakeLive, UniverseIInv, world
<1>7. CASE PutLive
  <2>1. HonestAnswer(served')
    BY <1>7, UniverseAssumption DEF PutLive, Served, UniverseIInv, HonestRefresh, HonestDoc,
      HonestAnswer
  <2>2. asking' \in [Visitors -> {"no", "kv", "refresh"}]
    BY <1>7 DEF PutLive, Served, UniverseIInv
  <2>3. QED
    BY <1>7, <2>1, <2>2, RefreshesGoOn DEF PutLive, UniverseIInv, world
<1>8. CASE RefreshFails
  <2>1. CASE kvLoaded' = TRUE /\ refresh' = [at |-> "kv"] /\ UNCHANGED <<current, fetched, asking, served>>
    BY <1>8, <2>1, RefreshesGoOn DEF RefreshFails, UniverseIInv, world
  <2>2. ASSUME NEW list, HonestCurrent(list, fetched'), HonestAnswer(list), FallBack(list),
               UNCHANGED kvLoaded
        PROVE  UniverseIInv'
    <3>1. asking' \in [Visitors -> {"no", "kv", "refresh"}]
      BY <2>2 DEF FallBack, Served, UniverseIInv
    <3>2. QED
      BY <1>8, <2>2, <3>1, RefreshesGoOn DEF FallBack, Served, RefreshFails, UniverseIInv, world
  <2>3. fetched \in 0 .. Hour /\ current \in List /\ HonestDoc(kv)
    BY DEF UniverseIInv, HonestCurrent
  <2>4. \A since \in 0 .. Hour : HonestCurrent(FromSeed, since) /\ HonestAnswer(FromSeed)
    BY ListsAreBuilt DEF HonestCurrent, HonestAnswer
  <2>5. CASE /\ FallBack(IF current # NoList THEN [current EXCEPT !.stale = TRUE] ELSE FromSeed)
             /\ UNCHANGED <<fetched, kvLoaded>>
    BY <2>2, <2>3, <2>4, <2>5, MarkedIsHonest
  <2>6. CASE /\ \E found \in {kv, NoList} :
                  /\ fetched' = IF found # NoList /\ found.age < Hour THEN found.age ELSE fetched
                  /\ FallBack(IF found # NoList THEN [FromKv(found) EXCEPT !.stale = TRUE] ELSE FromSeed)
             /\ UNCHANGED kvLoaded
    <3>1. PICK found \in {kv, NoList} :
            /\ fetched' = IF found # NoList /\ found.age < Hour THEN found.age ELSE fetched
            /\ FallBack(IF found # NoList THEN [FromKv(found) EXCEPT !.stale = TRUE] ELSE FromSeed)
      BY <2>6
    <3>2. found # NoList => HonestDoc(found) /\ FromKv(found) \in List /\ found.age \in 0 .. Hour
      BY <2>3, KvIsHonest, Fields DEF HonestDoc
    <3>3. fetched' \in 0 .. Hour
      BY <2>3, <3>1, <3>2
    <3>4. CASE found = NoList
      BY <2>2, <2>4, <2>6, <3>1, <3>3, <3>4
    <3>5. CASE found # NoList
      BY <2>2, <2>6, <3>1, <3>2, <3>3, <3>5, MarkedIsHonest
    <3>6. QED
      BY <3>4, <3>5
  <2>7. QED
    BY <1>8, <2>1, <2>5, <2>6 DEF RefreshFails
<1>9. CASE UniverseTick
  <2>1. HonestDoc(Older(kv)) /\ HonestDoc(Older(kvFile))
    <3>1. \A doc \in List : HonestDoc(doc) => HonestDoc(Older(doc))
      <4> SUFFICES ASSUME NEW doc \in List, HonestDoc(doc) PROVE HonestDoc(Older(doc))
        OBVIOUS
      <4>1. /\ Older(doc) \in List /\ Older(doc).rows = doc.rows
            /\ Older(doc).age < Hour => doc.age < Hour
        <5>1. doc.age \in Nat /\ Hour \in Nat
          BY Fields
        <5>2. Older(doc).age = IF doc.age < Hour THEN doc.age + 1 ELSE Hour
          BY StaleListIsAList
        <5>3. Older(doc) \in List /\ Older(doc).rows = doc.rows
          BY StaleListIsAList
        <5>4. Older(doc).age < Hour => doc.age < Hour
          BY <5>1, <5>2
        <5>5. QED
          BY <5>3, <5>4
      <4>2. QED
        BY <4>1 DEF HonestDoc, FromJupiter
    <3>2. QED
      BY <3>1 DEF UniverseIInv, HonestDoc
  <2>2. HonestCurrent(current', fetched')
    <3>1. current' = Older(current) /\ fetched' = (IF fetched < Hour THEN fetched + 1 ELSE Hour)
      BY <1>9 DEF UniverseTick
    <3>2. current \in List /\ fetched \in 0 .. Hour
      BY DEF UniverseIInv, HonestCurrent
    <3>3. /\ Older(current) \in List /\ Older(current).rows = current.rows /\ Older(current).stale = current.stale
          /\ Older(current).age = IF current.age < Hour THEN current.age + 1 ELSE Hour
          /\ current.age \in 0 .. Hour /\ Hour \in Nat
      BY <3>2, StaleListIsAList, Fields
    <3>4. fetched' \in 0 .. Hour /\ (current.age <= fetched => Older(current).age <= fetched')
      BY <3>1, <3>2, <3>3
    <3>5. QED
      BY <3>1, <3>3, <3>4 DEF UniverseIInv, HonestCurrent, FromJupiter
  <2>3. QED
    BY <1>9, <2>1, <2>2 DEF UniverseTick, UniverseIInv, world
<1>10. CASE JupiterChanges
  BY <1>10 DEF JupiterChanges, UniverseIInv, layers, world
<1>11. CASE UniverseRestart
  <2>1. HonestCurrent(current', fetched')
    BY <1>11, ListsAreBuilt, UniverseAssumption DEF UniverseRestart, HonestCurrent
  <2>2. listCrashes' \in 0 .. MaxListCrashes
    BY <1>11, UniverseAssumption DEF UniverseRestart, UniverseIInv
  <2>3. QED
    BY <1>11, <2>1, <2>2, RefreshesGoOn DEF UniverseRestart, UniverseIInv
<1>12. CASE UNCHANGED universeVars
  BY <1>12 DEF universeVars, UniverseIInv, layers, world
<1>13. QED
  BY UniverseCases, <1>1, <1>2, <1>3, <1>4, <1>5, <1>6, <1>7, <1>8, <1>9, <1>10, <1>11, <1>12

\* The first state is honest.
LEMMA UniverseStart ==
  UniverseInit => UniverseIInv
  <1> SUFFICES ASSUME UniverseInit PROVE UniverseIInv
    OBVIOUS
  <1>1. HonestDoc(NoList) /\ HonestAnswer(NoList) /\ HonestCurrent(NoList, Hour)
    BY ListsAreBuilt, UniverseAssumption DEF HonestDoc, HonestAnswer, HonestCurrent
  <1>2. HonestDoc(Build("jupiter", "live", 0, FALSE))
    <2>1. Build("jupiter", "live", 0, FALSE).rows = "live"
      BY DEF Build
    <2>2. QED
      BY <2>1, ListsAreBuilt DEF HonestDoc, FromJupiter
  <1>3. HonestDoc(kv) /\ HonestDoc(kvFile)
    BY <1>1, <1>2 DEF UniverseInit
  <1>4. HonestCurrent(current, fetched) /\ HonestAnswer(served) /\ HonestRefresh(refresh)
    BY <1>1, RefreshesGoOn DEF UniverseInit
  <1>5. asking \in [Visitors -> {"no", "kv", "refresh"}] /\ listCrashes \in 0 .. MaxListCrashes
    BY UniverseAssumption DEF UniverseInit
  <1>6. {jupiterOk, seedOk, kvLoaded} \subseteq BOOLEAN
    BY DEF UniverseInit
  <1>7. QED
    BY <1>3, <1>4, <1>5, <1>6 DEF UniverseIInv

\* Every reachable state of the list is honest, and of its type.
THEOREM UniverseInductive ==
  UniverseSpec => []UniverseIInv
  BY UniverseStart, UniverseStep, PTL DEF UniverseSpec

\* An answer that is not marked stale is Jupiter's and less than an hour old, whatever
\* the store held, whichever requests, reads and writes failed, and wherever the
\* process was restarted (universe.js, get and refresh).
THEOREM LabelsAreHonest ==
  UniverseSpec => []LabelIsHonest
  <1>1. UniverseIInv => LabelIsHonest
    BY DEF UniverseIInv, HonestAnswer, FromJupiter, LabelIsHonest
  <1>2. QED
    BY <1>1, UniverseInductive, PTL

-----------------------------------------------------------------------------
(* Preflight.                                                              *)

\* No client of the script gets a send to the cluster.
LEMMA NoClientSends ==
  ASSUME NEW client, NEW methods, methods \subseteq {"read", "simulate", "send"},
         Asks(client, methods), NothingIsSent
  PROVE  NothingIsSent'
  BY DEF Asks, Asked, GuardedFetch, NothingIsSent

\* Every step of the script is one of these.
LEMMA PreflightCases ==
  [PreflightNext]_preflightVars <=>
    \/ LoadConfig \/ ProveLayers \/ ProveDistributor
    \/ VaultIdentity \/ VaultFunding \/ StockTransferable \/ SwapTx \/ DistributionTx \/ RentTruth
    \/ Interlocks \/ Summary
    \/ UNCHANGED preflightVars
  BY DEF PreflightNext


\* Nothing is sent by a step, whatever is wrong with the code it runs.
LEMMA NothingIsSentStep ==
  NothingIsSent /\ [PreflightNext]_preflightVars => NothingIsSent'
  <1> SUFFICES ASSUME NothingIsSent, [PreflightNext]_preflightVars PROVE NothingIsSent'
    OBVIOUS
<1>1. CASE LoadConfig
  BY <1>1, NoClientSends DEF LoadConfig, NothingIsSent
<1>2. CASE ProveLayers
  BY <1>2, NoClientSends DEF ProveLayers, ExpectBlocked, NothingIsSent
<1>3. CASE ProveDistributor
  BY <1>3, NoClientSends DEF ProveDistributor, NothingIsSent
<1>4. CASE VaultIdentity
  BY <1>4, NoClientSends DEF VaultIdentity, Record, NothingIsSent
<1>5. CASE VaultFunding
  BY <1>5, NoClientSends DEF VaultFunding, Record, NothingIsSent
<1>6. CASE StockTransferable
  BY <1>6, NoClientSends DEF StockTransferable, Record, NothingIsSent
<1>7. CASE SwapTx
  BY <1>7, NoClientSends DEF SwapTx, Record, NothingIsSent
<1>8. CASE DistributionTx
  BY <1>8, NoClientSends DEF DistributionTx, Record, NothingIsSent
<1>9. CASE RentTruth
  BY <1>9, NoClientSends DEF RentTruth, Record, NothingIsSent
<1>10. CASE Interlocks
  BY <1>10, NoClientSends DEF Interlocks, Record, NothingIsSent
<1>11. CASE Summary
  BY <1>11, NoClientSends DEF Summary, NothingIsSent
<1>12. CASE UNCHANGED preflightVars
  BY <1>12, NoClientSends DEF preflightVars, NothingIsSent
<1>13. QED
  BY PreflightCases, <1>1, <1>2, <1>3, <1>4, <1>5, <1>6, <1>7, <1>8, <1>9, <1>10, <1>11, <1>12

\* Nothing is ever sent by the pre-flight, by the code it runs or by the attempts of
\* --prove-guard: the two layers of preflight.mjs let no send through.
THEOREM PreflightNeverSends ==
  PreflightSpec => []NothingIsSent
  <1>1. PreflightInit => NothingIsSent
    BY DEF PreflightInit, NothingIsSent
  <1>2. QED
    BY <1>1, NothingIsSentStep, PTL DEF PreflightSpec

\* The invariant holds at the start.
LEMMA PreflightStart ==
  PreflightInit => PreflightIInv
  <1> SUFFICES ASSUME PreflightInit PROVE PreflightIInv
    OBVIOUS
  <1>1. PreflightTypeOK
    BY DEF PreflightInit, PreflightTypeOK, Steps, Ids, Statuses, Verdicts
  <1>2. StatusInv
    BY DEF PreflightInit, StatusInv
  <1>3. OrderInv /\ ReadyIsEarned
    BY DEF PreflightInit, OrderInv, Behind, ReadyIsEarned
  <1>4. QED
    BY <1>1, <1>2, <1>3 DEF PreflightIInv

\* The check that follows.
After(id) ==
  CASE id = "vault_identity"     -> "vault_funding"
    [] id = "vault_funding"      -> "stock_transferable"
    [] id = "stock_transferable" -> "swap_tx"
    [] id = "swap_tx"            -> "distribution_tx"
    [] id = "distribution_tx"    -> "rent_truth"
    [] id = "rent_truth"         -> "interlocks"
    [] id = "interlocks"         -> "summary"

\* A check: it records a status it has earned, and the next one follows.
Checks(id) ==
  /\ \E status \in Statuses : Earned(id, status) /\ Record(id, status, After(id))
  /\ stocks' \in BOOLEAN
  /\ \E methods \in SUBSET {"read", "simulate", "send"} : reached' = reached \cup methods

\* What a client asks for is one of the three.
LEMMA AsksForSome ==
  ASSUME NEW client, NEW methods, methods \subseteq {"read", "simulate", "send"}, Asks(client, methods)
  PROVE  \E m \in SUBSET {"read", "simulate", "send"} : reached' = reached \cup m
  <1>1. Asked(client, methods) \in SUBSET {"read", "simulate", "send"}
    BY DEF Asked
  <1>2. QED
    BY <1>1 DEF Asks

\* A simulation that is "ok" had the money and no defect.
LEMMA OkIsClean ==
  ASSUME NEW defect, NEW funded, NEW held, "ok" \in Classes(defect, funded, held)
  PROVE  funded /\ ~defect /\ held
  BY DEF Classes

\* Each of the seven actions is such a check.
LEMMA ChecksAreEarned ==
  ASSUME PreflightTypeOK
  PROVE  /\ VaultIdentity => Checks("vault_identity")
         /\ VaultFunding => Checks("vault_funding")
         /\ StockTransferable => Checks("stock_transferable")
         /\ SwapTx => Checks("swap_tx")
         /\ DistributionTx => Checks("distribution_tx")
         /\ RentTruth => Checks("rent_truth")
         /\ Interlocks => Checks("interlocks")
  <1> USE DEF Earned, Statuses, After, Checks
  <1>0. reached' = reached => \E m \in SUBSET {"read", "simulate", "send"} : reached' = reached \cup m
    <2>1. reached = reached \cup {} /\ {} \in SUBSET {"read", "simulate", "send"}
      OBVIOUS
    <2>2. QED
      BY <2>1
  <1>1. ASSUME VaultIdentity PROVE Checks("vault_identity")
    BY <1>0, <1>1 DEF VaultIdentity, PreflightTypeOK
  <1>2. ASSUME VaultFunding PROVE Checks("vault_funding")
    BY <1>2, AsksForSome DEF VaultFunding, PreflightTypeOK
  <1>3. ASSUME StockTransferable PROVE Checks("stock_transferable")
    BY <1>3, AsksForSome DEF StockTransferable, PreflightTypeOK
  <1>4. ASSUME SwapTx PROVE Checks("swap_tx")
    <2>1. CASE Record("swap_tx", "FAIL", "distribution_tx") /\ UNCHANGED reached
      BY <1>0, <1>4, <2>1 DEF SwapTx, PreflightTypeOK
    <2>2. CASE \E klass \in Classes("swap" \in facts.defects, facts.funds = "floor", TRUE) :
                 Record("swap_tx", SwapStatus(klass), "distribution_tx") /\ Asks("guarded", {"simulate"})
      <3>1. PICK klass \in Classes("swap" \in facts.defects, facts.funds = "floor", TRUE) :
              Record("swap_tx", SwapStatus(klass), "distribution_tx") /\ Asks("guarded", {"simulate"})
        BY <2>2
      <3>2. klass \in {"ok", "unfunded", "bad"} /\ (klass = "ok" => "swap" \notin facts.defects)
        BY <3>1, OkIsClean DEF Classes
      <3>3. SwapStatus(klass) \in {"PASS", "NOTE", "FAIL"} /\ (SwapStatus(klass) = "PASS" => klass = "ok")
        BY <3>2 DEF SwapStatus
      <3>4. Earned("swap_tx", SwapStatus(klass)) /\ SwapStatus(klass) \in Statuses
        BY <3>2, <3>3
      <3>5. QED
        BY <1>4, <3>1, <3>4, AsksForSome DEF SwapTx, PreflightTypeOK
    <2>3. QED
      BY <1>4, <2>1, <2>2 DEF SwapTx
  <1>5. ASSUME DistributionTx PROVE Checks("distribution_tx")
    <2> DEFINE classes == Classes("distribution" \in facts.defects, facts.funds # "none", facts.holding)
    <2> DEFINE status(klass, read) == DistributionStatus(klass, read /\ "structure" \notin facts.defects)
    <2>1. CASE Record("distribution_tx", "FAIL", "rent_truth") /\ UNCHANGED reached
      BY <1>0, <1>5, <2>1 DEF DistributionTx, PreflightTypeOK
    <2>2. CASE \E klass \in classes, read \in BOOLEAN :
                 Record("distribution_tx", status(klass, read), "rent_truth") /\ Asks("guarded", {"read", "simulate"})
      <3>1. PICK klass \in classes, read \in BOOLEAN :
              Record("distribution_tx", status(klass, read), "rent_truth") /\ Asks("guarded", {"read", "simulate"})
        BY <2>2
      <3>2. klass \in {"ok", "unfunded", "bad"}
            /\ (klass = "ok" => "distribution" \notin facts.defects /\ facts.holding)
        BY <3>1, OkIsClean DEF Classes
      <3>3. /\ status(klass, read) \in {"PASS", "NOTE", "FAIL"}
            /\ status(klass, read) = "PASS" => klass = "ok"
            /\ status(klass, read) # "FAIL" => "structure" \notin facts.defects
        BY <3>2 DEF DistributionStatus
      <3> HIDE DEF status
      <3>4. Earned("distribution_tx", status(klass, read)) /\ status(klass, read) \in Statuses
        BY <3>2, <3>3
      <3>5. QED
        BY <1>5, <3>1, <3>4, AsksForSome DEF DistributionTx, PreflightTypeOK
    <2>3. QED
      BY <1>5, <2>1, <2>2 DEF DistributionTx
  <1>6. ASSUME RentTruth PROVE Checks("rent_truth")
    <2> DEFINE found == CASE facts.rent = "exact" -> "PASS" [] facts.rent = "over" -> "NOTE"
                          [] facts.rent = "under" -> "FAIL"
    <2>1. facts.rent \in {"exact", "over", "under"}
      BY DEF PreflightTypeOK, Facts
    <2>2. found \in {"PASS", "NOTE", "FAIL"} /\ (found # "FAIL" => facts.rent # "under")
      BY <2>1
    <2> HIDE DEF found
    <2>3. Earned("rent_truth", found) /\ Earned("rent_truth", "FAIL")
      BY <2>2
    <2>4. \E status \in {found, "FAIL"} : Record("rent_truth", status, "interlocks")
      BY <1>6 DEF RentTruth, found
    <2>5. QED
      BY <1>6, <2>2, <2>3, <2>4, AsksForSome DEF RentTruth, PreflightTypeOK
  <1>7. ASSUME Interlocks PROVE Checks("interlocks")
    <2>1. CASE DistributorRefuses /\ RunnerRefuses
      <3>1. facts.defects \cap {"sends", "crosses"} = {}
        BY <2>1 DEF DistributorRefuses, RunnerRefuses
      <3>2. QED
        BY <1>7, <2>1, <3>1, AsksForSome DEF Interlocks, PreflightTypeOK
    <2>2. CASE ~(DistributorRefuses /\ RunnerRefuses)
      BY <1>7, <2>2, AsksForSome DEF Interlocks, PreflightTypeOK
    <2>3. QED
      BY <2>1, <2>2
  <1>8. QED
    BY <1>1, <1>2, <1>3, <1>4, <1>5, <1>6, <1>7

\* A check keeps the invariant, and adds itself to those that are behind.
LEMMA CheckStep ==
  ASSUME PreflightIInv, NEW id \in Ids, Checks(id)
  PROVE  PreflightIInv'
  <1>1. PICK status \in Statuses : Earned(id, status) /\ Record(id, status, After(id))
    BY DEF Checks
  <1>2. /\ step = id /\ step' = After(id) /\ UNCHANGED <<facts, verdict>>
        /\ checks \in [Ids -> Statuses] /\ checks' = [checks EXCEPT ![id] = status]
    BY <1>1 DEF Record, Goes, PreflightIInv, PreflightTypeOK
  <1>3. /\ After(id) \in Steps \ {"end", "guard1", "guard2", "guard3", "guard4"}
        /\ Behind(After(id)) \subseteq Behind(id) \cup {id}
        /\ Behind(id) \subseteq Ids
        /\ id \notin {"end", "guard1", "guard2", "guard3", "guard4"}
    BY DEF After, Behind, Ids, Steps
  <1>4. PreflightTypeOK'
    <2>1. reached' \subseteq {"read", "simulate", "send"} /\ stocks' \in BOOLEAN
      BY DEF Checks, PreflightIInv, PreflightTypeOK
    <2>2. QED
      BY <1>1, <1>2, <1>3, <2>1 DEF PreflightIInv, PreflightTypeOK
  <1>5. StatusInv'
    <2>1. \A i \in Ids, s \in Statuses : Earned(i, s)' <=> Earned(i, s)
      BY <1>2 DEF Earned
    <2>2. QED
      BY <1>1, <1>2, <2>1 DEF PreflightIInv, StatusInv
  <1>6. OrderInv'
    <2>1. verdict.line = "none" /\ verdict.exit = "none"
      BY <1>2, <1>3 DEF PreflightIInv, OrderInv
    <2>2. \A i \in Behind(After(id)) : checks'[i] # "none"
      <3>1. status # "none"
        BY <1>1 DEF Earned
      <3>2. QED
        BY <1>2, <1>3, <3>1 DEF PreflightIInv, OrderInv
    <2>3. QED
      BY <1>2, <1>3, <2>1, <2>2 DEF OrderInv
  <1>7. ReadyIsEarned'
    BY <1>2, <1>3 DEF PreflightIInv, OrderInv, ReadyIsEarned
  <1>8. QED
    BY <1>4, <1>5, <1>6, <1>7 DEF PreflightIInv

\* A step that records nothing keeps what was recorded.
LEMMA SameChecks ==
  ASSUME PreflightIInv, UNCHANGED <<facts, checks, stocks>>,
         \E m \in SUBSET {"read", "simulate", "send"} : reached' = reached \cup m,
         step' \in Steps, verdict' \in [line : Verdicts, exit : {"none", "0", "1"}],
         Behind(step') = {} , step' # "end" => verdict' = verdict /\ step # "end",
         step' \in {"guard1", "guard2", "guard3", "guard4"} => facts.proveGuard,
         ReadyIsEarned'
  PROVE  PreflightIInv'
  <1>1. PreflightTypeOK'
    BY DEF PreflightIInv, PreflightTypeOK
  <1>2. StatusInv'
    BY DEF PreflightIInv, StatusInv, Earned
  <1>3. OrderInv'
    BY DEF PreflightIInv, OrderInv
  <1>4. QED
    BY <1>1, <1>2, <1>3 DEF PreflightIInv

\* A verdict is its line and its exit code.
LEMMA VerdictFields ==
  ASSUME NEW line \in Verdicts, NEW exit \in {"none", "0", "1"}
  PROVE  /\ [line |-> line, exit |-> exit] \in [line : Verdicts, exit : {"none", "0", "1"}]
         /\ [line |-> line, exit |-> exit].line = line /\ [line |-> line, exit |-> exit].exit = exit
  OBVIOUS

\* A verdict that says nothing of the code asks nothing of it.
LEMMA SilentVerdict ==
  ASSUME facts' = facts,
         verdict'.line # "READY", step' # "end" \/ verdict'.exit # "0" \/ facts.proveGuard
  PROVE  ReadyIsEarned'
  BY DEF ReadyIsEarned

\* Every step keeps the invariant.
LEMMA PreflightStep ==
  PreflightIInv /\ [PreflightNext]_preflightVars => PreflightIInv'
  <1> SUFFICES ASSUME PreflightIInv, [PreflightNext]_preflightVars PROVE PreflightIInv'
    OBVIOUS
  <1> USE DEF Ids
  <1>a. PreflightTypeOK
    BY DEF PreflightIInv
  <1>b. reached' = reached => \E m \in SUBSET {"read", "simulate", "send"} : reached' = reached \cup m
    <2>1. reached = reached \cup {} /\ {} \in SUBSET {"read", "simulate", "send"}
      OBVIOUS
    <2>2. QED
      BY <2>1
<1>1. CASE LoadConfig
  <2>1. /\ step' \in {"end", "guard1", "vault_identity"}
        /\ UNCHANGED <<facts, checks, stocks, reached>> /\ step = "config"
        /\ step' = "end" => verdict' = [line |-> "died", exit |-> "1"]
        /\ step' # "end" => verdict' = verdict
        /\ step' = "guard1" => facts.proveGuard
    BY <1>1 DEF LoadConfig, Ends, Goes
  <2>2. verdict' \in [line : Verdicts, exit : {"none", "0", "1"}]
    <3>1. CASE step' = "end"
      BY <2>1, <3>1, VerdictFields DEF Verdicts
    <3>2. CASE step' # "end"
      BY <1>a, <2>1, <3>2 DEF PreflightTypeOK
    <3>3. QED
      BY <3>1, <3>2
  <2>3. ReadyIsEarned'
    <3>1. verdict.line = "none" /\ verdict.exit = "none"
      BY <2>1 DEF PreflightIInv, OrderInv
    <3>2. verdict'.line # "READY" /\ verdict'.exit # "0"
      BY <2>1, <3>1
    <3>3. QED
      BY <2>1, <3>2, SilentVerdict
  <2>4. step' \in Steps /\ Behind(step') = {}
    BY <2>1 DEF Steps, Behind
  <2>5. QED
    BY <1>b, <2>1, <2>2, <2>3, <2>4, SameChecks
<1>2. CASE ProveLayers
  <2>1. /\ step \in {"guard1", "guard2", "guard3"} /\ step' \in {"end", "guard2", "guard3", "guard4"}
        /\ UNCHANGED <<facts, checks, stocks>>
        /\ step' = "end" => verdict' = [line |-> "GUARD FAILED", exit |-> "1"]
        /\ step' # "end" => verdict' = verdict
    BY <1>2 DEF ProveLayers, ExpectBlocked, Ends, Goes
  <2>2. \E m \in SUBSET {"read", "simulate", "send"} : reached' = reached \cup m
    BY <1>2, AsksForSome DEF ProveLayers, ExpectBlocked
  <2>3. verdict' \in [line : Verdicts, exit : {"none", "0", "1"}]
    <3>1. CASE step' = "end"
      BY <2>1, <3>1, VerdictFields DEF Verdicts
    <3>2. CASE step' # "end"
      BY <1>a, <2>1, <3>2 DEF PreflightTypeOK
    <3>3. QED
      BY <3>1, <3>2
  <2>4. ReadyIsEarned' /\ facts.proveGuard
    <3>1. verdict.line = "none" /\ verdict.exit = "none" /\ facts.proveGuard
      BY <2>1 DEF PreflightIInv, OrderInv
    <3>2. verdict'.line # "READY" /\ verdict'.exit # "0"
      <4>1. CASE step' = "end"
        <5>1. verdict' = [line |-> "GUARD FAILED", exit |-> "1"]
          BY <2>1, <4>1
        <5>2. QED
          BY <5>1
      <4>2. CASE step' # "end"
        BY <2>1, <3>1, <4>2
      <4>3. QED
        BY <4>1, <4>2
    <3>3. QED
      BY <2>1, <3>1, <3>2, SilentVerdict
  <2>5. step' \in Steps /\ Behind(step') = {}
    BY <2>1 DEF Steps, Behind
  <2>6. QED
    BY <2>1, <2>2, <2>3, <2>4, <2>5, SameChecks
<1>3. CASE ProveDistributor
  <2>1. /\ step = "guard4" /\ step' = "end" /\ UNCHANGED <<facts, checks, stocks>>
        /\ \/ verdict' = [line |-> "GUARD HOLDS", exit |-> "0"]
           \/ verdict' = [line |-> "GUARD FAILED", exit |-> "1"]
    BY <1>3 DEF ProveDistributor, Ends
  <2>2. \E m \in SUBSET {"read", "simulate", "send"} : reached' = reached \cup m
    BY <1>3, <1>b, AsksForSome DEF ProveDistributor
  <2>3. verdict' \in [line : Verdicts, exit : {"none", "0", "1"}]
    BY <2>1, VerdictFields DEF Verdicts
  <2>4. facts.proveGuard
    BY <2>1 DEF PreflightIInv, OrderInv
  <2>5. ReadyIsEarned'
    <3>1. CASE verdict' = [line |-> "GUARD HOLDS", exit |-> "0"]
      BY <2>1, <2>4, <3>1, SilentVerdict
    <3>2. CASE verdict' = [line |-> "GUARD FAILED", exit |-> "1"]
      BY <2>1, <2>4, <3>2, SilentVerdict
    <3>3. QED
      BY <2>1, <3>1, <3>2
  <2>6. step' \in Steps /\ Behind(step') = {}
    BY <2>1 DEF Steps, Behind
  <2>7. QED
    BY <2>1, <2>2, <2>3, <2>5, <2>6, SameChecks
<1>4. CASE VaultIdentity
  BY <1>4, <1>a, ChecksAreEarned, CheckStep DEF VaultIdentity, Record, Ids
<1>5. CASE VaultFunding
  BY <1>5, <1>a, ChecksAreEarned, CheckStep DEF VaultFunding, Record, Ids
<1>6. CASE StockTransferable
  BY <1>6, <1>a, ChecksAreEarned, CheckStep DEF StockTransferable, Record, Ids
<1>7. CASE SwapTx
  BY <1>7, <1>a, ChecksAreEarned, CheckStep DEF SwapTx, Record, Ids
<1>8. CASE DistributionTx
  BY <1>8, <1>a, ChecksAreEarned, CheckStep DEF DistributionTx, Record, Ids
<1>9. CASE RentTruth
  BY <1>9, <1>a, ChecksAreEarned, CheckStep DEF RentTruth, Record, Ids
<1>10. CASE Interlocks
  BY <1>10, <1>a, ChecksAreEarned, CheckStep DEF Interlocks, Record, Ids
<1>11. CASE Summary
  <2>1. /\ step = "summary" /\ step' = "end" /\ UNCHANGED <<facts, checks, stocks, reached>>
        /\ \/ verdict' = [line |-> "NOT READY", exit |-> "1"]
           \/ /\ verdict' = [line |-> "CODE READY", exit |-> "0"]
              /\ \A id \in Ids : checks[id] # "FAIL"
           \/ /\ verdict' = [line |-> "READY", exit |-> "0"]
              /\ \A id \in Ids : checks[id] \notin {"FAIL", "UNFUNDED", "NOTE"}
    BY <1>11 DEF Summary, Ends
  <2>2. \A id \in Ids : Earned(id, checks[id])
    BY <2>1 DEF PreflightIInv, StatusInv, OrderInv, Behind
  <2>3. (\A id \in Ids : checks[id] # "FAIL") =>
          /\ facts.secret = "published" /\ facts.rent # "under"
          /\ "mint" \notin facts.defects /\ "structure" \notin facts.defects
          /\ "sends" \notin facts.defects /\ "crosses" \notin facts.defects
    BY <2>2 DEF Earned
  <2>4. (\A id \in Ids : checks[id] \notin {"FAIL", "UNFUNDED", "NOTE"}) =>
          /\ "swap" \notin facts.defects /\ "distribution" \notin facts.defects
          /\ facts.funds = "floor" /\ facts.holding
    BY <2>2 DEF Earned, Statuses
  <2>5. facts.defects \subseteq Defects
    BY <1>a DEF PreflightTypeOK, Facts
  <2>6. ReadyIsEarned'
    <3>1. CASE verdict' = [line |-> "NOT READY", exit |-> "1"]
      BY <2>1, <3>1, SilentVerdict
    <3>2. CASE verdict' = [line |-> "CODE READY", exit |-> "0"] /\ \A id \in Ids : checks[id] # "FAIL"
      <4>1. /\ facts.secret = "published" /\ facts.rent # "under"
            /\ facts.defects \subseteq {"swap", "distribution"}
        BY <2>3, <2>5, <3>2 DEF Defects
      <4>2. verdict'.line # "READY"
        BY <3>2
      <4>3. QED
        BY <2>1, <4>1, <4>2 DEF ReadyIsEarned
    <3>3. CASE \A id \in Ids : checks[id] \notin {"FAIL", "UNFUNDED", "NOTE"}
      <4>1. /\ facts.secret = "published" /\ facts.rent # "under" /\ facts.defects = {}
            /\ facts.funds = "floor" /\ facts.holding
        BY <2>3, <2>4, <2>5, <3>3 DEF Defects
      <4>2. QED
        BY <2>1, <4>1 DEF ReadyIsEarned
    <3>4. QED
      BY <2>1, <3>1, <3>2, <3>3
  <2>7. verdict' \in [line : Verdicts, exit : {"none", "0", "1"}] /\ step' \in Steps /\ Behind(step') = {}
    <3>1. verdict' \in [line : Verdicts, exit : {"none", "0", "1"}]
      BY <2>1, VerdictFields DEF Verdicts
    <3>2. step' \in Steps /\ Behind(step') = {}
      BY <2>1 DEF Steps, Behind
    <3>3. QED
      BY <3>1, <3>2
  <2>8. QED
    BY <1>b, <2>1, <2>6, <2>7, SameChecks
<1>12. CASE UNCHANGED preflightVars
  BY <1>12 DEF preflightVars, PreflightIInv, PreflightTypeOK, StatusInv, Earned, OrderInv, ReadyIsEarned
<1>13. QED
  BY PreflightCases, <1>1, <1>2, <1>3, <1>4, <1>5, <1>6, <1>7, <1>8, <1>9, <1>10, <1>11, <1>12

\* Every reachable state of the pre-flight satisfies its invariant.
THEOREM PreflightInductive ==
  PreflightSpec => []PreflightIInv
  BY PreflightStart, PreflightStep, PTL DEF PreflightSpec

\* The exit code says go only of the published vault and of code that is sound, and
\* READY only when a round would run as well (preflight.mjs, the summary).
THEOREM GoIsEarned ==
  PreflightSpec => []ReadyIsEarned
  <1>1. PreflightIInv => ReadyIsEarned
    BY DEF PreflightIInv
  <1>2. QED
    BY <1>1, PreflightInductive, PTL

-----------------------------------------------------------------------------
(* SignIn.                                                                 *)

\* The next-state relation, action by action.
LEMMA NextCases ==
  ASSUME [Next]_vars
  PROVE  \/ (\E r \in net : IssueNonce(r) \/ TakeNonce(r) \/ AnswerMe(r))
         \/ (\E r \in taken : IssueToken(r))
         \/ Restart \/ DeliverAgain
         \/ ClickConnect \/ Connect \/ CheckChain \/ SwitchChain \/ AskSignature \/ Sign \/ SignedIn
         \/ Refused \/ GiveUp
         \/ AskMe \/ GotMe \/ GiveUpMe \/ Disconnect \/ Reload \/ BeginRestore \/ Restore
         \/ AccountsChanged \/ ChainChanged \/ Tick
         \/ UNCHANGED vars
BY DEF Next, Serve, Issue

\* A request nobody waits for any more is the same request.
LEMMA DeafRequests ==
  ASSUME NEW requests \in SUBSET AnyRequest, NEW kinds, NEW d \in Deaf(requests, kinds)
  PROVE  /\ d \in AnyRequest
         /\ \E r \in requests :
              /\ d = r \/ d = [r EXCEPT !.live = FALSE]
              /\ d.kind = r.kind
              /\ r.kind = "verify" => d \in AnyVerify /\ d.nonce = r.nonce /\ d.sig = r.sig /\ d.wallet = r.wallet
<1>1. PICK r \in requests : d = r \/ d = [r EXCEPT !.live = FALSE]
  BY DEF Deaf
<1>2. CASE r \in AnyVerify
  BY <1>1, <1>2 DEF AnyRequest, AnyVerify
<1>3. CASE r \in [kind : {"nonce"}, wallet : Accounts, live : BOOLEAN]
  BY <1>1, <1>3 DEF AnyRequest
<1>4. CASE r \in [kind : {"me"}, token : AnyToken, live : BOOLEAN]
  BY <1>1, <1>4 DEF AnyRequest
<1> QED
  BY <1>2, <1>3, <1>4 DEF AnyRequest

\* The page gives up on requests, not on their types.
LEMMA DeafType ==
  ASSUME ValuesInv
  PROVE  \A kinds : Deaf(net, kinds) \subseteq AnyRequest /\ Deaf(taken, kinds) \subseteq AnyVerify
<1> SUFFICES ASSUME NEW kinds PROVE Deaf(net, kinds) \subseteq AnyRequest /\ Deaf(taken, kinds) \subseteq AnyVerify
  OBVIOUS
<1>1. Deaf(net, kinds) \subseteq AnyRequest
  BY DeafRequests DEF ValuesInv
<1>2. taken \subseteq AnyRequest /\ \A r \in taken : r.kind = "verify"
  BY DEF ValuesInv, AnyRequest, AnyVerify
<1>3. Deaf(taken, kinds) \subseteq AnyVerify
  BY <1>2, DeafRequests
<1> QED
  BY <1>1, <1>3

\* The session the page holds is one it stored.
LEMMA HeldType == ASSUME ValuesInv PROVE Held \in AnyToken \cup {NoToken} /\ (Held # NoToken => Held \in AnyToken)
BY DEF Held, ValuesInv

\* What mintNonce returns was never seen before.
LEMMA MintType == ASSUME ValuesInv PROVE Mint \in AnyNonce /\ Mint.id = minted + 1 /\ minted + 1 > minted
BY DEF Mint, AnyNonce, ValuesInv

\* Requests and points of the sign-in are what they are made of ...
LEMMA Forms ==
  /\ Idle \in AnyFlow /\ [at |-> "connect"] \in AnyFlow /\ [at |-> "wrong_chain"] \in AnyFlow
  /\ \A a \in Accounts :
       /\ [at |-> "chain", address |-> a] \in AnyFlow
       /\ \A n \in Nat : [at |-> "nonce", address |-> a, try |-> n] \in AnyFlow
       /\ \A t \in AnyText : [at |-> "challenged", address |-> a, text |-> t] \in AnyFlow
       /\ \A w \in Accounts, t \in AnyText : [at |-> "sign", address |-> a, with |-> w, text |-> t] \in AnyFlow
       /\ [at |-> "verify", address |-> a] \in AnyFlow
       /\ [at |-> "refused", address |-> a] \in AnyFlow
       /\ [kind |-> "nonce", wallet |-> a, live |-> TRUE] \in AnyRequest
       /\ \A n \in AnyNonce, s \in AnySig :
            [kind |-> "verify", wallet |-> a, nonce |-> n, sig |-> s, live |-> TRUE] \in AnyVerify
  /\ \A t \in AnyToken :
       /\ [at |-> "verified", token |-> t] \in AnyFlow
       /\ [kind |-> "me", token |-> t, live |-> TRUE] \in AnyRequest
  /\ AnyVerify \subseteq AnyRequest
BY DEF AnyFlow, AnyRequest, AnyVerify

\* ... and can be taken apart again.
LEMMA FlowFields ==
  ASSUME flow \in AnyFlow
  PROVE  /\ flow.at \in {"chain", "nonce", "challenged", "sign", "verify"} => flow.address \in Accounts
         /\ flow.at = "nonce" => [flow EXCEPT !.try = 2] \in AnyFlow
         /\ flow.at \in {"challenged", "sign"} => flow.text \in AnyText
         /\ flow.at = "sign" => flow.with \in Accounts
         /\ flow.at = "verified" => flow.token \in AnyToken
BY DEF AnyFlow, Idle

LEMMA RequestFields ==
  ASSUME NEW r \in AnyRequest
  PROVE  /\ r.kind = "nonce" => r.wallet \in Accounts
         /\ r.kind = "verify" =>
              /\ r \in AnyVerify /\ r.wallet \in Accounts /\ r.nonce \in AnyNonce /\ r.sig \in AnySig
              /\ [r EXCEPT !.live = FALSE] \in AnyVerify
              /\ [r EXCEPT !.live = FALSE].nonce = r.nonce /\ [r EXCEPT !.live = FALSE].sig = r.sig
              /\ [r EXCEPT !.live = FALSE].kind = "verify"
BY DEF AnyRequest, AnyVerify

\* What pruneNonces keeps was there.
LEMMA KeptNonces ==
  ASSUME NEW w \in Accounts, NEW n \in AnyNonce, nonces \subseteq Accounts \X AnyNonce
  PROVE  /\ PutNonce(w, n) \subseteq nonces \cup {<<w, n>>}
         /\ LessNonce(w, n) \subseteq nonces \ {<<w, n>>}
         /\ PutNonce(w, n) \subseteq Accounts \X AnyNonce /\ LessNonce(w, n) \subseteq Accounts \X AnyNonce
BY DEF PutNonce, LessNonce, Prune

\* Every variable keeps its type.
LEMMA ValuesStep ==
  ASSUME ValuesInv, [Next]_vars
  PROVE  ValuesInv'
<1> USE DEF ValuesInv
<1>1. ASSUME NEW r \in net, IssueNonce(r) PROVE ValuesInv'
  <2>1. r.wallet \in Accounts /\ UNCHANGED <<now, boot, taken, stored, active, walletAt, signed>> /\ net' \subseteq net
    BY <1>1, RequestFields DEF IssueNonce, session, app
  <2>2. Mint \in AnyNonce /\ SignInMessage(r.wallet, Mint) \in AnyText
    BY <2>1, MintType DEF SignInMessage, AnyText
  <2>3. PutNonce(r.wallet, Mint) \subseteq Accounts \X AnyNonce
    BY <2>1, <2>2, KeptNonces
  <2>4. minted' \in Nat /\ nonces' \subseteq Accounts \X AnyNonce /\ onDisk' \subseteq Accounts \X AnyNonce
    BY <1>1, <2>3 DEF IssueNonce, Flush
  <2>5. flow' \in AnyFlow
    BY <1>1, <2>1, <2>2, Forms DEF IssueNonce, AnswerFlow
  <2> QED
    BY <2>1, <2>4, <2>5
<1>2. ASSUME NEW r \in net, TakeNonce(r) PROVE ValuesInv'
  <2>1. r \in AnyVerify /\ r.wallet \in Accounts /\ r.nonce \in AnyNonce /\ net' \subseteq net
        /\ UNCHANGED <<now, boot, minted, stored, active, walletAt, signed>>
    BY <1>2, RequestFields DEF TakeNonce, session, app
  <2>2. LessNonce(r.wallet, r.nonce) \subseteq Accounts \X AnyNonce
    BY <2>1, KeptNonces
  <2>3. nonces' \subseteq Accounts \X AnyNonce /\ onDisk' \subseteq Accounts \X AnyNonce
    BY <1>2, <2>2 DEF TakeNonce, Flush
  <2>4. flow' \in AnyFlow
    BY <1>2, <2>1, Forms DEF TakeNonce, AnswerFlow
  <2>5. taken' \subseteq AnyVerify
    BY <1>2, <2>1 DEF TakeNonce
  <2> QED
    BY <2>1, <2>3, <2>4, <2>5
<1>3. ASSUME NEW r \in net, AnswerMe(r) PROVE ValuesInv'
  BY <1>3 DEF AnswerMe, server, session, page, app, bounds, FlowOnly, Mishap
<1>4. ASSUME NEW r \in taken, IssueToken(r) PROVE ValuesInv'
  <2>1. r.wallet \in Accounts /\ TokenFor(r.wallet) \in AnyToken
    BY TimesAssumption DEF TokenFor, AnyToken, AnyVerify
  <2>2. flow' \in AnyFlow
    BY <1>4, <2>1, Forms DEF IssueToken, AnswerFlow
  <2> QED
    BY <1>4, <2>2 DEF IssueToken, session, app, bounds
<1>5. CASE Restart
  BY <1>5 DEF Restart, server, session, page, app, bounds, FlowOnly, Mishap
<1>6. CASE DeliverAgain
  <2>1. PICK r \in net \cup taken : r.kind = "verify" /\ net' = net \cup {[r EXCEPT !.live = FALSE]}
    BY <1>6 DEF DeliverAgain
  <2>2. r \in AnyRequest
    BY <2>1, Forms
  <2>3. net' \subseteq AnyRequest
    BY <2>1, <2>2, RequestFields, Forms
  <2> QED
    BY <1>6, <2>3 DEF DeliverAgain, server, session, page, app
<1>7. CASE ClickConnect
  BY <1>7, Forms, FlowFields, HeldType, DeafType DEF ClickConnect, ApplyConnected, server, session, page, app,
    bounds, FlowOnly, Mishap
<1>8. CASE Connect
  BY <1>8, Forms, FlowFields, HeldType, DeafType DEF Connect, ApplyConnected, server, session, page, app,
    bounds, FlowOnly, Mishap
<1>9. CASE CheckChain
  BY <1>9, Forms, FlowFields, HeldType, DeafType DEF CheckChain, ApplyConnected, server, session, page, app,
    bounds, FlowOnly, Mishap
<1>10. CASE SwitchChain
  BY <1>10, Forms, FlowFields, HeldType, DeafType DEF SwitchChain, EndSession, ApplyDisconnected,
    ApplyConnected, ForgetWallet, server, session, page, app, bounds, FlowOnly, Mishap
<1>11. CASE AskSignature
  BY <1>11, Forms, FlowFields, HeldType, DeafType DEF AskSignature, ApplyConnected, server, session, page,
    app, bounds, FlowOnly, Mishap
<1>12. CASE Sign
  <2>1. flow.text \in AnyText /\ flow.text.nonce \in AnyNonce /\ flow.address \in Accounts
        /\ [by |-> flow.with, over |-> flow.text] \in AnySig
    BY <1>12, FlowFields DEF Sign, AnyText, AnySig
  <2>2. flow' \in AnyFlow /\ net' \subseteq AnyRequest /\ signed' \subseteq AnySig
    BY <1>12, <2>1, Forms DEF Sign
  <2> QED
    BY <1>12, <2>2 DEF Sign, server, session, app
<1>13. CASE SignedIn
  BY <1>13, Forms, FlowFields, HeldType, DeafType DEF SignedIn, ApplyConnected, server, session, page, app,
    bounds, FlowOnly, Mishap
<1>14. CASE Refused
  BY <1>14, Forms, FlowFields, HeldType, DeafType DEF Refused, EndSession, ApplyDisconnected,
    ApplyConnected, ForgetWallet, server, session, page, app, bounds, FlowOnly, Mishap
<1>15. CASE GiveUp
  BY <1>15, Forms, FlowFields, HeldType, DeafType DEF GiveUp, EndSession, ApplyDisconnected,
    ApplyConnected, ForgetWallet, server, session, page, app, bounds, FlowOnly, Mishap
<1>16. CASE AskMe
  BY <1>16, Forms, FlowFields, HeldType, DeafType DEF AskMe, LoadMe, EndSession, ApplyDisconnected,
    ApplyConnected, ForgetWallet, server, session, page, app, bounds, FlowOnly, Mishap
<1>17. CASE GotMe
  BY <1>17, Forms, FlowFields, HeldType, DeafType DEF GotMe, EndSession, ApplyDisconnected,
    ApplyConnected, ForgetWallet, server, session, page, app, bounds, FlowOnly, Mishap
<1>18. CASE GiveUpMe
  BY <1>18, Forms, FlowFields, HeldType, DeafType DEF GiveUpMe, EndSession, ApplyDisconnected,
    ApplyConnected, ForgetWallet, server, session, page, app, bounds, FlowOnly, Mishap
<1>19. CASE Disconnect
  BY <1>19, Forms, FlowFields, HeldType, DeafType DEF Disconnect, EndSession, ApplyDisconnected,
    ApplyConnected, ForgetWallet, server, session, page, app, bounds, FlowOnly, Mishap
<1>20. CASE Reload
  BY <1>20, Forms, FlowFields, HeldType, DeafType DEF Reload, EndSession, ApplyDisconnected,
    ApplyConnected, ForgetWallet, server, session, page, app, bounds, FlowOnly, Mishap
<1>21. CASE Restore
  BY <1>21, Forms, FlowFields, HeldType, DeafType DEF Restore, DropSession, KeepSession, ForgetWallet,
    LoadMe, server, session, page, app, bounds
<1>22. CASE BeginRestore
  BY <1>22, HeldType DEF BeginRestore, server, app, bounds
<1>23. CASE AccountsChanged
  BY <1>23 DEF AccountsChanged, server, session, page, app, bounds, FlowOnly, Mishap
<1>24. CASE ChainChanged
  BY <1>24 DEF ChainChanged, server, session, page, app, bounds, FlowOnly, Mishap
<1>25. CASE Tick
  BY <1>25 DEF Tick, server, session, page, app, bounds, FlowOnly, Mishap
<1>26. CASE UNCHANGED vars
  BY <1>26 DEF vars, server, session, page, app, bounds, FlowOnly, Mishap
<1>27. QED
  BY NextCases, <1>1, <1>2, <1>3, <1>4, <1>5, <1>6, <1>7, <1>8, <1>9, <1>10, <1>11, <1>12, <1>13,
    <1>14, <1>15, <1>16, <1>17, <1>18, <1>19, <1>20, <1>21, <1>22, <1>23, <1>24, <1>25, <1>26

\* The steps that are not the server's own leave the nonces and the tokens alone, and of the
\* requests whose nonce was taken only whether the page still waits.
LEMMA PageStep ==
  ASSUME ValuesInv, [Next]_vars
  PROVE  \/ \E r \in net : IssueNonce(r) \/ TakeNonce(r)
         \/ \E r \in taken : IssueToken(r)
         \/ Restart
         \/ /\ UNCHANGED <<nonces, onDisk, minted, issued>>
            /\ taken' = taken \/ taken' = Deaf(taken, {"verify"})
<1>1. ASSUME NEW r \in net, AnswerMe(r) PROVE UNCHANGED <<nonces, onDisk, minted, issued, taken>>
  BY <1>1 DEF AnswerMe, server
<1>2. CASE GiveUp \/ Reload
  BY <1>2 DEF GiveUp, Reload
<1>3. CASE DeliverAgain \/ ClickConnect \/ Connect \/ CheckChain \/ SwitchChain \/ AskSignature \/ Sign \/ SignedIn
  BY <1>3 DEF DeliverAgain, ClickConnect, Connect, CheckChain, SwitchChain, AskSignature, Sign,
    SignedIn,
    FlowOnly, server
<1>4. CASE Refused \/ AskMe \/ GotMe \/ GiveUpMe \/ Disconnect \/ BeginRestore \/ Restore \/ AccountsChanged \/ ChainChanged \/ Tick
  BY <1>4 DEF Refused, AskMe, GotMe, GiveUpMe, Disconnect, BeginRestore, Restore, AccountsChanged, ChainChanged, Tick,
    FlowOnly, server
<1>5. CASE UNCHANGED vars
  BY <1>5 DEF vars
<1> QED
  BY NextCases, <1>1, <1>2, <1>3, <1>4, <1>5

\* The taken requests, when the page stops waiting, are the same requests.
LEMMA DeafTaken ==
  ASSUME ValuesInv, taken' = taken \/ taken' = Deaf(taken, {"verify"}), NEW d \in taken'
  PROVE  \E r \in taken : d.nonce = r.nonce /\ d.sig = r.sig
                          /\ d = IF taken' = taken THEN r ELSE [r EXCEPT !.live = FALSE]
<1>1. CASE taken' = taken
  <2>1. d \in taken
    BY <1>1
  <2> QED
    BY <1>1, <2>1
<1>2. CASE taken' = Deaf(taken, {"verify"}) /\ taken' # taken
  <2>1. PICK r \in taken : d = IF r.kind \in {"verify"} THEN [r EXCEPT !.live = FALSE] ELSE r
    BY <1>2 DEF Deaf
  <2>2. r \in AnyVerify
    BY DEF ValuesInv
  <2> QED
    BY <1>2, <2>1, <2>2 DEF AnyVerify
<1> QED
  BY <1>1, <1>2

\* A signature under way was made: the page sends what the wallet has just signed, and the
\* network makes up nothing.
LEMMA SignedStep ==
  ASSUME ValuesInv, SignedInv, [Next]_vars
  PROVE  SignedInv'
<1>1. signed \subseteq signed'
  BY NextCases DEF IssueNonce, TakeNonce, AnswerMe, IssueToken, Restart, DeliverAgain, ClickConnect,
    Connect,
    CheckChain, SwitchChain, AskSignature, Sign, SignedIn, Refused, GiveUp, AskMe, GotMe, GiveUpMe, Disconnect,
    Reload, BeginRestore, Restore, AccountsChanged, ChainChanged, Tick, FlowOnly, vars
<1>2. \A r \in taken' : r.sig \in signed
  <2>1. CASE \E r \in net : IssueNonce(r)
    BY <2>1 DEF IssueNonce, SignedInv, ValuesInv, AnyVerify
  <2>2. CASE \E r \in net : TakeNonce(r)
    BY <2>2 DEF TakeNonce, SignedInv, ValuesInv, AnyVerify
  <2>3. CASE \E r \in taken : IssueToken(r)
    BY <2>3 DEF IssueToken, SignedInv, ValuesInv, AnyVerify
  <2>4. CASE Restart
    BY <2>4 DEF Restart
  <2>5. CASE taken' = taken \/ taken' = Deaf(taken, {"verify"})
    BY <2>5, DeafTaken DEF SignedInv, ValuesInv, AnyVerify
  <2> QED
    BY <2>1, <2>2, <2>3, <2>4, <2>5, PageStep
<1>3. ASSUME NEW d \in net', d.kind = "verify"
      PROVE  d.sig \in signed'
  <2>1. CASE net' \subseteq net
    BY <1>1, <1>3, <2>1 DEF SignedInv
  <2>2. CASE DeliverAgain
    <3>1. PICK r \in net \cup taken : r.kind = "verify" /\ net' = net \cup {[r EXCEPT !.live = FALSE]}
      BY <2>2 DEF DeliverAgain
    <3>2. r \in AnyRequest
      BY Forms DEF ValuesInv
    <3> QED
      BY <1>1, <1>3, <3>1, <3>2, RequestFields DEF SignedInv
  <2>3. CASE Sign
    BY <1>1, <1>3, <2>3 DEF Sign, SignedInv
  <2>4. ASSUME NEW kinds, d \in Deaf(net, kinds)
        PROVE  d.sig \in signed'
    <3>1. net \in SUBSET AnyRequest
      BY DEF ValuesInv
    <3>2. PICK r \in net :
              /\ d = r \/ d = [r EXCEPT !.live = FALSE]
              /\ d.kind = r.kind
              /\ r.kind = "verify" => d \in AnyVerify /\ d.nonce = r.nonce /\ d.sig = r.sig /\ d.wallet = r.wallet
      BY <2>4, <3>1, DeafRequests
    <3> QED
      BY <1>1, <1>3, <3>2 DEF SignedInv
  <2>5. CASE CheckChain \/ AskMe \/ Restore
    BY <1>1, <1>3, <2>5 DEF CheckChain, AskMe, Restore, DropSession, KeepSession, LoadMe, SignedInv
  <2>6. CASE GiveUp \/ GiveUpMe \/ Reload
    BY <1>3, <2>4, <2>6 DEF GiveUp, GiveUpMe, Reload
  <2> QED
    BY <2>1, <2>2, <2>3, <2>5, <2>6, NextCases DEF IssueNonce, TakeNonce, AnswerMe, IssueToken, Restart,
      ClickConnect, Connect, SwitchChain, AskSignature, SignedIn, Refused, GotMe, Disconnect, BeginRestore,
      AccountsChanged, ChainChanged, Tick, FlowOnly, vars
<1> QED
  BY <1>1, <1>2, <1>3 DEF SignedInv

\* A nonce is in one place, and stands for one sign-in.
LEMMA NonceStep ==
  ASSUME ValuesInv, NonceInv, [Next]_vars
  PROVE  NonceInv'
<1>1. ASSUME NEW r \in net, IssueNonce(r) PROVE NonceInv'
  <2>1. r.wallet \in Accounts
    BY <1>1, RequestFields DEF IssueNonce, ValuesInv
  <2>2. Mint \in AnyNonce /\ Mint.id = minted + 1 /\ minted \in Nat
    BY MintType DEF ValuesInv
  <2>3. PutNonce(r.wallet, Mint) \subseteq nonces \cup {<<r.wallet, Mint>>}
    BY <2>1, <2>2, KeptNonces DEF ValuesInv
  <2>4. UNCHANGED <<taken, issued>>
        /\ \/ UNCHANGED <<nonces, onDisk, minted>>
           \/ /\ minted' = minted + 1 /\ nonces' = PutNonce(r.wallet, Mint)
              /\ onDisk' \in {onDisk, nonces'}
    BY <1>1 DEF IssueNonce, Flush
  <2>5. CASE UNCHANGED <<nonces, onDisk, minted>>
    BY <2>4, <2>5 DEF NonceInv
  <2>6. CASE minted' = minted + 1 /\ nonces' \cup onDisk' \subseteq nonces \cup onDisk \cup {<<r.wallet, Mint>>}
    <3>1. \A p \in nonces \cup onDisk : p[2] \in AnyNonce /\ p[2].id \in Nat /\ p[2] # Mint
      BY <2>2 DEF ValuesInv, AnyNonce, NonceInv
    <3>2. \A s \in taken : s.nonce \in AnyNonce /\ s.nonce.id \in Nat /\ s.nonce # Mint
      BY <2>2 DEF ValuesInv, AnyVerify, AnyNonce, NonceInv
    <3>3. \A i \in issued : i.nonce \in AnyNonce /\ i.nonce.id \in Nat /\ i.nonce # Mint
      BY <2>2 DEF AnyNonce, NonceInv
    <3> QED
      BY <2>2, <2>4, <2>6, <3>1, <3>2, <3>3 DEF NonceInv
  <2> QED
    BY <2>3, <2>4, <2>5, <2>6
<1>2. ASSUME NEW r \in net, TakeNonce(r) PROVE NonceInv'
  <2>1. r \in AnyVerify /\ r.wallet \in Accounts /\ r.nonce \in AnyNonce
    BY <1>2, RequestFields DEF TakeNonce, ValuesInv
  <2>2. LessNonce(r.wallet, r.nonce) \subseteq nonces \ {<<r.wallet, r.nonce>>}
    BY <2>1, KeptNonces DEF ValuesInv
  <2>3. UNCHANGED <<minted, issued>>
        /\ nonces' \subseteq nonces /\ onDisk' \subseteq nonces \cup onDisk
        /\ \/ taken' = taken
           \/ /\ taken' = taken \cup {r} /\ <<r.wallet, r.nonce>> \in nonces
              /\ nonces' \cup onDisk' \subseteq nonces \ {<<r.wallet, r.nonce>>}
    BY <1>2, <2>2 DEF TakeNonce, Flush, Prune
  <2>4. CASE taken' = taken
    BY <2>3, <2>4 DEF NonceInv
  <2>5. CASE taken' = taken \cup {r} /\ <<r.wallet, r.nonce>> \in nonces
             /\ nonces' \cup onDisk' \subseteq nonces \ {<<r.wallet, r.nonce>>}
    BY <2>3, <2>5 DEF NonceInv
  <2> QED
    BY <2>3, <2>4, <2>5
<1>3. ASSUME NEW r \in taken, IssueToken(r) PROVE NonceInv'
  <2>1. UNCHANGED <<nonces, onDisk, minted>> /\ taken' = taken \ {r}
    BY <1>3 DEF IssueToken
  <2>2. issued' = issued \/ \E token, nth : issued' = issued \cup {[token |-> token, nonce |-> r.nonce, nth |-> nth]}
    BY <1>3 DEF IssueToken
  <2>3. \A i \in issued' : i \in issued \/ i.nonce = r.nonce
    BY <2>2
  <2>4. r.nonce \in AnyNonce
    BY DEF ValuesInv, AnyVerify
  <2> QED
    BY <2>1, <2>3, <2>4 DEF NonceInv
<1>4. CASE Restart
  BY <1>4 DEF Restart, NonceInv
<1>5. CASE UNCHANGED <<nonces, onDisk, minted, issued>> /\ (taken' = taken \/ taken' = Deaf(taken, {"verify"}))
  <2>1. \A d \in taken' : \E r \in taken :
          d.nonce = r.nonce /\ d = IF taken' = taken THEN r ELSE [r EXCEPT !.live = FALSE]
    BY <1>5, DeafTaken
  <2>2. ASSUME NEW d \in taken', NEW e \in taken', d.nonce = e.nonce PROVE d = e
    <3>1. PICK r \in taken : d.nonce = r.nonce /\ d = IF taken' = taken THEN r ELSE [r EXCEPT !.live = FALSE]
      BY <2>1
    <3>2. PICK s \in taken : e.nonce = s.nonce /\ e = IF taken' = taken THEN s ELSE [s EXCEPT !.live = FALSE]
      BY <2>1
    <3>3. r = s
      BY <2>2, <3>1, <3>2 DEF NonceInv
    <3> QED
      BY <3>1, <3>2, <3>3
  <2> QED
    BY <1>5, <2>1, <2>2 DEF NonceInv
<1> QED
  BY <1>1, <1>2, <1>3, <1>4, <1>5, PageStep

\* verifySignature lets through exactly the wallet whose account signed this very text.
LEMMA VerifiedMeansSigned ==
  ASSUME NEW w \in Accounts, NEW text, NEW s, s \in AnySig, VerifySignature(w, text, s)
  PROVE  s = [by |-> w, over |-> text]
BY AccountsAssumption DEF VerifySignature, Recover, AnySig

\* Every token is earned, once.
LEMMA TokensStep ==
  ASSUME IInv, [Next]_vars
  PROVE  TokensAreEarned'
<1> USE DEF IInv, TokensAreEarned
<1>1. signed \subseteq signed'
  BY NextCases DEF IssueNonce, TakeNonce, AnswerMe, IssueToken, Restart, DeliverAgain, ClickConnect,
    Connect,
    CheckChain, SwitchChain, AskSignature, Sign, SignedIn, Refused, GiveUp, AskMe, GotMe, GiveUpMe, Disconnect,
    Reload, BeginRestore, Restore, AccountsChanged, ChainChanged, Tick, FlowOnly, vars
<1>2. ASSUME NEW r \in taken, IssueToken(r) PROVE TokensAreEarned'
  <2>1. r \in AnyVerify /\ r.wallet \in Accounts /\ r.sig \in AnySig /\ r.sig \in signed
    BY DEF ValuesInv, SignedInv, AnyVerify
  <2>2. CASE issued' = issued
    BY <1>1, <2>2 DEF OneTokenPerNonce, TokenIsEarned
  <2>3. CASE /\ VerifySignature(r.wallet, SignInMessage(r.wallet, r.nonce), r.sig)
             /\ issued' = issued \cup
                  {[token |-> TokenFor(r.wallet), nonce |-> r.nonce,
                    nth |-> 1 + Cardinality({i \in issued : i.nonce = r.nonce})]}
    <3>1. r.sig = [by |-> r.wallet, over |-> [wallet |-> r.wallet, nonce |-> r.nonce]]
      BY <2>1, <2>3, VerifiedMeansSigned DEF SignInMessage
    <3>2. {i \in issued : i.nonce = r.nonce} = {}
      BY DEF NonceInv
    <3>3. 1 + Cardinality({i \in issued : i.nonce = r.nonce}) = 1
      BY <3>2, FS_EmptySet
    <3>4. TokenFor(r.wallet).wallet = r.wallet
      BY DEF TokenFor
    <3> QED
      BY <1>1, <2>1, <2>3, <3>1, <3>3, <3>4 DEF OneTokenPerNonce, TokenIsEarned
  <2> QED
    BY <1>2, <2>2, <2>3 DEF IssueToken
<1>3. CASE issued' = issued
  BY <1>1, <1>3 DEF OneTokenPerNonce, TokenIsEarned
<1> QED
  BY <1>2, <1>3, PageStep DEF IssueNonce, TakeNonce, Restart

-----------------------------------------------------------------------------
\* The inductive invariant: a signature under way was made, and a nonce is kept, taken or
\* spent, one of the three.
THEOREM SignInInductive == Spec => []IInv
<1>1. Init => IInv
  <2> SUFFICES ASSUME Init PROVE IInv
    OBVIOUS
  <2>1. nonces = {} /\ onDisk = {} /\ taken = {} /\ issued = {} /\ net = {} /\ signed = {}
    BY DEF Init
  <2>2. ValuesInv
    BY Forms DEF Init, ValuesInv
  <2> QED
    BY <2>1, <2>2 DEF IInv, SignedInv, NonceInv, TokensAreEarned, OneTokenPerNonce, TokenIsEarned
<1>2. IInv /\ [Next]_vars => IInv'
  BY ValuesStep, SignedStep, NonceStep, TokensStep DEF IInv
<1> QED
  BY <1>1, <1>2, PTL DEF Spec

\* TokensAreEarned: every token was earned by the signature of its wallet's own account over
\* the nonce it was issued for, and no nonce ever earned two.
THEOREM EveryTokenIsEarned == Spec => []TokensAreEarned
<1>1. IInv => TokensAreEarned
  BY DEF IInv
<1> QED
  BY <1>1, SignInInductive, PTL

-----------------------------------------------------------------------------
(* Holders: rows, calls and the snapshot.                                  *)

\* What the node's accounts are.
LEMMA AccountFacts ==
  /\ Account = 1 .. Len(Owners) /\ Len(Owners) \in Nat /\ IsFiniteSet(Account)
  /\ \A a \in Account : a \in Nat /\ Owners[a] \in Wallets
  <1>1. Account = 1 .. Len(Owners) /\ Len(Owners) \in Nat
    BY HoldersAssumption
  <1>2. IsFiniteSet(Account)
    BY <1>1, FS_Interval
  <1>3. \A a \in Account : Owners[a] \in Wallets
    BY DEF Wallets
  <1>4. QED
    BY <1>1, <1>2, <1>3

\* A finite set in some order: each member once.
LEMMA SetToSeqFacts ==
  ASSUME NEW S, IsFiniteSet(S)
  PROVE  /\ SetToSeq(S) \in Seq(S) /\ Len(SetToSeq(S)) = Cardinality(S)
         /\ DOMAIN SetToSeq(S) = 1 .. Cardinality(S)
         /\ \A i, j \in DOMAIN SetToSeq(S) : SetToSeq(S)[i] = SetToSeq(S)[j] => i = j
         /\ \A x \in S : \E i \in DOMAIN SetToSeq(S) : SetToSeq(S)[i] = x
  <1> DEFINE n == Cardinality(S)
             s == SetToSeq(S)
  <1>1. n \in Nat /\ ExistsBijection(1 .. n, S)
    BY FS_CardinalityType
  <1>2. IsFiniteSet(1 .. n) /\ Cardinality(1 .. n) = n
    BY <1>1, FS_Interval
  <1>3. \E f \in [1 .. n -> S] : IsInjective(f)
    BY <1>1 DEF ExistsBijection, Bijection, Injection, IsInjective
  <1>4. s \in [1 .. n -> S] /\ IsInjective(s)
    BY <1>3 DEF SetToSeq
  <1>5. \A i, j \in 1 .. n : s[i] = s[j] => i = j
    BY <1>4 DEF IsInjective
  <1>6. s \in Injection(1 .. n, S)
    BY <1>4, <1>5 DEF Injection
  <1>7. s \in Surjection(1 .. n, S)
    BY <1>2, <1>6, FS_Injection
  <1>8. \A x \in S : \E i \in 1 .. n : s[i] = x
    BY <1>7 DEF Surjection
  <1> HIDE DEF s, n
  <1>9. s \in Seq(S) /\ Len(s) = n
    BY <1>1, <1>4
  <1>10. QED
    BY <1>4, <1>5, <1>8, <1>9 DEF s, n

\* The rows of a call: one for each account it is answered with, as they are now.
LEMMA RowsOfFacts ==
  ASSUME HoldersTypeOK, NEW accounts \in SUBSET Account
  PROVE  /\ RowsOf(accounts) \in Seq(Row) /\ Len(RowsOf(accounts)) = Cardinality(accounts)
         /\ (\A a \in Account : balance[a] \in seen[a]) => RowsOnce(RowsOf(accounts), accounts, seen)
  <1> DEFINE listed == SetToSeq(accounts)
             rows   == RowsOf(accounts)
  <1>1. IsFiniteSet(accounts)
    BY AccountFacts, FS_Subset
  <1>2. /\ listed \in Seq(accounts) /\ Len(listed) = Cardinality(accounts)
        /\ DOMAIN listed = 1 .. Cardinality(accounts)
        /\ \A i, j \in DOMAIN listed : listed[i] = listed[j] => i = j
        /\ \A x \in accounts : \E i \in DOMAIN listed : listed[i] = x
    BY <1>1, SetToSeqFacts
  <1>3. Cardinality(accounts) \in Nat
    BY <1>1, FS_CardinalityType
  <1>4. rows = [i \in DOMAIN listed |-> <<listed[i], balance[listed[i]]>>]
    BY DEF RowsOf
  <1> HIDE DEF listed, rows
  <1>5. \A i \in DOMAIN listed : listed[i] \in accounts
    BY <1>2
  <1>6. \A i \in DOMAIN listed : rows[i][1] = listed[i] /\ rows[i][2] = balance[listed[i]] /\ rows[i] \in Row
    BY <1>4, <1>5 DEF HoldersTypeOK, Row
  <1>7. DOMAIN rows = 1 .. Cardinality(accounts)
    BY <1>2, <1>4
  <1>8. rows \in Seq(Row) /\ Len(rows) = Cardinality(accounts)
    <2>1. rows \in [1 .. Cardinality(accounts) -> Row]
      BY <1>2, <1>4, <1>6, <1>7
    <2>2. QED
      BY <1>3, <2>1
  <1>9. ASSUME \A a \in Account : balance[a] \in seen[a]
        PROVE  RowsOnce(rows, accounts, seen)
    <2>1. \A i \in DOMAIN rows : rows[i][1] \in accounts /\ rows[i][2] \in seen[rows[i][1]]
      BY <1>2, <1>5, <1>6, <1>7, <1>9
    <2>2. \A a \in accounts : \E i \in DOMAIN rows : rows[i][1] = a
      BY <1>2, <1>6, <1>7
    <2>3. \A i, j \in DOMAIN rows : rows[i][1] = rows[j][1] => i = j
      BY <1>2, <1>6, <1>7
    <2>4. QED
      BY <2>1, <2>2, <2>3 DEF RowsOnce
  <1>10. QED
    BY <1>8, <1>9 DEF rows

\* Rows of different accounts, one after the other.
LEMMA RowsJoined ==
  ASSUME NEW A, NEW B, A \cap B = {}, NEW since, NEW r \in Seq(Row), NEW s \in Seq(Row),
         RowsOnce(r, A, since), RowsOnce(s, B, since)
  PROVE  r \o s \in Seq(Row) /\ RowsOnce(r \o s, A \cup B, since)
  <1> DEFINE t == r \o s
             m == Len(r)
             n == Len(s)
  <1>1. /\ t \in Seq(Row) /\ Len(t) = m + n /\ m \in Nat /\ n \in Nat
        /\ \A i \in 1 .. m + n : t[i] = IF i <= m THEN r[i] ELSE s[i - m]
    BY ConcatProperties
  <1>2. DOMAIN t = 1 .. m + n /\ DOMAIN r = 1 .. m /\ DOMAIN s = 1 .. n
    BY <1>1
  <1> HIDE DEF t, m, n
  <1>3. \A i \in 1 .. m + n : i \in 1 .. m \/ i - m \in 1 .. n
    BY <1>1
  <1>4. \A i \in 1 .. m : i \in 1 .. m + n /\ t[i] = r[i]
    BY <1>1
  <1>5. \A i \in 1 .. n : i + m \in 1 .. m + n /\ t[i + m] = s[i]
    BY <1>1
  <1>6. \A i \in 1 .. m + n : IF i \in 1 .. m THEN t[i] = r[i] ELSE i - m \in 1 .. n /\ t[i] = s[i - m]
    <2>1. \A i \in 1 .. m + n : i \in 1 .. m => t[i] = r[i]
      BY <1>4
    <2>2. \A i \in 1 .. m + n : i \notin 1 .. m => i - m \in 1 .. n
      BY <1>3
    <2>3. \A i \in 1 .. m + n : i \notin 1 .. m => ~(i <= m)
      BY <1>1
    <2>4. \A i \in 1 .. m + n : ~(i <= m) => t[i] = s[i - m]
      BY <1>1
    <2>5. QED
      BY <2>1, <2>2, <2>3, <2>4
  <1>7. \A i \in 1 .. m + n : t[i][1] \in A \cup B /\ t[i][2] \in since[t[i][1]]
    BY <1>2, <1>6 DEF RowsOnce
  <1>8. \A a \in A \cup B : \E i \in 1 .. m + n : t[i][1] = a
    <2>1. \A a \in A : \E i \in 1 .. m : r[i][1] = a
      BY <1>2 DEF RowsOnce
    <2>2. \A a \in B : \E i \in 1 .. n : s[i][1] = a
      BY <1>2 DEF RowsOnce
    <2>3. QED
      BY <2>1, <2>2, <1>4, <1>5
  <1>9. ASSUME NEW i \in 1 .. m + n, NEW j \in 1 .. m + n, t[i][1] = t[j][1]
        PROVE  i = j
    <2>1. CASE i \in 1 .. m /\ j \in 1 .. m
      BY <1>2, <1>4, <1>9, <2>1 DEF RowsOnce
    <2>2. CASE i \notin 1 .. m /\ j \notin 1 .. m
      <3>1. i - m \in 1 .. n /\ j - m \in 1 .. n /\ s[i - m][1] = s[j - m][1]
        BY <1>6, <1>9, <2>2
      <3>2. i - m = j - m
        BY <1>2, <3>1 DEF RowsOnce
      <3>3. QED
        BY <1>1, <3>2
    <2>3. CASE i \in 1 .. m /\ j \notin 1 .. m
      <3>1. t[i][1] \in A /\ t[j][1] \in B
        BY <1>2, <1>6, <2>3 DEF RowsOnce
      <3>2. QED
        BY <1>9, <3>1
    <2>4. CASE i \notin 1 .. m /\ j \in 1 .. m
      <3>1. t[i][1] \in B /\ t[j][1] \in A
        BY <1>2, <1>6, <2>4 DEF RowsOnce
      <3>2. QED
        BY <1>9, <3>1
    <2>5. QED
      BY <2>1, <2>2, <2>3, <2>4
  <1>10. RowsOnce(t, A \cup B, since)
    BY <1>2, <1>7, <1>8, <1>9 DEF RowsOnce
  <1>11. QED
    BY <1>1, <1>10 DEF t

\* What was seen goes on having been seen.
LEMMA RowsKept ==
  ASSUME NEW rows, NEW accounts \in SUBSET Account, NEW since, NEW later, RowsOnce(rows, accounts, since),
         \A a \in Account : since[a] \subseteq later[a]
  PROVE  RowsOnce(rows, accounts, later)
  BY DEF RowsOnce

\* What no account was read of.
LEMMA NoRows ==
  ASSUME NEW since
  PROVE  <<>> \in Seq(Row) /\ RowsOnce(<<>>, {}, since)
  BY DEF RowsOnce

\* What a snapshot of some accounts, each once, says of a wallet is a sum of moments.
LEMMA EveryAccountOnce ==
  ASSUME NEW rows \in Seq(Row), NEW since \in [Account -> SUBSET Amounts], NEW but \in SUBSET Account,
         RowsOnce(rows, Account \ but, since), NEW w \in Wallets
  PROVE  AggregateRows(rows)[w] \in Nat /\ SumOfMoments(AccountsOf(w) \ but, AggregateRows(rows)[w], since)
  <1> DEFINE S    == {i \in DOMAIN rows : Owners[rows[i][1]] = w}
             T    == AccountsOf(w) \ but
             g    == [i \in S |-> rows[i][2]]
             p    == [i \in S |-> rows[i][1]]
             held == [a \in T |-> rows[CHOOSE i \in DOMAIN rows : rows[i][1] = a][2]]
  <1>1. DOMAIN rows = 1 .. Len(rows) /\ Len(rows) \in Nat /\ \A i \in DOMAIN rows : rows[i] \in Row
    OBVIOUS
  <1>2. \A i \in DOMAIN rows : rows[i][1] \in Account \ but /\ rows[i][2] \in Amounts
    BY <1>1 DEF Row, RowsOnce
  <1>3. IsFiniteSet(S) /\ IsFiniteSet(T)
    <2>1. IsFiniteSet(DOMAIN rows)
      BY <1>1, FS_Interval
    <2>2. T \subseteq Account
      BY DEF AccountsOf
    <2>3. S \subseteq DOMAIN rows
      OBVIOUS
    <2>4. QED
      BY <2>1, <2>2, <2>3, AccountFacts, FS_Subset
  <1>4. \A a \in Amounts : a \in Nat
    BY HoldersAssumption DEF Amounts
  <1>5. p \in [S -> T]
    BY <1>2 DEF AccountsOf
  <1>6. ASSUME NEW i \in DOMAIN rows, rows[i][1] \in T
        PROVE  held[rows[i][1]] = rows[i][2]
    <2>1. (CHOOSE j \in DOMAIN rows : rows[j][1] = rows[i][1]) = i
      BY DEF RowsOnce
    <2>2. QED
      BY <1>6, <2>1
  <1>7. \A i \in S : g[i] = held[p[i]]
    BY <1>5, <1>6
  <1>8. \A a \in T : \E i \in S : p[i] = a
    <2> SUFFICES ASSUME NEW a \in T PROVE \E i \in S : p[i] = a
      OBVIOUS
    <2>1. a \in Account \ but /\ Owners[a] = w
      BY DEF AccountsOf
    <2>2. PICK i \in DOMAIN rows : rows[i][1] = a
      BY <2>1 DEF RowsOnce
    <2>3. i \in S /\ p[i] = a
      BY <2>1, <2>2
    <2>4. QED
      BY <2>3
  <1>9. \A i \in S : \A j \in S : p[i] = p[j] => i = j
    BY DEF RowsOnce
  <1>10. \A a \in T : held[a] \in Amounts /\ held[a] \in since[a]
    <2> SUFFICES ASSUME NEW a \in T PROVE held[a] \in Amounts /\ held[a] \in since[a]
      OBVIOUS
    <2>1. PICK i \in S : p[i] = a
      BY <1>8
    <2>2. i \in DOMAIN rows /\ rows[i][1] = a
      BY <2>1
    <2>3. held[a] = rows[i][2]
      BY <1>6, <2>2
    <2>4. QED
      BY <1>2, <2>2, <2>3 DEF RowsOnce
  <1>11. g \in [S -> Nat]
    BY <1>2, <1>4
  <1>12. held \in [T -> Amounts]
    <2>1. held = [a \in T |-> held[a]]
      OBVIOUS
    <2> HIDE DEF held
    <2>2. QED
      BY <1>10, <2>1
  <1>13. AggregateRows(rows)[w] = SumFunction(g)
    BY DEF AggregateRows
  <1> HIDE DEF S, T, g, p, held
  <1>14. held \in [T -> Nat]
    BY <1>4, <1>12
  <1>15. SumFunction(g) = SumFunction(held)
    BY <1>3, <1>5, <1>7, <1>8, <1>9, <1>11, <1>14, SumPermuted, SMTT(30)
  <1>16. SumFunction(held) \in Nat
    BY <1>3, <1>14, SumType
  <1>17. \E h \in [AccountsOf(w) \ but -> Amounts] :
           SumFunction(held) = SumFunction(h) /\ \A a \in AccountsOf(w) \ but : h[a] \in since[a]
    BY <1>10, <1>12 DEF T
  <1>18. QED
    BY <1>13, <1>15, <1>16, <1>17 DEF SumOfMoments

\* A snapshot of no rows lists nobody.
LEMMA NobodyListed ==
  ASSUME NEW w \in Wallets
  PROVE  AggregateRows(<<>>)[w] = 0
  <1> DEFINE g == [i \in {j \in DOMAIN <<>> : Owners[<<>>[j][1]] = w} |-> <<>>[i][2]]
  <1>1. {j \in DOMAIN <<>> : Owners[<<>>[j][1]] = w} = {}
    OBVIOUS
  <1>2. AggregateRows(<<>>)[w] = SumFunction(g)
    BY DEF AggregateRows
  <1>3. g \in [{} -> Nat] /\ \A x \in {} : g[x] = 0
    BY <1>1
  <1> HIDE DEF g
  <1>4. IsFiniteSet({})
    BY FS_EmptySet
  <1>5. SumFunction(g) = 0
    BY <1>3, <1>4, SumOfNothing
  <1>6. QED
    BY <1>2, <1>5

\* A page that is not full is the last one, and so is the last one that is asked for.
LEMMA PageFacts ==
  ASSUME NEW n \in 1 .. MaxReadPages
  PROVE  /\ Paged(n - 1) \cap OnPage(n) = {} /\ Paged(n - 1) \cup OnPage(n) = Paged(n)
         /\ Cardinality(OnPage(n)) < PageSize \/ n = MaxReadPages => Paged(n) = Account
         /\ Paged(0) = {}
  <1> DEFINE low == (n - 1) * PageSize
             high == n * PageSize
  <1>1. PageSize \in Nat /\ n \in Nat /\ n > 0 /\ MaxReadPages \in Nat /\ PageSize > 0
    BY HoldersAssumption
  <1>2. low \in Nat /\ high \in Nat /\ high = low + PageSize
    BY <1>1
  <1>3. Paged(n - 1) = {a \in Account : a <= low} /\ OnPage(n) = {a \in Account : low < a /\ a <= high}
        /\ Paged(n) = {a \in Account : a <= high}
    BY DEF Paged, OnPage
  <1>4. n = MaxReadPages => Len(Owners) < high
    <2>1. PageSize * MaxReadPages = MaxReadPages * PageSize
      BY <1>1
    <2>2. QED
      BY <2>1, HoldersAssumption
  <1>5. Paged(0) = {}
    <2>1. 0 * PageSize = 0
      BY <1>1
    <2>2. QED
      BY <2>1, AccountFacts DEF Paged
  <1> HIDE DEF low, high
  <1>6. Paged(n - 1) \cap OnPage(n) = {} /\ Paged(n - 1) \cup OnPage(n) = Paged(n)
    BY <1>1, <1>2, <1>3, AccountFacts
  <1>7. ASSUME high <= Len(Owners) PROVE Cardinality(OnPage(n)) = PageSize
    <2>1. OnPage(n) = low + 1 .. high
      BY <1>2, <1>3, <1>7, AccountFacts
    <2>2. Cardinality(low + 1 .. high) = high - (low + 1) + 1
      BY <1>1, <1>2, FS_Interval
    <2>3. QED
      BY <1>1, <1>2, <2>1, <2>2
  <1>8. ASSUME ~(high <= Len(Owners)) PROVE Paged(n) = Account
    BY <1>2, <1>3, <1>8, AccountFacts
  <1>9. QED
    BY <1>1, <1>2, <1>4, <1>5, <1>6, <1>7, <1>8, AccountFacts

\* Every account is in one part.
LEMMA PartFacts ==
  ASSUME NEW n \in DOMAIN Parts
  PROVE  /\ n \in Nat /\ DOMAIN Parts = 1 .. Len(Parts)
         /\ Parted(n - 1) \cap InPart(n) = {} /\ Parted(n - 1) \cup InPart(n) = Parted(n)
         /\ n = Len(Parts) => Parted(n) = Account
         /\ n # Len(Parts) => n + 1 \in DOMAIN Parts
         /\ Parted(0) = {} /\ 1 \in DOMAIN Parts
  <1>1. n \in Nat /\ n > 0 /\ DOMAIN Parts = 1 .. Len(Parts) /\ Len(Parts) \in Nat /\ n <= Len(Parts)
    BY HoldersAssumption
  <1>2. \A a \in Account : \E q \in DOMAIN Parts : Owners[a] \in Parts[q] /\ \A r \in DOMAIN Parts \ {q} : Owners[a] \notin Parts[r]
    BY AccountFacts, HoldersAssumption
  <1>3. Parted(n - 1) \cap InPart(n) = {}
    <2> SUFFICES ASSUME NEW a \in Account, NEW q \in 1 .. n - 1, Owners[a] \in Parts[q], Owners[a] \in Parts[n]
                 PROVE  FALSE
      BY DEF Parted, InPart
    <2>1. q \in DOMAIN Parts /\ q # n
      BY <1>1
    <2>2. QED
      BY <1>2, <2>1
  <1>4. Parted(n - 1) \cup InPart(n) = Parted(n)
    <2>1. \A q : q \in 1 .. n <=> q \in 1 .. n - 1 \/ q = n
      BY <1>1
    <2>2. QED
      BY <2>1 DEF Parted, InPart
  <1>5. n = Len(Parts) => Parted(n) = Account
    BY <1>1, <1>2 DEF Parted
  <1>6. Parted(0) = {}
    BY DEF Parted
  <1>7. QED
    BY <1>1, <1>3, <1>4, <1>5, <1>6

\* The readings there are.
LEMMA ReadingFacts ==
  ASSUME HoldersTypeOK
  PROVE  /\ reading.at \in {"no", "helius", "single", "probe", "parts", "listed"}
         /\ reading.at = "helius" => reading.page \in 1 .. MaxReadPages /\ reading.rows \in Seq(Row)
         /\ reading.at = "parts" => reading.part \in DOMAIN Parts /\ reading.rows \in Seq(Row)
         /\ reading.at = "listed" => reading.rows \in Seq(Row)
         /\ reading.at \in {"helius", "single", "parts", "probe"} => reading.try \in 1 .. CallAttempts
  BY DEF HoldersTypeOK, Reading

\* What the invariant says of a reading, by what it has come to and what it lacks.
ReadingOK(next, lacks, since) ==
  /\ next \in Reading /\ lacks \in SUBSET Account
  /\ next.at \in {"no", "single"} => lacks = {}
  /\ next.at = "helius" =>
       lacks \subseteq Paged(next.page - 1) /\ RowsOnce(next.rows, Paged(next.page - 1) \ lacks, since)
  /\ next.at = "parts" =>
       /\ lacks \subseteq OnClassic(Parted(next.part - 1))
       /\ RowsOnce(next.rows, OnClassic(Parted(next.part - 1)) \ lacks, since)
  /\ next.at = "probe" => classic \/ lacks = {}
  /\ next.at = "listed" => next.rows = <<>> \/ RowsOnce(next.rows, Account \ lacks, since)

LEMMA ReadingIsOK ==
  ASSUME HoldersTypeOK
  PROVE  ReadingInv <=> /\ ReadingOK(reading, unlisted, seen)
                        /\ reading.at # "no" => \A a \in Account : balance[a] \in seen[a]
  BY DEF ReadingInv, ReadingOK, RowsOfAsked, HoldersTypeOK

\* A call has been read.
LEMMA ReadsKeep ==
  ASSUME HoldersIInv, NEW next, NEW left, ReadingOK(next, unlisted \cup left, seen), reading.at # "no",
         Reads(next, left)
  PROVE  HoldersIInv'
  <1>1. /\ UNCHANGED <<helius, classic, balance, seen, cached>> /\ reading' = next
        /\ unlisted' = unlisted \cup left
    BY DEF Reads, chain
  <1>2. HoldersTypeOK'
    BY <1>1 DEF HoldersIInv, HoldersTypeOK, ReadingOK
  <1>3. SnapshotIsWhole'
    BY <1>1 DEF HoldersIInv, SnapshotIsWhole
  <1>4. \A a \in Account : balance'[a] \in seen'[a]
    BY <1>1 DEF HoldersIInv, ReadingInv
  <1>5. ReadingOK(next, unlisted', seen)
    BY <1>1
  <1>6. ReadingInv'
    BY <1>1, <1>4, <1>5 DEF ReadingInv, ReadingOK, RowsOfAsked, OnClassic
  <1>7. QED
    BY <1>2, <1>3, <1>6 DEF HoldersIInv

\* A call has thrown.
LEMMA ThrowsKeep ==
  ASSUME HoldersIInv, Throws
  PROVE  HoldersIInv'
  <1>1. /\ reading' = [at |-> "no"] /\ seen' = [a \in Account |-> {}] /\ unlisted' = {}
        /\ UNCHANGED <<helius, classic, balance, cached>>
    BY DEF Throws, Over, chain, NoSnapshot
  <1>2. HoldersTypeOK'
    BY <1>1 DEF HoldersIInv, HoldersTypeOK, Reading
  <1>3. QED
    BY <1>1, <1>2 DEF HoldersIInv, SnapshotIsWhole, ReadingInv

\* The rows of a call go behind those there are: of what was asked for in all, each account but
\* those that were left out, once.
LEMMA MoreRows ==
  ASSUME HoldersTypeOK, \A a \in Account : balance[a] \in seen[a],
         NEW rows \in Seq(Row), NEW asked, NEW more \in SUBSET Account, asked \cap more = {},
         unlisted \subseteq asked, RowsOnce(rows, asked \ unlisted, seen), NEW lost \in SUBSET more
  PROVE  /\ rows \o RowsOf(more \ lost) \in Seq(Row)
         /\ unlisted \cup lost \subseteq asked \cup more
         /\ RowsOnce(rows \o RowsOf(more \ lost), (asked \cup more) \ (unlisted \cup lost), seen)
  <1> DEFINE A   == asked \ unlisted
             B   == more \ lost
             got == RowsOf(B)
  <1>1. B \in SUBSET Account /\ A \cap B = {} /\ A \cup B = (asked \cup more) \ (unlisted \cup lost)
    OBVIOUS
  <1>2. got \in Seq(Row) /\ RowsOnce(got, B, seen)
    BY <1>1, RowsOfFacts
  <1>3. RowsOnce(rows, A, seen)
    OBVIOUS
  <1> HIDE DEF A, B, got
  <1>4. rows \o got \in Seq(Row) /\ RowsOnce(rows \o got, A \cup B, seen)
    BY <1>1, <1>2, <1>3, RowsJoined
  <1>5. RowsOnce(rows \o got, (asked \cup more) \ (unlisted \cup lost), seen)
    BY <1>1, <1>4
  <1>6. QED
    BY <1>4, <1>5 DEF got, B

\* A page has been read.
LEMMA HeliusStep ==
  ASSUME HoldersIInv, HeliusPage
  PROVE  HoldersIInv'
  <1>1. PICK lost \in SUBSET OnPage(reading.page) :
          Reads(IF Cardinality(OnPage(reading.page)) < PageSize \/ reading.page = MaxReadPages
                  THEN [at |-> "listed", rows |-> reading.rows \o RowsOf(OnPage(reading.page) \ lost)]
                  ELSE [at |-> "helius", page |-> reading.page + 1,
                        rows |-> reading.rows \o RowsOf(OnPage(reading.page) \ lost), try |-> 1],
                lost)
    BY DEF HeliusPage
  <1> DEFINE nth   == reading.page
             rows  == reading.rows \o RowsOf(OnPage(nth) \ lost)
             lacks == unlisted \cup lost
             next  == IF Cardinality(OnPage(nth)) < PageSize \/ nth = MaxReadPages
                      THEN [at |-> "listed", rows |-> rows]
                      ELSE [at |-> "helius", page |-> nth + 1, rows |-> rows, try |-> 1]
  <1>2. HoldersTypeOK /\ reading.at = "helius" /\ nth \in 1 .. MaxReadPages /\ reading.rows \in Seq(Row)
    BY ReadingFacts DEF HoldersIInv, HeliusPage
  <1>3. Reads(next, lost)
    BY <1>1
  <1>4. /\ \A a \in Account : balance[a] \in seen[a]
        /\ unlisted \subseteq Paged(nth - 1) /\ RowsOnce(reading.rows, Paged(nth - 1) \ unlisted, seen)
    BY <1>2 DEF HoldersIInv, ReadingInv, RowsOfAsked
  <1>5. OnPage(nth) \in SUBSET Account /\ Paged(nth) \in SUBSET Account
    BY DEF OnPage, Paged
  <1>6. Paged(nth - 1) \cap OnPage(nth) = {} /\ Paged(nth - 1) \cup OnPage(nth) = Paged(nth)
    BY <1>2, PageFacts
  <1>7. rows \in Seq(Row) /\ lacks \subseteq Paged(nth) /\ RowsOnce(rows, Paged(nth) \ lacks, seen)
    <2> DEFINE A == Paged(nth - 1)
               B == OnPage(nth)
    <2>1. lost \in SUBSET B /\ B \in SUBSET Account /\ A \cap B = {} /\ unlisted \subseteq A
          /\ RowsOnce(reading.rows, A \ unlisted, seen)
      BY <1>4, <1>5, <1>6
    <2> HIDE DEF A, B
    <2>2. /\ reading.rows \o RowsOf(B \ lost) \in Seq(Row) /\ lacks \subseteq A \cup B
          /\ RowsOnce(reading.rows \o RowsOf(B \ lost), (A \cup B) \ lacks, seen)
      BY <1>2, <1>4, <2>1, MoreRows
    <2>3. A \cup B = Paged(nth) /\ reading.rows \o RowsOf(B \ lost) = rows
      BY <1>6 DEF A, B
    <2>4. QED
      BY <2>2, <2>3
  <1> HIDE DEF rows, lacks
  <1>8. ReadingOK(next, lacks, seen)
    <2>1. CASE Cardinality(OnPage(nth)) < PageSize \/ nth = MaxReadPages
      <3>1. Paged(nth) = Account
        BY <1>2, <2>1, PageFacts
      <3>2. next = [at |-> "listed", rows |-> rows]
        BY <2>1
      <3>3. QED
        BY <1>7, <3>1, <3>2 DEF ReadingOK, Reading
    <2>2. CASE ~(Cardinality(OnPage(nth)) < PageSize \/ nth = MaxReadPages)
      <3>1. nth + 1 \in 1 .. MaxReadPages /\ (nth + 1) - 1 = nth /\ 1 \in 1 .. CallAttempts
        BY <1>2, <2>2, HoldersAssumption
      <3>2. next = [at |-> "helius", page |-> nth + 1, rows |-> rows, try |-> 1]
        BY <2>2
      <3>3. next \in Reading
        BY <1>7, <3>1, <3>2 DEF Reading
      <3>4. next.at = "helius" /\ next.rows = rows /\ next.page = nth + 1
        BY <3>2
      <3> HIDE DEF next
      <3>5. QED
        BY <1>5, <1>7, <3>1, <3>3, <3>4 DEF ReadingOK
    <2>3. QED
      BY <2>1, <2>2
  <1> HIDE DEF next
  <1>9. QED
    BY <1>2, <1>3, <1>8, ReadsKeep DEF lacks

\* An answer had no list of accounts: what has not been asked for is left out.
LEMMA BlankStep ==
  ASSUME HoldersIInv, BlankPage
  PROVE  HoldersIInv'
  <1> DEFINE nth  == reading.page
             rows == reading.rows
             left == {a \in Account : a > (nth - 1) * PageSize}
             next == [at |-> "listed", rows |-> rows]
  <1>1. HoldersTypeOK /\ reading.at = "helius" /\ nth \in 1 .. MaxReadPages /\ rows \in Seq(Row) /\ Reads(next, left)
    BY ReadingFacts DEF HoldersIInv, BlankPage
  <1>2. unlisted \subseteq Paged(nth - 1) /\ RowsOnce(rows, Paged(nth - 1) \ unlisted, seen)
    BY <1>1 DEF HoldersIInv, ReadingInv, RowsOfAsked
  <1>3. \A a \in Account : a \in left <=> a \notin Paged(nth - 1)
    <2>1. (nth - 1) * PageSize \in Int
      BY <1>1, HoldersAssumption
    <2> DEFINE low == (nth - 1) * PageSize
    <2> HIDE DEF low
    <2>2. \A a \in Account : a > low <=> ~(a <= low)
      BY <2>1, AccountFacts DEF low
    <2>3. QED
      BY <2>2 DEF Paged, low
  <1>4. Paged(nth - 1) \ unlisted = Account \ (unlisted \cup left)
    BY <1>3 DEF Paged
  <1>5. unlisted \cup left \in SUBSET Account
    BY <1>1 DEF HoldersTypeOK
  <1> HIDE DEF rows, left
  <1>6. RowsOnce(rows, Account \ (unlisted \cup left), seen)
    BY <1>2, <1>4
  <1>7. ReadingOK(next, unlisted \cup left, seen)
    BY <1>1, <1>5, <1>6 DEF ReadingOK, Reading
  <1>8. QED
    BY <1>1, <1>7, ReadsKeep

\* What is listed when the classic program has been asked for everything.
LEMMA ListedOrProbed ==
  ASSUME HoldersTypeOK, NEW rows \in Seq(Row), NEW lacks \in SUBSET Account,
         lacks \subseteq OnClassic(Account), RowsOnce(rows, OnClassic(Account) \ lacks, seen)
  PROVE  ReadingOK(ListedOrProbe(rows), lacks, seen)
  <1>1. CASE rows = <<>>
    <2>1. ListedOrProbe(rows) = [at |-> "probe", try |-> 1] /\ 1 \in 1 .. CallAttempts
      BY <1>1, HoldersAssumption DEF ListedOrProbe
    <2>2. classic \/ lacks = {}
      BY DEF OnClassic
    <2>3. QED
      BY <2>1, <2>2 DEF ReadingOK, Reading
  <1>2. CASE rows # <<>>
    <2>1. ListedOrProbe(rows) = [at |-> "listed", rows |-> rows]
      BY <1>2 DEF ListedOrProbe
    <2>2. \E i \in DOMAIN rows : TRUE
      <3>1. Len(rows) \in Nat /\ DOMAIN rows = 1 .. Len(rows) /\ Len(rows) # 0
        BY <1>2, EmptySeq
      <3>2. 1 \in DOMAIN rows
        BY <3>1
      <3>3. QED
        BY <3>2
    <2>3. classic
      BY <2>2 DEF RowsOnce, OnClassic
    <2>4. RowsOnce(rows, Account \ lacks, seen)
      BY <2>3 DEF OnClassic
    <2>5. QED
      BY <2>1, <2>4 DEF ReadingOK, Reading
  <1>3. QED
    BY <1>1, <1>2

\* Everything has been asked for in one call.
LEMMA SingleStep ==
  ASSUME HoldersIInv, SingleShot
  PROVE  HoldersIInv'
  <1> DEFINE parts == [at |-> "parts", part |-> 1, rows |-> <<>>, try |-> 1]
  <1>1. /\ HoldersTypeOK /\ reading.at = "single" /\ unlisted = {}
        /\ \A a \in Account : balance[a] \in seen[a]
    BY DEF HoldersIInv, SingleShot, ReadingInv
  <1>2. ASSUME NEW lost \in SUBSET OnClassic(Account),
               Reads(ListedOrProbe(RowsOf(OnClassic(Account) \ lost)), lost)
        PROVE  HoldersIInv'
    <2> DEFINE rows == RowsOf(OnClassic(Account) \ lost)
    <2>1. OnClassic(Account) \ lost \in SUBSET Account /\ lost \in SUBSET Account
      BY DEF OnClassic
    <2>2. rows \in Seq(Row) /\ RowsOnce(rows, OnClassic(Account) \ lost, seen)
      BY <1>1, <2>1, RowsOfFacts
    <2> HIDE DEF rows
    <2>3. ReadingOK(ListedOrProbe(rows), lost, seen)
      BY <1>1, <2>1, <2>2, ListedOrProbed
    <2>4. unlisted \cup lost = lost
      BY <1>1
    <2>5. QED
      BY <1>1, <1>2, <2>3, <2>4, ReadsKeep DEF rows
  <1>3. ReadingOK(parts, {}, seen)
    <2>1. 1 \in DOMAIN Parts /\ 1 \in 1 .. CallAttempts
      BY HoldersAssumption
    <2>2. OnClassic(Parted(0)) = {}
      BY <2>1, PartFacts DEF OnClassic
    <2>3. parts \in Reading
      BY <2>1, NoRows DEF Reading
    <2>4. parts.part - 1 = 0
      OBVIOUS
    <2>5. parts.at = "parts" /\ parts.rows = <<>>
      OBVIOUS
    <2>6. RowsOnce(<<>>, {} \ {}, seen)
      BY NoRows
    <2> HIDE DEF parts
    <2>7. QED
      BY <2>2, <2>3, <2>4, <2>5, <2>6 DEF ReadingOK
  <1> HIDE DEF parts
  <1>4. CASE Reads(parts, {})
    <2>1. unlisted \cup {} = {}
      BY <1>1
    <2>2. QED
      BY <1>1, <1>3, <1>4, <2>1, ReadsKeep
  <1>5. QED
    BY <1>2, <1>4 DEF SingleShot, parts

\* One part has been read.
LEMMA PartStep ==
  ASSUME HoldersIInv, ReadPart
  PROVE  HoldersIInv'
  <1> DEFINE part == reading.part
             PartRows(lost) == reading.rows \o RowsOf(OnClassic(InPart(part)) \ lost)
             NextPart(rows) == IF part = Len(Parts) THEN ListedOrProbe(rows)
                           ELSE [at |-> "parts", part |-> part + 1, rows |-> rows, try |-> 1]
  <1>1. HoldersTypeOK /\ reading.at = "parts" /\ part \in DOMAIN Parts /\ reading.rows \in Seq(Row)
    BY ReadingFacts DEF HoldersIInv, ReadPart
  <1>2. Throws \/ \E lost \in SUBSET OnClassic(InPart(part)) : Reads(NextPart(PartRows(lost)), lost)
    BY DEF ReadPart, PartFails
  <1>3. /\ \A a \in Account : balance[a] \in seen[a]
        /\ unlisted \subseteq OnClassic(Parted(part - 1))
        /\ RowsOnce(reading.rows, OnClassic(Parted(part - 1)) \ unlisted, seen)
    BY <1>1 DEF HoldersIInv, ReadingInv, RowsOfAsked
  <1>4. OnClassic(InPart(part)) \in SUBSET Account /\ OnClassic(Parted(part)) \in SUBSET Account
    BY DEF OnClassic, InPart, Parted
  <1>5. /\ OnClassic(Parted(part - 1)) \cap OnClassic(InPart(part)) = {}
        /\ OnClassic(Parted(part - 1)) \cup OnClassic(InPart(part)) = OnClassic(Parted(part))
    BY <1>1, PartFacts DEF OnClassic
  <1>6. ASSUME NEW lost \in SUBSET OnClassic(InPart(part)), Reads(NextPart(PartRows(lost)), lost)
        PROVE  HoldersIInv'
    <2> DEFINE rows  == PartRows(lost)
               lacks == unlisted \cup lost
               next  == NextPart(rows)
    <2>1. /\ rows \in Seq(Row) /\ lacks \subseteq OnClassic(Parted(part))
          /\ RowsOnce(rows, OnClassic(Parted(part)) \ lacks, seen)
      <3> DEFINE A == OnClassic(Parted(part - 1))
                 B == OnClassic(InPart(part))
      <3>1. lost \in SUBSET B /\ B \in SUBSET Account /\ A \cap B = {} /\ unlisted \subseteq A
            /\ RowsOnce(reading.rows, A \ unlisted, seen)
        BY <1>3, <1>4, <1>5
      <3> HIDE DEF A, B
      <3>2. /\ reading.rows \o RowsOf(B \ lost) \in Seq(Row) /\ lacks \subseteq A \cup B
            /\ RowsOnce(reading.rows \o RowsOf(B \ lost), (A \cup B) \ lacks, seen)
        BY <1>1, <1>3, <3>1, MoreRows
      <3>3. A \cup B = OnClassic(Parted(part)) /\ reading.rows \o RowsOf(B \ lost) = rows
        BY <1>5 DEF A, B
      <3>4. QED
        BY <3>2, <3>3
    <2>2. Reads(next, lost)
      BY <1>6
    <2> HIDE DEF rows, lacks, PartRows
    <2>3. lacks \in SUBSET Account
      BY <1>4, <2>1
    <2>4. ReadingOK(next, lacks, seen)
      <3>1. CASE part = Len(Parts)
        <4>1. Parted(part) = Account
          BY <1>1, <3>1, PartFacts
        <4>2. ReadingOK(ListedOrProbe(rows), lacks, seen)
          BY <1>1, <2>1, <2>3, <4>1, ListedOrProbed
        <4>3. QED
          BY <3>1, <4>2
      <3>2. CASE part # Len(Parts)
        <4>1. part + 1 \in DOMAIN Parts /\ (part + 1) - 1 = part /\ 1 \in 1 .. CallAttempts
          BY <1>1, <3>2, PartFacts, HoldersAssumption
        <4>2. next = [at |-> "parts", part |-> part + 1, rows |-> rows, try |-> 1]
          BY <3>2
        <4>3. next \in Reading
          BY <2>1, <4>1, <4>2 DEF Reading
        <4>4. next.at = "parts" /\ next.rows = rows /\ next.part = part + 1
          BY <4>2
        <4> HIDE DEF next
        <4>5. QED
          BY <2>1, <2>3, <4>1, <4>3, <4>4 DEF ReadingOK
      <3>3. QED
        BY <3>1, <3>2
    <2> HIDE DEF next
    <2>5. QED
      BY <1>1, <2>2, <2>4, ReadsKeep DEF lacks
  <1>7. QED
    BY <1>2, <1>6, ThrowsKeep

\* The other program has been asked.
LEMMA ProbeStep ==
  ASSUME HoldersIInv, Probe
  PROVE  HoldersIInv'
  <1>1. /\ HoldersTypeOK /\ reading.at = "probe" /\ (classic \/ unlisted = {})
        /\ \A a \in Account : balance[a] \in seen[a]
    BY DEF HoldersIInv, Probe, ReadingInv
  <1>2. PICK lost \in SUBSET OnToken2022 :
          Reads([at |-> "listed", rows |-> RowsOf(OnToken2022 \ lost)],
                IF classic THEN {} ELSE (Account \ Plain) \cup lost)
    BY DEF Probe
  <1> DEFINE rows  == RowsOf(OnToken2022 \ lost)
             left  == IF classic THEN {} ELSE (Account \ Plain) \cup lost
             lacks == unlisted \cup left
  <1>3. OnToken2022 \in SUBSET Account /\ left \in SUBSET Account /\ lacks \in SUBSET Account
    BY <1>1, HoldersAssumption DEF OnToken2022, HoldersTypeOK
  <1>4. rows \in Seq(Row) /\ Len(rows) = Cardinality(OnToken2022 \ lost) /\ RowsOnce(rows, OnToken2022 \ lost, seen)
    BY <1>1, <1>3, RowsOfFacts
  <1>5. rows = <<>> \/ RowsOnce(rows, Account \ lacks, seen)
    <2>1. CASE classic
      <3>1. OnToken2022 \ lost = {}
        BY <2>1 DEF OnToken2022
      <3>2. Len(rows) = 0
        BY <1>4, <3>1, FS_EmptySet
      <3> HIDE DEF rows
      <3>3. QED
        BY <1>4, <3>2
    <2>2. CASE ~classic
      <3>1. OnToken2022 \ lost = Account \ lacks
        BY <1>1, <1>3, <2>2 DEF OnToken2022
      <3>2. QED
        BY <1>4, <3>1
    <2>3. QED
      BY <2>1, <2>2
  <1> HIDE DEF rows
  <1>6. ReadingOK([at |-> "listed", rows |-> rows], lacks, seen)
    BY <1>3, <1>4, <1>5 DEF ReadingOK, Reading
  <1>7. Reads([at |-> "listed", rows |-> rows], left)
    BY <1>2 DEF rows
  <1> HIDE DEF left
  <1>8. QED
    BY <1>1, <1>6, <1>7, ReadsKeep

\* The other program could not be asked.
LEMMA ProbeFailsStep ==
  ASSUME HoldersIInv, ProbeFails
  PROVE  HoldersIInv'
  <1>1. HoldersTypeOK /\ reading.at = "probe" /\ Reads([at |-> "listed", rows |-> <<>>], {})
    BY DEF HoldersIInv, ProbeFails
  <1>2. unlisted \cup {} \in SUBSET Account /\ <<>> \in Seq(Row)
    BY <1>1, NoRows DEF HoldersTypeOK
  <1>3. ReadingOK([at |-> "listed", rows |-> <<>>], unlisted \cup {}, seen)
    BY <1>2 DEF ReadingOK, Reading
  <1>4. QED
    BY <1>1, <1>3, ReadsKeep

\* The same call is made again.
LEMMA TryStep ==
  ASSUME HoldersIInv, TriesAgain
  PROVE  HoldersIInv'
  <1> DEFINE next == [reading EXCEPT !.try = @ + 1]
  <1>1. HoldersTypeOK /\ reading.at \in {"helius", "single", "parts", "probe"} /\ reading.try < CallAttempts
        /\ Reads(next, {})
    BY DEF HoldersIInv, TriesAgain
  <1>2. reading.try + 1 \in 1 .. CallAttempts
    BY <1>1, ReadingFacts, HoldersAssumption
  <1>3. ReadingOK(reading, unlisted, seen)
    BY <1>1, ReadingIsOK DEF HoldersIInv
  <1>4. next \in Reading
    BY <1>1, <1>2, <1>3 DEF ReadingOK, Reading
  <1>5. /\ next.at = reading.at
        /\ reading.at = "helius" => next.page = reading.page /\ next.rows = reading.rows
        /\ reading.at = "parts" => next.part = reading.part /\ next.rows = reading.rows
    BY <1>1, <1>3 DEF ReadingOK, Reading
  <1> HIDE DEF next
  <1>6. ReadingOK(next, unlisted, seen)
    BY <1>1, <1>3, <1>4, <1>5 DEF ReadingOK
  <1>7. unlisted \cup {} = unlisted
    OBVIOUS
  <1>8. QED
    BY <1>1, <1>6, <1>7, ReadsKeep

\* A snapshot is begun.
LEMMA AskStep ==
  ASSUME HoldersIInv, AskSnapshot
  PROVE  HoldersIInv'
  <1>1. /\ HoldersTypeOK /\ UNCHANGED <<helius, classic, balance, cached>>
        /\ seen' = [a \in Account |-> {balance[a]}] /\ unlisted' = {}
        /\ \/ reading' = [at |-> "helius", page |-> 1, rows |-> <<>>, try |-> 1]
           \/ reading' = [at |-> "single", try |-> 1]
    BY DEF HoldersIInv, AskSnapshot, chain
  <1>2. 1 \in 1 .. CallAttempts /\ 1 \in 1 .. MaxReadPages
    BY HoldersAssumption
  <1>3. reading' \in Reading
    <2>1. <<>> \in Seq(Row)
      BY NoRows
    <2>2. CASE reading' = [at |-> "helius", page |-> 1, rows |-> <<>>, try |-> 1]
      BY <1>2, <2>1, <2>2 DEF Reading
    <2>3. CASE reading' = [at |-> "single", try |-> 1]
      BY <1>2, <2>3 DEF Reading
    <2>4. QED
      BY <1>1, <2>2, <2>3
  <1>4. HoldersTypeOK'
    BY <1>1, <1>3 DEF HoldersTypeOK
  <1>5. RowsOnce(<<>>, Paged(0) \ unlisted', seen')
    <2>1. Paged(0) \ unlisted' = {}
      BY <1>2, PageFacts
    <2>2. QED
      BY <2>1, NoRows
  <1>6. ReadingInv'
    <2>1. \A a \in Account : balance'[a] \in seen'[a]
      BY <1>1
    <2>2. CASE reading' = [at |-> "helius", page |-> 1, rows |-> <<>>, try |-> 1]
      <3>1. reading'.at = "helius" /\ reading'.rows = <<>> /\ reading'.page - 1 = 0
        BY <2>2
      <3>2. QED
        BY <1>1, <1>5, <2>1, <3>1 DEF ReadingInv, RowsOfAsked
    <2>3. CASE reading' = [at |-> "single", try |-> 1]
      BY <1>1, <2>1, <2>3 DEF ReadingInv
    <2>4. QED
      BY <1>1, <2>2, <2>3
  <1>7. QED
    BY <1>1, <1>4, <1>6 DEF HoldersIInv, SnapshotIsWhole

\* A snapshot is answered and kept.
LEMMA KeepStep ==
  ASSUME HoldersIInv, KeepSnapshot
  PROVE  HoldersIInv'
  <1> DEFINE rows == reading.rows
  <1>1. /\ HoldersTypeOK /\ rows \in Seq(Row)
        /\ rows = <<>> \/ RowsOnce(rows, Account \ unlisted, seen)
    BY ReadingFacts DEF HoldersIInv, KeepSnapshot, ReadingInv, RowsOfAsked
  <1>2. /\ UNCHANGED <<helius, classic, balance>> /\ reading' = [at |-> "no"]
        /\ cached' = [holders |-> AggregateRows(rows), since |-> seen, but |-> unlisted]
        /\ seen' = [a \in Account |-> {}] /\ unlisted' = {}
    BY DEF KeepSnapshot, Over, chain, NoSnapshot
  <1>3. seen \in [Account -> SUBSET Amounts] /\ unlisted \in SUBSET Account
    BY <1>1 DEF HoldersTypeOK
  <1> HIDE DEF rows
  <1>4. /\ \A w \in Wallets : AggregateRows(rows)[w] \in Nat
        /\ \/ \A w \in Wallets : AggregateRows(rows)[w] = 0
           \/ \A w \in Wallets : SumOfMoments(AccountsOf(w) \ unlisted, AggregateRows(rows)[w], seen)
    <2>1. CASE rows = <<>>
      BY <2>1, NobodyListed
    <2>2. CASE RowsOnce(rows, Account \ unlisted, seen)
      BY <1>1, <1>3, <2>2, EveryAccountOnce
    <2>3. QED
      BY <1>1, <2>1, <2>2
  <1>5. AggregateRows(rows) \in [Wallets -> Nat]
    <2>1. AggregateRows(rows) = [w \in Wallets |-> AggregateRows(rows)[w]]
      BY DEF AggregateRows
    <2>2. QED
      BY <1>4, <2>1
  <1>6. HoldersTypeOK'
    BY <1>1, <1>2, <1>3, <1>5 DEF HoldersTypeOK, Reading
  <1>7. SnapshotIsWhole'
    <2>1. cached'.holders = AggregateRows(rows) /\ cached'.since = seen /\ cached'.but = unlisted
      BY <1>2
    <2>2. QED
      BY <1>4, <2>1 DEF SnapshotIsWhole
  <1>8. QED
    BY <1>2, <1>6, <1>7 DEF HoldersIInv, ReadingInv

\* Tokens move.
LEMMA TransferStep ==
  ASSUME HoldersIInv, Transfer
  PROVE  HoldersIInv'
  <1>1. HoldersTypeOK /\ UNCHANGED <<helius, classic, reading, unlisted, cached>>
        /\ seen' = IF reading.at = "no" THEN seen ELSE [a \in Account |-> seen[a] \cup {balance'[a]}]
    BY DEF HoldersIInv, Transfer
  <1>2. PICK from \in Account, to \in Account :
          /\ from # to /\ balance[from] > 1 /\ balance[to] < MostOf
          /\ balance' = [balance EXCEPT ![from] = @ - 1, ![to] = @ + 1]
    BY DEF Transfer
  <1>3. balance' \in [Account -> Amounts]
    <2>1. balance \in [Account -> Amounts] /\ MostOf \in Nat
      BY <1>1, HoldersAssumption DEF HoldersTypeOK
    <2>2. balance[from] - 1 \in Amounts /\ balance[to] + 1 \in Amounts
      BY <1>2, <2>1 DEF Amounts
    <2>3. QED
      BY <1>2, <2>1, <2>2
  <1>4. seen' \in [Account -> SUBSET Amounts] /\ \A a \in Account : seen[a] \subseteq seen'[a]
    BY <1>1, <1>3 DEF HoldersTypeOK
  <1>5. HoldersTypeOK'
    BY <1>1, <1>3, <1>4 DEF HoldersTypeOK
  <1>6. reading.at # "no" => \A a \in Account : balance'[a] \in seen'[a]
    BY <1>1
  <1>7. ReadingOK(reading, unlisted, seen')
    <2>1. ReadingOK(reading, unlisted, seen)
      BY <1>1, ReadingIsOK DEF HoldersIInv
    <2>2. /\ Paged(reading.page - 1) \ unlisted \in SUBSET Account
          /\ OnClassic(Parted(reading.part - 1)) \ unlisted \in SUBSET Account
          /\ Account \ unlisted \in SUBSET Account
      BY DEF Paged, Parted, OnClassic
    <2>3. QED
      BY <1>4, <2>1, <2>2, RowsKept DEF ReadingOK
  <1>8. ReadingInv'
    BY <1>1, <1>6, <1>7 DEF ReadingOK, ReadingInv, RowsOfAsked, OnClassic
  <1>9. QED
    BY <1>1, <1>5, <1>8 DEF HoldersIInv, SnapshotIsWhole

-----------------------------------------------------------------------------
\* What has been read so far is each account that was asked for, once, as it was at a moment of
\* the read, but those an answer left out.
THEOREM HoldersInductive == HoldersSpec => []HoldersIInv
  <1>1. HoldersInit => HoldersIInv
    <2> SUFFICES ASSUME HoldersInit PROVE HoldersIInv
      OBVIOUS
    <2>1. /\ reading = [at |-> "no"] /\ seen = [a \in Account |-> {}] /\ unlisted = {}
          /\ cached = [holders |-> [w \in Wallets |-> 0], since |-> [a \in Account |-> {}], but |-> {}]
          /\ helius \in BOOLEAN /\ classic \in BOOLEAN /\ balance \in [Account -> Amounts]
      BY DEF HoldersInit, NoSnapshot
    <2>2. HoldersTypeOK
      BY <2>1 DEF HoldersTypeOK, Reading
    <2>3. \A w \in Wallets : cached.holders[w] = 0
      BY <2>1
    <2>4. QED
      BY <2>1, <2>2, <2>3 DEF HoldersIInv, ReadingInv, SnapshotIsWhole
  <1>2. HoldersIInv /\ [HoldersNext]_holdersVars => HoldersIInv'
    <2> SUFFICES ASSUME HoldersIInv, [HoldersNext]_holdersVars PROVE HoldersIInv'
      OBVIOUS
    <2>1. CASE UNCHANGED holdersVars
      BY <2>1 DEF holdersVars, HoldersIInv, HoldersTypeOK, ReadingInv, RowsOfAsked, SnapshotIsWhole, OnClassic
    <2>2. CASE CallFails
      BY <2>2, ThrowsKeep DEF CallFails
    <2>3. QED
      BY <2>1, <2>2, AskStep, HeliusStep, BlankStep, SingleStep, PartStep, ProbeStep, ProbeFailsStep, TryStep,
         KeepStep, TransferStep DEF HoldersNext
  <1>3. QED
    BY <1>1, <1>2, PTL DEF HoldersSpec

\* SnapshotIsWhole: a snapshot lists nobody, or everybody, each of their accounts once and as
\* it was while the snapshot was read, but for what an answer it took left out.
THEOREM SnapshotsAreWhole == HoldersSpec => []SnapshotIsWhole
  <1>1. HoldersIInv => SnapshotIsWhole
    BY DEF HoldersIInv
  <1>2. QED
    BY <1>1, HoldersInductive, PTL

-----------------------------------------------------------------------------
(* Totals: the ledger and its listing.                                     *)

\* The newest of some times.
LEMMA LargestNumber ==
  ASSUME NEW S, NEW b \in Nat, S # {}, \A x \in S : x \in 0 .. b
  PROVE  Max(S) \in S /\ \A y \in S : y <= Max(S)
<1> DEFINE Below == {b - x : x \in S}
<1>1. Below \in SUBSET Nat /\ Below # {}
  OBVIOUS
<1>2. PICK m \in Below : \A n \in Below : m <= n
  BY <1>1, LeastNumber
<1>3. PICK x \in S : m = b - x
  BY <1>2
<1>4. \A y \in S : x >= y
  <2>1. TAKE y \in S
  <2>2. b - x <= b - y
    BY <1>2, <1>3
  <2>3. QED
    BY <2>2
<1>5. \E z \in S : \A y \in S : z >= y
  BY <1>4
<1>6. Max(S) \in S /\ \A y \in S : Max(S) >= y
  BY <1>5 DEF Max
<1> QED
  BY <1>6

\* The rounds of the ledger, and that only the newest may be missing from the listing.
LEMMA LedgerFacts ==
  ASSUME TotalsTypeOK, LedgerInv
  PROVE  /\ Len(ledger) \in Nat /\ DOMAIN ledger = 1 .. Len(ledger) /\ DOMAIN ledger \subseteq Rounds
         /\ \A r \in DOMAIN ledger :
              /\ ledger[r].at \in 1 .. MaxRounds /\ ledger[r].status \in Status
              /\ ledger[r].listed \in Status \cup {"absent"}
         /\ Listed \subseteq DOMAIN ledger
         /\ \A r \in Listed, q \in DOMAIN ledger : q <= r => q \in Listed
         /\ \A r \in DOMAIN ledger \ Listed : r = Len(ledger)
<1>1. ledger \in Seq(LedgerRow) /\ Len(ledger) <= MaxRounds
  BY DEF TotalsTypeOK
<1>2. Len(ledger) \in Nat /\ DOMAIN ledger = 1 .. Len(ledger)
  BY <1>1
<1>3. DOMAIN ledger \subseteq Rounds
  BY <1>1, <1>2, TotalsAssumption DEF Rounds
<1>4. \A r \in DOMAIN ledger : ledger[r] \in LedgerRow
  BY <1>1, <1>2
<1>5. \A r \in DOMAIN ledger \ Listed : r = Len(ledger)
  BY DEF Listed, LedgerInv
<1>6. \A r \in Listed, q \in DOMAIN ledger : q <= r => q \in Listed
  <2>1. SUFFICES ASSUME NEW r \in Listed, NEW q \in DOMAIN ledger, q <= r, q \notin Listed PROVE FALSE
    OBVIOUS
  <2>2. q = Len(ledger) /\ r \in 1 .. Len(ledger)
    BY <2>1, <1>2, <1>5 DEF Listed
  <2>3. QED
    BY <2>1, <2>2, <1>2
<1>7. QED
  BY <1>2, <1>3, <1>4, <1>5, <1>6 DEF Listed, LedgerRow

\* The listing holds the oldest rounds, and says them newest first: the place of each.
LEMMA Places ==
  ASSUME TotalsTypeOK, LedgerInv
  PROVE  \E n \in Nat :
           /\ n <= MaxRounds /\ Cardinality(Listed) = n /\ Listed = 1 .. n
           /\ \A r \in Listed : Place(r) = n - r + 1
           /\ \A offset \in Nat :
                /\ Cardinality(Items(offset)) \in Nat /\ Cardinality(Items(offset)) <= Page
                /\ offset + Cardinality(Items(offset)) < n => Cardinality(Items(offset)) = Page
<1>1. Len(ledger) \in Nat /\ Len(ledger) <= MaxRounds /\ DOMAIN ledger = 1 .. Len(ledger)
  BY LedgerFacts DEF TotalsTypeOK
<1>2. \E n \in Nat : Listed = 1 .. n /\ n <= Len(ledger)
  <2>1. CASE Listed = DOMAIN ledger
    <3>1. Listed = 1 .. Len(ledger)
      BY <2>1, <1>1
    <3>2. Len(ledger) \in Nat /\ Len(ledger) <= Len(ledger)
      BY <1>1
    <3>3. QED
      BY <3>1, <3>2
  <2>2. CASE Listed # DOMAIN ledger
    <3>1. PICK r \in DOMAIN ledger : r \notin Listed
      BY <2>2 DEF Listed
    <3>2. r = Len(ledger) /\ r \in Nat /\ r > 0
      BY <3>1, LedgerFacts, <1>1
    <3>3. Listed = 1 .. (r - 1)
      <4>1. \A q \in Listed : q \in 1 .. (r - 1)
        BY <3>1, <3>2, <1>1 DEF Listed
      <4>2. \A q \in 1 .. (r - 1) : q \in Listed
        BY <3>2, <1>1, LedgerFacts
      <4>3. QED
        BY <4>1, <4>2
    <3>4. QED
      BY <3>2, <3>3
  <2>3. QED
    BY <2>1, <2>2
<1>3. PICK n \in Nat : Listed = 1 .. n /\ n <= Len(ledger)
  BY <1>2
<1>4. Cardinality(Listed) = n
  BY <1>3, FS_Interval
<1>5. \A r \in Listed : Place(r) = n - r + 1
  <2>1. TAKE r \in Listed
  <2>2. r \in Nat /\ r <= n /\ r > 0
    BY <1>3
  <2>3. {q \in Listed : q >= r} = r .. n
    BY <1>3, <2>2
  <2>4. Cardinality(r .. n) = IF r > n THEN 0 ELSE n - r + 1
    BY <2>2, FS_Interval
  <2>5. Place(r) = Cardinality(r .. n)
    BY <2>3 DEF Place
  <2>6. QED
    BY <2>2, <2>4, <2>5
<1>6. \A offset \in Nat :
        /\ Cardinality(Items(offset)) \in Nat /\ Cardinality(Items(offset)) <= Page
        /\ offset + Cardinality(Items(offset)) < n => Cardinality(Items(offset)) = Page
  <2>1. TAKE offset \in Nat
  <2>2. Page \in Nat /\ Page > 0
    BY TotalsAssumption
  <2> DEFINE low == IF n > offset + Page THEN n - offset - Page + 1 ELSE 1
  <2>3. Items(offset) = low .. (n - offset)
    <3>1. \A r \in 1 .. n : (offset < n - r + 1 /\ n - r + 1 <= offset + Page) <=> r \in low .. (n - offset)
      BY <1>3, <2>2
    <3>2. \A r \in low .. (n - offset) : r \in 1 .. n
      BY <1>3, <2>2
    <3>3. Items(offset) = {r \in 1 .. n : offset < n - r + 1 /\ n - r + 1 <= offset + Page}
      BY <1>3, <1>5 DEF Items
    <3>4. QED
      BY <3>1, <3>2, <3>3
  <2>4. low \in Int /\ n - offset \in Int
    BY <1>3, <2>2
  <2>5. Cardinality(Items(offset)) = IF low > n - offset THEN 0 ELSE n - offset - low + 1
    BY <2>3, <2>4, FS_Interval
  <2>6. QED
    BY <2>5, <2>2, <1>3
<1>7. QED
  <2>1. n <= MaxRounds
    BY <1>1, <1>3, TotalsAssumption
  <2>2. QED
    BY <2>1, <1>3, <1>4, <1>5, <1>6

-----------------------------------------------------------------------------
(* Totals: aggregates.                                                     *)

\* An aggregate is its four fields.
LEMMA AggregateFields ==
  ASSUME NEW agg \in Aggregate
  PROVE  /\ agg.cursor \in 0 .. MaxRounds /\ agg.ids \subseteq Rounds /\ agg.open \subseteq Rounds
         /\ DOMAIN agg.as = Rounds /\ \A r \in Rounds : agg.as[r] \in Kinds \cup {"no", "twice"}
         /\ MaxRounds \in Nat
<1>1. agg.as \in [Rounds -> Kinds \cup {"no", "twice"}]
  BY DEF Aggregate
<1> QED
  BY <1>1, TotalsAssumption DEF Aggregate

\* What is behind a cursor is listed, and nothing older is before it.
LEMMA KnownFacts ==
  ASSUME TotalsTypeOK, LedgerInv, NEW agg \in Aggregate, CursorOK(agg)
  PROVE  /\ Known(agg) \subseteq Listed /\ Known(agg) \subseteq DOMAIN ledger /\ Known(agg) \subseteq Rounds
         /\ \A r \in Known(agg) : ledger[r].at <= agg.cursor
         /\ \A r \in DOMAIN ledger \ Known(agg) : ledger[r].at >= agg.cursor /\ r \notin agg.ids
         /\ \A r \in Known(agg), q \in DOMAIN ledger : q <= r => q \in Known(agg)
<1>1. \A r \in DOMAIN ledger : ledger[r].at \in 1 .. MaxRounds
  BY LedgerFacts
<1>2. agg.cursor \in 0 .. MaxRounds /\ MaxRounds \in Nat
  BY AggregateFields
<1>3. Known(agg) \subseteq Listed
  BY DEF CursorOK
<1>4. Known(agg) \subseteq DOMAIN ledger /\ DOMAIN ledger \subseteq Rounds
  BY LedgerFacts DEF Known
<1>5. \A r \in DOMAIN ledger :
        /\ r \in Known(agg) => ledger[r].at <= agg.cursor
        /\ r \notin Known(agg) => ledger[r].at >= agg.cursor /\ r \notin agg.ids
  BY <1>1, <1>2 DEF Known, CursorOK
<1>6. QED
  BY <1>3, <1>4, <1>5 DEF CursorOK

\* foldNewRounds, the end, with a row for each round that was not known: all of the listing is
\* known, and what was new in it counted once.
LEMMA Folding ==
  ASSUME TotalsTypeOK, LedgerInv, NEW agg \in Aggregate, AggregateOK(agg, agg.open),
         NEW fresh, fresh \subseteq FreshRow,
         \A row \in fresh :
           /\ row.round \in Listed \ Known(agg)
           /\ row.status # "open" => row.round \in retried \/ row.status = ledger[row.round].status,
         \A row, other \in fresh : row.round = other.round => row = other,
         \A r \in Listed : r \in Known(agg) \/ \E row \in fresh : row.round = r
  PROVE  /\ FoldNewRounds(agg, fresh) \in Aggregate
         /\ AggregateOK(FoldNewRounds(agg, fresh), FoldNewRounds(agg, fresh).open)
         /\ Known(FoldNewRounds(agg, fresh)) = Listed
         /\ FoldNewRounds(agg, fresh).open = agg.open \cup {r \in Rounds : \E row \in fresh : row.round = r /\ row.status = "open"}
<1> DEFINE new == FoldNewRounds(agg, fresh)
           counted(r) == {row \in fresh : row.round = r /\ row.status # "open"}
           opened == {r \in Rounds : \E row \in fresh : row.round = r /\ row.status = "open"}
           times == {ledger[row.round].at : row \in fresh}
           cursor == Max(times \cup {agg.cursor})
<1>1. /\ new.as = [r \in Rounds |->
                     IF counted(r) = {} THEN agg.as[r]
                     ELSE IF Cardinality(counted(r)) > 1 THEN "twice"
                     ELSE Fold(agg.as[r], (CHOOSE row \in counted(r) : TRUE).status)]
      /\ new.open = agg.open \cup opened /\ new.cursor = cursor
      /\ new.ids = (IF cursor = agg.cursor THEN agg.ids ELSE {})
                      \cup {r \in DOMAIN ledger : ledger[r].at = cursor /\ \E row \in fresh : row.round = r}
      /\ new = [as |-> new.as, open |-> new.open, cursor |-> new.cursor, ids |-> new.ids]
  BY DEF FoldNewRounds
<1> HIDE DEF new
<1>2. CursorOK(agg) /\ CountsOK(agg, agg.open)
  BY DEF AggregateOK
<1>3. \A row \in fresh : row.round \in Rounds /\ row.round \in DOMAIN ledger /\ row.status \in Status
  BY LedgerFacts DEF FreshRow
<1>4. \A r \in DOMAIN ledger : ledger[r].at \in 1 .. MaxRounds
  BY LedgerFacts
<1>5. /\ cursor \in times \cup {agg.cursor} /\ cursor \in 0 .. MaxRounds
      /\ \A t \in times : t <= cursor
      /\ agg.cursor <= cursor
  <2>1. \A t \in times \cup {agg.cursor} : t \in 0 .. MaxRounds
    BY <1>3, <1>4, AggregateFields
  <2>2. times \cup {agg.cursor} # {} /\ MaxRounds \in Nat
    BY AggregateFields
  <2> HIDE DEF times
  <2>3. cursor \in times \cup {agg.cursor} /\ \A t \in times \cup {agg.cursor} : t <= cursor
    BY <2>1, <2>2, LargestNumber
  <2>4. QED
    BY <2>1, <2>3
<1> HIDE DEF cursor
<1>6. \A r \in Listed : r \in DOMAIN ledger /\ ledger[r].at <= cursor /\ (ledger[r].at = cursor => r \in new.ids)
  <2>1. TAKE r \in Listed
  <2>2. r \in DOMAIN ledger
    BY LedgerFacts
  <2>3. CASE r \in Known(agg)
    <3>1. ledger[r].at <= agg.cursor
      BY <1>2, <2>3, KnownFacts
    <3>2. ledger[r].at \in Nat /\ agg.cursor \in Nat /\ cursor \in Nat
      BY <1>4, <1>5, <2>2, AggregateFields
    <3>3. ledger[r].at <= cursor /\ (ledger[r].at = cursor => cursor = agg.cursor /\ ~(ledger[r].at < agg.cursor))
      BY <1>5, <3>1, <3>2
    <3>4. QED
      BY <1>1, <2>2, <2>3, <3>3 DEF Known
  <2>4. CASE \E row \in fresh : row.round = r
    <3>1. ledger[r].at \in times
      BY <2>4
    <3>2. QED
      BY <1>1, <1>5, <2>2, <2>4, <3>1
  <2>5. QED
    BY <2>3, <2>4
<1>7. \A r \in new.ids : r \in Listed /\ ledger[r].at = cursor
  BY <1>1, <1>2 DEF CursorOK
<1>8. cursor = 0 \/ new.ids # {}
  <2>1. CASE cursor = agg.cursor
    BY <1>1, <1>2, <2>1 DEF CursorOK
  <2>2. CASE cursor \in times
    BY <1>1, <1>3, <2>2
  <2>3. QED
    BY <1>5, <2>1, <2>2
<1>9. Known(new) = Listed
  <2>1. \A r \in DOMAIN ledger : ledger[r].at < cursor => r \in Listed
    <3>1. SUFFICES ASSUME NEW r \in DOMAIN ledger, ledger[r].at < cursor, r \notin Listed PROVE FALSE
      OBVIOUS
    <3>2. PICK q \in DOMAIN ledger : ledger[q].at = cursor
      BY <1>7, <1>8, <1>4, <1>5, <3>1, LedgerFacts
    <3>3. r = Len(ledger) /\ DOMAIN ledger = 1 .. Len(ledger) /\ Len(ledger) \in Nat
      BY <3>1, LedgerFacts
    <3>4. ledger[q].at <= ledger[r].at
      BY <3>3 DEF LedgerInv
    <3>5. QED
      BY <1>4, <1>5, <3>1, <3>2, <3>4
  <2>2. \A r \in Known(new) : r \in Listed
    BY <1>1, <1>7, <2>1 DEF Known
  <2>3. \A r \in Listed : r \in Known(new)
    BY <1>1, <1>4, <1>5, <1>6 DEF Known
  <2>4. QED
    BY <2>2, <2>3
<1>10. CursorOK(new)
  <2>1. \A r \in Known(new) : r \in Listed /\ \A q \in DOMAIN ledger : q <= r => q \in Known(new)
    BY <1>9, LedgerFacts
  <2>2. QED
    BY <1>1, <1>7, <1>8, <2>1 DEF CursorOK
\* each round
<1>11. \A r \in Rounds : (r \notin Listed \/ r \in Known(agg)) => counted(r) = {} /\ r \notin opened
  OBVIOUS
<1>12. \A row \in fresh :
         /\ agg.as[row.round] = "no"
         /\ row.status = "open" => counted(row.round) = {} /\ row.round \in opened
         /\ row.status # "open" => counted(row.round) = {row} /\ row.round \notin opened
  <2>1. TAKE row \in fresh
  <2>2. agg.as[row.round] = "no"
    BY <1>2, <1>3 DEF CountsOK
  <2>3. row.status = "open" => counted(row.round) = {} /\ row.round \in opened
    BY <1>3
  <2>4. row.status # "open" => counted(row.round) = {row} /\ row.round \notin opened
    BY <1>3
  <2>5. QED
    BY <2>2, <2>3, <2>4
<1>13. \A row \in fresh : row.status # "open" => new.as[row.round] = row.status /\ row.status \in Kinds
  <2>1. SUFFICES ASSUME NEW row \in fresh, row.status # "open" PROVE new.as[row.round] = row.status /\ row.status \in Kinds
    OBVIOUS
  <2>2. counted(row.round) = {row} /\ agg.as[row.round] = "no"
    BY <1>12, <2>1
  <2> HIDE DEF counted
  <2>3. Cardinality(counted(row.round)) = 1
    BY <2>2, FS_Singleton
  <2>4. (CHOOSE other \in counted(row.round) : TRUE) = row
    BY <2>2
  <2>5. new.as[row.round] = Fold(agg.as[row.round], row.status)
    <3>1. counted(row.round) # {} /\ ~(1 > 1)
      BY <2>2
    <3>2. QED
      BY <1>1, <1>3, <2>3, <2>4, <3>1
  <2>6. QED
    BY <1>3, <2>1, <2>2, <2>5 DEF Fold, Status
<1>14. \A r \in Rounds : counted(r) = {} => new.as[r] = agg.as[r]
  BY <1>1
<1>15. \A r \in Rounds : counted(r) = {} \/ \E row \in fresh : row.round = r /\ row.status # "open"
  OBVIOUS
<1> HIDE DEF counted
<1>16. new \in Aggregate
  <2>1. \A r \in Rounds : new.as[r] \in Kinds \cup {"no", "twice"}
    BY <1>13, <1>14, <1>15, AggregateFields
  <2>2. new.as \in [Rounds -> Kinds \cup {"no", "twice"}]
    BY <1>1, <2>1
  <2>3. new.ids \subseteq Rounds /\ new.open \subseteq Rounds
    BY <1>1, AggregateFields, LedgerFacts
  <2>4. QED
    BY <1>1, <1>5, <2>2, <2>3 DEF Aggregate
<1>17. new.open \subseteq Known(new)
  <2>1. agg.open \subseteq Listed
    BY <1>2, KnownFacts DEF CountsOK
  <2>2. QED
    BY <1>1, <1>9, <2>1
<1>18. ASSUME NEW r \in Rounds
       PROVE  IF r \in Known(new) \ new.open
              THEN new.as[r] \in Kinds /\ (r \in retried \/ new.as[r] = ledger[r].status)
              ELSE new.as[r] = "no"
  <2>1. CASE r \notin Listed
    <3>1. r \notin Known(agg) /\ new.as[r] = agg.as[r]
      BY <1>2, <1>11, <1>14, <2>1, KnownFacts
    <3>2. QED
      BY <1>2, <1>9, <2>1, <3>1 DEF CountsOK
  <2>2. CASE r \in Known(agg)
    <3>1. r \in Listed /\ r \notin opened /\ new.as[r] = agg.as[r]
      BY <1>2, <1>11, <1>14, <2>2, KnownFacts
    <3>2. r \in Known(new) \ new.open <=> r \in Known(agg) \ agg.open
      BY <1>1, <1>9, <2>2, <3>1
    <3>3. QED
      BY <1>2, <3>1, <3>2 DEF CountsOK
  <2>3. CASE r \in Listed \ Known(agg)
    <3>1. PICK row \in fresh : row.round = r
      BY <2>3
    <3>2. r \notin agg.open
      BY <1>2, <2>3 DEF CountsOK
    <3>3. CASE row.status = "open"
      <4>1. r \in opened /\ new.as[r] = "no"
        BY <1>12, <1>14, <3>1, <3>3
      <4>2. QED
        BY <1>1, <4>1
    <3>4. CASE row.status # "open"
      <4>1. r \notin opened /\ new.as[r] = row.status /\ row.status \in Kinds
        BY <1>12, <1>13, <3>1, <3>4
      <4>2. r \in retried \/ row.status = ledger[r].status
        BY <3>1, <3>4
      <4>3. QED
        BY <1>1, <1>9, <2>3, <3>2, <4>1, <4>2
    <3>5. QED
      BY <3>3, <3>4
  <2>4. QED
    BY <2>1, <2>2, <2>3
<1>19. AggregateOK(new, new.open)
  BY <1>10, <1>17, <1>18 DEF AggregateOK, CountsOK
<1>20. QED
  BY <1>1, <1>9, <1>16, <1>19 DEF new

-----------------------------------------------------------------------------
(* Totals: the keeper's steps.                                             *)

\* A scan in flight, stage by stage.
LEMMA ScanFields ==
  ASSUME TotalsTypeOK
  PROVE  /\ scan.at = "open" =>
              /\ scan = [at |-> "open", agg |-> scan.agg, todo |-> scan.todo, still |-> scan.still,
                         handled |-> scan.handled, due |-> scan.due]
              /\ scan.agg \in Aggregate /\ scan.todo \subseteq Rounds /\ scan.still \subseteq Rounds
              /\ scan.handled \subseteq Rounds /\ scan.due \in [Rounds -> Kinds \cup {"no"}]
         /\ scan.at = "pages" =>
              /\ scan = [at |-> "pages", agg |-> scan.agg, handled |-> scan.handled, offset |-> scan.offset,
                         page |-> scan.page, fresh |-> scan.fresh, due |-> scan.due]
              /\ scan.agg \in Aggregate /\ scan.handled \subseteq Rounds /\ scan.offset \in Nat /\ scan.page \in Nat
              /\ scan.fresh \subseteq FreshRow /\ scan.due \in [Rounds -> Kinds \cup {"no"}]
         /\ scan.at \in {"save", "answer"} =>
              /\ scan = [at |-> scan.at, ok |-> scan.ok, agg |-> scan.agg, due |-> scan.due]
              /\ scan.ok \in BOOLEAN /\ scan.agg \in Aggregate /\ scan.due \in [Rounds -> Kinds \cup {"no"}]
         /\ scan.at \in {"none", "open", "pages", "save", "answer"} /\ (scan.at = "none" => scan = NoScan)
<1>1. scan \in Scan
  BY DEF TotalsTypeOK
<1>2. CASE scan = NoScan
  BY <1>2 DEF NoScan
<1>3. CASE scan \in [at : {"open"}, agg : Aggregate, todo : SUBSET Rounds, still : SUBSET Rounds,
                     handled : SUBSET Rounds, due : [Rounds -> Kinds \cup {"no"}]]
  BY <1>3
<1>4. CASE scan \in [at : {"pages"}, agg : Aggregate, handled : SUBSET Rounds, offset : Nat, page : Nat,
                     fresh : SUBSET FreshRow, due : [Rounds -> Kinds \cup {"no"}]]
  BY <1>4
<1>5. CASE scan \in [at : {"save", "answer"}, ok : BOOLEAN, agg : Aggregate, due : [Rounds -> Kinds \cup {"no"}]]
  BY <1>5
<1>6. QED
  BY <1>1, <1>2, <1>3, <1>4, <1>5 DEF Scan

\* The first place of the listing is 1.
LEMMA FirstPlace ==
  ASSUME NEW S, IsFiniteSet(S), NEW r \in S, \A q \in S : q \in Nat
  PROVE  Cardinality({q \in S : q >= r}) \in Nat /\ Cardinality({q \in S : q >= r}) > 0
<1> DEFINE T == {q \in S : q >= r}
<1>1. T \subseteq S /\ r \in T
  OBVIOUS
<1>2. IsFiniteSet(T) /\ T # {}
  BY <1>1, FS_Subset
<1>3. Cardinality(T) \in Nat /\ Cardinality(T) # 0
  BY <1>2, FS_EmptySet, FS_CardinalityType
<1> QED
  BY <1>3

\* What the keeper does to a round leaves alone what was folded of it: it ends a round that was
\* open, or opens one again, or lists the newest.
LEMMA LedgerGrows ==
  ASSUME TotalsIInv, UNCHANGED <<aggregates, scan>>, trouble' = trouble,
         TotalsTypeOK', LedgerInv', retried \subseteq retried', Listed \subseteq Listed',
         DOMAIN ledger \subseteq DOMAIN ledger', \A r \in DOMAIN ledger : ledger'[r].at = ledger[r].at,
         \A r \in DOMAIN ledger : r \in retried' \/ ledger'[r].status = ledger[r].status \/ ledger[r].status = "open",
         \A r \in Listed : r \in retried' \/ ledger'[r].listed = ledger[r].listed \/ ledger[r].listed = "open",
         \A r \in DOMAIN ledger' \ DOMAIN ledger : \A q \in DOMAIN ledger : q < r /\ ledger'[q].at <= ledger'[r].at,
         \A r \in DOMAIN ledger' : ledger'[r].at \in Nat \ {0},
         IsFiniteSet(Listed'), \A r \in Listed' : r \in Nat,
         scan.at = "pages" /\ scan.page > 0 => Listed' = Listed
  PROVE  TotalsIInv'
<1>1. TotalsTypeOK /\ LedgerInv /\ StoredInv /\ ScanInv /\ TotalsAreTheLedger
  BY DEF TotalsIInv
<1>2. \A r \in DOMAIN ledger : r \in Nat /\ ledger[r].at \in Nat /\ r \in Rounds
  BY <1>1, LedgerFacts
<1>3. "open" \notin Kinds
  BY TotalsAssumption
<1>4. ASSUME NEW agg \in Aggregate, NEW open, AggregateOK(agg, open)
      PROVE  AggregateOK(agg, open)' /\ Known(agg)' = Known(agg)
  <2>1. CursorOK(agg) /\ CountsOK(agg, open) /\ agg.cursor \in Nat
    BY <1>4, AggregateFields DEF AggregateOK
  <2>2. ASSUME NEW r \in DOMAIN ledger' \ DOMAIN ledger PROVE ~(ledger'[r].at < agg.cursor) /\ r \notin agg.ids
    <3>1. r \notin agg.ids
      BY <2>1, <2>2, <1>1, LedgerFacts DEF CursorOK
    <3>2. CASE agg.cursor = 0
      BY <3>1, <3>2
    <3>3. CASE agg.ids # {}
      <4>1. PICK q \in agg.ids : q \in DOMAIN ledger /\ ledger[q].at = agg.cursor
        BY <3>3, <2>1, <1>1, LedgerFacts DEF CursorOK
      <4>2. ledger'[q].at = agg.cursor /\ ledger'[q].at <= ledger'[r].at /\ ledger'[r].at \in Nat
        BY <4>1, <2>2
      <4>3. QED
        BY <4>2, <3>1, <2>1
    <3>4. QED
      BY <3>2, <3>3, <2>1 DEF CursorOK
  <2>3. Known(agg)' = Known(agg)
    BY <2>2 DEF Known
  <2>4. CursorOK(agg)'
    <3>1. \A r \in agg.ids : r \in Listed' /\ ledger'[r].at = agg.cursor
      BY <2>1, <1>1, LedgerFacts DEF CursorOK
    <3>2. ASSUME NEW r \in Known(agg) PROVE r \in Listed' /\ \A q \in DOMAIN ledger' : q <= r => q \in Known(agg)
      <4>1. r \in Listed /\ r \in DOMAIN ledger /\ r \in Nat
        BY <2>1, <1>1, <1>2, KnownFacts
      <4>2. \A q \in DOMAIN ledger' \ DOMAIN ledger : r < q /\ q \in Nat
        <5>1. TAKE q \in DOMAIN ledger' \ DOMAIN ledger
        <5>2. q \in Nat
          <6>1. ledger' \in Seq(LedgerRow)
            BY DEF TotalsTypeOK
          <6>2. QED
            BY <6>1
        <5>3. QED
          BY <4>1, <5>2
      <4>3. \A q \in DOMAIN ledger : q <= r => q \in Known(agg)
        BY <2>1, <4>1, <3>2 DEF CursorOK
      <4>4. QED
        BY <4>1, <4>2, <4>3
    <3>3. agg.cursor = 0 \/ agg.ids # {}
      BY <2>1 DEF CursorOK
    <3>4. QED
      BY <2>3, <3>1, <3>2, <3>3 DEF CursorOK
  <2>5. CountsOK(agg, open)'
    <3>1. ASSUME NEW r \in Known(agg) \ open PROVE agg.as[r] \in Kinds /\ (r \in retried' \/ agg.as[r] = ledger'[r].status)
      <4>1. r \in DOMAIN ledger /\ r \in Rounds
        BY <2>1, <1>1, KnownFacts
      <4>2. agg.as[r] \in Kinds /\ (r \in retried \/ agg.as[r] = ledger[r].status)
        BY <2>1, <4>1 DEF CountsOK
      <4>3. QED
        BY <1>3, <4>1, <4>2
    <3>2. \A r \in Rounds : r \notin Known(agg) \ open => agg.as[r] = "no"
      BY <2>1 DEF CountsOK
    <3>3. open \subseteq Known(agg)
      BY <2>1 DEF CountsOK
    <3>4. QED
      BY <2>3, <3>1, <3>2, <3>3 DEF CountsOK
  <2>6. QED
    BY <2>3, <2>4, <2>5 DEF AggregateOK
<1>5. ASSUME NEW due, NEW open, DueOK(due, open) PROVE DueOK(due, open)'
  <2>1. ASSUME NEW r \in Rounds
        PROVE  \/ due[r] = "no" \/ r \in retried'
               \/ r \in Listed' \ open /\ due[r] \in Kinds /\ due[r] = ledger'[r].listed /\ due[r] = ledger'[r].status
    <3>1. CASE due[r] = "no" \/ r \in retried
      BY <3>1
    <3>2. CASE r \in Listed \ open /\ due[r] \in Kinds /\ due[r] = ledger[r].listed /\ due[r] = ledger[r].status
      BY <1>3, <3>2 DEF Listed
    <3>3. QED
      BY <3>1, <3>2, <1>5 DEF DueOK
  <2>2. QED
    BY <2>1 DEF DueOK
<1>6. {totals, totalsFile, local} \subseteq Aggregate
  BY <1>1 DEF TotalsTypeOK
<1>7. StoredInv'
  BY <1>1, <1>4, <1>6 DEF StoredInv, aggregates
<1>8. scan.at = "pages" => FreshOK'
  <2>1. SUFFICES ASSUME scan.at = "pages" PROVE FreshOK'
    OBVIOUS
  <2>2. /\ FreshOK /\ scan.offset = scan.page * Page /\ scan.page \in Nat
        /\ scan.agg \in Aggregate /\ Known(scan.agg)' = Known(scan.agg)
    BY <1>1, <1>4, <2>1, ScanFields DEF ScanInv
  <2>3. CASE scan.page > 0
    <3>1. Listed' = Listed /\ \A r : Place(r)' = Place(r)
      BY <2>1, <2>3 DEF Place
    <3>2. \A row \in scan.fresh :
            /\ row.round \in Listed' \ Known(scan.agg) /\ Place(row.round)' <= scan.offset
            /\ row.status = "open" => scan.due[row.round] = "no" \/ row.round \in retried'
            /\ row.status # "open" => row.round \in retried' \/ row.status = ledger'[row.round].status
      BY <2>2, <3>1 DEF FreshOK, Listed
    <3>3. \A row, other \in scan.fresh : row.round = other.round => row = other
      BY <2>2 DEF FreshOK
    <3>4. \A r \in Listed' : Place(r)' <= scan.offset => r \in Known(scan.agg) \/ \E row \in scan.fresh : row.round = r
      BY <2>2, <3>1 DEF FreshOK
    <3>5. QED
      BY <2>2, <3>2, <3>3, <3>4 DEF FreshOK
  <2>4. CASE ~(scan.page > 0)
    <3>1. scan.offset = 0
      BY <2>2, <2>4, TotalsAssumption
    <3>2. \A r \in Listed : Place(r) > 0
      BY <1>1, Places
    <3>3. scan.fresh = {}
      <4>1. \A row \in scan.fresh : row.round \in Listed /\ Place(row.round) <= 0
        BY <2>2, <3>1 DEF FreshOK
      <4>2. \A r \in Listed : Place(r) \in Int
        BY <1>1, Places
      <4>3. QED
        BY <3>2, <4>1, <4>2
    <3>4. \A r \in Listed' : Place(r)' \in Nat /\ Place(r)' > 0
      BY FirstPlace DEF Place
    <3>5. QED
      BY <3>1, <3>3, <3>4 DEF FreshOK
  <2>5. QED
    BY <2>3, <2>4
<1>9. ScanInv'
  <2>1. scan.at = "open" =>
          /\ AggregateOK(scan.agg, scan.todo \cup scan.still)' /\ scan.todo \cap scan.still = {}
          /\ scan.handled \subseteq Known(scan.agg)' /\ DueOK(scan.due, scan.still)'
    BY <1>1, <1>4, <1>5, ScanFields DEF ScanInv
  <2>2. scan.at = "pages" =>
          /\ AggregateOK(scan.agg, scan.agg.open)'
          /\ scan.handled \subseteq Known(scan.agg)' /\ DueOK(scan.due, scan.agg.open)'
          /\ scan.page < MaxPages /\ scan.offset = scan.page * Page
    BY <1>1, <1>4, <1>5, ScanFields DEF ScanInv
  <2>3. scan.at = "save" =>
          /\ AggregateOK(scan.agg, scan.agg.open)'
          /\ \A r \in Rounds : scan.due[r] \in {"no", scan.agg.as[r]} \/ r \in retried'
    BY <1>1, <1>4, ScanFields DEF ScanInv
  <2>4. QED
    BY <1>8, <2>1, <2>2, <2>3 DEF ScanInv
<1>10. TotalsAreTheLedger'
  BY <1>1 DEF TotalsAreTheLedger, CountedOnce, AnswerIsTheLedger
<1>11. QED
  BY <1>7, <1>9, <1>10 DEF TotalsIInv

\* Rows for the first n numbers are a ledger.
LEMMA LedgerOf ==
  ASSUME NEW n \in Nat, NEW rounds \in [1 .. n -> LedgerRow]
  PROVE  rounds \in Seq(LedgerRow) /\ Len(rounds) = n /\ DOMAIN rounds = 1 .. n
BY SeqDef

\* The invariant after a step of the keeper, from what the step does to the ledger.
LEMMA LedgerMoves ==
  ASSUME TotalsIInv, UNCHANGED <<scanning, trouble>>, NEW n \in Nat, n <= MaxRounds, n >= Len(ledger),
         ledger' \in [1 .. n -> LedgerRow], LedgerInv', retried' \subseteq Rounds, retried \subseteq retried',
         \A r \in DOMAIN ledger :
           /\ ledger'[r].at = ledger[r].at
           /\ r \in retried' \/ ledger'[r].status = ledger[r].status \/ ledger[r].status = "open"
           /\ ledger[r].listed # "absent" =>
                /\ ledger'[r].listed # "absent"
                /\ r \in retried' \/ ledger'[r].listed = ledger[r].listed \/ ledger[r].listed = "open",
         scan.at = "pages" /\ scan.page > 0 => Listed' = Listed
  PROVE  TotalsIInv'
<1>1. TotalsTypeOK /\ LedgerInv
  BY DEF TotalsIInv
<1>2. Len(ledger) \in Nat /\ DOMAIN ledger = 1 .. Len(ledger)
  BY <1>1, LedgerFacts
<1>3. ledger' \in Seq(LedgerRow) /\ Len(ledger') = n /\ DOMAIN ledger' = 1 .. n
  BY LedgerOf
<1>4. DOMAIN ledger \subseteq DOMAIN ledger' /\ \A r \in DOMAIN ledger' \ DOMAIN ledger : \A q \in DOMAIN ledger : q < r
  BY <1>2, <1>3
<1>5. TotalsTypeOK'
  BY <1>1, <1>3 DEF TotalsTypeOK, scanning, aggregates
<1>6. \A r \in DOMAIN ledger' : r \in Nat /\ ledger'[r].at \in Nat \ {0}
  BY <1>3 DEF LedgerRow
<1>7. \A r \in DOMAIN ledger' \ DOMAIN ledger : \A q \in DOMAIN ledger : q < r /\ ledger'[q].at <= ledger'[r].at
  BY <1>4, <1>6 DEF LedgerInv
<1>8. Listed \subseteq Listed' /\ Listed' \subseteq DOMAIN ledger'
  BY <1>4 DEF Listed
<1>9. IsFiniteSet(Listed')
  <2>1. IsFiniteSet(1 .. n)
    BY FS_Interval
  <2>2. Listed' \subseteq 1 .. n
    BY <1>3, <1>8
  <2>3. QED
    BY <2>1, <2>2, FS_Subset
<1>10. \A r \in Listed : r \in retried' \/ ledger'[r].listed = ledger[r].listed \/ ledger[r].listed = "open"
  BY DEF Listed
<1>11. QED
  BY <1>4, <1>5, <1>6, <1>7, <1>8, <1>9, <1>10, LedgerGrows DEF scanning

\* The keeper begins a round, ends it, opens one again, and lists it.
LEMMA KeeperSteps ==
  ASSUME StillPages, TotalsIInv, BeginRound \/ EndRound \/ ReopenRound \/ ListRound
  PROVE  TotalsIInv'
<1>1. TotalsTypeOK /\ LedgerInv /\ ScanInv /\ retried \subseteq Rounds /\ MaxRounds \in Nat
  BY TotalsAssumption DEF TotalsIInv, TotalsTypeOK
<1> DEFINE n == Len(ledger)
<1>2. n \in Nat /\ n <= MaxRounds /\ DOMAIN ledger = 1 .. n /\ ledger \in [1 .. n -> LedgerRow]
  BY <1>1, LedgerFacts DEF TotalsTypeOK
<1>3. \A r \in DOMAIN ledger : ledger[r] \in LedgerRow /\ r \in Rounds
  BY <1>1, <1>2, LedgerFacts
<1>4. \A s \in Status : s # "absent" /\ (s \in Kinds \/ s = "open")
  BY TotalsAssumption DEF Status
<1>5. "open" \in Status /\ "open" \notin Kinds
  BY TotalsAssumption DEF Status
<1> HIDE DEF n
<1>6. CASE BeginRound
  <2>1. /\ n < MaxRounds /\ Synced /\ UNCHANGED <<retried, scanning, trouble>>
        /\ \E at \in Rounds : /\ ledger # <<>> => at \in {ledger[n].at, ledger[n].at + 1}
                             /\ ledger' = Append(ledger, [at |-> at, status |-> "open", listed |-> "absent"])
    BY <1>6 DEF BeginRound, Last, n
  <2>2. PICK at \in Rounds : /\ ledger # <<>> => at \in {ledger[n].at, ledger[n].at + 1}
                             /\ ledger' = Append(ledger, [at |-> at, status |-> "open", listed |-> "absent"])
    BY <2>1
  <2> DEFINE row == [at |-> at, status |-> "open", listed |-> "absent"]
  <2>3. row \in LedgerRow
    BY <1>5 DEF LedgerRow, Rounds
  <2> HIDE DEF row
  <2>4. /\ ledger' \in Seq(LedgerRow) /\ Len(ledger') = n + 1 /\ ledger'[n + 1] = row
        /\ \A r \in 1 .. n : ledger'[r] = ledger[r]
    <3>1. ledger' = Append(ledger, row) /\ ledger \in Seq(LedgerRow)
      BY <1>1, <2>2 DEF row, TotalsTypeOK
    <3>2. QED
      BY <2>3, <3>1, AppendProperties DEF n
  <2>5. ledger' \in [1 .. (n + 1) -> LedgerRow] /\ DOMAIN ledger' = 1 .. (n + 1)
    BY <2>4, LenProperties
  <2>6. \A r \in 1 .. n : ledger[r].at <= at /\ ledger[r].at \in Nat /\ at \in Nat
    <3>1. TAKE r \in 1 .. n
    <3>2. ledger # <<>> /\ n \in 1 .. n /\ r <= n
      BY <1>2
    <3>3. ledger[r].at <= ledger[n].at /\ ledger[r].at \in Nat /\ ledger[n].at \in Nat /\ at \in Nat
      BY <1>1, <1>2, <1>3, <3>2 DEF LedgerInv, LedgerRow, Rounds
    <3>4. QED
      BY <2>2, <3>2, <3>3
  <2>7. \A r \in 1 .. n : ledger[r].listed # "absent"
    BY <1>2, <1>3, <1>4, <2>1 DEF Synced, LedgerRow
  <2>8. LedgerInv'
    <3>1. \A r, q \in DOMAIN ledger' : r <= q => ledger'[r].at <= ledger'[q].at
      <4>1. SUFFICES ASSUME NEW r \in 1 .. (n + 1), NEW q \in 1 .. (n + 1), r <= q PROVE ledger'[r].at <= ledger'[q].at
        BY <2>5
      <4>2. CASE q = n + 1
        <5>1. ledger'[q].at = at /\ at \in Nat
          BY <2>4, <4>2 DEF row, Rounds
        <5>2. CASE r = n + 1
          BY <4>2, <5>1, <5>2
        <5>3. CASE r # n + 1
          <6>1. r \in 1 .. n
            BY <1>2, <5>3
          <6>2. QED
            BY <2>4, <2>6, <5>1, <6>1
        <5>4. QED
          BY <5>2, <5>3
      <4>3. CASE q # n + 1
        <5>1. r \in 1 .. n /\ q \in 1 .. n
          BY <1>2, <4>1, <4>3
        <5>2. QED
          BY <1>1, <1>2, <2>4, <4>1, <5>1 DEF LedgerInv
      <4>4. QED
        BY <4>2, <4>3
    <3>2. ASSUME NEW r \in 1 .. (n + 1)
          PROVE  /\ ledger'[r].listed = "absent" => r = n + 1
                 /\ ledger'[r].listed \in Kinds => r \in retried' \/ ledger'[r].status = ledger'[r].listed
      <4>1. CASE r = n + 1
        BY <2>4, <4>1, TotalsAssumption DEF row
      <4>2. CASE r # n + 1
        <5>1. r \in 1 .. n
          BY <1>2, <4>2
        <5>2. QED
          BY <1>1, <1>2, <2>1, <2>4, <2>7, <5>1 DEF LedgerInv
      <4>3. QED
        BY <4>1, <4>2
    <3>3. QED
      BY <2>4, <2>5, <3>1, <3>2 DEF LedgerInv
  <2>9. Listed' = Listed
    <3>1. \A r \in 1 .. (n + 1) : ledger'[r].listed # "absent" <=> r \in 1 .. n
      <4>1. n + 1 \notin 1 .. n /\ \A r \in 1 .. (n + 1) : r = n + 1 \/ r \in 1 .. n
        BY <1>2
      <4>2. QED
        BY <2>4, <2>7, <4>1 DEF row
    <3>2. Listed' = 1 .. n
      BY <1>2, <2>5, <3>1 DEF Listed
    <3>3. Listed = 1 .. n
      BY <1>2, <2>7 DEF Listed
    <3>4. QED
      BY <3>2, <3>3
  <2>10. n + 1 \in Nat /\ n + 1 <= MaxRounds /\ n + 1 >= Len(ledger)
    BY <1>1, <1>2, <2>1 DEF n
  <2>11. QED
    BY <1>1, <1>2, <2>1, <2>4, <2>5, <2>8, <2>9, <2>10, LedgerMoves
<1>7. CASE EndRound
  <2>1. Synced /\ UNCHANGED <<retried, scanning, trouble>>
    BY <1>7 DEF EndRound
  <2>2. PICK r \in DOMAIN ledger, kind \in Kinds : ledger[r].status = "open" /\ ledger' = [ledger EXCEPT ![r].status = kind]
    BY <1>7 DEF EndRound
  <2>3. /\ ledger' \in [1 .. n -> LedgerRow] /\ DOMAIN ledger' = DOMAIN ledger
        /\ ledger'[r] = [ledger[r] EXCEPT !.status = kind]
        /\ \A q \in DOMAIN ledger : q # r => ledger'[q] = ledger[q]
    BY <1>2, <1>3, <2>2 DEF LedgerRow, Status
  <2>4. /\ \A q \in DOMAIN ledger : ledger'[q].at = ledger[q].at /\ ledger'[q].listed = ledger[q].listed
        /\ ledger[r].listed = "open"
        /\ \A q \in DOMAIN ledger : q # r => ledger'[q].status = ledger[q].status
    BY <1>3, <2>1, <2>2, <2>3 DEF Synced, LedgerRow
  <2>5. Len(ledger') = n
    BY <1>2, <2>3, LedgerOf
  <2>6. LedgerInv'
    <3>1. \A q \in DOMAIN ledger' : ledger'[q].listed = "absent" => q = Len(ledger')
      BY <1>1, <2>3, <2>4, <2>5 DEF LedgerInv, n
    <3>2. \A q \in DOMAIN ledger' : ledger'[q].listed \in Kinds => q \in retried' \/ ledger'[q].status = ledger'[q].listed
      BY <1>1, <1>5, <2>1, <2>3, <2>4 DEF LedgerInv
    <3>3. \A p, q \in DOMAIN ledger' : p <= q => ledger'[p].at <= ledger'[q].at
      BY <1>1, <2>3, <2>4 DEF LedgerInv
    <3>4. QED
      BY <3>1, <3>2, <3>3 DEF LedgerInv
  <2>7. Listed' = Listed
    BY <2>3, <2>4 DEF Listed
  <2>8. n >= Len(ledger)
    BY <1>2 DEF n
  <2>9. QED
    BY <1>1, <1>2, <2>1, <2>2, <2>3, <2>4, <2>6, <2>7, <2>8, LedgerMoves
<1>8. CASE ReopenRound
  <2>1. Synced /\ UNCHANGED <<scanning, trouble>>
    BY <1>8 DEF ReopenRound
  <2>2. PICK r \in DOMAIN ledger : retried' = retried \cup {r} /\ ledger' = [ledger EXCEPT ![r].status = "open"]
    BY <1>8 DEF ReopenRound
  <2>3. /\ ledger' \in [1 .. n -> LedgerRow] /\ DOMAIN ledger' = DOMAIN ledger
        /\ ledger'[r] = [ledger[r] EXCEPT !.status = "open"]
        /\ \A q \in DOMAIN ledger : q # r => ledger'[q] = ledger[q]
    BY <1>2, <1>3, <1>5, <2>2 DEF LedgerRow
  <2>4. /\ \A q \in DOMAIN ledger : ledger'[q].at = ledger[q].at /\ ledger'[q].listed = ledger[q].listed
        /\ \A q \in DOMAIN ledger : q # r => ledger'[q].status = ledger[q].status
    BY <1>3, <2>2, <2>3 DEF LedgerRow
  <2>5. Len(ledger') = n
    BY <1>2, <2>3, LedgerOf
  <2>6. LedgerInv'
    <3>1. \A q \in DOMAIN ledger' : ledger'[q].listed = "absent" => q = Len(ledger')
      BY <1>1, <2>3, <2>4, <2>5 DEF LedgerInv, n
    <3>2. \A q \in DOMAIN ledger' : ledger'[q].listed \in Kinds => q \in retried' \/ ledger'[q].status = ledger'[q].listed
      BY <1>1, <2>2, <2>3, <2>4 DEF LedgerInv
    <3>3. \A p, q \in DOMAIN ledger' : p <= q => ledger'[p].at <= ledger'[q].at
      BY <1>1, <2>3, <2>4 DEF LedgerInv
    <3>4. QED
      BY <3>1, <3>2, <3>3 DEF LedgerInv
  <2>7. Listed' = Listed
    BY <2>3, <2>4 DEF Listed
  <2>8. n >= Len(ledger) /\ retried' \subseteq Rounds /\ retried \subseteq retried'
    BY <1>1, <1>2, <1>3, <2>2 DEF n
  <2>9. QED
    BY <1>2, <2>1, <2>2, <2>3, <2>4, <2>6, <2>7, <2>8, LedgerMoves
<1>9. CASE ListRound
  <2>1. /\ UNCHANGED <<retried, scanning, trouble>>
        /\ ledger' = [r \in DOMAIN ledger |-> [ledger[r] EXCEPT !.listed = ledger[r].status]]
        /\ StillPages /\ scan.at = "pages" /\ scan.page > 0 => \A r \in DOMAIN ledger : ledger[r].listed # "absent"
    BY <1>9 DEF ListRound
  <2>2. \A r \in DOMAIN ledger :
          /\ ledger'[r].at = ledger[r].at /\ ledger'[r].status = ledger[r].status
          /\ ledger'[r].listed = ledger[r].status /\ ledger[r].status \in Status /\ ledger'[r] \in LedgerRow
    BY <1>3, <2>1 DEF LedgerRow
  <2>3. ledger' \in [1 .. n -> LedgerRow] /\ DOMAIN ledger' = DOMAIN ledger
    BY <1>2, <2>1, <2>2
  <2>4. \A r \in DOMAIN ledger : ledger'[r].listed # "absent"
    BY <1>4, <2>2
  <2>5. LedgerInv'
    <3>1. \A p, q \in DOMAIN ledger' : p <= q => ledger'[p].at <= ledger'[q].at
      BY <1>1, <2>2, <2>3 DEF LedgerInv
    <3>2. QED
      BY <2>2, <2>3, <2>4, <3>1 DEF LedgerInv
  <2>6. \A r \in DOMAIN ledger : r \in retried' \/ ledger'[r].listed = ledger[r].listed \/ ledger[r].listed \in {"open", "absent"}
    <3>1. \A r \in DOMAIN ledger : ledger[r].listed \in Kinds \/ ledger[r].listed \in {"open", "absent"}
      BY <1>3, <1>4 DEF LedgerRow
    <3>2. QED
      BY <1>1, <2>1, <2>2, <3>1 DEF LedgerInv
  <2>7. scan.at = "pages" /\ scan.page > 0 => Listed' = Listed
    BY <2>1, <2>3, <2>4 DEF Listed
  <2>8. n >= Len(ledger)
    BY <1>2 DEF n
  <2>9. QED
    BY <1>1, <1>2, <2>1, <2>2, <2>3, <2>4, <2>5, <2>6, <2>7, <2>8, LedgerMoves
<1>10. QED
  BY <1>6, <1>7, <1>8, <1>9

-----------------------------------------------------------------------------
(* Totals: the steps of a scan.                                            *)

\* A step that leaves the ledger alone leaves alone what is said of it.
LEMMA LedgerStays ==
  ASSUME UNCHANGED <<ledger, retried>>
  PROVE  /\ LedgerInv => LedgerInv'
         /\ \A agg, open : AggregateOK(agg, open) => AggregateOK(agg, open)'
         /\ \A due, open : DueOK(due, open) => DueOK(due, open)'
         /\ \A agg : Known(agg)' = Known(agg)
<1>1. LedgerInv => LedgerInv'
  BY DEF LedgerInv
<1>2. \A agg, open : AggregateOK(agg, open) => AggregateOK(agg, open)'
  BY DEF AggregateOK, CursorOK, CountsOK, Known, Listed
<1>3. \A due, open : DueOK(due, open) => DueOK(due, open)'
  BY DEF DueOK, Listed
<1>4. \A agg : Known(agg)' = Known(agg)
  BY DEF Known
<1> QED
  BY <1>1, <1>2, <1>3, <1>4

\* A scan that starts has nothing behind it but what it read: the stored aggregate.
LEMMA StartStep ==
  ASSUME TotalsIInv, StartScan
  PROVE  TotalsIInv'
<1>1. TotalsTypeOK /\ LedgerInv /\ StoredInv /\ TotalsAreTheLedger /\ {totals, local} \subseteq Aggregate
  BY DEF TotalsIInv, TotalsTypeOK
<1>2. UNCHANGED <<ledger, retried, totals, totalsFile, local>> /\ trouble' \in 0 .. MaxTrouble
  BY <1>1, TotalsAssumption DEF StartScan, Trouble, TotalsTypeOK, aggregates
<1>3. PICK agg \in {totals, local}, due \in [Rounds -> Kinds \cup {"no"}] :
        /\ scan' = [at |-> "open", agg |-> agg, todo |-> agg.open, still |-> {}, handled |-> agg.open, due |-> due]
        /\ due = [r \in Rounds |-> IF r \in DOMAIN ledger \ retried /\ ledger[r].listed \in Kinds
                                  THEN ledger[r].listed ELSE "no"]
  <2> DEFINE due == [r \in Rounds |-> IF r \in DOMAIN ledger \ retried /\ ledger[r].listed \in Kinds
                                     THEN ledger[r].listed ELSE "no"]
  <2>1. due \in [Rounds -> Kinds \cup {"no"}]
    OBVIOUS
  <2>2. PICK agg \in {totals, local} :
          scan' = [at |-> "open", agg |-> agg, todo |-> agg.open, still |-> {}, handled |-> agg.open, due |-> due]
    BY DEF StartScan
  <2>3. QED
    BY <2>1, <2>2
<1>4. agg \in Aggregate /\ AggregateOK(agg, agg.open) /\ agg.open \subseteq Rounds /\ agg.open \subseteq Known(agg)
  BY <1>1, AggregateFields DEF StoredInv, AggregateOK, CountsOK
<1>6. DueOK(due, {})
  <2>1. ASSUME NEW r \in Rounds
        PROVE  \/ due[r] = "no" \/ r \in retried
               \/ r \in Listed /\ due[r] \in Kinds /\ due[r] = ledger[r].listed /\ due[r] = ledger[r].status
    <3>1. CASE r \in DOMAIN ledger \ retried /\ ledger[r].listed \in Kinds
      <4>1. ledger[r].listed # "absent" /\ ledger[r].status = ledger[r].listed
        BY <1>1, <3>1, TotalsAssumption DEF LedgerInv
      <4>2. QED
        BY <1>3, <3>1, <4>1 DEF Listed
    <3>2. CASE ~(r \in DOMAIN ledger \ retried /\ ledger[r].listed \in Kinds)
      BY <1>3, <3>2
    <3>3. QED
      BY <3>1, <3>2
  <2>2. QED
    BY <2>1 DEF DueOK
<1>7. scan' \in [at : {"open"}, agg : Aggregate, todo : SUBSET Rounds, still : SUBSET Rounds,
                handled : SUBSET Rounds, due : [Rounds -> Kinds \cup {"no"}]]
  BY <1>3, <1>4
<1>8. TotalsTypeOK'
  BY <1>1, <1>2, <1>7 DEF TotalsTypeOK, Scan
<1>9. LedgerInv' /\ StoredInv'
  BY <1>1, <1>2, LedgerStays DEF StoredInv
<1>10. AggregateOK(agg, agg.open \cup {})' /\ DueOK(due, {})' /\ agg.open \subseteq Known(agg)'
  <2>1. agg.open \cup {} = agg.open
    OBVIOUS
  <2>2. QED
    BY <1>2, <1>4, <1>6, <2>1, LedgerStays
<1>11. ScanInv'
  BY <1>3, <1>10 DEF ScanInv
<1>12. TotalsAreTheLedger'
  BY <1>3 DEF TotalsAreTheLedger, CountedOnce, AnswerIsTheLedger
<1>13. QED
  BY <1>8, <1>9, <1>11, <1>12 DEF TotalsIInv

\* foldOpenRounds: a round that was kept as open is kept, or counted as what it ended as.
LEMMA ReadStep ==
  ASSUME TotalsIInv, NEW r \in Rounds, ReadOpenRound(r)
  PROVE  TotalsIInv'
<1>1. TotalsTypeOK /\ LedgerInv /\ StoredInv /\ TotalsAreTheLedger /\ scan.at = "open" /\ r \in scan.todo
  BY DEF TotalsIInv, ReadOpenRound
<1>2. /\ scan.agg \in Aggregate /\ scan.todo \subseteq Rounds /\ scan.still \subseteq Rounds
      /\ scan.handled \subseteq Rounds /\ scan.due \in [Rounds -> Kinds \cup {"no"}]
      /\ scan = [at |-> "open", agg |-> scan.agg, todo |-> scan.todo, still |-> scan.still,
                 handled |-> scan.handled, due |-> scan.due]
  BY <1>1, ScanFields
<1>3. /\ CursorOK(scan.agg) /\ CountsOK(scan.agg, scan.todo \cup scan.still)
      /\ scan.todo \cap scan.still = {} /\ scan.handled \subseteq Known(scan.agg) /\ DueOK(scan.due, scan.still)
  BY <1>1 DEF TotalsIInv, ScanInv, AggregateOK
<1>4. UNCHANGED <<ledger, retried, totals, totalsFile, local>> /\ trouble' \in 0 .. MaxTrouble
  BY <1>1, TotalsAssumption DEF ReadOpenRound, Trouble, TotalsTypeOK, aggregates
<1>5. r \in Known(scan.agg) /\ r \in DOMAIN ledger /\ scan.agg.as[r] = "no" /\ ledger[r].status \in Status
  BY <1>1, <1>3, LedgerFacts, KnownFacts, <1>2 DEF CountsOK
<1>6. PICK readable \in BOOLEAN : scan' =
        [scan EXCEPT
           !.todo  = scan.todo \ {r},
           !.still = IF ~readable \/ ledger[r].status = "open" THEN scan.still \cup {r} ELSE scan.still,
           !.agg.as[r] = IF ~readable \/ ledger[r].status = "open" THEN scan.agg.as[r]
                         ELSE Fold(scan.agg.as[r], ledger[r].status),
           !.due[r] = IF readable THEN scan.due[r] ELSE "no"]
  BY DEF ReadOpenRound
<1>7. /\ scan'.at = "open" /\ scan'.todo = scan.todo \ {r} /\ scan'.handled = scan.handled
      /\ scan'.still = IF ~readable \/ ledger[r].status = "open" THEN scan.still \cup {r} ELSE scan.still
      /\ scan'.agg = [scan.agg EXCEPT !.as = [scan.agg.as EXCEPT ![r] =
                       IF ~readable \/ ledger[r].status = "open" THEN scan.agg.as[r] ELSE Fold(scan.agg.as[r], ledger[r].status)]]
      /\ scan'.due = [scan.due EXCEPT ![r] = IF readable THEN scan.due[r] ELSE "no"]
      /\ scan' = [at |-> "open", agg |-> scan'.agg, todo |-> scan'.todo, still |-> scan'.still,
                  handled |-> scan'.handled, due |-> scan'.due]
  <2> DEFINE keeps == ~readable \/ ledger[r].status = "open"
             still == IF keeps THEN scan.still \cup {r} ELSE scan.still
             counts == IF keeps THEN scan.agg.as[r] ELSE Fold(scan.agg.as[r], ledger[r].status)
             owed == IF readable THEN scan.due[r] ELSE "no"
  <2>1. scan' = [scan EXCEPT !.todo = scan.todo \ {r}, !.still = still, !.agg.as[r] = counts, !.due[r] = owed]
    BY <1>6
  <2> HIDE DEF still, counts, owed
  <2> DEFINE agg == [scan.agg EXCEPT !.as = [scan.agg.as EXCEPT ![r] = counts]]
             due == [scan.due EXCEPT ![r] = owed]
  <2>2. scan' = [scan EXCEPT !.todo = scan.todo \ {r}, !.still = still, !.agg = agg, !.due = due]
    BY <2>1
  <2> HIDE DEF agg, due
  <2>3. scan' = [at |-> "open", agg |-> agg, todo |-> scan.todo \ {r}, still |-> still, handled |-> scan.handled, due |-> due]
    <3>1. PICK a, t, s, h, d : scan = [at |-> "open", agg |-> a, todo |-> t, still |-> s, handled |-> h, due |-> d]
      BY <1>2
    <3>2. scan' = [at |-> "open", agg |-> agg, todo |-> scan.todo \ {r}, still |-> still, handled |-> h, due |-> due]
      BY <2>2, <3>1
    <3>3. QED
      BY <3>1, <3>2
  <2>4. QED
    BY <2>3 DEF still, counts, owed, agg, due
<1>8. /\ scan'.agg.cursor = scan.agg.cursor /\ scan'.agg.ids = scan.agg.ids /\ scan'.agg.open = scan.agg.open
      /\ scan'.agg.as = [scan.agg.as EXCEPT ![r] =
           IF ~readable \/ ledger[r].status = "open" THEN scan.agg.as[r] ELSE Fold(scan.agg.as[r], ledger[r].status)]
      /\ scan'.agg = [cursor |-> scan'.agg.cursor, ids |-> scan'.agg.ids, open |-> scan'.agg.open, as |-> scan'.agg.as]
  BY <1>2, <1>7 DEF Aggregate
<1>9. ledger[r].status = "open" \/ (ledger[r].status \in Kinds /\ Fold(scan.agg.as[r], ledger[r].status) = ledger[r].status)
  BY <1>5 DEF Status, Fold
<1>10. /\ \A q \in Rounds : q # r => scan'.agg.as[q] = scan.agg.as[q] /\ scan'.due[q] = scan.due[q]
       /\ scan'.agg.as[r] = IF ~readable \/ ledger[r].status = "open" THEN "no" ELSE ledger[r].status
       /\ scan'.due[r] = IF readable THEN scan.due[r] ELSE "no"
       /\ DOMAIN scan'.agg.as = Rounds /\ scan'.due \in [Rounds -> Kinds \cup {"no"}]
  BY <1>2, <1>5, <1>7, <1>8, <1>9, AggregateFields
<1>11. scan'.agg \in Aggregate
  <2>1. scan'.agg.as \in [Rounds -> Kinds \cup {"no", "twice"}]
    <3>1. scan.agg.as \in [Rounds -> Kinds \cup {"no", "twice"}]
      BY <1>2 DEF Aggregate
    <3>2. \A q \in Rounds : scan'.agg.as[q] \in Kinds \cup {"no", "twice"}
      BY <1>9, <1>10, <3>1
    <3>3. scan'.agg.as = [q \in Rounds |-> scan'.agg.as[q]]
      BY <1>8, <3>1
    <3>4. QED
      BY <3>2, <3>3
  <2>2. QED
    BY <1>2, <1>8, <2>1, AggregateFields DEF Aggregate
<1>12. Known(scan'.agg) = Known(scan.agg)
  BY <1>8 DEF Known
<1>13. AggregateOK(scan'.agg, scan'.todo \cup scan'.still)
  <2>1. CursorOK(scan'.agg)
    BY <1>3, <1>8, <1>12 DEF CursorOK
  <2>2. scan'.todo \cup scan'.still =
          IF ~readable \/ ledger[r].status = "open" THEN scan.todo \cup scan.still ELSE (scan.todo \cup scan.still) \ {r}
    BY <1>1, <1>3, <1>7
  <2>3. scan'.todo \cup scan'.still \subseteq Known(scan'.agg)
    BY <1>3, <1>12, <2>2 DEF CountsOK
  <2>4. ASSUME NEW q \in Rounds
        PROVE  IF q \in Known(scan'.agg) \ (scan'.todo \cup scan'.still)
               THEN scan'.agg.as[q] \in Kinds /\ (q \in retried \/ scan'.agg.as[q] = ledger[q].status)
               ELSE scan'.agg.as[q] = "no"
    <3>1. CASE q # r
      <4>1. scan'.agg.as[q] = scan.agg.as[q]
        BY <1>10, <3>1
      <4>2. q \in scan'.todo \cup scan'.still <=> q \in scan.todo \cup scan.still
        BY <2>2, <3>1
      <4>3. QED
        BY <1>3, <1>12, <4>1, <4>2 DEF CountsOK
    <3>2. CASE q = r
      <4>1. CASE ~readable \/ ledger[r].status = "open"
        BY <1>1, <1>10, <2>2, <3>2, <4>1
      <4>2. CASE ~(~readable \/ ledger[r].status = "open")
        BY <1>5, <1>9, <1>10, <1>12, <2>2, <3>2, <4>2
      <4>3. QED
        BY <4>1, <4>2
    <3>3. QED
      BY <3>1, <3>2
  <2>5. QED
    BY <2>1, <2>3, <2>4 DEF AggregateOK, CountsOK
<1>14. DueOK(scan'.due, scan'.still)
  <2>1. ASSUME NEW q \in Rounds
        PROVE  \/ scan'.due[q] = "no" \/ q \in retried
               \/ /\ q \in Listed \ scan'.still /\ scan'.due[q] \in Kinds
                  /\ scan'.due[q] = ledger[q].listed /\ scan'.due[q] = ledger[q].status
    <3>1. \/ scan.due[q] = "no" \/ q \in retried
          \/ /\ q \in Listed \ scan.still /\ scan.due[q] \in Kinds
             /\ scan.due[q] = ledger[q].listed /\ scan.due[q] = ledger[q].status
      BY <1>3 DEF DueOK
    <3>2. CASE q # r
      BY <1>7, <1>10, <3>1, <3>2
    <3>3. CASE q = r
      <4>1. "open" \notin Kinds
        BY TotalsAssumption
      <4>2. QED
        BY <1>7, <1>10, <3>1, <3>3, <4>1
    <3>4. QED
      BY <3>2, <3>3
  <2>2. QED
    BY <2>1 DEF DueOK
<1>15. scan'.todo \cap scan'.still = {} /\ scan'.handled \subseteq Known(scan'.agg)
  BY <1>3, <1>7, <1>12
<1>16. scan' \in Scan
  <2>1. scan'.todo \subseteq Rounds /\ scan'.still \subseteq Rounds /\ scan'.handled \subseteq Rounds
    BY <1>2, <1>7
  <2>2. scan' \in [at : {"open"}, agg : Aggregate, todo : SUBSET Rounds, still : SUBSET Rounds,
                  handled : SUBSET Rounds, due : [Rounds -> Kinds \cup {"no"}]]
    BY <1>7, <1>10, <1>11, <2>1
  <2>3. QED
    BY <2>2 DEF Scan
<1>17. TotalsTypeOK'
  BY <1>1, <1>4, <1>16 DEF TotalsTypeOK
<1>18. LedgerInv' /\ StoredInv'
  BY <1>1, <1>4, LedgerStays DEF StoredInv
<1>19. PICK a, t, s, h, d : /\ a = scan'.agg /\ t = scan'.todo /\ s = scan'.still /\ h = scan'.handled /\ d = scan'.due
  OBVIOUS
<1>20. AggregateOK(a, t \cup s)' /\ DueOK(d, s)' /\ h \subseteq Known(a)' /\ t \cap s = {}
  BY <1>4, <1>13, <1>14, <1>15, <1>19, LedgerStays
<1>21. ScanInv'
  BY <1>7, <1>19, <1>20 DEF ScanInv
<1>22. TotalsAreTheLedger'
  BY <1>7 DEF TotalsAreTheLedger, CountedOnce, AnswerIsTheLedger
<1>23. QED
  BY <1>17, <1>18, <1>21, <1>22 DEF TotalsIInv

\* What was read is kept.
LEMMA OpenReadStep ==
  ASSUME TotalsIInv, OpenRoundsRead
  PROVE  TotalsIInv'
<1>1. TotalsTypeOK /\ LedgerInv /\ StoredInv /\ TotalsAreTheLedger /\ scan.at = "open" /\ scan.todo = {}
  BY DEF TotalsIInv, OpenRoundsRead
<1>2. /\ scan.agg \in Aggregate /\ scan.still \subseteq Rounds
      /\ scan.handled \subseteq Rounds /\ scan.due \in [Rounds -> Kinds \cup {"no"}]
  BY <1>1, ScanFields
<1>3. /\ CursorOK(scan.agg) /\ CountsOK(scan.agg, scan.still)
      /\ scan.handled \subseteq Known(scan.agg) /\ DueOK(scan.due, scan.still)
  <2>1. scan.todo \cup scan.still = scan.still
    BY <1>1
  <2>2. QED
    BY <1>1, <2>1 DEF TotalsIInv, ScanInv, AggregateOK
<1>4. UNCHANGED <<ledger, retried, totals, totalsFile, local, trouble>>
  BY DEF OpenRoundsRead, aggregates
<1>5. PICK agg, handled, due :
        /\ agg = [scan.agg EXCEPT !.open = scan.still] /\ handled = scan.handled /\ due = scan.due
        /\ scan' = [at |-> "pages", agg |-> agg, handled |-> handled, offset |-> 0, page |-> 0, fresh |-> {}, due |-> due]
  BY DEF OpenRoundsRead
<1>6. /\ agg \in Aggregate /\ agg.open = scan.still
      /\ agg.cursor = scan.agg.cursor /\ agg.ids = scan.agg.ids /\ agg.as = scan.agg.as
  BY <1>2, <1>5 DEF Aggregate
<1>7. Known(agg) = Known(scan.agg)
  BY <1>6 DEF Known
<1>8. AggregateOK(agg, agg.open) /\ DueOK(due, agg.open) /\ handled \subseteq Known(agg)
  BY <1>3, <1>5, <1>6, <1>7 DEF AggregateOK, CursorOK, CountsOK
<1>9. AggregateOK(agg, agg.open)' /\ DueOK(due, agg.open)' /\ handled \subseteq Known(agg)'
  BY <1>4, <1>8, LedgerStays
<1>10. scan' \in Scan
  <2>1. scan' \in [at : {"pages"}, agg : Aggregate, handled : SUBSET Rounds, offset : Nat, page : Nat,
                  fresh : SUBSET FreshRow, due : [Rounds -> Kinds \cup {"no"}]]
    BY <1>2, <1>5, <1>6
  <2>2. QED
    BY <2>1 DEF Scan
<1>11. TotalsTypeOK'
  BY <1>1, <1>4, <1>10 DEF TotalsTypeOK
<1>12. LedgerInv' /\ StoredInv'
  BY <1>1, <1>4, LedgerStays DEF StoredInv
<1>13. FreshOK'
  <2>1. \A r \in Listed : Place(r) \in Nat /\ Place(r) > 0
    <3>1. PICK n \in Nat : Listed = 1 .. n /\ \A r \in Listed : Place(r) = n - r + 1
      BY <1>1, Places
    <3>2. QED
      BY <3>1
  <2>2. Listed' = Listed /\ \A r : Place(r)' = Place(r)
    BY <1>4 DEF Listed, Place
  <2>3. scan'.fresh = {} /\ scan'.offset = 0
    BY <1>5
  <2>4. \A r \in Listed' : ~(Place(r)' <= scan'.offset)
    BY <2>1, <2>2, <2>3
  <2>5. QED
    BY <2>3, <2>4 DEF FreshOK
<1>14. ScanInv'
  <2>1. 0 < MaxPages /\ 0 = 0 * Page
    BY TotalsAssumption
  <2>2. QED
    BY <1>5, <1>9, <1>13, <2>1 DEF ScanInv
<1>15. TotalsAreTheLedger'
  BY <1>5 DEF TotalsAreTheLedger, CountedOnce, AnswerIsTheLedger
<1>16. QED
  BY <1>11, <1>12, <1>14, <1>15 DEF TotalsIInv

\* A page of the listing: the rows it adds are of rounds that were not known, each once; when it
\* is the last page, each round of the listing was known or has its row.
LEMMA PageRead ==
  ASSUME MaxRounds <= Page * MaxPages, TotalsIInv, scan.at = "pages"
  PROVE  /\ FreshRows \subseteq FreshRow
         /\ \A row \in FreshRows :
              /\ row.round \in Listed \ Known(scan.agg) /\ Place(row.round) <= scan.offset + Page
              /\ row.status = "open" => scan.due[row.round] = "no" \/ row.round \in retried
              /\ row.status # "open" => row.round \in retried \/ row.status = ledger[row.round].status
         /\ \A row, other \in FreshRows : row.round = other.round => row = other
         /\ PastCursor = {} => \A r \in Listed : Place(r) <= scan.offset + Page =>
              r \in Known(scan.agg) \/ \E row \in FreshRows : row.round = r
         /\ \/ PastCursor # {} \/ scan.page + 1 = MaxPages
            \/ scan.offset + Cardinality(Items(scan.offset)) >= Cardinality(Listed)
            => \A r \in Listed : r \in Known(scan.agg) \/ \E row \in FreshRows : row.round = r
<1>0. PICK items, past, before, news, fresh :
        /\ items = Items(scan.offset) /\ past = PastCursor /\ news = NewRounds /\ fresh = FreshRows
        /\ \A r : r \in past <=> r \in items /\ Reached(scan.agg, r)
        /\ \A r : r \in before <=> r \in items /\ \A q \in past : q < r
        /\ \A r : r \in news <=> r \in before /\ ~FoldedAlready(scan.agg, r) /\ r \notin scan.handled
        /\ \A row : row \in fresh <=>
             row \in scan.fresh \/ \E r \in news : row = [page |-> scan.page, round |-> r, status |-> ledger[r].listed]
  <2> DEFINE before == {r \in Items(scan.offset) : \A q \in PastCursor : q < r}
  <2>1. /\ \A r : r \in PastCursor <=> r \in Items(scan.offset) /\ Reached(scan.agg, r)
        /\ \A r : r \in NewRounds <=> r \in before /\ ~FoldedAlready(scan.agg, r) /\ r \notin scan.handled
        /\ \A row : row \in FreshRows <=>
             row \in scan.fresh \/ \E r \in NewRounds : row = [page |-> scan.page, round |-> r, status |-> ledger[r].listed]
    BY DEF PastCursor, NewRounds, FreshRows
  <2>2. \A r : r \in before <=> r \in Items(scan.offset) /\ \A q \in PastCursor : q < r
    OBVIOUS
  <2> HIDE DEF before
  <2>3. QED
    BY <2>1, <2>2
<1>1. /\ TotalsTypeOK /\ LedgerInv /\ CursorOK(scan.agg) /\ scan.handled \subseteq Known(scan.agg)
      /\ DueOK(scan.due, scan.agg.open) /\ FreshOK /\ scan.page < MaxPages /\ scan.offset = scan.page * Page
  BY DEF TotalsIInv, ScanInv, AggregateOK
<1>2. /\ scan.agg \in Aggregate /\ scan.offset \in Nat /\ scan.page \in Nat /\ scan.fresh \subseteq FreshRow
      /\ scan.due \in [Rounds -> Kinds \cup {"no"}] /\ Page \in Nat \ {0} /\ MaxPages \in Nat /\ MaxRounds \in Nat
  BY <1>1, ScanFields, TotalsAssumption
<1>3. PICK n \in Nat :
        /\ n <= MaxRounds /\ Cardinality(Listed) = n /\ Listed = 1 .. n
        /\ \A r \in Listed : Place(r) = n - r + 1
        /\ Cardinality(items) \in Nat /\ Cardinality(items) <= Page
  BY <1>0, <1>1, <1>2, Places
<1>4. \A r \in Listed : r \in DOMAIN ledger /\ r \in Rounds /\ r \in Nat /\ Place(r) \in Nat /\ Place(r) <= n
  BY <1>1, <1>3, LedgerFacts
<1>5. /\ items \subseteq Listed
      /\ \A r \in items : Place(r) > scan.offset /\ Place(r) <= scan.offset + Page
      /\ \A r \in Listed : Place(r) <= scan.offset + Page => r \in items \/ Place(r) <= scan.offset
  BY <1>0, <1>2, <1>4 DEF Items
<1>6. /\ \A r \in DOMAIN ledger : ledger[r].at \in Nat /\ ledger[r].listed \in Status \cup {"absent"}
      /\ \A s \in Status : s \in Kinds \/ s = "open"
      /\ scan.agg.cursor \in Nat
  BY <1>1, <1>2, LedgerFacts, AggregateFields DEF Status
<1>7. news \subseteq before /\ before \subseteq items /\ \A r \in before : r \notin past
  BY <1>0, <1>4, <1>5
<1>8. \A r \in news : r \notin Known(scan.agg)
  <2>1. TAKE r \in news
  <2>2. ~(ledger[r].at < scan.agg.cursor) /\ ~(ledger[r].at = scan.agg.cursor /\ r \in scan.agg.ids)
    BY <1>0, <1>7 DEF Reached, FoldedAlready
  <2>3. r \in scan.agg.ids => ledger[r].at = scan.agg.cursor
    BY <1>1 DEF CursorOK
  <2>4. QED
    BY <2>2, <2>3 DEF Known
<1>9. \A r \in before : r \in Known(scan.agg) \/ r \in news
  <2>1. TAKE r \in before
  <2>2. r \in DOMAIN ledger
    BY <1>4, <1>5, <1>7
  <2>3. FoldedAlready(scan.agg, r) => r \in Known(scan.agg)
    BY <2>2 DEF FoldedAlready, Known
  <2>4. QED
    BY <1>0, <1>1, <2>3
<1>10. \A r \in past : r \in Known(scan.agg) /\ r \in Listed
  BY <1>0, <1>4, <1>5 DEF Reached, Known
\* the rows
<1>11. \A row \in fresh : row \in scan.fresh \/
         (row.round \in news /\ row = [page |-> scan.page, round |-> row.round, status |-> ledger[row.round].listed])
  BY <1>0
<1>12. \A r \in news : \E row \in fresh : row.round = r
  <2>1. TAKE r \in news
  <2>2. [page |-> scan.page, round |-> r, status |-> ledger[r].listed] \in fresh
    BY <1>0
  <2>3. QED
    BY <2>2
<1>13. \A r \in news : r \in Listed /\ ledger[r].listed \in Status
  BY <1>4, <1>5, <1>6, <1>7 DEF Listed
<1>14. fresh \subseteq FreshRow
  <2>1. SUFFICES ASSUME NEW row \in fresh PROVE row \in FreshRow
    OBVIOUS
  <2>2. CASE row \in scan.fresh
    BY <1>2, <2>2
  <2>3. CASE row.round \in news /\ row = [page |-> scan.page, round |-> row.round, status |-> ledger[row.round].listed]
    <3>1. scan.page \in 0 .. MaxPages - 1
      BY <1>1, <1>2
    <3>2. QED
      BY <1>4, <1>13, <2>3, <3>1 DEF FreshRow
  <2>4. QED
    BY <1>11, <2>2, <2>3
<1>15. \A row \in fresh :
         /\ row.round \in Listed \ Known(scan.agg) /\ Place(row.round) <= scan.offset + Page
         /\ row.status = "open" => scan.due[row.round] = "no" \/ row.round \in retried
         /\ row.status # "open" => row.round \in retried \/ row.status = ledger[row.round].status
  <2>1. TAKE row \in fresh
  <2>2. CASE row \in scan.fresh
    BY <1>1, <1>2, <1>4, <2>2 DEF FreshOK
  <2>3. CASE row.round \in news /\ row = [page |-> scan.page, round |-> row.round, status |-> ledger[row.round].listed]
    <3>1. /\ row.round \in Listed \ Known(scan.agg) /\ Place(row.round) <= scan.offset + Page
          /\ row.status = ledger[row.round].listed /\ row.status \in Status /\ row.round \in DOMAIN ledger
          /\ row.round \in Rounds
      BY <1>4, <1>5, <1>7, <1>8, <1>13, <2>3
    <3>2. row.status = "open" => scan.due[row.round] = "no" \/ row.round \in retried
      BY <1>1, <3>1, TotalsAssumption DEF DueOK
    <3>3. row.status # "open" => row.round \in retried \/ row.status = ledger[row.round].status
      BY <1>1, <1>6, <3>1 DEF LedgerInv
    <3>4. QED
      BY <3>1, <3>2, <3>3
  <2>4. QED
    BY <1>11, <2>2, <2>3
<1>16. \A row, other \in fresh : row.round = other.round => row = other
  <2>1. SUFFICES ASSUME NEW row \in fresh, NEW other \in fresh, row.round = other.round PROVE row = other
    OBVIOUS
  <2>2. \A r \in news : ~(Place(r) <= scan.offset)
    BY <1>2, <1>4, <1>5, <1>7
  <2>3. \A old \in scan.fresh : Place(old.round) <= scan.offset
    BY <1>1 DEF FreshOK
  <2>4. CASE row \in scan.fresh /\ other \in scan.fresh
    BY <1>1, <2>1, <2>4 DEF FreshOK
  <2>5. CASE ~(row \in scan.fresh /\ other \in scan.fresh)
    BY <1>11, <2>1, <2>2, <2>3, <2>5
  <2>6. QED
    BY <2>4, <2>5
\* the rounds
<1>17. \A r \in Listed : Place(r) <= scan.offset \/ r \in before => r \in Known(scan.agg) \/ \E row \in fresh : row.round = r
  <2>1. \A r \in Listed : Place(r) <= scan.offset => r \in Known(scan.agg) \/ \E row \in scan.fresh : row.round = r
    BY <1>1 DEF FreshOK
  <2>2. scan.fresh \subseteq fresh
    BY <1>0
  <2>3. QED
    BY <1>9, <1>12, <2>1, <2>2
<1>18. past = {} => \A r \in Listed : Place(r) <= scan.offset + Page =>
         r \in Known(scan.agg) \/ \E row \in fresh : row.round = r
  BY <1>0, <1>5, <1>17
<1>19. ASSUME past # {} \/ scan.offset + Cardinality(items) >= Cardinality(Listed) \/ scan.page + 1 = MaxPages,
              NEW r \in Listed
       PROVE  r \in Known(scan.agg) \/ \E row \in fresh : row.round = r
  <2>1. CASE past = {}
    <3>1. Place(r) <= scan.offset + Page
      <4>1. CASE scan.offset + Cardinality(items) >= Cardinality(Listed)
        BY <1>2, <1>3, <1>4, <4>1
      <4>2. CASE scan.page + 1 = MaxPages
        <5>1. scan.page = MaxPages - 1 /\ scan.offset + Page = Page * MaxPages
          <6>1. scan.page = MaxPages - 1
            BY <1>2, <4>2
          <6>2. \A p, m \in Int : (m - 1) * p + p = p * m
            OBVIOUS
          <6>3. QED
            BY <1>1, <1>2, <6>1, <6>2
        <5>2. n <= Page * MaxPages /\ Page * MaxPages \in Nat
          BY <1>2, <1>3
        <5>3. QED
          BY <1>4, <5>1, <5>2
      <4>3. QED
        BY <1>19, <2>1, <4>1, <4>2
    <3>2. QED
      BY <1>18, <2>1, <3>1
  <2>2. CASE past # {}
    <3>1. CASE \E q \in past : r <= q
      <4>1. PICK q \in past : r <= q
        BY <3>1
      <4>2. QED
        BY <1>1, <1>4, <1>10, <4>1 DEF CursorOK
    <3>2. CASE ~\E q \in past : r <= q
      <4>1. \A q \in past : q < r /\ q \in items /\ q \in Listed
        BY <1>0, <1>4, <1>10, <3>2
      <4>2. PICK q \in past : q < r /\ q \in items /\ q \in Listed
        BY <2>2, <4>1
      <4>3. Place(r) <= scan.offset + Page
        BY <1>2, <1>3, <1>4, <1>5, <4>2
      <4>4. r \in items \/ Place(r) <= scan.offset
        BY <1>5, <4>3
      <4>5. QED
        BY <1>0, <1>17, <4>1, <4>4
    <3>3. QED
      BY <3>1, <3>2
  <2>3. QED
    BY <2>1, <2>2
<1>20. QED
  BY <1>0, <1>14, <1>15, <1>16, <1>18, <1>19

\* foldNewRounds, a page of the listing, and after the last one the fold.
LEMMA PageReadStep ==
  ASSUME MaxRounds <= Page * MaxPages, TotalsIInv, ReadPage
  PROVE  TotalsIInv'
<1>1. /\ TotalsTypeOK /\ LedgerInv /\ StoredInv /\ TotalsAreTheLedger /\ scan.at = "pages"
      /\ AggregateOK(scan.agg, scan.agg.open) /\ scan.handled \subseteq Known(scan.agg)
      /\ DueOK(scan.due, scan.agg.open) /\ scan.page < MaxPages /\ scan.offset = scan.page * Page /\ FreshOK
  BY DEF TotalsIInv, ReadPage, ScanInv
<1>2. /\ scan = [at |-> "pages", agg |-> scan.agg, handled |-> scan.handled, offset |-> scan.offset,
                 page |-> scan.page, fresh |-> scan.fresh, due |-> scan.due]
      /\ scan.agg \in Aggregate /\ scan.handled \subseteq Rounds /\ scan.offset \in Nat /\ scan.page \in Nat
      /\ scan.due \in [Rounds -> Kinds \cup {"no"}] /\ Page \in Nat \ {0} /\ MaxPages \in Nat \ {0}
  BY <1>1, ScanFields, TotalsAssumption
<1>3. UNCHANGED <<ledger, retried, totalsFile, trouble>>
  BY DEF ReadPage
<1>4. PICK offset, fresh : offset = scan.offset + Cardinality(Items(scan.offset)) /\ fresh = FreshRows
  OBVIOUS
<1>5. IF PastCursor # {} \/ offset >= Cardinality(Listed) \/ scan.page + 1 = MaxPages
      THEN /\ scan' = [at |-> "save", ok |-> TRUE, agg |-> FoldNewRounds(scan.agg, fresh), due |-> scan.due]
           /\ local' = FoldNewRounds(scan.agg, fresh) /\ totals' = FoldNewRounds(scan.agg, fresh)
      ELSE /\ scan' = [scan EXCEPT !.offset = offset, !.page = scan.page + 1, !.fresh = fresh]
           /\ UNCHANGED <<local, totals>>
  BY <1>4 DEF ReadPage
<1>6. /\ fresh \subseteq FreshRow
      /\ \A row \in fresh :
           /\ row.round \in Listed \ Known(scan.agg) /\ Place(row.round) <= scan.offset + Page
           /\ row.status = "open" => scan.due[row.round] = "no" \/ row.round \in retried
           /\ row.status # "open" => row.round \in retried \/ row.status = ledger[row.round].status
      /\ \A row, other \in fresh : row.round = other.round => row = other
  BY <1>1, <1>4, PageRead
<1>7. /\ PastCursor = {} => \A r \in Listed : Place(r) <= scan.offset + Page =>
           r \in Known(scan.agg) \/ \E row \in fresh : row.round = r
      /\ PastCursor # {} \/ offset >= Cardinality(Listed) \/ scan.page + 1 = MaxPages =>
           \A r \in Listed : r \in Known(scan.agg) \/ \E row \in fresh : row.round = r
  BY <1>1, <1>4, PageRead
<1>8. LedgerInv'
  BY <1>1, <1>3, LedgerStays
<1>9. CASE PastCursor # {} \/ offset >= Cardinality(Listed) \/ scan.page + 1 = MaxPages
  <2>1. PICK agg, due : /\ agg = FoldNewRounds(scan.agg, fresh) /\ due = scan.due
                       /\ scan' = [at |-> "save", ok |-> TRUE, agg |-> agg, due |-> due] /\ local' = agg /\ totals' = agg
    BY <1>5, <1>9
  <2>2. /\ agg \in Aggregate /\ AggregateOK(agg, agg.open) /\ Known(agg) = Listed
        /\ agg.open = scan.agg.open \cup {r \in Rounds : \E row \in fresh : row.round = r /\ row.status = "open"}
    <3>1. \A r \in Listed : r \in Known(scan.agg) \/ \E row \in fresh : row.round = r
      BY <1>7, <1>9
    <3>2. \A row \in fresh :
           /\ row.round \in Listed \ Known(scan.agg)
           /\ row.status # "open" => row.round \in retried \/ row.status = ledger[row.round].status
      BY <1>6
    <3>3. fresh \subseteq FreshRow /\ \A row, other \in fresh : row.round = other.round => row = other
      BY <1>6
    <3>4. QED
      BY <1>1, <1>2, <2>1, <3>1, <3>2, <3>3, Folding
  <2>3. \A r \in Rounds : due[r] \in {"no", agg.as[r]} \/ r \in retried
    <3>1. TAKE r \in Rounds
    <3>2. \/ due[r] = "no" \/ r \in retried
          \/ r \in Listed \ scan.agg.open /\ due[r] = ledger[r].status
      BY <1>1, <2>1 DEF DueOK
    <3>3. CASE r \in Listed \ agg.open /\ due[r] = ledger[r].status
      BY <2>2, <3>3 DEF AggregateOK, CountsOK
    <3>4. CASE r \in agg.open \ scan.agg.open
      BY <1>6, <2>1, <2>2, <3>4
    <3>5. QED
      BY <2>2, <3>2, <3>3, <3>4
  <2>4. scan' \in Scan
    <3>1. scan' \in [at : {"save", "answer"}, ok : BOOLEAN, agg : Aggregate, due : [Rounds -> Kinds \cup {"no"}]]
      BY <1>2, <2>1, <2>2
    <3>2. QED
      BY <3>1 DEF Scan
  <2>5. TotalsTypeOK'
    BY <1>1, <1>3, <2>1, <2>2, <2>4 DEF TotalsTypeOK
  <2>6. AggregateOK(agg, agg.open)'
    BY <1>3, <2>2, LedgerStays
  <2>7. StoredInv'
    <3>1. AggregateOK(totalsFile, totalsFile.open)'
      BY <1>1, <1>3, LedgerStays DEF StoredInv
    <3>2. QED
      BY <2>1, <2>6, <3>1 DEF StoredInv
  <2>8. ScanInv'
    BY <1>3, <2>1, <2>3, <2>6 DEF ScanInv
  <2>9. TotalsAreTheLedger'
    BY <2>1 DEF TotalsAreTheLedger, CountedOnce, AnswerIsTheLedger
  <2>10. QED
    BY <1>8, <2>5, <2>7, <2>8, <2>9 DEF TotalsIInv
<1>10. CASE ~(PastCursor # {} \/ offset >= Cardinality(Listed) \/ scan.page + 1 = MaxPages)
  <2>1. PICK agg, handled, due, next : /\ agg = scan.agg /\ handled = scan.handled /\ due = scan.due /\ next = scan.page + 1
    OBVIOUS
  <2>2. scan' = [at |-> "pages", agg |-> agg, handled |-> handled, offset |-> offset, page |-> next, fresh |-> fresh, due |-> due]
    <3>1. PICK o, p, f : scan = [at |-> "pages", agg |-> agg, handled |-> handled, offset |-> o, page |-> p, fresh |-> f, due |-> due]
      BY <1>2, <2>1
    <3>2. scan' = [scan EXCEPT !.offset = offset, !.page = next, !.fresh = fresh]
      BY <1>5, <1>10, <2>1
    <3>3. QED
      BY <3>1, <3>2
  <2>3. PastCursor = {} /\ ~(offset >= Cardinality(Listed)) /\ scan.page + 1 # MaxPages /\ UNCHANGED <<local, totals>>
    BY <1>5, <1>10
  <2>4. offset = scan.offset + Page /\ offset \in Nat
    <3>1. PICK n \in Nat : /\ Cardinality(Listed) = n /\ Cardinality(Items(scan.offset)) \in Nat
                           /\ scan.offset + Cardinality(Items(scan.offset)) < n => Cardinality(Items(scan.offset)) = Page
      BY <1>1, <1>2, Places
    <3>2. QED
      BY <1>2, <1>4, <2>3, <3>1
  <2>5. next \in Nat /\ next < MaxPages /\ offset = next * Page
    <3>1. next \in Nat /\ next < MaxPages
      <4>1. next = scan.page + 1 /\ next # MaxPages
        BY <2>1, <2>3
      <4>2. QED
        BY <1>1, <1>2, <4>1
    <3>2. \A p, q \in Int : (p + 1) * q = p * q + q
      OBVIOUS
    <3>3. QED
      BY <1>1, <1>2, <2>1, <2>4, <3>1, <3>2
  <2>6. scan' \in Scan
    <3>1. scan' \in [at : {"pages"}, agg : Aggregate, handled : SUBSET Rounds, offset : Nat, page : Nat,
                    fresh : SUBSET FreshRow, due : [Rounds -> Kinds \cup {"no"}]]
      BY <1>2, <1>6, <2>1, <2>2, <2>4, <2>5
    <3>2. QED
      BY <3>1 DEF Scan
  <2>7. TotalsTypeOK'
    BY <1>1, <1>3, <2>3, <2>6 DEF TotalsTypeOK
  <2>8. StoredInv'
    BY <1>1, <1>3, <2>3, LedgerStays DEF StoredInv
  <2>9. AggregateOK(agg, agg.open)' /\ handled \subseteq Known(agg)' /\ DueOK(due, agg.open)' /\ Known(agg)' = Known(agg)
    BY <1>1, <1>3, <2>1, LedgerStays
  <2>10. FreshOK'
    <3>1. Listed' = Listed /\ \A r : Place(r)' = Place(r)
      BY <1>3 DEF Listed, Place
    <3>2. \A row \in fresh :
           /\ row.round \in Listed' \ Known(agg)' /\ Place(row.round)' <= offset
           /\ row.status = "open" => due[row.round] = "no" \/ row.round \in retried'
           /\ row.status # "open" => row.round \in retried' \/ row.status = ledger'[row.round].status
      BY <1>3, <1>6, <2>1, <2>4, <2>9, <3>1
    <3>3. \A r \in Listed' : Place(r)' <= offset => r \in Known(agg)' \/ \E row \in fresh : row.round = r
      BY <1>7, <2>1, <2>3, <2>4, <2>9, <3>1
    <3>4. scan'.agg = agg /\ scan'.fresh = fresh /\ scan'.offset = offset /\ scan'.due = due
      BY <2>2
    <3>5. QED
      BY <1>6, <3>2, <3>3, <3>4 DEF FreshOK
  <2>11. ScanInv'
    BY <2>2, <2>5, <2>9, <2>10 DEF ScanInv
  <2>12. TotalsAreTheLedger'
    BY <2>2 DEF TotalsAreTheLedger, CountedOnce, AnswerIsTheLedger
  <2>13. QED
    BY <1>8, <2>7, <2>8, <2>11, <2>12 DEF TotalsIInv
<1>11. QED
  BY <1>9, <1>10

\* The answer of a scan, saved or given up; its end; a restart.
LEMMA EndSteps ==
  ASSUME TotalsIInv, SaveTotals \/ ScanFails \/ ScanEnds \/ TotalsRestart
  PROVE  TotalsIInv'
<1>1. TotalsTypeOK /\ LedgerInv /\ StoredInv /\ ScanInv /\ {totals, totalsFile, local} \subseteq Aggregate
  BY DEF TotalsIInv, TotalsTypeOK
<1>2. UNCHANGED <<ledger, retried>> /\ trouble' \in 0 .. MaxTrouble
  <2>1. trouble \in 0 .. MaxTrouble /\ MaxTrouble \in Nat
    BY <1>1, TotalsAssumption DEF TotalsTypeOK
  <2>2. UNCHANGED <<ledger, retried>> /\ (trouble' = trouble \/ (trouble < MaxTrouble /\ trouble' = trouble + 1))
    BY DEF SaveTotals, ScanFails, ScanEnds, TotalsRestart, Trouble
  <2>3. QED
    BY <2>1, <2>2
<1>3. LedgerInv'
  BY <1>1, <1>2, LedgerStays
<1>4. EmptyTotals \in Aggregate /\ AggregateOK(EmptyTotals, EmptyTotals.open)
  <2>1. EmptyTotals \in Aggregate
    BY TotalsAssumption DEF EmptyTotals, Aggregate
  <2>2. Known(EmptyTotals) = {}
    BY <1>1, LedgerFacts DEF Known, EmptyTotals
  <2>3. QED
    BY <2>1, <2>2 DEF AggregateOK, CursorOK, CountsOK, EmptyTotals
<1>5. {totals', totalsFile', local'} \subseteq {totals, totalsFile, local, EmptyTotals}
  BY DEF SaveTotals, ScanFails, ScanEnds, TotalsRestart, aggregates
<1>6. {totals', totalsFile', local'} \subseteq Aggregate
  BY <1>1, <1>4, <1>5
<1>7. StoredInv'
  <2>1. \A agg \in {totals, totalsFile, local, EmptyTotals} : AggregateOK(agg, agg.open)
    BY <1>1, <1>4 DEF StoredInv
  <2>2. \A agg \in {totals, totalsFile, local, EmptyTotals} : AggregateOK(agg, agg.open)'
    BY <1>2, <2>1, LedgerStays
  <2>3. QED
    BY <1>5, <2>2 DEF StoredInv
<1>8. CASE ScanEnds \/ TotalsRestart
  <2>1. scan' = NoScan
    BY <1>8 DEF ScanEnds, TotalsRestart
  <2>2. TotalsTypeOK'
    BY <1>1, <1>2, <1>6, <2>1 DEF TotalsTypeOK, Scan
  <2>3. ScanInv' /\ TotalsAreTheLedger'
    BY <2>1 DEF ScanInv, TotalsAreTheLedger, CountedOnce, AnswerIsTheLedger, NoScan
  <2>4. QED
    BY <1>3, <1>7, <2>2, <2>3 DEF TotalsIInv
<1>9. CASE SaveTotals \/ ScanFails
  <2>1. /\ scan.at \in {"save", "pages"} /\ AggregateOK(scan.agg, scan.agg.open) /\ scan.agg \in Aggregate
        /\ scan.due \in [Rounds -> Kinds \cup {"no"}]
    BY <1>1, <1>9, ScanFields DEF SaveTotals, ScanFails, ScanInv
  <2>2. PICK ok \in BOOLEAN, due \in [Rounds -> Kinds \cup {"no"}] :
          /\ scan' = [at |-> "answer", ok |-> ok, agg |-> scan.agg, due |-> due]
          /\ ok => scan.at = "save"
          /\ \A r \in Rounds : due[r] = IF r \in retried THEN "no" ELSE scan.due[r]
    <3> DEFINE due == [r \in Rounds |-> IF r \in retried THEN "no" ELSE scan.due[r]]
    <3>1. due \in [Rounds -> Kinds \cup {"no"}] /\ \A r \in Rounds : due[r] = IF r \in retried THEN "no" ELSE scan.due[r]
      BY <2>1
    <3>2. \/ scan' = [at |-> "answer", ok |-> TRUE, agg |-> scan.agg, due |-> due] /\ scan.at = "save"
          \/ scan' = [at |-> "answer", ok |-> FALSE, agg |-> scan.agg, due |-> due]
      BY <1>9 DEF SaveTotals, ScanFails, Answer
    <3> HIDE DEF due
    <3>3. QED
      BY <3>1, <3>2
  <2>3. scan' \in Scan
    <3>1. scan' \in [at : {"save", "answer"}, ok : BOOLEAN, agg : Aggregate, due : [Rounds -> Kinds \cup {"no"}]]
      BY <2>1, <2>2
    <3>2. QED
      BY <3>1 DEF Scan
  <2>4. TotalsTypeOK'
    BY <1>1, <1>2, <1>6, <2>3 DEF TotalsTypeOK
  <2>5. ScanInv'
    BY <2>2 DEF ScanInv
  <2>6. \A r \in Rounds : scan.agg.as[r] # "twice"
    BY <2>1, TotalsAssumption DEF AggregateOK, CountsOK
  <2>7. ok => \A r \in Rounds : due[r] \in {"no", scan.agg.as[r]}
    BY <1>1, <2>2 DEF ScanInv
  <2>8. TotalsAreTheLedger'
    BY <2>2, <2>6, <2>7 DEF TotalsAreTheLedger, CountedOnce, AnswerIsTheLedger
  <2>9. QED
    BY <1>3, <1>7, <2>4, <2>5, <2>8 DEF TotalsIInv
<1>10. QED
  BY <1>8, <1>9

\* At the start there is nothing to count.
LEMMA TotalsStart == TotalsInit => TotalsIInv
<1> SUFFICES ASSUME TotalsInit PROVE TotalsIInv
  OBVIOUS
<1>1. ledger = <<>> /\ DOMAIN ledger = {} /\ Len(ledger) = 0 /\ ledger \in Seq(LedgerRow)
  BY DEF TotalsInit
<1>2. EmptyTotals \in Aggregate /\ totals = EmptyTotals /\ totalsFile = EmptyTotals /\ local = EmptyTotals
  BY TotalsAssumption DEF TotalsInit, EmptyTotals, Aggregate
<1>3. scan = NoScan /\ NoScan \in Scan /\ NoScan.at = "none"
  BY DEF TotalsInit, Scan, NoScan
<1>4. TotalsTypeOK
  BY <1>1, <1>2, <1>3, TotalsAssumption DEF TotalsInit, TotalsTypeOK
<1>5. AggregateOK(EmptyTotals, EmptyTotals.open)
  BY <1>1 DEF AggregateOK, CursorOK, CountsOK, Known, EmptyTotals
<1>6. LedgerInv /\ StoredInv
  BY <1>1, <1>2, <1>5 DEF LedgerInv, StoredInv
<1>7. ScanInv /\ TotalsAreTheLedger
  BY <1>3 DEF ScanInv, TotalsAreTheLedger, CountedOnce, AnswerIsTheLedger
<1> QED
  BY <1>4, <1>6, <1>7 DEF TotalsIInv

\* The inductive invariant of the totals: the index lists the rounds in order and says how they
\* ended; an aggregate, wherever it is kept, knows the oldest of them and has counted each once as
\* what it ended as, but for those it keeps as open; a scan has the rows of the pages it has read.
\* While no round joins the listing between two pages of a scan, and the pages hold all rounds.
THEOREM TotalsInductive ==
  ASSUME StillPages, MaxRounds <= Page * MaxPages
  PROVE  TotalsSpec => []TotalsIInv
<1>1. TotalsIInv /\ [TotalsNext]_totalsVars => TotalsIInv'
  <2>1. SUFFICES ASSUME TotalsIInv, [TotalsNext]_totalsVars PROVE TotalsIInv'
    OBVIOUS
  <2>2. CASE BeginRound \/ EndRound \/ ReopenRound \/ ListRound
    BY <2>1, <2>2, KeeperSteps
  <2>3. CASE StartScan
    BY <2>1, <2>3, StartStep
  <2>4. CASE \E r \in Rounds : ReadOpenRound(r)
    BY <2>1, <2>4, ReadStep
  <2>5. CASE OpenRoundsRead
    BY <2>1, <2>5, OpenReadStep
  <2>6. CASE ReadPage
    BY <2>1, <2>6, PageReadStep
  <2>7. CASE SaveTotals \/ ScanFails \/ ScanEnds \/ TotalsRestart
    BY <2>1, <2>7, EndSteps
  <2>8. CASE UNCHANGED totalsVars
    BY <2>1, <2>8 DEF totalsVars, TotalsIInv, TotalsTypeOK, LedgerInv, StoredInv, ScanInv, AggregateOK, CursorOK, CountsOK,
         DueOK, FreshOK, Known, Listed, Place, TotalsAreTheLedger, CountedOnce, AnswerIsTheLedger
  <2>9. QED
    BY <2>1, <2>2, <2>3, <2>4, <2>5, <2>6, <2>7, <2>8 DEF TotalsNext
<1>2. QED
  BY <1>1, TotalsStart, PTL DEF TotalsSpec

\* No round is in the totals twice, and the answer of a scan that went through counts each that had
\* ended when it began, as what it ended as: for any rounds, however often they are opened again,
\* whatever fails and whenever the process starts again; under the two conditions above.
THEOREM HeadlineIsTheLedger ==
  ASSUME StillPages, MaxRounds <= Page * MaxPages
  PROVE  TotalsSpec => []TotalsAreTheLedger
<1>1. TotalsIInv => TotalsAreTheLedger
  BY DEF TotalsIInv
<1>2. QED
  BY <1>1, TotalsInductive, PTL
=============================================================================
