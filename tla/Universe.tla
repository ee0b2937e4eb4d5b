------------------------------ MODULE Universe ------------------------------
(***************************************************************************)
(* The list of stocks the site and the keeper work from: the memory, KV    *)
(* and seed layers of server/src/services/universe.js over the client of   *)
(* server/src/chain/jupiter.js.                                            *)
(*                                                                         *)
(* Visitors ask; one refresh at a time runs behind them.  Jupiter answers, *)
(* or for a while may do anything: fail, answer nonsense, have no prices.  *)
(* A KV read or write may fail and the process may restart.  The stocks    *)
(* are left out: what is kept of a list is where its rows come from, how   *)
(* old it is and what it is labelled.                                      *)
(***************************************************************************)
EXTENDS Integers

CONSTANTS
  Visitors,       \* whoever calls get() or refresh(): requests, and the keeper
  Hour,           \* REFRESH_MS; ages are capped at it
  Attempts,       \* requests to Jupiter before the client gives up
  MaxListCrashes  \* bound: restarts

ASSUME UniverseAssumption ==
  /\ {Hour, Attempts} \subseteq Nat \ {0} /\ MaxListCrashes \in Nat

VARIABLES
  jupiterOk,  \* Jupiter answers as documented; otherwise anything may happen
  seedOk,     \* the seed file can be read
  current,    \* the last universe served
  fetched,    \* the time since fetchedAt
  kvLoaded,
  kv, kvFile, \* the universe's KV document, in the store's memory and in its file
  refresh,    \* the refresh in flight
  asking,     \* what each visitor waits for
  served,     \* the last answer
  listCrashes

universeVars == <<jupiterOk, seedOk, current, fetched, kvLoaded, kv, kvFile, refresh, asking,
                  served, listCrashes>>
layers == <<current, fetched, kvLoaded, kv, kvFile>>
world  == <<jupiterOk, seedOk, listCrashes>>

\* Where the rows of a list come from: Jupiter, Jupiter with the seed's market caps, the seed.
Rows     == {"live", "mixed", "seed", "none"}
Sources  == {"jupiter", "jupiter+seed", "cache", "seed", "nothing"}
List     == [source : Sources, rows : Rows, age : 0 .. Hour, stale : BOOLEAN]
NoList   == [source |-> "nothing", rows |-> "none", age |-> Hour, stale |-> TRUE]
NoRefresh == [at |-> "none"]
Refresh  ==
  {NoRefresh, [at |-> "failed"], [at |-> "kv"]}
    \cup [at : {"search", "prices"}, try : 1 .. Attempts]
    \cup [at : {"found", "put"}, list : List]

UniverseTypeOK ==
  /\ jupiterOk \in BOOLEAN /\ seedOk \in BOOLEAN
  /\ {current, kv, kvFile, served} \subseteq List
  /\ fetched \in 0 .. Hour /\ kvLoaded \in BOOLEAN
  /\ refresh \in Refresh
  /\ asking \in [Visitors -> {"no", "kv", "refresh"}]
  /\ listCrashes \in 0 .. MaxListCrashes

\* build
Build(source, rows, age, stale) == [source |-> source, rows |-> rows, age |-> age, stale |-> stale]

\* fromSeed, and the client's own fallback: the file as shipped, or nothing.
SeedRows == IF seedOk THEN "seed" ELSE "none"
FromSeed == Build("seed", SeedRows, Hour, TRUE)

UniverseInit ==
  /\ jupiterOk \in BOOLEAN /\ seedOk \in BOOLEAN
  /\ current = NoList /\ fetched = Hour /\ kvLoaded = FALSE
  /\ kv \in {NoList, Build("jupiter", "live", 0, FALSE)} /\ kvFile = kv
  /\ refresh = NoRefresh /\ asking = [v \in Visitors |-> "no"]
  /\ served = NoList /\ listCrashes = 0

-----------------------------------------------------------------------------

\* Mutant: a document the store kept is as good as live, however old it is.
FromKvAnyAge(doc) == Build(IF doc.source = "jupiter" THEN "jupiter" ELSE "cache", doc.rows, doc.age, FALSE)

\* loadFromKv: a document written less than an hour ago counts as a live fetch.
FromKv(doc) ==
  IF doc.age < Hour
  THEN Build(IF doc.source = "jupiter" THEN "jupiter" ELSE "cache", doc.rows, doc.age, FALSE)
  ELSE Build("cache", doc.rows, doc.age, TRUE)

\* The end of get(): the current list, or the refresh that is in flight or starts now.
AnswerOrRefresh(v, now, since) ==
  IF now # NoList /\ since < Hour
  THEN served' = now /\ asking' = [asking EXCEPT ![v] = "no"] /\ UNCHANGED refresh
  ELSE /\ asking' = [asking EXCEPT ![v] = "refresh"] /\ UNCHANGED served
       /\ refresh' = IF refresh = NoRefresh THEN [at |-> "search", try |-> 1] ELSE refresh

\* get(): the KV document is read by the first caller of a process that has nothing yet.
Ask(v) ==
  /\ asking[v] = "no"
  /\ \/ /\ current = NoList /\ ~kvLoaded /\ kvLoaded' = TRUE
        /\ asking' = [asking EXCEPT ![v] = "kv"] /\ UNCHANGED <<refresh, served>>
     \/ /\ current # NoList \/ kvLoaded
        /\ AnswerOrRefresh(v, current, fetched) /\ UNCHANGED kvLoaded
  /\ UNCHANGED <<current, fetched, kv, kvFile, world>>

\* The KV read comes back, or fails; what it found replaces whatever is current by then.
KvFound(found) ==
  IF found # NoList
  THEN /\ current' = FromKv(found)
       /\ fetched' = IF found.age < Hour THEN found.age ELSE fetched
  ELSE UNCHANGED <<current, fetched>>

KvRead(v) ==
  /\ asking[v] = "kv"
  /\ \E found \in {kv, NoList} : KvFound(found)
  /\ AnswerOrRefresh(v, current', fetched')
  /\ UNCHANGED <<kvLoaded, kv, kvFile, world>>

\* POST /api/admin/universe/refresh
ForceRefresh(v) ==
  /\ asking[v] = "no"
  /\ AnswerOrRefresh(v, NoList, Hour)
  /\ UNCHANGED <<layers, world>>

RefreshGoes(next) == refresh' = next /\ UNCHANGED <<layers, asking, served, world>>

Found(source, rows, age) ==
  [at |-> "found", list |-> Build(source, rows, age, source = "seed")]

\* request: an answer, or another attempt; the last failure is the caller's to handle.
Attempted(answers, answered, given_up) ==
  \/ answers /\ RefreshGoes(answered)
  \/ /\ ~jupiterOk
     /\ RefreshGoes(IF refresh.try < Attempts THEN [refresh EXCEPT !.try = @ + 1] ELSE given_up)

\* Without a usable search the client answers with the seed, and says so; without a seed it
\* throws.
SearchFellBack == IF seedOk THEN Found("seed", "seed", Hour) ELSE [at |-> "failed"]

\* searchXStocks, the search: an answer of another shape is not asked for again.
SearchXStocks ==
  /\ refresh.at = "search"
  /\ \/ Attempted(TRUE, [at |-> "prices", try |-> 1], SearchFellBack)
     \/ ~jupiterOk /\ RefreshGoes(SearchFellBack)

\* toStock: what Jupiter did not say of a stock, the seed says.
ToStocks(priced) == IF priced THEN "live" ELSE "mixed"

\* searchXStocks, the prices: without them the market caps are the seed's; an answer that holds
\* none of them is not an error.
Prices ==
  /\ refresh.at = "prices"
  /\ \/ Attempted(TRUE, Found("jupiter", ToStocks(TRUE), 0), Found("jupiter+seed", ToStocks(FALSE), 0))
     \/ ~jupiterOk /\ RefreshGoes(Found("jupiter", ToStocks(FALSE), 0))

\* The refresh ends: everybody who waits gets its list.
Served(list) ==
  /\ served' = list
  /\ asking' = [v \in Visitors |-> IF asking[v] = "refresh" THEN "no" ELSE asking[v]]

\* fetchLive has a list: it is current, and written to the store.
TakeLive ==
  /\ refresh.at = "found"
  /\ current' = refresh.list /\ fetched' = 0 /\ kv' = refresh.list
  /\ refresh' = [at |-> "put", list |-> refresh.list]
  /\ UNCHANGED <<kvLoaded, kvFile, asking, served, world>>

\* The write comes back, done or not; the answer is the same.
PutLive ==
  /\ refresh.at = "put" /\ kvFile' \in {kv, kvFile} /\ refresh' = NoRefresh
  /\ Served(refresh.list)
  /\ UNCHANGED <<current, fetched, kvLoaded, kv, world>>

\* Mutant: a refresh that failed stays the one in flight.
FallBackTo(list) ==
  /\ current' = list /\ served' = list /\ UNCHANGED <<refresh, asking>>

\* The fallback is what is served from here on, marked stale.
FallBack(list) ==
  /\ current' = list /\ refresh' = NoRefresh /\ Served(list)

\* fetchLive threw: what is current, else the KV document, else the seed.
RefreshFails ==
  /\ refresh.at \in {"failed", "kv"}
  /\ \/ /\ refresh.at = "failed" /\ current = NoList /\ ~kvLoaded
        /\ kvLoaded' = TRUE /\ refresh' = [at |-> "kv"]
        /\ UNCHANGED <<current, fetched, asking, served>>
     \/ /\ refresh.at = "failed" /\ (current # NoList \/ kvLoaded)
        /\ FallBack(IF current # NoList THEN [current EXCEPT !.stale = TRUE] ELSE FromSeed)
        /\ UNCHANGED <<fetched, kvLoaded>>
     \/ /\ refresh.at = "kv"
        /\ \E found \in {kv, NoList} :
             /\ fetched' = IF found # NoList /\ found.age < Hour THEN found.age ELSE fetched
             /\ FallBack(IF found # NoList THEN [FromKv(found) EXCEPT !.stale = TRUE] ELSE FromSeed)
        /\ UNCHANGED kvLoaded
  /\ UNCHANGED <<kv, kvFile, world>>

Older(list) == [list EXCEPT !.age = IF @ < Hour THEN @ + 1 ELSE Hour]

\* Time passes; reading and writing the store takes less than that.
UniverseTick ==
  /\ refresh.at \notin {"found", "put", "kv"} /\ \A v \in Visitors : asking[v] # "kv"
  /\ current' = Older(current) /\ kv' = Older(kv) /\ kvFile' = Older(kvFile)
  /\ fetched' = IF fetched < Hour THEN fetched + 1 ELSE Hour
  /\ UNCHANGED <<kvLoaded, refresh, asking, served, world>>

JupiterChanges ==
  /\ jupiterOk' = ~jupiterOk
  /\ UNCHANGED <<seedOk, listCrashes, layers, refresh, asking, served>>

\* The process starts again: the store reads its file, and nobody waits any more.
UniverseRestart ==
  /\ listCrashes < MaxListCrashes /\ listCrashes' = listCrashes + 1
  /\ current' = NoList /\ fetched' = Hour /\ kvLoaded' = FALSE /\ kv' = kvFile
  /\ refresh' = NoRefresh /\ asking' = [v \in Visitors |-> "no"]
  /\ UNCHANGED <<jupiterOk, seedOk, kvFile, served>>

AskAny     == \E v \in Visitors : Ask(v)
KvReadAny  == \E v \in Visitors : KvRead(v)
ForceAny   == \E v \in Visitors : ForceRefresh(v)
RefreshStep ==
  SearchXStocks \/ Prices \/ TakeLive \/ PutLive \/ RefreshFails

UniverseNext ==
  \/ AskAny \/ KvReadAny \/ ForceAny \/ RefreshStep
  \/ UniverseTick \/ JupiterChanges \/ UniverseRestart

UniverseSpec == UniverseInit /\ [][UniverseNext]_universeVars

\* Visitors keep coming, promises settle and time passes.
UniverseFairness ==
  /\ WF_universeVars(AskAny) /\ WF_universeVars(KvReadAny) /\ WF_universeVars(RefreshStep)
  /\ WF_universeVars(UniverseTick)

-----------------------------------------------------------------------------
(* Properties.                                                             *)

\* An answer that is not marked stale is Jupiter's, and less than an hour old, whatever was
\* read from the store, fell back to the seed or failed before it.
LabelIsHonest == ~served.stale => served.rows \in {"live", "mixed"} /\ served.age < Hour

\* Once Jupiter answers for good, so does the site: a seed that was taken for an answer and a
\* refresh that failed are got over.
FreshAgain == <>[]jupiterOk => <>[](~served.stale)

-----------------------------------------------------------------------------
(* The inductive invariant behind LabelIsHonest.                           *)

FromJupiter(list) == list.rows \in {"live", "mixed"}

\* A document of the store is fresh only if it is Jupiter's.
HonestDoc(doc) == doc \in List /\ (doc.age < Hour => FromJupiter(doc))

\* What is current is no older than the last fetch, or it is marked stale.
HonestCurrent(list, since) ==
  /\ list \in List /\ since \in 0 .. Hour
  /\ ~list.stale => FromJupiter(list) /\ list.age <= since

\* What is answered is fresh when it is answered, or it is marked stale.
HonestAnswer(list) ==
  list \in List /\ (~list.stale => FromJupiter(list) /\ list.age < Hour)

\* What a refresh has found is of this moment, or of the seed and marked stale.
HonestRefresh(next) ==
  /\ next \in Refresh
  /\ next.at \in {"found", "put"} =>
       HonestDoc(next.list) /\ (~next.list.stale => FromJupiter(next.list) /\ next.list.age = 0)

UniverseIInv ==
  /\ HonestDoc(kv) /\ HonestDoc(kvFile) /\ HonestCurrent(current, fetched)
  /\ HonestRefresh(refresh) /\ HonestAnswer(served)
  /\ {jupiterOk, seedOk, kvLoaded} \subseteq BOOLEAN
  /\ asking \in [Visitors -> {"no", "kv", "refresh"}] /\ listCrashes \in 0 .. MaxListCrashes
=============================================================================
