----------------------------- MODULE LedgerPage -----------------------------
(***************************************************************************)
(* The ledger of rounds and the countdown on the page: the loaders, the    *)
(* timers and the visibility handler of web/public/js/app.js, the rows and *)
(* the cached details of ui/rounds.js, and the routes of                   *)
(* server/src/api/rounds.js they read.                                     *)
(*                                                                         *)
(* Every mark begins a round, and a round ends later.  An answer is read   *)
(* from the ledger at one time and reaches the page at another, or never;  *)
(* the tab hides and shows.  A round is left with its number and whether   *)
(* it has ended, which is what a row and a detail show of it.              *)
(***************************************************************************)
EXTENDS Naturals, Sequences, FiniteSets

CONSTANTS
  PageRows,    \* PAGE_SIZE, and the first page of loadRounds
  MaxMarks,    \* bound: marks that pass
  OldRounds,   \* rounds that have ended when the page opens
  MaxUpsets,   \* bound: times the tab is hidden and requests that fail, together
  MaxClicked,  \* bound: requests in flight when the visitor clicks for one more
  MaxAlike     \* bound: requests of one kind in flight

ASSUME LedgerPageAssumption ==
  /\ PageRows \in Nat \ {0} /\ MaxAlike \in Nat \ {0}
  /\ {MaxMarks, OldRounds, MaxUpsets, MaxClicked} \subseteq Nat

VARIABLES
  published,   \* of each round, oldest first, whether it has ended
  hidden,   \* document.hidden
  booting,  \* boot() waits for the first answers
  timers,   \* the keys of `timers`
  ticking,  \* the countdown has its interval
  target,   \* the mark the countdown counts to; 0 for none
  items, total, detailCache, loading,  \* the ledger of ui/rounds.js
  asked,    \* requests in flight, with the answer once the server has read it
  upsets

pageVars == <<published, hidden, booting, timers, ticking, target, items, total, detailCache,
              loading, asked, upsets>>
shown  == <<items, total, detailCache>>
clock  == <<timers, ticking, target>>
tab    == <<hidden, booting>>

Doc    == [round : 1 .. MaxMarks, ended : BOOLEAN]
Wants  == {"config", "stats", "rounds", "more", "detail"}

PageTypeOK ==
  /\ published \in UNION {[1 .. n -> BOOLEAN] : n \in 0 .. MaxMarks}
  /\ {hidden, booting, ticking, loading} \subseteq BOOLEAN
  /\ timers \subseteq {"stats", "rounds", "soon:config"}
  /\ target \in 0 .. MaxMarks + 1 /\ total \in 0 .. MaxMarks
  /\ \A i \in 1 .. Len(items) : items[i] \in Doc
  /\ detailCache \subseteq Doc
  /\ \A q \in asked : q.what \in Wants
  /\ upsets \in 0 .. MaxUpsets

\* GET /api/rounds: newest first, without the rows of a snapshot.
DocOf(r) == [round |-> r, ended |-> published[r]]
ListRounds(offset) ==
  LET rest == IF offset < Len(published) THEN Len(published) - offset ELSE 0
  IN  [i \in 1 .. (IF rest < PageRows THEN rest ELSE PageRows) |-> DocOf(rest + 1 - i)]

\* What the server reads for a request.
Read(q) ==
  CASE q.what \in {"config", "stats"} -> Len(published) + 1
    [] q.what \in {"rounds", "more"}  -> [items |-> ListRounds(q.arg), total |-> Len(published)]
    [] q.what = "detail"              -> DocOf(q.arg)

\* request: sent by boot or later, and not read yet.
Request(what, arg) == [what |-> what, arg |-> arg, boot |-> FALSE, reply |-> <<>>]
RoomFor(whats) == \A k \in whats : Cardinality({q \in asked : q.what = k}) < MaxAlike
Load(whats) == RoomFor(whats) /\ asked' = asked \cup {Request(k, 0) : k \in whats}

PageInit ==
  /\ published = [r \in 1 .. OldRounds |-> TRUE] /\ hidden \in BOOLEAN /\ booting = TRUE
  /\ upsets = 0
  /\ timers = {} /\ ticking = FALSE /\ target = 0
  /\ items = <<>> /\ total = 0 /\ detailCache = {} /\ loading = FALSE
  /\ asked = {[Request(k, 0) EXCEPT !.boot = TRUE] : k \in {"config", "stats", "rounds"}}

-----------------------------------------------------------------------------
(* The keeper and the server.                                              *)

MarkPasses ==
  /\ Len(published) < MaxMarks
  /\ published' = Append(published, FALSE)
  /\ UNCHANGED <<shown, loading, clock, tab, asked, upsets>>

RoundEnds(r) ==
  /\ ~published[r] /\ published' = [published EXCEPT ![r] = TRUE]
  /\ UNCHANGED <<shown, loading, clock, tab, asked, upsets>>

Serve(q) ==
  /\ q.reply = <<>>
  /\ asked' = (asked \ {q}) \cup {[q EXCEPT !.reply = <<Read(q)>>]}
  /\ UNCHANGED <<published, shown, loading, clock, tab, upsets>>

-----------------------------------------------------------------------------
(* The page.                                                               *)

\* Mutant: a page of rows leaves the details that are cached.
RenderRows(page) == items' = page.items /\ total' = page.total /\ UNCHANGED detailCache

\* render: the first page replaces the rows, and the details are asked for anew.
Render(page) == items' = page.items /\ total' = page.total /\ detailCache' = {}

\* loadMore: older rounds go below the rows there are by now.
AppendOlder(page) ==
  items' = items \o page.items /\ total' = page.total /\ UNCHANGED detailCache

\* A tick at or after the mark asks for the next one, once.
Tick(mark) ==
  IF mark # 0 /\ mark <= Len(published) THEN timers' = timers \cup {"soon:config"} ELSE UNCHANGED timers

\* setTarget, which ticks; only the configuration starts the countdown.
SetTarget(q, mark) ==
  /\ target' = mark /\ Tick(mark)
  /\ ticking' = (ticking \/ q.what = "config")

\* An answer lands.
Land(q) ==
  /\ q.reply # <<>> /\ asked' = asked \ {q}
  /\ \/ q.what = "rounds" /\ Render(q.reply[1]) /\ UNCHANGED <<loading, clock>>
     \/ q.what = "more" /\ AppendOlder(q.reply[1]) /\ loading' = FALSE /\ UNCHANGED clock
     \/ /\ q.what = "detail" /\ detailCache' = {d \in detailCache : d.round # q.arg} \cup {q.reply[1]}
        /\ UNCHANGED <<items, total, loading, clock>>
     \/ q.what \in {"config", "stats"} /\ SetTarget(q, q.reply[1]) /\ UNCHANGED <<shown, loading>>
  /\ UNCHANGED <<published, tab, upsets>>

\* A request fails: the panel says so and keeps what it has.
Fail(q) ==
  /\ upsets < MaxUpsets /\ upsets' = upsets + 1 /\ asked' = asked \ {q}
  /\ loading' = (loading /\ q.what # "more")
  /\ UNCHANGED <<published, shown, clock, tab>>

Polls == {"stats", "rounds"}

\* stopPolling, also for the one-shot timer.
StopPolling == timers' = {}

\* startPolling
StartPolling == timers' = Polls

\* boot goes on when its first requests have settled.
Booted ==
  /\ booting /\ booting' = FALSE /\ \A q \in asked : ~q.boot
  /\ IF hidden THEN UNCHANGED timers ELSE StartPolling
  /\ UNCHANGED <<published, shown, loading, ticking, target, hidden, asked, upsets>>

\* A poll comes due.
Poll(what) ==
  /\ what \in timers /\ Load({what})
  /\ UNCHANGED <<published, shown, loading, clock, tab, upsets>>

\* The countdown's interval.
CountdownTicks ==
  /\ ticking /\ Tick(target) /\ timers' # timers
  /\ UNCHANGED <<published, shown, loading, ticking, target, tab, asked, upsets>>

\* scheduleSoon's timer.
SoonConfig ==
  /\ "soon:config" \in timers /\ timers' = timers \ {"soon:config"}
  /\ Load({"config", "rounds"})
  /\ UNCHANGED <<published, shown, loading, ticking, target, tab, upsets>>

Hide ==
  /\ ~hidden /\ upsets < MaxUpsets /\ hidden' = TRUE /\ upsets' = upsets + 1
  /\ StopPolling /\ ticking' = FALSE
  /\ UNCHANGED <<published, shown, loading, target, booting, asked, upsets>>

\* Back: poll and tick again, and unless it was here a moment ago read the figures at once.
Show ==
  /\ hidden /\ hidden' = FALSE /\ ticking' = TRUE /\ StartPolling
  /\ UNCHANGED asked \/ Load({"stats"})
  /\ UNCHANGED <<published, shown, loading, target, booting, upsets>>

-----------------------------------------------------------------------------
(* The visitor.                                                            *)

RoomForAClick == ~hidden /\ Cardinality(asked) < MaxClicked

\* The button for older rounds, which is there while there are any.
LoadMore ==
  /\ RoomForAClick /\ ~loading /\ 0 < Len(items) /\ Len(items) < total
  /\ loading' = TRUE /\ asked' = asked \cup {Request("more", Len(items))}
  /\ UNCHANGED <<published, shown, clock, tab, upsets>>

\* expand: a row that has no cached detail asks for it.
Expand(doc) ==
  /\ RoomForAClick /\ \A d \in detailCache : d.round # doc.round
  /\ asked' = asked \cup {Request("detail", doc.round)}
  /\ UNCHANGED <<published, shown, loading, clock, tab, upsets>>

\* refreshAll
RefreshAll ==
  /\ RoomForAClick /\ Load({"config", "stats", "rounds"})
  /\ UNCHANGED <<published, shown, loading, clock, tab, upsets>>

-----------------------------------------------------------------------------

RoundEndsAny   == \E r \in 1 .. Len(published) : RoundEnds(r)
Answered(what) == \E q \in asked : q.what = what /\ (Serve(q) \/ Land(q))

PageNext ==
  \/ MarkPasses \/ RoundEndsAny
  \/ (\E k \in Wants : Answered(k)) \/ (\E q \in asked : Fail(q))
  \/ Booted \/ (\E k \in Polls : Poll(k))
  \/ CountdownTicks \/ SoonConfig \/ Hide \/ Show
  \/ LoadMore \/ RefreshAll \/ \E i \in 1 .. Len(items) : Expand(items[i])

-----------------------------------------------------------------------------

Newest == [i \in 1 .. Len(published) |-> DocOf(Len(published) + 1 - i)]

(* While the tab is in view the page comes to agree with the ledger again    *)
(* and again: its rows are the newest rounds as they are, no detail it       *)
(* would show is an old one, and the countdown counts to a mark ahead.       *)
(* Polls, one-shot timers, hidden tabs and late answers all write to this    *)
(* state (app.js:907-983, rounds.js:414-492).                                *)
PageCatchesUp ==
  <>[]~hidden =>
    []<>(/\ items = SubSeq(Newest, 1, Len(items)) /\ (Len(items) = 0) = (published = <<>>)
         /\ \A d \in detailCache : d = DocOf(d.round)
         /\ target > Len(published))

=============================================================================
