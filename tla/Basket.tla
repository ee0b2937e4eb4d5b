------------------------------- MODULE Basket -------------------------------
(***************************************************************************)
(* A holder's basket: the page editor of web/public/js/ui/basket.js, the   *)
(* signature it asks of wallet.js, the requests of api.js, and the         *)
(* preferences routes of server/src/api/me.js over validatePicks of        *)
(* engine/validate.js and the store of db/json.js.                         *)
(*                                                                         *)
(* One wallet, one page, one server.  The editor is never locked: while a  *)
(* signature or an answer is awaited the visitor goes on editing, and the  *)
(* poll of GET /api/me replaces what is shown.  A request the page has     *)
(* given up on may still be handled, a write of the file may fail, the     *)
(* server may restart, and the top list may change.  Stocks are numbers,   *)
(* in the order of their symbols; a text to sign is the set of picks in it.*)
(***************************************************************************)
EXTENDS Integers, FiniteSets, SequencesExt

CONSTANTS
  None,         \* nothing stored, no text, no account
  Tops,         \* the top lists there may be: sequences of mints, best first
  MinPicks, MaxPicks, MinPct, MaxPct, DefaultSize,  \* the rules, of page and server alike
  Percents,     \* where the visitor leaves a slider
  MaxEdits,     \* bound: edits, but for the buttons
  MaxSaves,     \* bound: clicks on Save
  MaxMishaps    \* bound: failed writes, failed fetches, time-outs, restarts of the server, changes
                \* of the top list, account switches and disconnects, together

STEP == 5

ASSUME RulesAssumption ==
  /\ {MinPicks, MaxPicks, MinPct, MaxPct, DefaultSize} \subseteq Nat \ {0}
  /\ MinPicks * MaxPct >= 100 /\ MaxPicks * MinPct <= 100 /\ MinPct <= MaxPct
  /\ MinPct % STEP = 0 /\ MaxPct % STEP = 0
ASSUME TopsAssumption == \A top \in Tops : top \in Seq(Nat) /\ IsInjective(top)
ASSUME PercentsAssumption == Percents \subseteq Int
ASSUME BoundsAssumption ==
  {MaxEdits, MaxSaves, MaxMishaps} \subseteq Nat

VARIABLES
  listed,     \* the server's top list
  uni, failed,  \* the page's: the list it loaded last, and whether the last fetch failed
  working,    \* what the editor shows
  saved,      \* savedPicks: what the page believes is stored
  connected,  \* the page shows a wallet
  session,    \* a token is stored
  active,     \* the account of wallet.js: the session's own, another, or none
  save,       \* the save in flight
  reset,      \* the DELETE in flight
  poll,       \* the GET /api/me in flight
  net,        \* PUT and DELETE requests on their way
  prefs, file,  \* the preferences in memory, and on disk
  edits, saves, mishaps

editor == <<uni, failed, working, saved, connected>>
login  == <<session, active>>
calls  == <<save, reset, poll, net>>
server == <<listed, prefs, file>>
bounds == <<edits, saves, mishaps>>
vars   == <<uni, failed, working, saved, connected, session, active, save, reset, poll, net,
            listed, prefs, file, edits, saves, mishaps>>

Mints == UNION {ToSet(top) : top \in Tops}
Pick  == [mint : Mints, pct : MinPct .. MaxPct]
Accounts == {"own", "other", None}

Min2(a, b) == IF a < b THEN a ELSE b
Clamp(n, lo, hi) == Min2(hi, IF n < lo THEN lo ELSE n)
Total(list) == SumFunction([i \in DOMAIN list |-> list[i].pct])
\* samePicks: the same contents, in any order.
SamePicks(a, b) == IF None \in {a, b} THEN FALSE ELSE ToSet(a) = ToSet(b)
MintsOf(list) == {p.mint : p \in ToSet(list)}

-----------------------------------------------------------------------------
(* The editor's arithmetic.                                                *)

\* Mutant: the grid of fives, whatever the slider left.
UnitAlwaysFive(list) == STEP

\* autoBalance's unit
Unit(list) ==
  IF (100 - Total(list)) % STEP = 0 /\ \A p \in ToSet(list) : p.pct % STEP = 0 THEN STEP ELSE 1

\* How many units a pick can move towards 100, and how many are to be moved in all.
Room(list) ==
  LET low == Total(list) < 100  unit == Unit(list)
  IN [i \in DOMAIN list |-> (IF low THEN MaxPct - list[i].pct ELSE list[i].pct - MinPct) \div unit]
Moves(list) ==
  LET total == Total(list)
  IN (IF total < 100 THEN 100 - total ELSE total - 100) \div Unit(list)

\* After so many whole turns a pick has moved as often, or as often as it has room; with fewer
\* moves left than picks with room the turns are over, and the first of those move once more.
After(room, n) == [i \in DOMAIN room |-> Min2(room[i], n)]
Over(room, n, moves) == SumFunction(After(room, n)) > moves
Turns(room, moves) ==
  CHOOSE n \in 0 .. moves : ~Over(room, n, moves) /\ (Over(room, n + 1, moves) \/ n = moves)
Luckier(room, n, i) == {j \in DOMAIN room : room[j] > n /\ j < i}
Moved(room, n, moves) ==
  LET left == moves - SumFunction(After(room, n))
  IN [i \in DOMAIN room |->
        IF room[i] > n /\ Cardinality(Luckier(room, n, i)) < left THEN n + 1 ELSE Min2(room[i], n)]

\* autoBalance: in turns, every pick with room left moves one unit towards 100, the first ones
\* first.
AutoBalance(list) ==
  LET low   == Total(list) < 100
      unit  == Unit(list)
      room  == Room(list)
      moves == Moves(list)
      moved == Moved(room, Turns(room, moves), moves)
  IN [i \in DOMAIN list |->
        [list[i] EXCEPT !.pct = IF low THEN @ + unit * moved[i] ELSE @ - unit * moved[i]]]

\* evenSplit
EvenSplit(mints) ==
  IF mints = <<>> THEN <<>>
  ELSE LET base == Clamp(((100 \div Len(mints)) \div STEP) * STEP, MinPct, MaxPct)
       IN AutoBalance([i \in DOMAIN mints |-> [mint |-> mints[i], pct |-> base]])

\* renderUniverse: the suggestion the editor starts from.
DefaultBasket ==
  [top \in Tops \cup {<<>>} |-> EvenSplit(SubSeq(top, 1, Min2(DefaultSize, Len(top))))]

-----------------------------------------------------------------------------
(* The rules, twice.                                                       *)

\* The first complaint about a pick decides, then the sum.
Judge(list, codes) ==
  LET bad == {i \in DOMAIN list : codes[i] # "ok"}
  IN CASE Len(list) \notin MinPicks .. MaxPicks -> "count"
       [] Len(list) \in MinPicks .. MaxPicks /\ bad # {} ->
            codes[CHOOSE i \in bad : \A j \in bad : i <= j]
       [] OTHER -> IF Total(list) = 100 THEN "ok" ELSE "sum"

Repeated(list, i) == \E j \in 1 .. i - 1 : list[j].mint = list[i].mint
OutOfRange(pick)  == pick.pct \notin MinPct .. MaxPct

UniverseKnown == uni # <<>> /\ ~failed

\* Mutant: the page does not look whether its picks are still listed.
ValidateBasketBlindly(list) ==
  Judge(list, [i \in DOMAIN list |-> IF Repeated(list, i) THEN "duplicate" ELSE "ok"])

\* validateBasket: without a list that can be trusted, membership is not judged.
ValidateBasket(list) ==
  Judge(list, [i \in DOMAIN list |->
    CASE Repeated(list, i) -> "duplicate"
      [] ~Repeated(list, i) /\ UniverseKnown /\ list[i].mint \notin ToSet(uni) -> "not_in_universe"
      [] OTHER -> IF OutOfRange(list[i]) THEN "range" ELSE "ok"])

\* Mutant: the server trusts the page to have added up.
ValidatePicksUnsummed(list, top) ==
  IF Len(list) \in MinPicks .. MaxPicks /\ MintsOf(list) \subseteq ToSet(top)
  THEN "ok" ELSE "not_in_universe"

\* validatePicks
ValidatePicks(list, top) ==
  Judge(list, [i \in DOMAIN list |->
    CASE OutOfRange(list[i]) -> "range"
      [] ~OutOfRange(list[i]) /\ list[i].mint \notin ToSet(top) -> "not_in_universe"
      [] OTHER -> IF Repeated(list, i) THEN "duplicate" ELSE "ok"])

\* comparePicks: the larger share first, then the symbol.
ComparePicks(a, b) == a.pct > b.pct \/ (a.pct = b.pct /\ a.mint < b.mint)

\* The normalised picks: sorted, when every stock is there once.
Ahead(list, i) == {j \in DOMAIN list : ComparePicks(list[j], list[i])}
SortPicks(list) ==
  [n \in DOMAIN list |-> list[CHOOSE i \in DOMAIN list : Cardinality(Ahead(list, i)) = n - 1]]

\* prefsMessage: the picks, as the text names them.
PrefsMessage(list) == ToSet(list)

-----------------------------------------------------------------------------
Idle == [at |-> "idle"]
Lists == Seq(Pick)
Message == [text : SUBSET Pick, by : {"own", "other"}]
Prefs == [picks : Lists, message : Message \cup {None}]
Put   == [kind : {"put"}, picks : Lists, message : Message \cup {None}, clean : BOOLEAN,
          seen : SUBSET Mints, live : BOOLEAN]
Codes == {"ok", "count", "range", "not_in_universe", "duplicate", "sum", "universe_unavailable",
          "unauthorized", "timeout", "internal"}
Save  ==
  {Idle}
    \cup [at : {"signer"}, checked : Lists, seen : SUBSET Mints, known : BOOLEAN]
    \cup [at : {"sign"}, checked : Lists, seen : SUBSET Mints, known : BOOLEAN,
          text : SUBSET Pick, by : {"own", "other"}]
    \cup [at : {"send"}, checked : Lists, seen : SUBSET Mints, known : BOOLEAN,
          message : Message \cup {None}]
    \cup [at : {"put"}, try : 1 .. 2, put : Put]
    \cup [at : {"answer"}, picks : Lists]
    \cup [at : {"refused"}, code : Codes, clean : BOOLEAN]

\* Each variable holds a value of its type.
TypeOK ==
  /\ listed \in Tops /\ uni \in Tops \cup {<<>>} /\ failed \in BOOLEAN
  /\ working \in Lists /\ saved \in Lists \cup {None}
  /\ connected \in BOOLEAN /\ session \in BOOLEAN /\ active \in Accounts
  /\ save \in Save
  /\ reset \in {Idle} \cup [at : {"delete"}, try : 1 .. 2] \cup [at : {"deleted", "failed"}]
  /\ poll \in {Idle} \cup [at : {"answer"}, picks : Lists \cup {None}]
  /\ net \subseteq Put \cup [kind : {"delete"}, live : BOOLEAN]
  /\ prefs \in Prefs \cup {None} /\ file \in Prefs \cup {None}
  /\ edits \in 0 .. MaxEdits /\ saves \in 0 .. MaxSaves /\ mishaps \in 0 .. MaxMishaps

\* The page has just been loaded, by a visitor who has saved a basket or none.
Init ==
  /\ listed \in {top \in Tops : top # <<>>} /\ uni = <<>> /\ failed = FALSE
  /\ working = <<>> /\ saved = None /\ connected = FALSE
  /\ session \in BOOLEAN /\ active \in {"own", None} /\ (active = "own" => session)
  /\ save = Idle /\ reset = Idle /\ poll = Idle /\ net = {}
  /\ \/ prefs = None
     \/ /\ ValidatePicks(DefaultBasket[listed], listed) = "ok"
        /\ prefs = [picks |-> DefaultBasket[listed], message |-> None]
  /\ file = prefs
  /\ edits = 0 /\ saves = 0 /\ mishaps = 0

Mishap == mishaps < MaxMishaps /\ mishaps' = mishaps + 1

-----------------------------------------------------------------------------
(* Editing.                                                                *)

SetWorking(list) ==
  working' = list /\ UNCHANGED <<uni, failed, saved, connected, login, calls, server, saves, mishaps>>

\* An edit that counts: the ones below may go on for ever, the buttons come to rest by themselves.
EditTo(list) == edits < MaxEdits /\ edits' = edits + 1 /\ SetWorking(list)

\* addMint: a chip of the picker, or the drawer of the table.
AddMint(mint) ==
  /\ mint \in ToSet(uni) /\ mint \notin MintsOf(working) /\ Len(working) < MaxPicks
  /\ EditTo(AutoBalance(Append(working, [mint |-> mint, pct |-> MinPct])))

\* renderPicks: the rows are on the page unless the error pane is.
RowsShown == ~failed /\ working # <<>>

\* removeMint, from its row
RemoveMint(mint) ==
  /\ RowsShown
  /\ \E i \in DOMAIN working :
       working[i].mint = mint /\ EditTo(AutoBalance(RemoveAt(working, i)))

\* toggleMint: the tick of a stock in the table, disabled for another stock of a full basket.
TickEnabled(mint) == mint \in MintsOf(working) \/ Len(working) < MaxPicks
ToggleMint(mint) ==
  /\ ~failed /\ mint \in ToSet(uni) /\ TickEnabled(mint)
  /\ RemoveMint(mint) \/ AddMint(mint)

\* The slider, dragged and let go.
SetPct(i, value) ==
  /\ RowsShown /\ i \in DOMAIN working
  /\ EditTo([working EXCEPT ![i].pct = Clamp(value, MinPct, MaxPct)])

\* The buttons: auto-balance, revert, and the suggestion of the empty pane.
PressBalance ==
  working # <<>> /\ Total(working) # 100 /\ SetWorking(AutoBalance(working)) /\ UNCHANGED edits
PressRevert ==
  saved # None /\ ~SamePicks(working, saved) /\ SetWorking(saved) /\ UNCHANGED edits
PressDefault ==
  working = <<>> /\ ~failed /\ SetWorking(DefaultBasket[uni]) /\ UNCHANGED edits

Edit ==
  \/ \E mint \in Mints : AddMint(mint) \/ RemoveMint(mint) \/ ToggleMint(mint)
  \/ \E i \in DOMAIN working, value \in Percents : SetPct(i, value)
  \/ PressBalance \/ PressRevert \/ PressDefault

\* loadUniverse: renderUniverse, or setError.
LoadUniverse ==
  /\ \/ /\ uni' = listed /\ failed' = FALSE /\ UNCHANGED mishaps
        /\ working' = IF working = <<>> /\ saved = None THEN DefaultBasket[listed] ELSE working
     \/ Mishap /\ failed' = TRUE /\ UNCHANGED <<uni, working>>
  /\ UNCHANGED <<saved, connected, login, calls, server, edits, saves>>

\* renderMe: what the document says is stored takes the place of what is shown.
RenderMe(picks) ==
  /\ connected' = TRUE /\ saved' = picks
  /\ working' = IF picks = None THEN DefaultBasket[uni] ELSE picks

\* setDisconnected
SetDisconnected == connected' = FALSE /\ saved' = None /\ working' = DefaultBasket[uni]

-----------------------------------------------------------------------------
(* The session, as far as the editor sees it (SignIn has the rest).        *)

Stored == IF prefs = None THEN None ELSE prefs.picks

\* connectWallet has signed in: with the document of the answer, or with none yet.
SignedIn ==
  /\ ~session /\ session' = TRUE /\ active' = "own"
  /\ \E doc \in {Stored, None} : RenderMe(doc)
  /\ UNCHANGED <<uni, failed, calls, server, bounds>>

\* The disconnect button: wallet.disconnect, applyDisconnected.
Disconnect ==
  /\ Mishap /\ connected /\ session' = FALSE /\ active' = None /\ SetDisconnected
  /\ UNCHANGED <<uni, failed, calls, server, edits, saves>>

\* The visitor selects another account in the wallet.
AccountsChanged ==
  /\ Mishap /\ active # None /\ active' \in Accounts \ {active}
  /\ UNCHANGED <<editor, session, calls, server, edits, saves>>

\* loadMe, by the poll: what the server has now, to be applied later, whatever happens in
\* between.  (A poll that fails leaves the editor as it is.)
AskMe ==
  /\ session /\ poll = Idle /\ poll' = [at |-> "answer", picks |-> Stored]
  /\ UNCHANGED <<editor, login, save, reset, net, server, bounds>>

\* Mutant: a poll leaves an editor alone that shows edits.
GotMeUnlessEdited ==
  /\ poll.at = "answer" /\ poll' = Idle
  /\ IF connected /\ saved # None /\ working # saved
     THEN UNCHANGED editor ELSE RenderMe(poll.picks) /\ UNCHANGED <<uni, failed>>
  /\ UNCHANGED <<login, save, reset, net, server, bounds>>

GotMe ==
  /\ poll.at = "answer" /\ poll' = Idle /\ RenderMe(poll.picks)
  /\ UNCHANGED <<uni, failed, login, save, reset, net, server, bounds>>

-----------------------------------------------------------------------------
(* Saving.                                                                 *)

CallOnly == UNCHANGED <<editor, login, reset, poll, server, edits, saves>>

\* refreshSummary: when the Save button of a connected page can be pressed.
CanSave == ValidateBasket(working) = "ok" /\ ~SamePicks(working, saved)

\* save, up to the first await: the basket is judged, and a signer is looked for.
ClickSave ==
  /\ connected /\ save = Idle /\ saves < MaxSaves /\ saves' = saves + 1
  /\ CanSave
  /\ save' = [at |-> "signer", checked |-> working, seen |-> ToSet(uni), known |-> UniverseKnown]
  /\ UNCHANGED <<editor, login, reset, poll, net, server, edits, mishaps>>

\* canSign asks for any wallet at all; ensureSigner connects one and compares.  The text is made
\* of what the editor shows now; without a signer the basket goes unsigned.
EnsureSigner ==
  /\ save.at = "signer"
  /\ \E account \in IF active = None THEN Accounts ELSE {active} :
       /\ active' = account
       /\ LET ready == active # None \/ account = "own"
          IN save' = IF ready
                     THEN [at |-> "sign", checked |-> save.checked, seen |-> save.seen,
                           known |-> save.known, text |-> PrefsMessage(working), by |-> account]
                     ELSE [at |-> "send", checked |-> save.checked, seen |-> save.seen,
                           known |-> save.known, message |-> None]
  /\ UNCHANGED <<editor, session, reset, poll, net, server, bounds>>

\* signMessage: signed, cancelled, or failed in the wallet (the basket then goes unsigned).
SignMessage ==
  /\ save.at = "sign"
  /\ \/ save' = Idle
     \/ \E message \in {[text |-> save.text, by |-> save.by], None} :
          save' = [at |-> "send", checked |-> save.checked, seen |-> save.seen,
                   known |-> save.known, message |-> message]
  /\ UNCHANGED net /\ UNCHANGED mishaps /\ CallOnly

Refused(code, clean) == [at |-> "refused", code |-> code, clean |-> clean]

\* putPrefs, first attempt: the picks are read from the editor now, the token from the session.
SendPut ==
  /\ save.at = "send"
  /\ LET put == [kind |-> "put", picks |-> working, message |-> save.message,
                 clean |-> working = save.checked /\ save.known, seen |-> save.seen, live |-> TRUE]
     IN IF session
        THEN save' = [at |-> "put", try |-> 1, put |-> put] /\ net' = net \cup {put}
        ELSE save' = Refused("unauthorized", FALSE) /\ UNCHANGED net
  /\ UNCHANGED mishaps /\ CallOnly

Deaf(requests, kind) == {IF r.kind = kind THEN [r EXCEPT !.live = FALSE] ELSE r : r \in requests}
Without(requests, kind) == {r \in requests : r.kind # kind}

\* No answer in time: once more, if there is still a token, then given up.  What was sent may
\* have been lost, or may still be handled.
GiveUpPut ==
  /\ save.at = "put" /\ (IF save.put \in net THEN Mishap ELSE UNCHANGED mishaps)
  /\ \E rest \in {Deaf(net, "put"), Without(net, "put")} :
       IF save.try = 1 /\ session
       THEN save' = [save EXCEPT !.try = 2] /\ net' = rest \cup {save.put}
       ELSE save' = Refused("timeout", FALSE) /\ net' = rest
  /\ CallOnly

\* The answer: what was stored takes the place of what is shown, connected or not.
SaveAnswered ==
  /\ save.at = "answer" /\ save' = Idle /\ saved' = save.picks /\ working' = save.picks
  /\ UNCHANGED <<uni, failed, connected, login, reset, poll, net, server, bounds>>

\* The refusal is shown, and the editor keeps what it has.
SaveRefused ==
  /\ save.at = "refused" /\ save' = Idle /\ UNCHANGED net /\ UNCHANGED mishaps /\ CallOnly

\* resetToDefault: shown at once, deleted afterwards.
ClickReset ==
  /\ reset = Idle /\ edits < MaxEdits /\ edits' = edits + 1
  /\ working' = DefaultBasket[uni]
  /\ IF connected /\ saved # None
     THEN IF session THEN /\ reset' = [at |-> "delete", try |-> 1]
                          /\ net' = net \cup {[kind |-> "delete", live |-> TRUE]}
          ELSE reset' = [at |-> "failed"] /\ UNCHANGED net
     ELSE UNCHANGED <<reset, net>>
  /\ UNCHANGED <<uni, failed, saved, connected, login, save, poll, server, saves, mishaps>>

GiveUpReset ==
  /\ reset.at = "delete"
  /\ IF \E r \in net : r.kind = "delete" /\ r.live THEN Mishap ELSE UNCHANGED mishaps
  /\ \E rest \in {Deaf(net, "delete"), Without(net, "delete")} :
       IF reset.try = 1 /\ session
       THEN reset' = [reset EXCEPT !.try = 2] /\ net' = rest \cup {[kind |-> "delete", live |-> TRUE]}
       ELSE reset' = [at |-> "failed"] /\ net' = rest
  /\ UNCHANGED <<editor, login, save, poll, server, edits, saves>>

ResetDone ==
  /\ reset.at \in {"deleted", "failed"} /\ reset' = Idle
  /\ saved' = IF reset.at = "deleted" THEN None ELSE saved
  /\ UNCHANGED <<uni, failed, working, connected, login, save, poll, net, server, bounds>>

-----------------------------------------------------------------------------
(* The server.                                                             *)

\* setPrefs, deletePrefs: memory first, then the file, whose write may fail the call.
Keep(record, wrote) ==
  /\ prefs' = record
  /\ IF wrote THEN file' = record /\ UNCHANGED mishaps ELSE Mishap /\ UNCHANGED file

\* PUT /api/me/prefs
HandlePut(r) ==
  /\ r.kind = "put" /\ net' = net \ {r}
  /\ LET code   == IF listed = <<>> THEN "universe_unavailable" ELSE ValidatePicks(r.picks, listed)
         sorted == SortPicks(r.picks)
         Answer(outcome) == save' = IF r.live THEN outcome ELSE save
     IN IF code # "ok"
        THEN /\ Answer(Refused(code, r.clean /\ r.seen = ToSet(listed)))
             /\ UNCHANGED <<prefs, file, mishaps>>
        ELSE \E wrote \in BOOLEAN :
               /\ Keep([picks |-> sorted, message |-> r.message], wrote)
               /\ Answer(IF wrote THEN [at |-> "answer", picks |-> sorted]
                         ELSE Refused("internal", FALSE))
  /\ UNCHANGED <<listed, editor, login, reset, poll, edits, saves>>

\* DELETE /api/me/prefs
HandleDelete(r) ==
  /\ r.kind = "delete" /\ net' = net \ {r}
  /\ LET Answer(outcome) == reset' = IF r.live THEN [at |-> outcome] ELSE reset
     IN IF prefs = None
        THEN Answer("deleted") /\ UNCHANGED <<prefs, file, mishaps>>
        ELSE \E wrote \in BOOLEAN :
               Keep(None, wrote) /\ Answer(IF wrote THEN "deleted" ELSE "failed")
  /\ UNCHANGED <<listed, editor, login, save, poll, edits, saves>>

\* The server starts again from its file; what was on its way is lost, or handled afterwards.
Restart ==
  /\ Mishap
  /\ prefs' = file /\ net' \in {{}, net}
  /\ UNCHANGED <<listed, file, editor, login, save, reset, poll, edits, saves>>

\* The universe is ranked anew.
Rerank ==
  /\ Mishap
  /\ listed' \in Tops \ {listed}
  /\ UNCHANGED <<editor, login, calls, prefs, file, edits, saves>>

Serve    == \E r \in net : HandlePut(r) \/ HandleDelete(r)
SaveStep == EnsureSigner \/ SignMessage \/ SendPut \/ SaveAnswered \/ SaveRefused

Next ==
  \/ Edit \/ LoadUniverse \/ SignedIn \/ Disconnect \/ AccountsChanged
  \/ AskMe \/ GotMe
  \/ ClickSave \/ SaveStep \/ GiveUpPut \/ ClickReset \/ GiveUpReset \/ ResetDone
  \/ Serve \/ Restart \/ Rerank

\* Promises settle, the wallet's prompt is answered, requests are handled or time out, and the
\* page polls, not always in vain.
Fairness ==
  /\ WF_vars(SaveStep) /\ WF_vars(GiveUpPut) /\ WF_vars(GiveUpReset) /\ WF_vars(ResetDone)
  /\ WF_vars(Serve) /\ WF_vars(AskMe) /\ WF_vars(GotMe)

Spec == Init /\ [][Next]_vars /\ Fairness

-----------------------------------------------------------------------------
(* Properties.                                                             *)

\* A basket by the rules: enough stocks, each once and in range, together 100%.
IsABasket(picks) ==
  /\ Len(picks) \in MinPicks .. MaxPicks /\ Total(picks) = 100
  /\ IsInjective([i \in DOMAIN picks |-> picks[i].mint])
  /\ \A p \in ToSet(picks) : p.pct \in MinPct .. MaxPct

\* Whatever was edited between the page's check and the request, and whatever failed or was
\* read back after a restart, what the server keeps is a basket by the rules.
StoredIsABasket == \A kept \in {prefs, file} \ {None} : IsABasket(kept.picks)

\* A basket the page has found good, sent as it was checked, is refused by the server's rules
\* only when the top list has changed since: page and server read the rules alike.
RefusedForAReason == save.at = "refused" => ~save.clean

\* Auto-balance reaches exactly 100% within the limits from whatever the editor shows, if it
\* shows a permitted number of stocks: wherever one more slider is left, no share is stuck.
BalanceReaches ==
  Len(working) \in MinPicks .. MaxPicks =>
    \A i \in DOMAIN working, value \in Percents :
      LET list == AutoBalance([working EXCEPT ![i].pct = Clamp(value, MinPct, MaxPct)])
      IN Total(list) = 100 /\ \A p \in ToSet(list) : ~OutOfRange(p)

\* In the end the page that is signed in shows as saved what the server has: a late request, a
\* write that failed, a restart or an answer that crossed an edit is set right by the poll.
PageAgrees == <>[](session /\ connected => saved = Stored)

\* What no run checks, for the code does not keep it: what the repository says of the stored
\* preference (CONTRACT.md:113, basket.js:9-11): stored
\* as signed by the user, the exact picks, so that anyone can verify it against the wallet.
SignedIsStored ==
  prefs # None /\ prefs.message # None =>
    prefs.message.by = "own" /\ prefs.message.text = ToSet(prefs.picks)

-----------------------------------------------------------------------------
(* The inductive invariant behind StoredIsABasket, RefusedForAReason and   *)
(* BalanceReaches.                                                         *)

\* What the page has judged: a basket, and one of the list it knew.
Judged(picks, seen, known) ==
  known => IsABasket(picks) /\ MintsOf(picks) \subseteq seen /\ seen # {}

\* A request is called clean only when it carries what was judged so.
PutInv(put) == put.kind = "put" => Judged(put.picks, put.seen, put.clean)

SaveInv ==
  /\ save.at \in {"signer", "sign", "send"} => Judged(save.checked, save.seen, save.known)
  /\ save.at = "put" => PutInv(save.put)
  /\ \A r \in net : PutInv(r)

IInv == TypeOK /\ StoredIsABasket /\ SaveInv /\ RefusedForAReason
=============================================================================
