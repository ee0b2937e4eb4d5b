------------------------------- MODULE Totals -------------------------------
(***************************************************************************)
(* The public totals of server/src/services/stats.js: a running aggregate  *)
(* in the KV store, which each call brings up to date from the ledger.     *)
(*                                                                         *)
(* The keeper works on the ledger meanwhile: it begins a round when none   *)
(* is open, ends it, and may open a finished one again.  The file of a     *)
(* round is written before the index that lists it.  Reads of the ledger   *)
(* and of the KV store may fail, so may the write, and the process may     *)
(* restart with what its KV file holds.  Lamports are left out: a sum is   *)
(* the set of the rounds that went into it, and as what; lists of rounds   *)
(* whose order makes no difference are sets.                               *)
(***************************************************************************)
EXTENDS Integers, SequencesExt

CONSTANTS
  Kinds,        \* what classifyRound makes of a round that has ended
  Retriable,    \* of those, the ones an operator may open again
  MaxRounds,    \* bound: rounds begun
  MaxRetries,   \* bound: rounds opened again
  MaxTrouble,   \* bound: reads and writes that fail, and restarts, together
  Page,         \* ROUND_TOTALS_PAGE
  MaxPages,     \* ROUND_TOTALS_MAX_PAGES
  StillPages    \* no round joins the listing between two pages of one scan

ASSUME TotalsAssumption ==
  /\ {"open", "absent", "no", "twice"} \cap Kinds = {} /\ Retriable \subseteq Kinds
  /\ {Page, MaxPages} \subseteq Nat \ {0} /\ StillPages \in BOOLEAN
  /\ {MaxRounds, MaxRetries, MaxTrouble} \subseteq Nat

VARIABLES
  ledger,   \* the rounds in the order they were begun: [at, status, listed], by file and by index
  retried,  \* the rounds that were opened again
  totals, totalsFile,  \* the aggregate in the KV store: in memory, and in its file
  local,    \* localTotals
  scan,     \* the scan in flight, up to its answer
  trouble

totalsVars == <<ledger, retried, totals, totalsFile, local, scan, trouble>>

Rounds == 1 .. MaxRounds
Status == Kinds \cup {"open"}

\* The aggregate: createdAt of the newest round folded (0 for none) and the rounds of that very
\* millisecond, the rounds that were open, and what each round has been counted as.
Aggregate == [cursor : 0 .. MaxRounds, ids : SUBSET Rounds, open : SUBSET Rounds,
              as : [Rounds -> Kinds \cup {"no", "twice"}]]
\* A round of the ledger: its time, its file, and what the index says of it.
LedgerRow == [at : 1 .. MaxRounds, status : Status, listed : Status \cup {"absent"}]
\* A row of the listing, with the page it was read on.
FreshRow == [page : 0 .. MaxPages - 1, round : Rounds, status : Status]

\* emptyRoundTotals; no stored aggregate is as good as this one.
EmptyTotals ==
  [cursor |-> 0, ids |-> {}, open |-> {}, as |-> [r \in Rounds |-> "no"]]

NoScan == [at |-> "none"]
\* Ghost in a scan: "due", what the rounds that had ended when it began are to be counted as.
Scan ==
  {NoScan}
    \cup [at : {"open"}, agg : Aggregate, todo : SUBSET Rounds, still : SUBSET Rounds,
          handled : SUBSET Rounds, due : [Rounds -> Kinds \cup {"no"}]]
    \cup [at : {"pages"}, agg : Aggregate, handled : SUBSET Rounds, offset : Nat, page : Nat,
          fresh : SUBSET FreshRow, due : [Rounds -> Kinds \cup {"no"}]]
    \cup [at : {"save", "answer"}, ok : BOOLEAN, agg : Aggregate, due : [Rounds -> Kinds \cup {"no"}]]

TotalsTypeOK ==
  /\ ledger \in Seq(LedgerRow)
  /\ Len(ledger) <= MaxRounds /\ retried \subseteq Rounds
  /\ {totals, totalsFile, local} \subseteq Aggregate
  /\ scan \in Scan
  /\ trouble \in 0 .. MaxTrouble

TotalsInit ==
  /\ ledger = <<>> /\ retried = {}
  /\ totals = EmptyTotals /\ totalsFile = EmptyTotals /\ local = EmptyTotals
  /\ scan = NoScan /\ trouble = 0

aggregates == <<totals, totalsFile, local>>
scanning == <<aggregates, scan>>

Trouble == trouble < MaxTrouble /\ trouble' = trouble + 1

-----------------------------------------------------------------------------
(* The keeper's side of the ledger.                                        *)

Synced == \A r \in DOMAIN ledger : ledger[r].listed = ledger[r].status

\* A round is begun when none is open, perhaps in the millisecond of the one before it.
BeginRound ==
  /\ Len(ledger) < MaxRounds /\ Synced
  /\ \A r \in DOMAIN ledger : ledger[r].status # "open"
  /\ LET newest == IF ledger = <<>> THEN 1 ELSE Last(ledger).at
     IN \E at \in {newest, newest + 1} \cap Rounds :
          ledger' = Append(ledger, [at |-> at, status |-> "open", listed |-> "absent"])
  /\ UNCHANGED <<retried, scanning, trouble>>

\* It ends; the file first.
EndRound ==
  /\ Synced
  /\ \E r \in DOMAIN ledger, kind \in Kinds :
       /\ ledger[r].status = "open" /\ ledger' = [ledger EXCEPT ![r].status = kind]
  /\ UNCHANGED <<retried, scanning, trouble>>

\* An operator has a FAILED or DONE round run again.
ReopenRound ==
  /\ Synced /\ \A r \in DOMAIN ledger : ledger[r].status # "open"
  /\ \E r \in DOMAIN ledger \ retried :
       /\ ledger[r].status \in Retriable
       /\ Cardinality(retried) < MaxRetries
       /\ retried' = retried \cup {r} /\ ledger' = [ledger EXCEPT ![r].status = "open"]
  /\ UNCHANGED <<scanning, trouble>>

\* The index follows the file.
ListRound ==
  /\ ~Synced
  /\ StillPages /\ scan.at = "pages" /\ scan.page > 0 => \A r \in DOMAIN ledger : ledger[r].listed # "absent"
  /\ ledger' = [r \in DOMAIN ledger |-> [ledger[r] EXCEPT !.listed = ledger[r].status]]
  /\ UNCHANGED <<retried, scanning, trouble>>

-----------------------------------------------------------------------------
(* roundTotals: one scan at a time.                                        *)

\* foldRound, for a round that is not open: nothing here remembers that it was folded before.
Fold(was, kind) == IF was = "no" THEN kind ELSE "twice"

\* loadTotals: the KV document, or what this process remembers.
StartScan ==
  /\ scan = NoScan
  /\ \E readable \in BOOLEAN :
       LET agg == IF readable /\ totals # EmptyTotals THEN totals ELSE local
       IN /\ IF readable THEN UNCHANGED trouble ELSE Trouble
          /\ scan' = [at |-> "open", agg |-> agg, todo |-> agg.open, still |-> {},
                      handled |-> agg.open,
                      due |-> [r \in Rounds |->
                                 IF r \in DOMAIN ledger \ retried /\ ledger[r].listed \in Kinds
                                 THEN ledger[r].listed ELSE "no"]]
  /\ UNCHANGED <<ledger, retried, aggregates>>

\* foldOpenRounds: the rounds that were open are read one by one; one that cannot be read, or
\* is open still, is kept for the next scan.
ReadOpenRound(r) ==
  /\ scan.at = "open" /\ r \in scan.todo
  /\ \E readable \in BOOLEAN :
       LET keeps == ~readable \/ ledger[r].status = "open"
       IN /\ IF readable THEN UNCHANGED trouble ELSE Trouble
          /\ scan' = [scan EXCEPT
               !.todo  = @ \ {r},
               !.still = IF keeps THEN @ \cup {r} ELSE @,
               !.agg.as[r] = IF keeps THEN @ ELSE Fold(@, ledger[r].status),
               !.due[r] = IF readable THEN @ ELSE "no"]
  /\ UNCHANGED <<ledger, retried, aggregates>>

OpenRoundsRead ==
  /\ scan.at = "open" /\ scan.todo = {}
  /\ scan' = [at |-> "pages", agg |-> [scan.agg EXCEPT !.open = scan.still],
              handled |-> scan.handled, offset |-> 0, page |-> 0, fresh |-> {}, due |-> scan.due]
  /\ UNCHANGED <<ledger, retried, aggregates, trouble>>

\* listRounds: newest first, by createdAt and then by id.
Listed == {r \in DOMAIN ledger : ledger[r].listed # "absent"}
Place(r) == Cardinality({q \in Listed : q >= r})
Items(offset) == {r \in Listed : offset < Place(r) /\ Place(r) <= offset + Page}

\* Mutant: the scan ends at the first round of the cursor's own millisecond.
ReachedFirst(agg, r) == ledger[r].at <= agg.cursor

\* The scan ends at the first round older than the cursor.
Reached(agg, r) == ledger[r].at < agg.cursor

\* Mutant: of a listed round only its time is looked at.
FoldedAlreadyNever(agg, r) == FALSE

\* A round of the cursor's millisecond that is in the aggregate.
FoldedAlready(agg, r) == ledger[r].at = agg.cursor /\ r \in agg.ids

\* foldNewRounds, the end: a round that is open is kept for the next scan, another is counted,
\* and the cursor moves to the newest.
FoldNewRounds(agg, fresh) ==
  LET counted(r) == {row \in fresh : row.round = r /\ row.status # "open"}
      opened == {r \in Rounds : \E row \in fresh : row.round = r /\ row.status = "open"}
      times  == {ledger[row.round].at : row \in fresh}
      cursor == Max(times \cup {agg.cursor})
  IN [as     |-> [r \in Rounds |->
                    IF counted(r) = {} THEN agg.as[r]
                    ELSE IF Cardinality(counted(r)) > 1 THEN "twice"
                    ELSE Fold(agg.as[r], (CHOOSE row \in counted(r) : TRUE).status)],
      open   |-> agg.open \cup opened,
      cursor |-> cursor,
      ids    |-> (IF cursor = agg.cursor THEN agg.ids ELSE {})
                   \cup {r \in DOMAIN ledger : ledger[r].at = cursor /\ \E row \in fresh : row.round = r}]

\* foldNewRounds, of a page: the rounds past the cursor, where the scan ends; those before them
\* that are new; and the rows so far.
PastCursor == {r \in Items(scan.offset) : Reached(scan.agg, r)}
NewRounds ==
  {r \in Items(scan.offset) :
     (\A q \in PastCursor : q < r) /\ ~FoldedAlready(scan.agg, r) /\ r \notin scan.handled}
FreshRows ==
  scan.fresh \cup {[page |-> scan.page, round |-> r, status |-> ledger[r].listed] : r \in NewRounds}

\* foldNewRounds, a page of the listing; after the last one saveTotals.
ReadPage ==
  /\ scan.at = "pages"
  /\ LET offset == scan.offset + Cardinality(Items(scan.offset))
         agg    == FoldNewRounds(scan.agg, FreshRows)
     IN IF PastCursor # {} \/ offset >= Cardinality(Listed) \/ scan.page + 1 = MaxPages
        THEN /\ scan' = [at |-> "save", ok |-> TRUE, agg |-> agg, due |-> scan.due]
             /\ local' = agg /\ totals' = agg
        ELSE /\ scan' = [scan EXCEPT !.offset = offset, !.page = @ + 1, !.fresh = FreshRows]
             /\ UNCHANGED <<local, totals>>
  /\ UNCHANGED <<ledger, retried, totalsFile, trouble>>

\* The answer; ghost: what was due of a round opened again meanwhile is not.
Answer(ok, agg, due) ==
  scan' = [at |-> "answer", ok |-> ok, agg |-> agg,
           due |-> [r \in Rounds |-> IF r \in retried THEN "no" ELSE due[r]]]

\* The write of the KV file, done or not; the totals are answered either way.
SaveTotals ==
  /\ scan.at = "save" /\ Answer(TRUE, scan.agg, scan.due)
  /\ \/ totalsFile' = totals /\ UNCHANGED trouble
     \/ Trouble /\ UNCHANGED totalsFile
  /\ UNCHANGED <<ledger, retried, totals, local>>

\* The listing cannot be read: what was folded so far is answered, and not saved.
ScanFails ==
  /\ scan.at = "pages" /\ Trouble /\ Answer(FALSE, scan.agg, scan.due)
  /\ UNCHANGED <<ledger, retried, aggregates>>

\* inFlight is cleared.
ScanEnds == scan.at = "answer" /\ scan' = NoScan /\ UNCHANGED <<ledger, retried, aggregates, trouble>>

\* The process starts again.
TotalsRestart ==
  /\ Trouble /\ local' = EmptyTotals /\ totals' = totalsFile /\ scan' = NoScan
  /\ UNCHANGED <<ledger, retried, totalsFile>>

TotalsNext ==
  \/ BeginRound \/ EndRound \/ ReopenRound \/ ListRound
  \/ StartScan \/ (\E r \in Rounds : ReadOpenRound(r)) \/ OpenRoundsRead \/ ReadPage \/ SaveTotals \/ ScanFails
  \/ ScanEnds \/ TotalsRestart

TotalsSpec == TotalsInit /\ [][TotalsNext]_totalsVars

-----------------------------------------------------------------------------
(* Properties.                                                             *)

\* No round is in the totals twice, in any answer, whatever failed or started again between the
\* scans and in whichever of their two ways a scan came to it.
CountedOnce == scan.at = "answer" => \A r \in Rounds : scan.agg.as[r] # "twice"

\* The answer of a scan that went through counts every round that had ended when it began, as
\* what it ended as.
AnswerIsTheLedger ==
  scan.at = "answer" /\ scan.ok => \A r \in Rounds : scan.due[r] \in {"no", scan.agg.as[r]}

\* The headline is the ledger: no round twice in it, and none left out.
TotalsAreTheLedger == CountedOnce /\ AnswerIsTheLedger

-----------------------------------------------------------------------------
(* The inductive invariant behind TotalsAreTheLedger, while no round joins *)
(* the listing between two pages and the pages hold all rounds.            *)

\* The rounds are in order; only the newest can be missing from the index; one the index has as
\* ended has ended so, unless it was opened again.
LedgerInv ==
  /\ \A r, q \in DOMAIN ledger : r <= q => ledger[r].at <= ledger[q].at
  /\ \A r \in DOMAIN ledger :
       /\ ledger[r].listed = "absent" => r = Len(ledger)
       /\ ledger[r].listed \in Kinds => r \in retried \/ ledger[r].status = ledger[r].listed

\* The rounds that are behind a cursor.
Known(agg) == {r \in DOMAIN ledger : ledger[r].at < agg.cursor \/ r \in agg.ids}

\* An aggregate knows the oldest listed rounds, up to one of them; it has counted them once, but
\* for those it keeps as open, and no other.
CursorOK(agg) ==
  /\ \A r \in agg.ids : r \in Listed /\ ledger[r].at = agg.cursor
  /\ agg.cursor = 0 \/ agg.ids # {}
  /\ \A r \in Known(agg) : r \in Listed /\ \A q \in DOMAIN ledger : q <= r => q \in Known(agg)
CountsOK(agg, open) ==
  /\ open \subseteq Known(agg)
  /\ \A r \in Rounds :
       IF r \in Known(agg) \ open
       THEN agg.as[r] \in Kinds /\ (r \in retried \/ agg.as[r] = ledger[r].status)
       ELSE agg.as[r] = "no"
AggregateOK(agg, open) == CursorOK(agg) /\ CountsOK(agg, open)

StoredInv == \A agg \in {totals, totalsFile, local} : AggregateOK(agg, agg.open)

\* What is due of a round is how it ended; nothing is due of those that are kept as open.
DueOK(due, open) ==
  \A r \in Rounds :
    \/ due[r] = "no" \/ r \in retried
    \/ /\ r \in Listed \ open /\ due[r] \in Kinds
       /\ due[r] = ledger[r].listed /\ due[r] = ledger[r].status

\* The rows read so far are those of the pages so far, but for the rounds that were known, each once.
FreshOK ==
  /\ \A row \in scan.fresh :
       /\ row.round \in Listed \ Known(scan.agg) /\ Place(row.round) <= scan.offset
       /\ row.status = "open" => scan.due[row.round] = "no" \/ row.round \in retried
       /\ row.status # "open" => row.round \in retried \/ row.status = ledger[row.round].status
  /\ \A row, other \in scan.fresh : row.round = other.round => row = other
  /\ \A r \in Listed : Place(r) <= scan.offset =>
       r \in Known(scan.agg) \/ \E row \in scan.fresh : row.round = r

ScanInv ==
  /\ scan.at = "open" =>
       /\ AggregateOK(scan.agg, scan.todo \cup scan.still) /\ scan.todo \cap scan.still = {}
       /\ scan.handled \subseteq Known(scan.agg) /\ DueOK(scan.due, scan.still)
  /\ scan.at = "pages" =>
       /\ AggregateOK(scan.agg, scan.agg.open)
       /\ scan.handled \subseteq Known(scan.agg) /\ DueOK(scan.due, scan.agg.open)
       /\ scan.page < MaxPages /\ scan.offset = scan.page * Page /\ FreshOK
  /\ scan.at = "save" =>
       /\ AggregateOK(scan.agg, scan.agg.open)
       /\ \A r \in Rounds : scan.due[r] \in {"no", scan.agg.as[r]} \/ r \in retried

TotalsIInv == TotalsTypeOK /\ LedgerInv /\ StoredInv /\ ScanInv /\ TotalsAreTheLedger
=============================================================================
