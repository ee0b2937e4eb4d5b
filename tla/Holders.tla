------------------------------- MODULE Holders -------------------------------
(***************************************************************************)
(* Who holds the coin: the snapshots of server/src/services/holders.js     *)
(* over the JSON-RPC client of server/src/chain/rpc.js.                    *)
(*                                                                         *)
(* With a Helius key the token accounts are read page by page; without one *)
(* in one call, which a node may find too large: then in parts by the      *)
(* first byte of the owner; and nothing found on the classic token program *)
(* is looked for on Token-2022, by the size of a plain account, which an   *)
(* account with extensions does not have.  An answer without rows is taken *)
(* for one that has none, and a row that cannot be read is dropped.        *)
(* Tokens move while a snapshot is read.                                   *)
(* Two reads at a time share nothing but the place the last one is kept    *)
(* in, so one is modelled.                                                 *)
(***************************************************************************)
EXTENDS Integers, SequencesExt

CONSTANTS
  Owners,      \* the owner of each token account: a sequence, in the node's order
  Plain,       \* the token accounts of TOKEN_ACCOUNT_SIZE: on Token-2022 others are larger
  MostOf,      \* bound: base units in one account
  PageSize,    \* HELIUS_PAGE_SIZE
  MaxReadPages,  \* MAX_PAGES
  Parts,       \* the parts by owner: a partition of the owners, as a sequence of sets
  CallAttempts   \* attempts of one JSON-RPC call

Account == DOMAIN Owners
Wallets == {Owners[a] : a \in Account}

\* No page of accounts is beyond the guard, and every owner is in one part.
ASSUME HoldersAssumption ==
  /\ {PageSize, MaxReadPages, CallAttempts, MostOf} \subseteq Nat \ {0}
  /\ Plain \subseteq Account
  /\ Len(Owners) \in Nat /\ Account = 1 .. Len(Owners) /\ Len(Owners) < PageSize * MaxReadPages
  /\ Len(Parts) \in Nat \ {0} /\ DOMAIN Parts = 1 .. Len(Parts)
  /\ \A w \in Wallets : \E p \in DOMAIN Parts : w \in Parts[p] /\ \A q \in DOMAIN Parts \ {p} : w \notin Parts[q]

VARIABLES
  helius,    \* HELIUS_API_KEY is set
  classic,   \* the coin is on the classic token program
  balance,   \* what each account holds
  reading,   \* the snapshot that is being read
  seen,      \* ghost: what each account held since that began
  unlisted,  \* ghost: the accounts whose row an accepted answer did not have, or not readably
  cached     \* the last snapshot

holdersVars == <<helius, classic, balance, reading, seen, unlisted, cached>>

Amounts == 1 .. MostOf
Row     == Account \X Amounts
Reading ==
  {[at |-> "no"]}
    \cup [at : {"helius"}, page : 1 .. MaxReadPages, rows : Seq(Row), try : 1 .. CallAttempts]
    \cup [at : {"single", "probe"}, try : 1 .. CallAttempts]
    \cup [at : {"parts"}, part : DOMAIN Parts, rows : Seq(Row), try : 1 .. CallAttempts]
    \cup [at : {"listed"}, rows : Seq(Row)]
NoSnapshot == [holders |-> [w \in Wallets |-> 0], since |-> [a \in Account |-> {}], but |-> {}]

HoldersTypeOK ==
  /\ helius \in BOOLEAN /\ classic \in BOOLEAN
  /\ balance \in [Account -> Amounts]
  /\ reading \in Reading /\ seen \in [Account -> SUBSET Amounts] /\ unlisted \in SUBSET Account
  /\ cached \in [holders : [Wallets -> Nat], since : [Account -> SUBSET Amounts], but : SUBSET Account]

HoldersInit ==
  /\ helius \in BOOLEAN /\ classic \in BOOLEAN
  /\ balance \in [Account -> Amounts] /\ reading = [at |-> "no"]
  /\ seen = NoSnapshot.since /\ unlisted = {} /\ cached = NoSnapshot

chain == <<helius, classic, balance>>

\* Base units move between two accounts; neither is emptied or opened.
Transfer ==
  /\ \E from, to \in Account :
       /\ from # to /\ balance[from] > 1 /\ balance[to] < MostOf
       /\ balance' = [balance EXCEPT ![from] = @ - 1, ![to] = @ + 1]
  /\ seen' = IF reading.at = "no" THEN seen ELSE [a \in Account |-> seen[a] \cup {balance'[a]}]
  /\ UNCHANGED <<helius, classic, reading, unlisted, cached>>

-----------------------------------------------------------------------------

\* The rows of a call: parseAccountSlice of the accounts it is answered with, as they are now.
RowsOf(accounts) ==
  LET listed == SetToSeq(accounts)
  IN [i \in DOMAIN listed |-> <<listed[i], balance[listed[i]]>>]

\* An answer is accepted, in which these accounts are left out or cannot be read.
Reads(next, left) ==
  reading' = next /\ unlisted' = unlisted \cup left /\ UNCHANGED <<chain, seen, cached>>

\* A snapshot is over.
Over == reading' = [at |-> "no"] /\ seen' = NoSnapshot.since /\ unlisted' = {} /\ UNCHANGED chain

\* A call throws, and the snapshot with it.
Throws == Over /\ UNCHANGED cached

\* call: what can be tried again is, until the attempts are used up.
TriesAgain ==
  /\ reading.at \in {"helius", "single", "parts", "probe"} /\ reading.try < CallAttempts
  /\ Reads([reading EXCEPT !.try = @ + 1], {})

\* snapshot: a new one; within a minute the one that is kept may be answered instead.
AskSnapshot ==
  /\ reading.at = "no"
  /\ reading' = IF helius THEN [at |-> "helius", page |-> 1, rows |-> <<>>, try |-> 1]
                ELSE [at |-> "single", try |-> 1]
  /\ seen' = [a \in Account |-> {balance[a]}] /\ unlisted' = {}
  /\ UNCHANGED <<chain, cached>>

OnPage(page) == {a \in Account : (page - 1) * PageSize < a /\ a <= page * PageSize}

\* listViaHelius: a page that is not full is the last one.
HeliusPage ==
  /\ reading.at = "helius"
  /\ \E lost \in SUBSET OnPage(reading.page) :
       LET page == reading.page
           rows == reading.rows \o RowsOf(OnPage(page) \ lost)
       IN Reads(IF Cardinality(OnPage(page)) < PageSize \/ page = MaxReadPages
                  THEN [at |-> "listed", rows |-> rows]
                  ELSE [at |-> "helius", page |-> page + 1, rows |-> rows, try |-> 1],
                lost)

\* An answer that is null, or that has no list of accounts, is a page of none: the last one.
BlankPage ==
  /\ reading.at = "helius"
  /\ Reads([at |-> "listed", rows |-> reading.rows], {a \in Account : a > (reading.page - 1) * PageSize})

\* The accounts of a mint that is on the other program are not found.
OnClassic(accounts) == IF classic THEN accounts ELSE {}

\* listViaGpa: nothing on the classic program may be a mint of Token-2022.
ListedOrProbe(rows) == IF rows = <<>> THEN [at |-> "probe", try |-> 1] ELSE [at |-> "listed", rows |-> rows]

\* gpaSlice of everything; refused as too large, the same in parts.
SingleShot ==
  /\ reading.at = "single"
  /\ \/ \E lost \in SUBSET OnClassic(Account) :
          Reads(ListedOrProbe(RowsOf(OnClassic(Account) \ lost)), lost)
     \/ Reads([at |-> "parts", part |-> 1, rows |-> <<>>, try |-> 1], {})

\* Mutant: a part that cannot be read is left out.
PartFailsIsSkipped ==
  Reads(IF reading.part = Len(Parts) THEN ListedOrProbe(reading.rows)
           ELSE [reading EXCEPT !.part = @ + 1],
        {})

\* One part that cannot be read fails them all.
PartFails == Throws

InPart(part) == {a \in Account : Owners[a] \in Parts[part]}

\* gpaPartitioned, one part.
ReadPart ==
  /\ reading.at = "parts"
  /\ \/ \E lost \in SUBSET OnClassic(InPart(reading.part)) :
          LET part == reading.part
              rows == reading.rows \o RowsOf(OnClassic(InPart(part)) \ lost)
          IN Reads(IF part = Len(Parts) THEN ListedOrProbe(rows)
                     ELSE [at |-> "parts", part |-> part + 1, rows |-> rows, try |-> 1],
                   lost)
     \/ PartFails

\* The call of a page, or of everything at once, fails for good.
CallFails == reading.at \in {"helius", "single"} /\ Throws

\* What a probe of Token-2022 finds: it asks for accounts of the classic program's size.
OnToken2022 == IF classic THEN {} ELSE Plain

\* The Token-2022 probe.
Probe ==
  /\ reading.at = "probe"
  /\ \E lost \in SUBSET OnToken2022 :
       Reads([at |-> "listed", rows |-> RowsOf(OnToken2022 \ lost)],
             IF classic THEN {} ELSE (Account \ Plain) \cup lost)

\* A probe that fails found nothing.
ProbeFails == reading.at = "probe" /\ Reads([at |-> "listed", rows |-> <<>>], {})

\* aggregate: one sum per owner.
AggregateRows(rows) ==
  LET of(w) == {i \in DOMAIN rows : Owners[rows[i][1]] = w}
  IN [w \in Wallets |-> SumFunction([i \in of(w) |-> rows[i][2]])]

\* The snapshot is answered, and kept for whoever asks next.
KeepSnapshot ==
  /\ reading.at = "listed"
  /\ cached' = [holders |-> AggregateRows(reading.rows), since |-> seen, but |-> unlisted]
  /\ Over

HoldersNext ==
  \/ AskSnapshot \/ HeliusPage \/ BlankPage \/ SingleShot \/ ReadPart \/ CallFails \/ Probe \/ ProbeFails
  \/ TriesAgain \/ KeepSnapshot
  \/ Transfer

HoldersSpec == HoldersInit /\ [][HoldersNext]_holdersVars

-----------------------------------------------------------------------------

AccountsOf(w) == {a \in Account : Owners[a] = w}

\* Some moments of the read, one for each of these accounts, give this sum.
SumOfMoments(accounts, sum, since) ==
  \E held \in [accounts -> Amounts] :
    sum = SumFunction(held) /\ \A a \in accounts : held[a] \in since[a]

\* A snapshot lists nobody, or it lists every holder, with each of their accounts counted once
\* and as it was while the snapshot was read: however it was read, whichever call failed, and
\* although tokens moved meanwhile.  It is partial only where an answer it took was: one that
\* had no list, a row that could not be read, or a probe of Token-2022, which asks for plain
\* accounts only.
SnapshotIsWhole ==
  \/ \A w \in Wallets : cached.holders[w] = 0
  \/ \A w \in Wallets : SumOfMoments(AccountsOf(w) \ cached.but, cached.holders[w], cached.since)

-----------------------------------------------------------------------------
(* The inductive invariant behind SnapshotIsWhole.                         *)

\* The rows are these accounts, each of them once, as they were at some moment of the read.
RowsOnce(rows, accounts, since) ==
  /\ \A i \in DOMAIN rows : rows[i][1] \in accounts /\ rows[i][2] \in since[rows[i][1]]
  /\ \A a \in accounts : \E i \in DOMAIN rows : rows[i][1] = a
  /\ \A i, j \in DOMAIN rows : rows[i][1] = rows[j][1] => i = j

\* These accounts have been asked for, and all were listed but those the answers left out.
RowsOfAsked(rows, asked) == unlisted \subseteq asked /\ RowsOnce(rows, asked \ unlisted, seen)

Paged(page) == {a \in Account : a <= page * PageSize}
Parted(part) == {a \in Account : \E p \in 1 .. part : Owners[a] \in Parts[p]}

\* What has been read so far is all of the pages, or parts, so far; what is listed is all there
\* is, or nothing.
ReadingInv ==
  /\ reading.at # "no" => \A a \in Account : balance[a] \in seen[a]
  /\ reading.at \in {"no", "single"} => unlisted = {}
  /\ reading.at = "helius" => RowsOfAsked(reading.rows, Paged(reading.page - 1))
  /\ reading.at = "parts" => RowsOfAsked(reading.rows, OnClassic(Parted(reading.part - 1)))
  /\ reading.at = "probe" => classic \/ unlisted = {}
  /\ reading.at = "listed" => reading.rows = <<>> \/ RowsOfAsked(reading.rows, Account)

HoldersIInv == HoldersTypeOK /\ ReadingInv /\ SnapshotIsWhole
=============================================================================
