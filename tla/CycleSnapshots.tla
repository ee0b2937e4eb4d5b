--------------------------- MODULE CycleSnapshots ---------------------------
(***************************************************************************)
(* The two snapshots a round is weighted by, server/src/keeper/runner.js:  *)
(* takeOpenSnapshot, run by the scheduler's open timer in the first hour   *)
(* of a cycle, and the SNAPSHOT step of runRound, which takes the close,   *)
(* looks for the open, and leaves its own close as the next cycle's        *)
(* placeholder.  Both read a key of the kv store and write it later, with  *)
(* awaits in between, and nothing but the schedule keeps them apart.  A    *)
(* key that the round cannot read passes for one that is empty.            *)
(*                                                                         *)
(* Rounds are numbered in the order of their marks.  A snapshot is         *)
(* identified by its reading, the count of readings taken so far, which    *)
(* stands for the time it was taken.                                       *)
(***************************************************************************)
EXTENDS Naturals

CONSTANTS
  Rounds,       \* bound: rounds, 1 .. Rounds
  Following,    \* the round whose open key a round's close is left under (0: none)
  MaxReadings,  \* bound: readings of the holders
  Failures,     \* may a SNAPSHOT step die or throw and be run again?
  Overlap       \* may the open timer of the next cycle run during a round?

ASSUME ReadingsAssumption == Rounds \in Nat /\ MaxReadings \in Nat
ASSUME FollowingAssumption ==
  Following \in [1 .. Rounds -> 0 .. Rounds] /\ \A r \in 1 .. Rounds : Following[r] # 0 => Following[r] > r
ASSUME SwitchAssumption == Failures \in BOOLEAN /\ Overlap \in BOOLEAN

RoundId == 1 .. Rounds
NoRound == 0

VARIABLES
  open,         \* kv open-snapshot:<round>
  lastClose,    \* kv close-snapshot:last
  doc,          \* the round documents: their mode and the two readings used
  readings,     \* how many readings were taken
  step, cur, close, loaded, placeholder,   \* the running round
  opener, target, seen, taken,             \* the running open timer
  unread,       \* ghost: the rounds that could not read the open there was under their key
  late          \* ghost: the rounds that were begun, or begun again, after a later one

ghosts    == <<unread, late>>
roundProc == <<step, cur, close, loaded, placeholder>>
timerProc == <<opener, target, seen, taken>>
cycleVars == <<open, lastClose, doc, readings, step, cur, close, loaded, placeholder,
               opener, target, seen, taken, unread, late>>

Kind     == {"none", "open", "close"}
Modes    == {"full-cycle", "prev-close", "close-only"}
NoSnap   == [kind |-> "none", by |-> NoRound, at |-> 0]
Snap     == [kind : Kind, by : RoundId \cup {NoRound}, at : 0 .. MaxReadings]
NoDoc    == [mode |-> "none", open |-> NoSnap, close |-> 0]

Usable(s) == s.kind # "none"

CycleTypeOK ==
  /\ open \in [RoundId -> Snap] /\ {lastClose, placeholder, seen} \subseteq Snap
  /\ doc \in [RoundId -> [mode : Modes \cup {"none", "begun"}, open : Snap, close : 0 .. MaxReadings]]
  /\ readings \in 0 .. MaxReadings
  /\ step \in {"idle", "close", "load", "check", "leave", "last", "save"}
  /\ cur \in RoundId \cup {NoRound} /\ close \in 0 .. MaxReadings
  /\ loaded \in [mode : Modes, snap : Snap]
  /\ opener \in {"idle", "look", "read", "store"} /\ target \in RoundId \cup {NoRound}
  /\ taken \in 0 .. MaxReadings /\ unread \subseteq RoundId /\ late \subseteq RoundId

NotLoaded == [mode |-> "close-only", snap |-> NoSnap]

CycleInit ==
  /\ open = [r \in RoundId |-> NoSnap] /\ lastClose = NoSnap
  /\ doc = [r \in RoundId |-> NoDoc]
  /\ readings = 0
  /\ step = "idle" /\ cur = NoRound /\ close = 0 /\ loaded = NotLoaded /\ placeholder = NoSnap
  /\ opener = "idle" /\ target = NoRound /\ seen = NoSnap /\ taken = 0
  /\ unread = {} /\ late = {}

Unsettled == {r \in RoundId : doc[r].mode \in {"none", "begun"}}

-----------------------------------------------------------------------------
(* takeOpenSnapshot                                                        *)

\* The timer of the cycle that ends with round r, in its first hour: the rounds
\* before it are over, or (Overlap) one of them is late.
OpenTick(r) ==
  /\ opener = "idle" /\ doc[r].mode = "none"
  /\ IF Overlap THEN cur # r ELSE step = "idle"
  /\ \A q \in RoundId : q < r => doc[q].mode # "none"
  /\ opener' = "look" /\ target' = r
  /\ UNCHANGED <<open, lastClose, doc, readings, roundProc, seen, taken, ghosts>>

\* The cycle's key is read; a real open is final.
Look ==
  /\ opener = "look"
  /\ seen' = open[target]
  /\ opener' = IF open[target].kind = "open" THEN "idle" ELSE "read"
  /\ UNCHANGED <<open, lastClose, doc, readings, roundProc, target, taken, ghosts>>

\* The holders are read (or that fails, and the open is missed).
TakeOpen ==
  /\ opener = "read"
  /\ \/ /\ readings < MaxReadings
        /\ readings' = readings + 1 /\ taken' = readings + 1 /\ opener' = "store"
     \/ opener' = "idle" /\ UNCHANGED <<readings, taken>>
  /\ UNCHANGED <<open, lastClose, doc, roundProc, target, seen, ghosts>>

StoreOpen ==
  /\ opener = "store"
  /\ open' = [open EXCEPT ![target] = [kind |-> "open", by |-> target, at |-> taken]]
  /\ opener' = "idle"
  /\ UNCHANGED <<lastClose, doc, readings, roundProc, target, seen, taken, ghosts>>

-----------------------------------------------------------------------------
(* The SNAPSHOT step of runRound.                                          *)

\* A round begins, or one that died in this step is resumed or retried, after later ones
\* perhaps.
Begin(r) ==
  /\ step = "idle" /\ doc[r].mode \in {"none", "begun"}
  /\ \A q \in RoundId : q < r => doc[q].mode # "none"
  /\ ~Overlap => opener = "idle"
  /\ doc' = [doc EXCEPT ![r].mode = "begun"]
  /\ cur' = r /\ step' = "close"
  /\ late' = IF \E q \in RoundId : q > r /\ doc[q].mode # "none" THEN late \cup {r} ELSE late
  /\ UNCHANGED <<open, lastClose, readings, close, loaded, placeholder, timerProc, unread>>

TakeClose ==
  /\ step = "close" /\ readings < MaxReadings
  /\ readings' = readings + 1 /\ close' = readings + 1
  /\ step' = "load"
  /\ UNCHANGED <<open, lastClose, doc, cur, loaded, placeholder, timerProc, ghosts>>

\* Mutant: the last close is taken whoever's it is.
OpenOfAnyone(own, prev) ==
  IF Usable(own) THEN [mode |-> "full-cycle", snap |-> own]
  ELSE IF Usable(prev) THEN [mode |-> "prev-close", snap |-> prev]
  ELSE NotLoaded

\* Mutant: the last close comes before this cycle's own open.
OpenByLastClose(own, prev) ==
  IF Usable(prev) /\ prev.by # cur THEN [mode |-> "prev-close", snap |-> prev]
  ELSE IF Usable(own) THEN [mode |-> "full-cycle", snap |-> own]
  ELSE NotLoaded

\* This cycle's own open, or the last close of another round, or none.
OpenFrom(own, prev) ==
  IF Usable(own) THEN [mode |-> "full-cycle", snap |-> own]
  ELSE IF Usable(prev) /\ prev.by # cur THEN [mode |-> "prev-close", snap |-> prev]
  ELSE NotLoaded

\* loadCycleOpenSnapshot: a key that cannot be read passes for an empty one.
LoadOpen ==
  /\ step = "load"
  /\ \E own \in {open[cur], NoSnap}, prev \in {lastClose, NoSnap} :
       /\ loaded' = OpenFrom(own, prev)
       /\ unread' = IF own = open[cur] THEN unread \ {cur} ELSE unread \cup {cur}
  /\ step' = "check"
  /\ UNCHANGED <<open, lastClose, doc, readings, cur, close, placeholder, timerProc, late>>

\* Is there a real open under the next cycle's key?
CheckPlaceholder ==
  /\ step = "check"
  /\ IF Following[cur] = NoRound THEN step' = "last" /\ UNCHANGED placeholder
                             ELSE placeholder' = open[Following[cur]] /\ step' = "leave"
  /\ UNCHANGED <<open, lastClose, doc, readings, cur, close, loaded, timerProc, ghosts>>

MyClose == [kind |-> "close", by |-> cur, at |-> close]

\* Mutant: the placeholder is written whatever is there.
LeaveAlways ==
  /\ step = "leave"
  /\ open' = [open EXCEPT ![Following[cur]] = MyClose]
  /\ step' = "last"
  /\ UNCHANGED <<lastClose, doc, readings, cur, close, loaded, placeholder, timerProc, ghosts>>

\* If there was none: the close is left as its placeholder.
LeavePlaceholder ==
  /\ step = "leave"
  /\ open' = IF placeholder.kind = "open" THEN open ELSE [open EXCEPT ![Following[cur]] = MyClose]
  /\ step' = "last"
  /\ UNCHANGED <<lastClose, doc, readings, cur, close, loaded, placeholder, timerProc, ghosts>>

StoreLast ==
  /\ step = "last"
  /\ lastClose' = MyClose
  /\ step' = "save"
  /\ UNCHANGED <<open, doc, readings, cur, close, loaded, placeholder, timerProc, ghosts>>

Leave == step' = "idle" /\ cur' = NoRound /\ close' = 0 /\ loaded' = NotLoaded /\ placeholder' = NoSnap

\* What the round is weighed on: the open that was found with the close, or the close alone.
Combined == [mode |-> loaded.mode, open |-> loaded.snap, close |-> close]

\* The plan is made and the round is saved: its snapshots are settled.
Save ==
  /\ step = "save"
  /\ doc' = [doc EXCEPT ![cur] = Combined]
  /\ Leave
  /\ UNCHANGED <<open, lastClose, readings, timerProc, ghosts>>

\* The process dies or the step throws: the round stays at SNAPSHOT (or fails
\* there) and the step will be run again from its top.
Fail ==
  /\ Failures /\ step # "idle"
  /\ Leave
  /\ UNCHANGED <<open, lastClose, doc, readings, timerProc, ghosts>>

-----------------------------------------------------------------------------
CycleNext ==
  \/ \E r \in RoundId : OpenTick(r) \/ Begin(r)
  \/ Look \/ TakeOpen \/ StoreOpen
  \/ TakeClose \/ LoadOpen \/ CheckPlaceholder \/ LeavePlaceholder \/ StoreLast \/ Save \/ Fail

CycleSpec == CycleInit /\ [][CycleNext]_cycleVars

-----------------------------------------------------------------------------
(* Properties.                                                             *)

Weighted == {r \in RoundId : doc[r].mode \in Modes}

\* "A real in-window open is never replaced": the first reading taken in the
\* window is the one the cycle is judged by.
OpenIsKept == [][\A r \in RoundId : open[r].kind = "open" => open'[r] = open[r]]_cycleVars

\* A wallet is weighted on two different moments: the open was read before the
\* close, and never by the round itself as its close.
WindowIsReal ==
  \A r \in Weighted : Usable(doc[r].open) =>
    /\ doc[r].open.at < doc[r].close
    /\ doc[r].open.kind = "close" => doc[r].open.by # r

\* A reading taken in the window is the one used, if it could be read.
OpenIsUsed ==
  \A r \in Weighted \ unread : open[r].kind = "open" /\ ~Overlap => doc[r].open = open[r]

\* The close that stands in for an open is an earlier round's, at the start of this cycle.
\* A round that is retried after later ones may be handed the close of one of those.
CycleIsItsOwn ==
  \A r \in Weighted \ late : Usable(doc[r].open) =>
    IF doc[r].open.kind = "open" THEN doc[r].open.by = r ELSE doc[r].open.by < r

\* A holder is weighed by the cycle of the round, on two moments: the close, and before
\* it the reading of this round's own window, when there is one that can be read, or else
\* the close of a round before this one, for every round that is not retried late.
WeighedByTheCycle == WindowIsReal /\ OpenIsUsed /\ CycleIsItsOwn

-----------------------------------------------------------------------------
(* The inductive invariant behind WeighedByTheCycle and OpenIsKept, when    *)
(* the schedule keeps the timer and the round apart (~Overlap).             *)

\* The timer and the round take turns, and the timer's cycle has no round yet.
TurnsInv ==
  /\ opener # "idle" => step = "idle" /\ target \in RoundId /\ doc[target].mode = "none"
  /\ step # "idle" => cur \in RoundId /\ doc[cur].mode = "begun"

\* Closes are of rounds that were begun, and a placeholder's of an earlier round; a round
\* that is not late has no later one beside it.
OrderInv ==
  /\ step # "idle" /\ cur \notin late => \A q \in RoundId : q > cur => doc[q].mode = "none"
  /\ Usable(lastClose) => lastClose.kind = "close" /\ lastClose.by \in RoundId /\ doc[lastClose.by].mode # "none"
  /\ \A r \in RoundId : Usable(open[r]) => IF open[r].kind = "open" THEN open[r].by = r ELSE open[r].by < r
  /\ step \in {"check", "leave", "last", "save"} /\ cur \notin late /\ Usable(loaded.snap) =>
       IF loaded.snap.kind = "open" THEN loaded.snap.by = cur ELSE loaded.snap.by < cur

\* What is kept was read before now; a close is left for another round's cycle;
\* and no real open appears under the key of an open that is being taken.
KeptInv ==
  /\ \A r \in RoundId : open[r].at <= readings /\ (open[r].kind = "close" => open[r].by # r)
  /\ lastClose.at <= readings /\ taken <= readings /\ close <= readings
  /\ opener \in {"read", "store"} => open[target].kind # "open"

\* The close in hand is later than every snapshot there is, until the round has
\* loaded its own open; what the look under the next key showed is still there.
RoundInv ==
  /\ step = "load" => lastClose.at < close /\ \A r \in RoundId : open[r].at < close
  /\ step \in {"check", "leave", "last", "save"} =>
       /\ Usable(loaded.snap) =>
            loaded.snap.at < close /\ (loaded.snap.kind = "close" => loaded.snap.by # cur)
       /\ open[cur].kind = "open" /\ cur \notin unread => loaded.snap = open[cur]
  /\ step = "leave" =>
       /\ Following[cur] # NoRound
       /\ open[Following[cur]].kind = "open" => placeholder.kind = "open"

CycleIInv == CycleTypeOK /\ TurnsInv /\ KeptInv /\ RoundInv /\ OrderInv /\ WeighedByTheCycle
=============================================================================
