----------------------------- MODULE Scheduler -----------------------------
(***************************************************************************)
(* The keeper's clock, server/src/keeper/scheduler.js: the marks, the      *)
(* signed jitter that makes a round fire before or after its own mark, the *)
(* boot that finishes an interrupted round, the timer of the next round    *)
(* and the timer of the next cycle's open snapshot, and the operator who   *)
(* runs a round between the marks (api/admin.js).                          *)
(*                                                                         *)
(* A round (runRound) is opened, takes its close snapshot and finishes, or *)
(* throws because the store fails; what it does in between is the subject  *)
(* of Round.  Time passes in whole units, the timers and the start of the  *)
(* keeper are prompt, and a round takes at most Longest.                   *)
(***************************************************************************)
EXTENDS Integers, Sequences, FiniteSets

CONSTANTS
  Interval, Day,  \* intervalHours, and the day the marks are aligned to
  Jitters,        \* the jitters a round id may hash to (within -J .. J)
  WindowWanted,   \* openSnapshotWindowMin
  Longest,        \* bound: how long a round may take
  MaxTime,        \* bound: the end of time
  MaxCrashes,     \* bound: crashes of the process
  MaxUpsets       \* bound: rounds run by the operator and failures of the store, together

ASSUME IntervalAssumption == Interval \in Nat \ {0} /\ Day \in Nat \ {0} /\ Interval <= Day
\* config.js clamps the jitter, and the window, to the interval.
ASSUME ConfigAssumption ==
  /\ Jitters \subseteq -Interval .. Interval /\ Jitters # {}
  /\ WindowWanted \in 0 .. Interval
ASSUME BoundsAssumption == {Longest, MaxTime, MaxCrashes, MaxUpsets} \subseteq Nat

VARIABLES
  now,          \* the clock
  jitterFor, openOffsetFor,  \* what the ids of the marks' rounds hash to
  rounds,       \* the round documents, in the order of creation
  opens,        \* the open snapshots taken
  pc,           \* the keeper's own flow
  running,      \* state.running
  runs,         \* the rounds being run
  lastMark,     \* state.lastMark
  timer,        \* state.timer and state.next
  openTimer,    \* state.openTimer and state.nextOpen
  lastOpen,     \* state.lastOpenRoundId
  crashes, asked, faults,
  unseeded      \* ghost: has a boot failed to read the last mark?

hashes  == <<jitterFor, openOffsetFor>>
process == <<pc, running, runs, lastMark, timer, openTimer, lastOpen>>
upsets  == <<crashes, asked, faults, unseeded>>
vars    == <<now, jitterFor, openOffsetFor, rounds, opens, pc, running, runs, lastMark, timer,
             openTimer, lastOpen, crashes, asked, faults, unseeded>>

Least(a, b)    == IF a < b THEN a ELSE b
Greatest(a, b) == IF a < b THEN b ELSE a

\* The next mark strictly after t, aligned to midnight, and midnight at the latest.
NextMark(t) ==
  LET dayStart == (t \div Day) * Day
  IN Least(dayStart + ((t - dayStart) \div Interval + 1) * Interval, dayStart + Day)

\* The marks a plan can be made for.
Mark == {NextMark(t) : t \in 0 .. MaxTime + Interval}
None == -1

\* Mutant: the window is not capped.
WindowUncapped == WindowWanted

\* openOffsetFor: the window, capped at a quarter of the interval.
Window == Least(WindowWanted, Interval \div 4)

\* Mutant: a mark whose moment has passed is given up.
PlanNextInHaste(t, after) ==
  LET first == IF after # None /\ NextMark(t) <= after THEN NextMark(after) ELSE NextMark(t)
      mark  == IF first + jitterFor[first] < t THEN NextMark(first) ELSE first
  IN [mark |-> mark, at |-> Greatest(mark + jitterFor[mark], t)]

\* planNext: the next mark that is after the clock and after the last one handled.
PlanNext(t, after) ==
  LET mark == IF after # None /\ NextMark(t) <= after THEN NextMark(after) ELSE NextMark(t)
  IN [mark |-> mark, at |-> Greatest(mark + jitterFor[mark], t)]

\* planOpenSnapshot
PlanOpen(mark) == [mark |-> mark, at |-> mark - Interval + openOffsetFor[mark]]

NoPlan == [mark |-> None, at |-> None]
Plan   == [mark : Mark, at : -Interval .. MaxTime + 3 * Interval]
Time   == 0 .. MaxTime

Round  == [at : Time \cup Mark, by : {"tick", "admin"}, read : Time \cup {None}, done : BOOLEAN]
Run    == [round : 1 .. Len(rounds), by : {"boot", "tick", "admin", "direct"}, since : Time]

\* Each variable holds a value of its type, and a timer one that can come due.
TypeOK ==
  /\ now \in Time /\ crashes \in 0 .. MaxCrashes /\ {asked, faults} \subseteq 0 .. MaxUpsets
  /\ unseeded \in BOOLEAN
  /\ jitterFor \in [Mark -> Jitters] /\ openOffsetFor \in [Mark -> 0 .. Greatest(Window - 1, 0)]
  /\ rounds \in Seq(Round)
  /\ opens \subseteq [mark : Mark, at : Time]
  /\ pc \in {"down", "listening", "off", "seed", "resume", "running", "armed"} /\ running \in BOOLEAN
  /\ runs \subseteq Run
  /\ lastMark \in {None} \cup Time \cup Mark
  /\ timer \in Plan \cup {NoPlan} /\ (timer # NoPlan => timer.at >= now)
  /\ openTimer \in Plan \cup {NoPlan} /\ (openTimer # NoPlan => openTimer.at >= now)
  /\ lastOpen \in Mark \cup {None}

Init ==
  /\ now = 0
  /\ jitterFor \in [Mark -> Jitters] /\ openOffsetFor \in [Mark -> 0 .. Greatest(Window - 1, 0)]
  /\ rounds = <<>> /\ opens = {}
  /\ pc = "listening" /\ running = FALSE /\ runs = {} /\ lastMark = None
  /\ timer = NoPlan /\ openTimer = NoPlan /\ lastOpen = None
  /\ crashes = 0 /\ asked = 0 /\ faults = 0 /\ unseeded = FALSE

-----------------------------------------------------------------------------
(* Rounds.                                                                 *)

Unfinished == {i \in DOMAIN rounds : ~rounds[i].done}
Oldest     == CHOOSE i \in Unfinished : \A j \in Unfinished : i <= j

\* runRound: the oldest unfinished round, or a new one for the given time.
RunRound(resume, at, by) ==
  LET opened == [at |-> at, by |-> IF by = "tick" THEN "tick" ELSE "admin", read |-> None, done |-> FALSE]
      begun(i) == runs \cup {[round |-> i, by |-> by, since |-> now]}
  IN IF resume /\ Unfinished # {}
     THEN rounds' = rounds /\ runs' = begun(Oldest)
     ELSE rounds' = Append(rounds, opened) /\ runs' = begun(Len(rounds) + 1)

\* Mutant: the flag is looked at by the operator's route alone.
ExecuteAnyway(resume, at, by) == running' = TRUE /\ RunRound(resume, at, by) /\ UNCHANGED faults

\* execute, when nothing is running.
Execute(resume, at, by) ==
  ~running /\ running' = TRUE /\ RunRound(resume, at, by) /\ UNCHANGED faults

\* execute, which returns null at once when something is.
Busy == running /\ UNCHANGED <<running, runs, rounds, faults>>

Upset == asked + faults < MaxUpsets

\* The store cannot be read or written.
StoreFails == Upset /\ faults' = faults + 1

\* execute, whose runRound throws before it has a round: logged, and null.
ExecuteInVain == ~running /\ StoreFails /\ UNCHANGED <<running, runs, rounds>>

\* scheduleOpen: the open of the cycle that ends at the mark, if its moment is ahead.
ArmOpen(mark) ==
  IF mark = lastOpen \/ PlanOpen(mark).at < now THEN openTimer' = NoPlan
  ELSE openTimer' = PlanOpen(mark)

\* schedule
Schedule ==
  LET plan == PlanNext(now, lastMark)
  IN timer' = plan /\ ArmOpen(plan.mark) /\ pc' = "armed"

\* The SNAPSHOT step of a round in flight.
Read(run) ==
  /\ run \in runs /\ rounds[run.round].read = None
  /\ rounds' = [rounds EXCEPT ![run.round].read = now]
  /\ UNCHANGED <<now, hashes, opens, process, upsets>>

\* The rounds the keeper's own flow waits for, and those that hold its flag.
Flow    == {"boot", "tick"}
Flagged == Flow \cup {"admin"}

\* Mutant: a round that did not end well is not followed by a plan.
EndsSilently(run) ==
  /\ run \in runs /\ runs' = runs \ {run}
  /\ running' = (running /\ run.by \notin Flagged)
  /\ IF run.by \in Flow /\ rounds[run.round].read # None THEN Schedule
     ELSE UNCHANGED <<pc, timer, openTimer>>
  /\ UNCHANGED <<now, hashes, opens, lastMark, lastOpen, crashes, asked, unseeded>>

\* The end of execute: the keeper's own flow goes on to schedule, the operator's ends.
Ends(run) ==
  /\ run \in runs /\ runs' = runs \ {run}
  /\ running' = (running /\ run.by \notin Flagged)
  /\ IF run.by \in Flow THEN Schedule ELSE UNCHANGED <<pc, timer, openTimer>>
  /\ UNCHANGED <<now, hashes, opens, lastMark, lastOpen, crashes, asked, unseeded>>

\* The round is done, skipped or failed.
Finish(run) == Ends(run) /\ rounds' = [rounds EXCEPT ![run.round].done = TRUE] /\ UNCHANGED faults

\* The store fails, and how the round failed cannot be saved either: its document stays
\* where it was.
Throw(run) == Ends(run) /\ StoreFails /\ UNCHANGED rounds

-----------------------------------------------------------------------------
(* Boot.                                                                   *)

\* The server listens, with no keeper yet (main).
Listen ==
  /\ pc = "down" /\ pc' = "listening"
  /\ UNCHANGED <<now, hashes, rounds, opens, running, runs, lastMark, timer, openTimer, lastOpen, upsets>>

\* startKeeper: the scheduler starts; or there is none in this process (START_KEEPER=0,
\* or it fails).
Start ==
  /\ pc = "listening" /\ pc' \in {"seed", "off"}
  /\ UNCHANGED <<now, hashes, rounds, opens, running, runs, lastMark, timer, openTimer, lastOpen, upsets>>

\* Mutant: the last mark is not read back.
SeedNothing ==
  /\ pc = "seed" /\ pc' = "resume"
  /\ UNCHANGED <<now, hashes, rounds, opens, running, runs, lastMark, timer, openTimer, lastOpen, upsets>>

\* The last mark handled is taken from the latest round, if that can be read.
Seed ==
  /\ pc = "seed" /\ pc' = "resume"
  /\ \/ /\ lastMark' = IF rounds = <<>> THEN lastMark ELSE rounds[Len(rounds)].at
        /\ UNCHANGED <<faults, unseeded>>
     \/ StoreFails /\ unseeded' = TRUE /\ UNCHANGED lastMark
  /\ UNCHANGED <<now, hashes, rounds, opens, running, runs, timer, openTimer, lastOpen, crashes, asked>>

\* An interrupted round is finished before the next one is scheduled, if it can be.
Resume ==
  /\ pc = "resume"
  /\ \/ Unfinished = {} /\ Schedule /\ UNCHANGED <<running, runs, rounds, faults>>
     \/ StoreFails /\ Schedule /\ UNCHANGED <<running, runs, rounds>>
     \/ /\ Unfinished # {}
        /\ \/ Execute(TRUE, now, "boot") /\ pc' = "running" /\ UNCHANGED <<timer, openTimer>>
           \/ Busy /\ Schedule
  /\ UNCHANGED <<now, hashes, opens, lastMark, lastOpen, crashes, asked, unseeded>>

-----------------------------------------------------------------------------
(* Timers and the operator.                                                *)

\* onTick: the mark is recorded before it is run.
OnTick ==
  /\ pc = "armed" /\ timer.at = now
  /\ lastMark' = timer.mark
  /\ \/ /\ Execute(TRUE, timer.mark, "tick")
        /\ pc' = "running" /\ timer' = NoPlan /\ UNCHANGED openTimer
     \/ /\ Busy \/ ExecuteInVain
        /\ LET plan == PlanNext(now, timer.mark)
           IN timer' = plan /\ ArmOpen(plan.mark) /\ UNCHANGED pc
  /\ UNCHANGED <<now, hashes, opens, lastOpen, crashes, asked, unseeded>>

\* onOpenTick: the open snapshot is taken, or taking it fails.
OnOpenTick ==
  /\ openTimer # NoPlan /\ openTimer.at = now
  /\ lastOpen' = openTimer.mark /\ openTimer' = NoPlan
  /\ \/ opens' = opens \cup {[mark |-> openTimer.mark, at |-> now]}
     \/ opens' = opens
  /\ UNCHANGED <<now, hashes, rounds, pc, running, runs, lastMark, timer, upsets>>

\* POST /admin/round/run: a round for now, or the unfinished one.  A second one
\* is told that the keeper is busy.
Admin(resume) ==
  /\ pc \notin {"down", "listening", "off"} /\ Upset
  /\ asked' = asked + 1
  /\ Execute(resume, now, "admin")
  /\ UNCHANGED <<now, hashes, opens, pc, lastMark, timer, openTimer, lastOpen, crashes, unseeded>>

\* The same while there is no keeper: the route loads runner.js and calls runRound itself,
\* which knows of no flag.
Direct(resume) ==
  /\ pc \in {"listening", "off"} /\ Upset
  /\ asked' = asked + 1
  /\ RunRound(resume, now, "direct")
  /\ UNCHANGED <<now, hashes, opens, pc, running, lastMark, timer, openTimer, lastOpen, crashes, faults, unseeded>>

Crash ==
  /\ pc # "down" /\ crashes < MaxCrashes
  /\ crashes' = crashes + 1
  /\ pc' = "down" /\ running' = FALSE /\ runs' = {} /\ lastMark' = None
  /\ timer' = NoPlan /\ openTimer' = NoPlan /\ lastOpen' = None
  /\ UNCHANGED <<now, hashes, rounds, opens, asked, faults, unseeded>>

\* Time passes when no timer is due, no step of the boot is under way and no
\* round has taken its time.
Pass ==
  /\ now < MaxTime
  /\ pc \notin {"listening", "seed", "resume"}
  /\ timer.at # now /\ openTimer.at # now
  /\ \A run \in runs : now - run.since < Longest
  /\ now' = now + 1
  /\ UNCHANGED <<hashes, rounds, opens, process, upsets>>

Next ==
  \/ Listen \/ Start \/ Seed \/ Resume \/ OnTick \/ OnOpenTick \/ Crash \/ Pass
  \/ \E resume \in BOOLEAN : Admin(resume) \/ Direct(resume)
  \/ \E run \in runs : Read(run) \/ Finish(run) \/ Throw(run)

Spec == Init /\ [][Next]_vars

-----------------------------------------------------------------------------
(* Properties.                                                             *)

\* A mark is run once: the timer opens no second round for a mark, whatever the
\* jitter made of the clock and whenever the process was restarted.  "A restart
\* must not re-run a mark this keeper already handled" (scheduler.js:362): so it is
\* as long as a boot can read the latest round, and that is not an operator's.
MarkRunsOnce ==
  (asked = 0 /\ ~unseeded) \/ crashes = 0 => \A i, j \in DOMAIN rounds :
    rounds[i].by = "tick" /\ rounds[j].by = "tick" /\ rounds[i].at = rounds[j].at => i = j

\* The scheduler never runs two rounds at the same time, by its timers, the boot and the
\* operator together: they would spend the vault's one balance.  A round the operator
\* starts while there is no keeper is not the scheduler's.
OneRoundAtATime == Cardinality({run \in runs : run.by \in Flagged}) <= 1

\* "An operator's round and a scheduled one can never overlap" (index.js:278).  The code does
\* not keep this: a round run by Direct goes on when the keeper starts.
NoRoundsOverlap == Cardinality(runs) <= 1

\* A keeper whose flow waits for a round has one: no path of execute leaves it
\* up with neither a round in flight nor a timer, which nothing would wake.
NeverStuck == pc = "running" => \E run \in runs : run.by \in Flow

\* "The window is capped at I/4, so it can never land outside its own cycle or
\* after the close" (CONTRACT.md:355): a round's close is read after its open.
OpenBeforeClose ==
  \A i \in DOMAIN rounds : \A o \in opens :
    rounds[i].by = "tick" /\ rounds[i].at = o.mark /\ rounds[i].read # None => o.at <= rounds[i].read

\* The marks, so far, whose latest moment is past and for which no round was opened.
Lost == {m \in Mark : /\ \A j \in Jitters : now > m + j + Longest
                      /\ \A i \in DOMAIN rounds : rounds[i].at # m}

\* While the process stays up and nobody else runs a round, a mark is lost only to a failure
\* of the store, and a failure costs one mark at most: that of a round which could not be
\* opened, or the next one's, whose turn goes to the round that was left unfinished.  "Keep
\* the scheduler alive and try the next mark" (scheduler.js:239).
EveryMarkIsRun == crashes = 0 /\ asked = 0 /\ pc # "off" => Cardinality(Lost) <= faults

-----------------------------------------------------------------------------
(* The inductive invariant behind OneRoundAtATime, NeverStuck, MarkRunsOnce *)
(* and OpenBeforeClose; and with PassedInv, EveryMarkIsRun.                *)

\* The flag is up exactly while a round is run that holds it, there is at most one, the
\* keeper's flow waits for its own, and it has a timer only once it has scheduled.
FlowInv ==
  /\ running <=> \E run \in runs : run.by \in Flagged
  /\ \A a, b \in runs : a.by \in Flagged /\ b.by \in Flagged => a = b
  /\ NeverStuck /\ \A run \in runs : run.by \in Flow => pc = "running"
  /\ pc \in {"down", "listening", "off", "seed", "resume"} => timer = NoPlan

\* The marks run so far are behind the last one handled, and that is behind the
\* one the timer is set for; a process that has not read the rounds back yet
\* has run none of them.
MarksInv ==
  (asked = 0 /\ ~unseeded) \/ crashes = 0 =>
    /\ \A i, j \in DOMAIN rounds :
         rounds[i].by = "tick" /\ rounds[j].by = "tick" /\ i < j => rounds[i].at < rounds[j].at
    /\ asked = 0 => \A i \in DOMAIN rounds : rounds[i].by = "tick"
    /\ \A i \in DOMAIN rounds : rounds[i].by = "tick" =>
         IF pc \in {"down", "listening", "off", "seed"} THEN crashes > 0 ELSE rounds[i].at <= lastMark
    /\ timer # NoPlan => lastMark < timer.mark

\* Nothing is handled before its moment: a mark by its jitter, an open by its offset.
MomentsInv ==
  /\ lastMark <= now + Interval
  /\ timer # NoPlan => timer.mark + jitterFor[timer.mark] <= timer.at
  /\ openTimer # NoPlan => openTimer = PlanOpen(openTimer.mark)
  /\ \A o \in opens : o = PlanOpen(o.mark)
  /\ \A i \in DOMAIN rounds :
       /\ rounds[i].at <= now + Interval
       /\ rounds[i].by = "tick" =>
            /\ rounds[i].at \in Mark /\ rounds[i].at + jitterFor[rounds[i].at] <= now
            /\ rounds[i].read # None => rounds[i].at + jitterFor[rounds[i].at] <= rounds[i].read

IInv == TypeOK /\ FlowInv /\ MarksInv /\ MomentsInv

\* A round of one mark is over when the next mark comes, and takes no longer than
\* from mark to mark (the -1), so that it never holds the next one up.  With longer
\* rounds, or a jitter as wide as the interval, onTick passes marks over.
RoundsEndInTime ==
  \A m, n \in Mark, j \in Jitters \cup {-1} : m < n => m + j + Longest < n

\* The marks behind the last one for which no round was opened; and the rounds left unfinished.
Behind    == {m \in Mark : m <= lastMark /\ \A i \in DOMAIN rounds : rounds[i].at # m}
Abandoned == {i \in Unfinished : \A run \in runs : run.round # i}

\* Every one of them was paid for by a failure of the store.
Paid == Cardinality(Behind) + (IF Abandoned = {} THEN 0 ELSE 1) <= faults

\* While nothing crashed and nobody asked: every failure has cost a mark behind the last one,
\* or left a round that will cost the next one; and before the timer's mark there is none but
\* those behind.
PassedInv ==
  crashes = 0 /\ asked = 0 /\ pc # "off" =>
    /\ pc # "down" /\ \A run \in runs : run.by \in Flow
    /\ pc \in {"listening", "seed", "resume"} => now = 0 /\ lastMark = None /\ rounds = <<>>
    /\ (\A i, j \in Unfinished : i = j) /\ Paid
    /\ pc = "armed" =>
         /\ timer # NoPlan /\ \A m \in Mark : m < timer.mark => m <= lastMark
         /\ \E j \in Jitters : timer.at <= timer.mark + j
    /\ \A run \in runs : /\ lastMark \in Mark /\ now - run.since <= Longest
                         /\ \E j \in Jitters : run.since <= lastMark + j
=============================================================================
