---------------------------- MODULE KeeperProofs ----------------------------
(***************************************************************************)
(* What Scheduler promises, for every interval, day, jitter, window and    *)
(* any number of rounds, crashes, operator's rounds and failures of the    *)
(* store; and what CycleSnapshots promises, for every number of rounds and *)
(* readings, every calendar of marks and any number of failed SNAPSHOT     *)
(* steps and failed reads.  The second assumes that the open timer of the  *)
(* next cycle does not run during a round (~Overlap).  Nothing in          *)
(* runner.js sees to it; the schedule does, when a round ends before the   *)
(* next cycle's open.                                                      *)
(***************************************************************************)
EXTENDS Scheduler, CycleSnapshots, FiniteSetTheorems, SequenceTheorems, WellFoundedInduction, TLAPS


-----------------------------------------------------------------------------
(* Marks and plans.                                                        *)

\* How division rounds.
LEMMA Division ==
  ASSUME NEW a \in Nat, NEW d \in Nat \ {0}
  PROVE  /\ a \div d \in Nat
         /\ (a \div d) * d <= a
         /\ a < (a \div d) * d + d
  OBVIOUS

\* The next mark is after its moment, and at most an interval away.
LEMMA NextMarkIsAhead ==
  ASSUME NEW t \in Nat
  PROVE  NextMark(t) \in Nat /\ t < NextMark(t) /\ NextMark(t) <= t + Interval
  <1> DEFINE start == (t \div Day) * Day
  <1> DEFINE into == t - start
  <1> DEFINE ends == (into \div Interval) * Interval
  <1>1. start \in Nat /\ start <= t /\ t < start + Day
    BY Division, IntervalAssumption
  <1>2. into \in Nat
    BY <1>1
  <1>3. ends \in Nat /\ ends <= into /\ into < ends + Interval
    BY <1>2, Division, IntervalAssumption
  <1>4. (into \div Interval + 1) * Interval = ends + Interval
    BY <1>2, Division, IntervalAssumption
  <1>5. NextMark(t) = Least(start + (ends + Interval), start + Day)
    BY <1>4 DEF NextMark
  <1> HIDE DEF start, into, ends
  <1>6. into = t - start
    BY DEF into
  <1>7. QED
    BY <1>1, <1>3, <1>5, <1>6, IntervalAssumption DEF Least

\* The marks are numbers, and the next mark of every moment that is used is one.
LEMMA Marks ==
  /\ \A m \in Mark : m \in Nat /\ m <= MaxTime + 2 * Interval
  /\ \A t \in 0 .. MaxTime + Interval : NextMark(t) \in Mark
  BY NextMarkIsAhead, IntervalAssumption, BoundsAssumption DEF Mark

\* The window is never longer than the interval.
LEMMA WindowIsBounded ==
  Window \in Nat /\ Window <= Interval /\ Greatest(Window - 1, 0) \in 0 .. Interval
  <1>1. Interval \div 4 \in Nat /\ Interval \div 4 <= Interval
    BY IntervalAssumption
  <1>2. Window \in Nat /\ Window <= Interval
    BY <1>1, ConfigAssumption, IntervalAssumption DEF Window, Least
  <1>3. QED
    BY <1>2, IntervalAssumption DEF Greatest

\* What the ids of the rounds hash to.
LEMMA Hashes ==
  ASSUME TypeOK, NEW m \in Mark
  PROVE  /\ jitterFor[m] \in Jitters /\ jitterFor[m] \in Int
         /\ -Interval <= jitterFor[m] /\ jitterFor[m] <= Interval
         /\ openOffsetFor[m] \in 0 .. Greatest(Window - 1, 0)
         /\ openOffsetFor[m] \in Nat /\ openOffsetFor[m] <= Interval
  <1>1. jitterFor[m] \in Jitters /\ openOffsetFor[m] \in 0 .. Greatest(Window - 1, 0)
    BY DEF TypeOK
  <1>2. jitterFor[m] \in -Interval .. Interval
    BY <1>1, ConfigAssumption
  <1>3. Interval \in Nat /\ Greatest(Window - 1, 0) \in Nat /\ Greatest(Window - 1, 0) <= Interval
    BY WindowIsBounded, IntervalAssumption
  <1>4. QED
    BY <1>1, <1>2, <1>3

\* planNext: the plan is for a mark after the last one, and fires neither in the
\* past nor before the mark's jittered moment.
LEMMA PlanIsAhead ==
  ASSUME TypeOK, NEW t \in Time, NEW after \in {None} \cup 0 .. MaxTime + Interval
  PROVE  /\ PlanNext(t, after) \in Plan /\ PlanNext(t, after) # NoPlan
         /\ after < PlanNext(t, after).mark
         /\ t <= PlanNext(t, after).at
         /\ PlanNext(t, after).mark + jitterFor[PlanNext(t, after).mark] <= PlanNext(t, after).at
  <1> DEFINE mark == IF after # None /\ NextMark(t) <= after THEN NextMark(after) ELSE NextMark(t)
  <1>1. t \in Nat /\ t <= MaxTime /\ t \in 0 .. MaxTime + Interval
    BY IntervalAssumption, BoundsAssumption DEF Time
  <1>2. mark \in Mark /\ mark \in Nat /\ mark <= MaxTime + 2 * Interval
    BY <1>1, Marks DEF None
  <1>3. after < mark
    <2>1. CASE after = None
      BY <1>2, <2>1 DEF None
    <2>2. CASE after # None
      <3>1. after \in Nat
        BY <2>2, IntervalAssumption, BoundsAssumption
      <3>2. QED
        BY <1>1, <2>2, <3>1, NextMarkIsAhead
    <2>3. QED
      BY <2>1, <2>2
  <1>4. PlanNext(t, after) = [mark |-> mark, at |-> Greatest(mark + jitterFor[mark], t)]
    BY DEF PlanNext
  <1> HIDE DEF mark
  <1>5. jitterFor[mark] \in Int /\ -Interval <= jitterFor[mark] /\ jitterFor[mark] <= Interval
    BY <1>2, Hashes
  <1> DEFINE at == Greatest(mark + jitterFor[mark], t)
  <1>6. at \in -Interval .. MaxTime + 3 * Interval /\ t <= at /\ mark + jitterFor[mark] <= at
    BY <1>1, <1>2, <1>5, IntervalAssumption, BoundsAssumption DEF Greatest
  <1> HIDE DEF at
  <1>7. PlanNext(t, after) = [mark |-> mark, at |-> at]
    BY <1>4 DEF at
  <1>8. [mark |-> mark, at |-> at] \in Plan /\ mark # None
    BY <1>2, <1>6 DEF Plan, None
  <1>9. QED
    BY <1>3, <1>6, <1>7, <1>8 DEF NoPlan

\* planOpenSnapshot: the plan of an open.
LEMMA OpenPlanIsAPlan ==
  ASSUME TypeOK, NEW m \in Mark
  PROVE  PlanOpen(m) \in Plan /\ PlanOpen(m).mark = m
  <1>1. m \in Nat /\ m <= MaxTime + 2 * Interval /\ openOffsetFor[m] \in Nat /\ openOffsetFor[m] <= Interval
    BY Marks, Hashes
  <1>2. m - Interval + openOffsetFor[m] \in -Interval .. MaxTime + 3 * Interval
    BY <1>1, IntervalAssumption, BoundsAssumption
  <1>3. QED
    BY <1>2 DEF PlanOpen, Plan

\* scheduleOpen: the timer of the open is off, or set for the mark's own open.
LEMMA ArmedOpen ==
  ASSUME TypeOK, NEW m \in Mark, ArmOpen(m)
  PROVE  openTimer' = NoPlan \/ (openTimer' = PlanOpen(m) /\ openTimer' \in Plan /\ openTimer'.at >= now)
  <1>1. PlanOpen(m) \in Plan
    BY OpenPlanIsAPlan
  <1>2. PlanOpen(m).at \in Int /\ now \in Int
    BY <1>1, IntervalAssumption, BoundsAssumption DEF Plan, TypeOK, Time
  <1>3. QED
    BY <1>1, <1>2 DEF ArmOpen

\* What is handled is not more than an interval ahead of the clock.
LEMMA LastMarkIsNear ==
  TypeOK /\ MomentsInv => lastMark \in {None} \cup 0 .. MaxTime + Interval
  <1> SUFFICES ASSUME TypeOK, MomentsInv PROVE lastMark \in {None} \cup 0 .. MaxTime + Interval
    OBVIOUS
  <1>1. lastMark \in {None} \cup Nat /\ now \in Nat /\ now <= MaxTime
    BY Marks, BoundsAssumption DEF TypeOK, Time
  <1>2. QED
    BY <1>1, IntervalAssumption, BoundsAssumption DEF MomentsInv, None

\* schedule: the flow is armed for a mark after the last one.
LEMMA Scheduled ==
  ASSUME TypeOK, MomentsInv, Schedule
  PROVE  /\ pc' = "armed" /\ timer' \in Plan /\ timer' # NoPlan
         /\ lastMark < timer'.mark /\ now <= timer'.at
         /\ timer'.mark + jitterFor[timer'.mark] <= timer'.at
         /\ \/ openTimer' = NoPlan
            \/ openTimer' = PlanOpen(timer'.mark) /\ openTimer' \in Plan /\ openTimer'.at >= now
  <1>1. lastMark \in {None} \cup 0 .. MaxTime + Interval /\ now \in Time
    BY LastMarkIsNear DEF TypeOK
  <1>2. pc' = "armed" /\ timer' = PlanNext(now, lastMark) /\ ArmOpen(timer'.mark)
    BY DEF Schedule
  <1>3. timer' \in Plan /\ timer'.mark \in Mark
    BY <1>1, <1>2, PlanIsAhead DEF Plan
  <1>4. QED
    BY <1>1, <1>2, <1>3, PlanIsAhead, ArmedOpen

-----------------------------------------------------------------------------
(* Rounds.                                                                 *)

\* A set of numbers that is not empty has a least member.
LEMMA LeastNumber ==
  ASSUME NEW S \in SUBSET Nat, S # {}
  PROVE  \E m \in S : \A n \in S : m <= n
  <1> DEFINE R == OpToRel(<, Nat)
  <1>1. IsWellFoundedOn(R, Nat)
    BY NatLessThanWellFounded
  <1> HIDE DEF R
  <1>2. PICK m \in S : \A n \in S : <<n, m>> \notin R
    BY <1>1, WFMin
  <1>3. \A n \in S : ~(n < m)
    BY <1>2 DEF OpToRel, R
  <1>4. QED
    BY <1>2, <1>3

\* runRound finds the unfinished round it resumes.
LEMMA OldestIsThere ==
  ASSUME TypeOK, Unfinished # {}
  PROVE  Oldest \in DOMAIN rounds
  <1>1. Unfinished \subseteq DOMAIN rounds /\ DOMAIN rounds \subseteq Nat
    BY DEF Unfinished, TypeOK
  <1>2. \E i \in Unfinished : \A j \in Unfinished : i <= j
    BY <1>1, LeastNumber
  <1>3. QED
    BY <1>1, <1>2 DEF Oldest

\* runRound: one more run, of a round there is or of a new one at the end.
LEMMA RunsARound ==
  ASSUME TypeOK, NEW resume \in BOOLEAN, NEW at \in Time \cup Mark,
         NEW by \in {"tick", "admin"}, NEW as \in {"boot", "tick", "admin", "direct"},
         RunRound(resume, at, as), by = IF as = "tick" THEN "tick" ELSE "admin"
  PROVE  /\ \E r \in 1 .. Len(rounds') : runs' = runs \cup {[round |-> r, by |-> as, since |-> now]}
         /\ \/ rounds' = rounds
            \/ rounds' = Append(rounds, [at |-> at, by |-> by, read |-> None, done |-> FALSE])
  <1>1. CASE resume /\ Unfinished # {}
    <2>1. Oldest \in 1 .. Len(rounds)
      BY <1>1, OldestIsThere DEF TypeOK
    <2>2. rounds' = rounds /\ runs' = runs \cup {[round |-> Oldest, by |-> as, since |-> now]}
      BY <1>1 DEF RunRound
    <2>3. QED
      BY <2>1, <2>2
  <1>2. CASE ~(resume /\ Unfinished # {})
    <2>1. rounds' = Append(rounds, [at |-> at, by |-> by, read |-> None, done |-> FALSE])
      BY <1>2 DEF RunRound
    <2>2. Len(rounds') = Len(rounds) + 1 /\ Len(rounds) \in Nat
      BY <2>1 DEF TypeOK
    <2>3. runs' = runs \cup {[round |-> Len(rounds) + 1, by |-> as, since |-> now]}
      BY <1>2 DEF RunRound
    <2>4. Len(rounds) + 1 \in 1 .. Len(rounds')
      BY <2>2
    <2>5. QED
      BY <2>1, <2>3, <2>4
  <1>3. QED
    BY <1>1, <1>2

\* The rounds that are kept stay rounds, and the runs stay runs, when one is added.
LEMMA RoundsKeepTheirTypes ==
  ASSUME TypeOK, NEW at \in Time \cup Mark, NEW by \in {"tick", "admin"}, NEW as \in {"boot", "tick", "admin", "direct"},
         \E r \in 1 .. Len(rounds') : runs' = runs \cup {[round |-> r, by |-> as, since |-> now]},
         \/ rounds' = rounds
         \/ rounds' = Append(rounds, [at |-> at, by |-> by, read |-> None, done |-> FALSE])
  PROVE  rounds' \in Seq(Round) /\ runs' \subseteq Run'
  <1>1. [at |-> at, by |-> by, read |-> None, done |-> FALSE] \in Round
    BY DEF Round
  <1>2. rounds' \in Seq(Round) /\ Len(rounds') \in Nat /\ Len(rounds) <= Len(rounds') /\ Len(rounds) \in Nat
    BY <1>1 DEF TypeOK
  <1>3. runs \subseteq Run'
    BY <1>2 DEF TypeOK, Run
  <1>4. \A r \in 1 .. Len(rounds') : [round |-> r, by |-> as, since |-> now] \in Run'
    BY DEF Run, TypeOK
  <1>5. QED
    BY <1>2, <1>3, <1>4

\* A round in flight is read or finished: it keeps its time and who opened it.
LEMMA RoundsMoveOn ==
  ASSUME TypeOK, NEW run \in runs, NEW value \in Round,
         rounds' = [rounds EXCEPT ![run.round] = value], runs' \subseteq runs
  PROVE  /\ rounds' \in Seq(Round) /\ runs' \subseteq Run' /\ DOMAIN rounds' = DOMAIN rounds
         /\ run.round \in DOMAIN rounds /\ rounds'[run.round] = value
         /\ \A i \in DOMAIN rounds : i # run.round => rounds'[i] = rounds[i]
  <1>1. run.round \in 1 .. Len(rounds) /\ rounds \in Seq(Round)
    BY DEF TypeOK, Run
  <1>2. rounds' \in Seq(Round) /\ Len(rounds') = Len(rounds)
        /\ \A i \in 1 .. Len(rounds) : rounds'[i] = IF i = run.round THEN value ELSE rounds[i]
    BY <1>1, ExceptSeq
  <1>3. DOMAIN rounds' = 1 .. Len(rounds') /\ DOMAIN rounds = 1 .. Len(rounds)
    BY <1>1, <1>2
  <1>4. Run' = Run
    BY <1>2 DEF Run
  <1>5. QED
    BY <1>1, <1>2, <1>3, <1>4 DEF TypeOK

-----------------------------------------------------------------------------
(* Steps.                                                                  *)

\* Every step of the system is one of these.
LEMMA NextCases ==
  [Next]_vars <=>
    \/ Listen \/ Start \/ Seed \/ Resume \/ OnTick \/ OnOpenTick \/ Crash \/ Pass
    \/ \E resume \in BOOLEAN : Admin(resume)
    \/ \E resume \in BOOLEAN : Direct(resume)
    \/ \E run \in runs : Read(run)
    \/ \E run \in runs : Finish(run)
    \/ \E run \in runs : Throw(run)
    \/ UNCHANGED vars
  BY DEF Next

\* A failure, or an operator's round, uses up one of those there may be.
LEMMA Upsets ==
  ASSUME TypeOK
  PROVE  /\ asked \in Nat /\ faults \in Nat /\ crashes \in Nat
         /\ Upset => asked + 1 \in 0 .. MaxUpsets /\ faults + 1 \in 0 .. MaxUpsets
  <1>1. asked \in 0 .. MaxUpsets /\ faults \in 0 .. MaxUpsets /\ crashes \in 0 .. MaxCrashes
    BY DEF TypeOK
  <1>2. asked \in Nat /\ faults \in Nat /\ crashes \in Nat /\ MaxUpsets \in Nat
    BY <1>1, BoundsAssumption
  <1>3. QED
    BY <1>1, <1>2 DEF Upset

\* resumePending: a round is finished first, or the next one is scheduled.
LEMMA ResumeCases ==
  ASSUME TypeOK, Resume
  PROVE  /\ pc = "resume" /\ UNCHANGED <<now, hashes, opens, lastMark, lastOpen, crashes, asked, unseeded>>
         /\ faults' \in {faults, faults + 1} /\ faults' \in 0 .. MaxUpsets
         /\ \/ Schedule /\ UNCHANGED <<running, runs, rounds>>
            \/ /\ pc' = "running" /\ ~running /\ running' = TRUE
               /\ rounds' = rounds /\ UNCHANGED <<timer, openTimer, faults>>
               /\ \E r \in 1 .. Len(rounds') : runs' = runs \cup {[round |-> r, by |-> "boot", since |-> now]}
  <1>0. pc = "resume" /\ UNCHANGED <<now, hashes, opens, lastMark, lastOpen, crashes, asked, unseeded>>
        /\ faults \in 0 .. MaxUpsets
    BY DEF Resume, TypeOK
  <1>1. CASE Unfinished = {} /\ Schedule /\ UNCHANGED <<running, runs, rounds, faults>>
    BY <1>0, <1>1
  <1>2. CASE Unfinished # {} /\ Busy /\ Schedule
    BY <1>0, <1>2 DEF Busy
  <1>3. CASE StoreFails /\ Schedule /\ UNCHANGED <<running, runs, rounds>>
    BY <1>0, <1>3, Upsets DEF StoreFails
  <1>4. CASE Unfinished # {} /\ Execute(TRUE, now, "boot") /\ pc' = "running" /\ UNCHANGED <<timer, openTimer>>
    <2>1. rounds' = rounds /\ RunRound(TRUE, now, "boot")
      BY <1>4 DEF Execute, RunRound
    <2>2. \E r \in 1 .. Len(rounds') : runs' = runs \cup {[round |-> r, by |-> "boot", since |-> now]}
      <3>1. Oldest \in 1 .. Len(rounds)
        BY <1>4, OldestIsThere DEF TypeOK
      <3>2. QED
        BY <1>4, <2>1, <3>1 DEF RunRound
    <2>3. QED
      BY <1>0, <1>4, <2>1, <2>2 DEF Execute
  <1>5. QED
    BY <1>1, <1>2, <1>3, <1>4 DEF Resume

\* onTick: the mark's round is run, or, with one in flight already or one that cannot
\* be opened, only the next mark is planned.
LEMMA TickCases ==
  ASSUME TypeOK, FlowInv, MomentsInv, OnTick
  PROVE  /\ pc = "armed" /\ timer # NoPlan /\ timer.at = now /\ lastMark' = timer.mark
         /\ timer.mark \in Mark /\ timer.mark \in 0 .. now + Interval
         /\ UNCHANGED <<now, hashes, opens, lastOpen, crashes, asked, unseeded>>
         /\ faults' \in 0 .. MaxUpsets
         /\ \/ /\ pc' = "running" /\ ~running /\ running' = TRUE
               /\ timer' = NoPlan /\ UNCHANGED <<openTimer, faults>>
               /\ \E r \in 1 .. Len(rounds') : runs' = runs \cup {[round |-> r, by |-> "tick", since |-> now]}
               /\ \/ rounds' = rounds
                  \/ rounds' = Append(rounds, [at |-> timer.mark, by |-> "tick", read |-> None, done |-> FALSE])
            \/ /\ pc' = "armed" /\ UNCHANGED <<running, runs, rounds>>
               /\ (running /\ faults' = faults) \/ faults' = faults + 1
               /\ timer' \in Plan /\ timer' # NoPlan
               /\ lastMark' < timer'.mark /\ now <= timer'.at
               /\ timer'.mark + jitterFor[timer'.mark] <= timer'.at
               /\ \/ openTimer' = NoPlan
                  \/ openTimer' = PlanOpen(timer'.mark) /\ openTimer' \in Plan /\ openTimer'.at >= now
  <1>1. pc = "armed" /\ timer.at = now /\ lastMark' = timer.mark
        /\ UNCHANGED <<now, hashes, opens, lastOpen, crashes, asked, unseeded>>
        /\ faults \in 0 .. MaxUpsets
    BY DEF OnTick, TypeOK
  <1>2. timer # NoPlan /\ timer \in Plan
    BY <1>1, BoundsAssumption DEF TypeOK, NoPlan, Time, None
  <1>3. timer.mark \in Mark
    BY <1>2 DEF Plan
  <1>4. timer.mark \in 0 .. now + Interval
    <2>1. timer.mark + jitterFor[timer.mark] <= now
      BY <1>1, <1>2 DEF MomentsInv
    <2>2. now \in Nat
      BY BoundsAssumption DEF TypeOK, Time
    <2>3. QED
      BY <1>3, <2>1, <2>2, Hashes, Marks, IntervalAssumption
  <1>5. CASE Execute(TRUE, timer.mark, "tick") /\ pc' = "running" /\ timer' = NoPlan /\ UNCHANGED openTimer
    <2>1. RunRound(TRUE, timer.mark, "tick") /\ ~running /\ running' = TRUE
      BY <1>5 DEF Execute
    <2>2. faults' = faults
      BY <1>5 DEF Execute
    <2>3. QED
      BY <1>1, <1>2, <1>3, <1>4, <1>5, <2>1, <2>2, RunsARound
  <1>6. CASE (Busy \/ ExecuteInVain) /\ timer' = PlanNext(now, timer.mark) /\ ArmOpen(timer'.mark) /\ UNCHANGED pc
    <2>1. now \in Time /\ now \in Nat /\ now <= MaxTime
      BY BoundsAssumption DEF TypeOK, Time
    <2>2. timer.mark \in {None} \cup 0 .. MaxTime + Interval
      BY <1>4, <2>1, BoundsAssumption, IntervalAssumption
    <2>3. timer' \in Plan /\ timer' # NoPlan /\ timer.mark < timer'.mark /\ now <= timer'.at
          /\ timer'.mark + jitterFor[timer'.mark] <= timer'.at
      BY <1>6, <2>1, <2>2, PlanIsAhead
    <2>4. timer'.mark \in Mark
      BY <2>3 DEF Plan
    <2>5. \/ openTimer' = NoPlan
          \/ openTimer' = PlanOpen(timer'.mark) /\ openTimer' \in Plan /\ openTimer'.at >= now
      BY <1>6, <2>4, ArmedOpen
    <2>6. /\ UNCHANGED <<running, runs, rounds>> /\ faults' \in 0 .. MaxUpsets
          /\ (running /\ faults' = faults) \/ faults' = faults + 1
      BY <1>1, <1>6, Upsets DEF Busy, ExecuteInVain, StoreFails
    <2>7. QED
      BY <1>1, <1>2, <1>3, <1>4, <1>6, <2>3, <2>5, <2>6
  <1>7. QED
    BY <1>5, <1>6 DEF OnTick

\* The operator's round.
LEMMA AdminCases ==
  ASSUME TypeOK, NEW resume \in BOOLEAN, Admin(resume)
  PROVE  /\ pc \notin {"down", "listening", "off"} /\ ~running /\ running' = TRUE
         /\ asked' = asked + 1 /\ asked' \in 0 .. MaxUpsets
         /\ UNCHANGED <<now, hashes, opens, pc, lastMark, timer, openTimer, lastOpen, crashes, faults, unseeded>>
         /\ \E r \in 1 .. Len(rounds') : runs' = runs \cup {[round |-> r, by |-> "admin", since |-> now]}
         /\ \/ rounds' = rounds
            \/ rounds' = Append(rounds, [at |-> now, by |-> "admin", read |-> None, done |-> FALSE])
  <1>1. RunRound(resume, now, "admin") /\ now \in Time \cup Mark
    BY DEF Admin, Execute, TypeOK
  <1>2. asked' = asked + 1 /\ asked' \in 0 .. MaxUpsets
    BY Upsets DEF Admin
  <1>3. QED
    BY <1>1, <1>2, RunsARound DEF Admin, Execute

\* The operator's round without a keeper.
LEMMA DirectCases ==
  ASSUME TypeOK, NEW resume \in BOOLEAN, Direct(resume)
  PROVE  /\ pc \in {"listening", "off"} /\ asked' = asked + 1 /\ asked' \in 0 .. MaxUpsets
         /\ UNCHANGED <<now, hashes, opens, pc, running, lastMark, timer, openTimer, lastOpen, crashes, faults, unseeded>>
         /\ \E r \in 1 .. Len(rounds') : runs' = runs \cup {[round |-> r, by |-> "direct", since |-> now]}
         /\ \/ rounds' = rounds
            \/ rounds' = Append(rounds, [at |-> now, by |-> "admin", read |-> None, done |-> FALSE])
  <1>1. RunRound(resume, now, "direct") /\ now \in Time \cup Mark
    BY DEF Direct, TypeOK
  <1>2. asked' = asked + 1 /\ asked' \in 0 .. MaxUpsets
    BY Upsets DEF Direct
  <1>3. QED
    BY <1>1, <1>2, RunsARound DEF Direct

\* The SNAPSHOT of a round in flight notes the time and nothing else.
LEMMA ReadCases ==
  ASSUME TypeOK, NEW run \in runs, Read(run)
  PROVE  /\ UNCHANGED <<now, hashes, opens, process, upsets>>
         /\ rounds' \in Seq(Round) /\ runs' \subseteq Run' /\ DOMAIN rounds' = DOMAIN rounds
         /\ \A i \in DOMAIN rounds :
              /\ rounds'[i].at = rounds[i].at /\ rounds'[i].by = rounds[i].by
              /\ rounds'[i].read \in {rounds[i].read, now}
  <1>1. run.round \in DOMAIN rounds /\ rounds[run.round] \in Round /\ now \in Time
    BY DEF TypeOK, Run
  <1> DEFINE value == [rounds[run.round] EXCEPT !.read = now]
  <1>2. value \in Round /\ value.at = rounds[run.round].at /\ value.by = rounds[run.round].by /\ value.read = now
    BY <1>1 DEF Round
  <1>3. rounds' = [rounds EXCEPT ![run.round] = value] /\ runs' \subseteq runs
    BY DEF Read, process
  <1> HIDE DEF value
  <1>4. QED
    BY <1>1, <1>2, <1>3, RoundsMoveOn DEF Read

\* A round ends, and the keeper's flow schedules when it was its own.  Its document is
\* done, or stays as it is.
LEMMA EndsCases ==
  ASSUME TypeOK, NEW run \in runs, Finish(run) \/ Throw(run)
  PROVE  /\ UNCHANGED <<now, hashes, opens, lastMark, lastOpen, crashes, asked, unseeded>>
         /\ runs' = runs \ {run} /\ running' = (running /\ run.by \notin Flagged)
         /\ IF run.by \in Flow THEN Schedule ELSE UNCHANGED <<pc, timer, openTimer>>
         /\ rounds' \in Seq(Round) /\ runs' \subseteq Run' /\ DOMAIN rounds' = DOMAIN rounds
         /\ run.round \in DOMAIN rounds
         /\ \A i \in DOMAIN rounds :
              /\ rounds'[i].at = rounds[i].at /\ rounds'[i].by = rounds[i].by
              /\ rounds'[i].read = rounds[i].read
              /\ i # run.round => rounds'[i].done = rounds[i].done
         /\ faults' \in 0 .. MaxUpsets
         /\ \/ faults' = faults /\ rounds'[run.round].done
            \/ faults' = faults + 1 /\ rounds' = rounds
  <1>1. run.round \in DOMAIN rounds /\ rounds[run.round] \in Round /\ faults \in 0 .. MaxUpsets
    BY DEF TypeOK, Run
  <1>2. /\ UNCHANGED <<now, hashes, opens, lastMark, lastOpen, crashes, asked, unseeded>>
        /\ runs' = runs \ {run} /\ running' = (running /\ run.by \notin Flagged)
        /\ IF run.by \in Flow THEN Schedule ELSE UNCHANGED <<pc, timer, openTimer>>
    BY DEF Finish, Throw, Ends
  <1>3. CASE Finish(run)
    <2> DEFINE value == [rounds[run.round] EXCEPT !.done = TRUE]
    <2>1. /\ value \in Round /\ value.at = rounds[run.round].at /\ value.by = rounds[run.round].by
          /\ value.read = rounds[run.round].read /\ value.done
      BY <1>1 DEF Round
    <2>2. rounds' = [rounds EXCEPT ![run.round] = value] /\ runs' \subseteq runs /\ faults' = faults
      BY <1>2, <1>3 DEF Finish
    <2> HIDE DEF value
    <2>3. /\ rounds' \in Seq(Round) /\ runs' \subseteq Run' /\ DOMAIN rounds' = DOMAIN rounds
          /\ rounds'[run.round] = value
          /\ \A i \in DOMAIN rounds : i # run.round => rounds'[i] = rounds[i]
      BY <2>1, <2>2, RoundsMoveOn
    <2>4. QED
      BY <1>1, <1>2, <2>1, <2>2, <2>3
  <1>4. CASE Throw(run)
    <2>1. rounds' = rounds /\ faults' = faults + 1 /\ faults' \in 0 .. MaxUpsets
      BY <1>4, Upsets DEF Throw, StoreFails
    <2>2. rounds' \in Seq(Round) /\ runs' \subseteq Run'
      BY <1>2, <2>1 DEF TypeOK, Run
    <2>3. QED
      BY <1>1, <1>2, <2>1, <2>2
  <1>5. QED
    BY <1>3, <1>4

-----------------------------------------------------------------------------
(* Types.                                                                  *)

\* The first state is of its type.
LEMMA TypeInit ==
  Init => TypeOK
  <1> SUFFICES ASSUME Init PROVE TypeOK
    OBVIOUS
  <1>1. rounds \in Seq(Round) /\ runs \subseteq Run
    BY DEF Init
  <1>2. now \in Time /\ crashes \in 0 .. MaxCrashes /\ {asked, faults} \subseteq 0 .. MaxUpsets
    BY BoundsAssumption DEF Init, Time
  <1>3. QED
    BY <1>1, <1>2 DEF Init, TypeOK

\* Every step keeps every variable in its type, and no timer is missed.
LEMMA TypeStep ==
  TypeOK /\ FlowInv /\ MomentsInv /\ [Next]_vars => TypeOK'
  <1> SUFFICES ASSUME TypeOK, FlowInv, MomentsInv, [Next]_vars PROVE TypeOK'
    OBVIOUS
  <1> USE BoundsAssumption
<1>1. CASE Listen \/ Start
  BY <1>1 DEF Listen, Start, TypeOK, hashes, process, upsets, Run
<1>2. CASE Seed
  <2>1. lastMark' \in {None} \cup Time \cup Mark
    <3>1. CASE rounds = <<>> \/ UNCHANGED lastMark
      BY <1>2, <3>1 DEF Seed, TypeOK
    <3>2. CASE rounds # <<>> /\ lastMark' # lastMark
      <4>1. rounds[Len(rounds)] \in Round
        BY <3>2 DEF TypeOK
      <4>2. QED
        BY <1>2, <3>2, <4>1 DEF Seed, Round
    <3>3. QED
      BY <3>1, <3>2
  <2>2. faults' \in 0 .. MaxUpsets /\ unseeded' \in BOOLEAN
    BY <1>2, Upsets DEF Seed, StoreFails, TypeOK
  <2>3. QED
    BY <1>2, <2>1, <2>2 DEF Seed, TypeOK, hashes, Run
<1>3. CASE Resume
  <2>1. CASE Schedule /\ UNCHANGED <<running, runs, rounds>>
    BY <1>3, <2>1, ResumeCases, Scheduled DEF TypeOK, hashes, Run
  <2>2. CASE /\ pc' = "running" /\ running' = TRUE /\ rounds' = rounds /\ UNCHANGED <<timer, openTimer>>
             /\ \E r \in 1 .. Len(rounds') : runs' = runs \cup {[round |-> r, by |-> "boot", since |-> now]}
    <3>1. PICK r \in 1 .. Len(rounds') : runs' = runs \cup {[round |-> r, by |-> "boot", since |-> now]}
      BY <2>2
    <3>2. [round |-> r, by |-> "boot", since |-> now] \in Run'
      BY DEF Run, TypeOK
    <3>3. runs' \subseteq Run'
      BY <2>2, <3>1, <3>2 DEF Run, TypeOK
    <3>4. QED
      BY <1>3, <2>2, <3>3, ResumeCases DEF TypeOK, hashes
  <2>3. QED
    BY <1>3, <2>1, <2>2, ResumeCases
<1>4. CASE OnTick
  <2>1. CASE /\ pc' = "running" /\ running' = TRUE /\ timer' = NoPlan /\ UNCHANGED openTimer
             /\ \E r \in 1 .. Len(rounds') : runs' = runs \cup {[round |-> r, by |-> "tick", since |-> now]}
             /\ \/ rounds' = rounds
                \/ rounds' = Append(rounds, [at |-> timer.mark, by |-> "tick", read |-> None, done |-> FALSE])
    <3>1. rounds' \in Seq(Round) /\ runs' \subseteq Run'
      BY <1>4, <2>1, TickCases, RoundsKeepTheirTypes
    <3>2. QED
      BY <1>4, <2>1, <3>1, TickCases DEF TypeOK, hashes
  <2>2. CASE /\ pc' = "armed" /\ UNCHANGED <<running, runs, rounds>>
             /\ timer' \in Plan /\ now <= timer'.at
             /\ \/ openTimer' = NoPlan
                \/ openTimer' \in Plan /\ openTimer'.at >= now
    BY <1>4, <2>2, TickCases DEF TypeOK, hashes, Run
  <2>3. QED
    BY <1>4, <2>1, <2>2, TickCases
<1>5. CASE OnOpenTick
  <2>1. openTimer.mark \in Mark /\ openTimer.at = now
    BY <1>5 DEF OnOpenTick, TypeOK, Plan
  <2>2. opens' \subseteq [mark : Mark, at : Time]
    BY <1>5, <2>1 DEF OnOpenTick, TypeOK
  <2>3. QED
    BY <1>5, <2>1, <2>2 DEF OnOpenTick, TypeOK, hashes, upsets, Run
<1>6. CASE Crash
  <2>1. crashes' \in 0 .. MaxCrashes
    <3>1. crashes < MaxCrashes /\ crashes' = crashes + 1
      BY <1>6 DEF Crash
    <3>2. MaxCrashes \in Nat /\ crashes \in 0 .. MaxCrashes
      BY DEF TypeOK
    <3>3. QED
      BY <3>1, <3>2
  <2>2. QED
    BY <1>6, <2>1 DEF Crash, TypeOK, hashes
<1>7. CASE Pass
  <2>1. now' = now + 1 /\ now' \in Time
    BY <1>7 DEF Pass, TypeOK, Time
  <2>2. timer # NoPlan => timer.at >= now'
    BY <1>7, <2>1, IntervalAssumption DEF Pass, TypeOK, Time, Plan
  <2>3. openTimer # NoPlan => openTimer.at >= now'
    BY <1>7, <2>1, IntervalAssumption DEF Pass, TypeOK, Time, Plan
  <2>4. QED
    BY <1>7, <2>1, <2>2, <2>3 DEF Pass, TypeOK, hashes, process, upsets, Run
<1>8. ASSUME NEW resume \in BOOLEAN, Admin(resume) PROVE TypeOK'
  <2>1. rounds' \in Seq(Round) /\ runs' \subseteq Run'
    BY <1>8, AdminCases, RoundsKeepTheirTypes DEF TypeOK
  <2>2. QED
    BY <1>8, <2>1, AdminCases DEF TypeOK, hashes
<1>9. ASSUME NEW resume \in BOOLEAN, Direct(resume) PROVE TypeOK'
  <2>1. rounds' \in Seq(Round) /\ runs' \subseteq Run'
    BY <1>9, DirectCases, RoundsKeepTheirTypes DEF TypeOK
  <2>2. QED
    BY <1>9, <2>1, DirectCases DEF TypeOK, hashes
<1>10. ASSUME NEW run \in runs, Read(run) PROVE TypeOK'
  BY <1>10, ReadCases DEF TypeOK, hashes, process, upsets
<1>11. ASSUME NEW run \in runs, Finish(run) \/ Throw(run) PROVE TypeOK'
  <2>0. running' \in BOOLEAN
    BY <1>11, EndsCases
  <2>1. CASE UNCHANGED <<pc, timer, openTimer>>
    BY <1>11, <2>0, <2>1, EndsCases DEF TypeOK, hashes
  <2>2. CASE Schedule
    BY <1>11, <2>0, <2>2, EndsCases, Scheduled DEF TypeOK, hashes
  <2>3. QED
    BY <1>11, <2>1, <2>2, EndsCases
<1>12. CASE UNCHANGED vars
  BY <1>12 DEF vars, TypeOK, hashes, process, Run
<1>13. QED
  BY NextCases, <1>1, <1>2, <1>3, <1>4, <1>5, <1>6, <1>7, <1>8, <1>9, <1>10, <1>11, <1>12

-----------------------------------------------------------------------------
(* One flow.                                                               *)

\* A run that holds the flag, begun while no other does, is the only one.
LEMMA FlaggedRun ==
  ASSUME FlowInv, ~running, running' = TRUE, NEW by \in Flagged,
         \E r \in 1 .. Len(rounds') : runs' = runs \cup {[round |-> r, by |-> by, since |-> now]},
         by \in Flow <=> pc' = "running",
         pc' \in {"down", "listening", "off", "seed", "resume"} => timer' = NoPlan
  PROVE  FlowInv'
  <1>1. PICK r \in 1 .. Len(rounds') : runs' = runs \cup {[round |-> r, by |-> by, since |-> now]}
    OBVIOUS
  <1> DEFINE new == [round |-> r, by |-> by, since |-> now]
  <1>2. new.by = by /\ new \in runs' /\ \A run \in runs' : run = new \/ run \in runs
    BY <1>1
  <1> HIDE DEF new
  <1>3. \A run \in runs : run.by \notin Flagged /\ run.by \notin Flow
    BY DEF FlowInv, Flagged
  <1>4. \A a, b \in runs' : a.by \in Flagged /\ b.by \in Flagged => a = b
    BY <1>2, <1>3
  <1>5. (\E run \in runs' : run.by \in Flow) <=> pc' = "running"
    BY <1>2, <1>3
  <1>6. \E run \in runs' : run.by \in Flagged
    BY <1>2
  <1>7. QED
    BY <1>4, <1>5, <1>6 DEF FlowInv, NeverStuck

\* The flag goes up with a run and down with it, so a second run finds it up;
\* and the flow that waits for a run is woken by its end.
LEMMA FlowStep ==
  TypeOK /\ FlowInv /\ MomentsInv /\ [Next]_vars => FlowInv'
  <1> SUFFICES ASSUME TypeOK, FlowInv, MomentsInv, [Next]_vars PROVE FlowInv'
    OBVIOUS
<1>1. CASE Listen \/ Start
  BY <1>1 DEF Listen, Start, FlowInv, NeverStuck
<1>2. CASE Seed
  BY <1>2 DEF Seed, FlowInv, NeverStuck, process
<1>3. CASE Resume
  <2>1. CASE Schedule /\ UNCHANGED <<running, runs, rounds>>
    BY <1>3, <2>1, ResumeCases, Scheduled DEF FlowInv, NeverStuck
  <2>2. CASE /\ ~running /\ pc' = "running" /\ running' = TRUE
             /\ \E r \in 1 .. Len(rounds') : runs' = runs \cup {[round |-> r, by |-> "boot", since |-> now]}
    BY <2>2, FlaggedRun DEF Flow, Flagged
  <2>3. QED
    BY <1>3, <2>1, <2>2, ResumeCases
<1>4. CASE OnTick
  <2>1. CASE /\ pc' = "running" /\ ~running /\ running' = TRUE
             /\ \E r \in 1 .. Len(rounds') : runs' = runs \cup {[round |-> r, by |-> "tick", since |-> now]}
    BY <2>1, FlaggedRun DEF Flow, Flagged
  <2>2. CASE pc' = "armed" /\ UNCHANGED <<running, runs>>
    BY <1>4, <2>2, TickCases DEF FlowInv, NeverStuck
  <2>3. QED
    BY <1>4, <2>1, <2>2, TickCases
<1>5. CASE OnOpenTick
  BY <1>5 DEF OnOpenTick, FlowInv, NeverStuck
<1>6. CASE Crash
  BY <1>6 DEF Crash, FlowInv, NeverStuck
<1>7. CASE Pass
  BY <1>7 DEF Pass, FlowInv, NeverStuck, process
<1>8. ASSUME NEW resume \in BOOLEAN, Admin(resume) PROVE FlowInv'
  <2>1. ~running /\ running' = TRUE /\ UNCHANGED <<pc, timer>>
        /\ \E r \in 1 .. Len(rounds') : runs' = runs \cup {[round |-> r, by |-> "admin", since |-> now]}
    BY <1>8, AdminCases
  <2>2. pc # "running"
    BY <2>1 DEF FlowInv, NeverStuck, Flagged
  <2>3. QED
    BY <2>1, <2>2, FlaggedRun DEF Flow, Flagged, FlowInv
<1>9. ASSUME NEW resume \in BOOLEAN, Direct(resume) PROVE FlowInv'
  <2>1. PICK r \in 1 .. Len(rounds') : runs' = runs \cup {[round |-> r, by |-> "direct", since |-> now]}
    BY <1>9, DirectCases
  <2>2. UNCHANGED <<pc, running, timer>>
    BY <1>9, DirectCases
  <2>3. \A run \in runs' : run.by \in Flagged => run \in runs
    BY <2>1 DEF Flow, Flagged
  <2>4. runs \subseteq runs' /\ Flow \subseteq Flagged
    BY <2>1 DEF Flagged
  <2>5. QED
    BY <2>2, <2>3, <2>4 DEF FlowInv, NeverStuck
<1>10. ASSUME NEW run \in runs, Read(run) PROVE FlowInv'
  BY <1>10, ReadCases DEF FlowInv, NeverStuck, process
<1>11. ASSUME NEW run \in runs, Finish(run) \/ Throw(run) PROVE FlowInv'
  <2>0. runs' = runs \ {run} /\ running' = (running /\ run.by \notin Flagged)
    BY <1>11, EndsCases
  <2>1. running' <=> \E other \in runs' : other.by \in Flagged
    BY <2>0, <1>11 DEF FlowInv
  <2>2. \A a, b \in runs' : a.by \in Flagged /\ b.by \in Flagged => a = b
    BY <2>0 DEF FlowInv
  <2>3. CASE run.by \in Flow
    <3>1. pc' = "armed" /\ \A other \in runs' : other.by \notin Flow
      BY <1>11, <2>0, <2>3, EndsCases, Scheduled DEF FlowInv, Flagged
    <3>2. QED
      BY <2>1, <2>2, <3>1 DEF FlowInv, NeverStuck
  <2>4. CASE run.by \notin Flow
    <3>1. UNCHANGED <<pc, timer>>
      BY <1>11, <2>4, EndsCases
    <3>2. QED
      BY <2>0, <2>1, <2>2, <2>4, <3>1 DEF FlowInv, NeverStuck
  <2>5. QED
    BY <2>3, <2>4
<1>12. CASE UNCHANGED vars
  BY <1>12 DEF vars, FlowInv, NeverStuck, process
<1>13. QED
  BY NextCases, <1>1, <1>2, <1>3, <1>4, <1>5, <1>6, <1>7, <1>8, <1>9, <1>10, <1>11, <1>12

-----------------------------------------------------------------------------
(* Marks.                                                                  *)

\* The times that are compared are numbers.
LEMMA Times ==
  ASSUME TypeOK
  PROVE  /\ now \in Nat /\ lastMark \in Int /\ DOMAIN rounds \subseteq Nat
         /\ \A i \in DOMAIN rounds : rounds[i] \in Round /\ rounds[i].at \in Nat /\ rounds[i].read \in Int
         /\ timer # NoPlan => timer.mark \in Mark /\ timer.mark \in Nat /\ timer.at \in Int
  <1>1. now \in Nat /\ lastMark \in Int
    BY Marks, BoundsAssumption DEF TypeOK, Time, None
  <1>2. \A i \in DOMAIN rounds : rounds[i] \in Round
    BY DEF TypeOK
  <1>3. \A r \in Round : r.at \in Nat /\ r.read \in Int
    BY Marks, BoundsAssumption DEF Round, Time, None
  <1>4. timer # NoPlan => timer.mark \in Mark /\ timer.at \in Int
    BY IntervalAssumption, BoundsAssumption DEF TypeOK, Plan
  <1>5. DOMAIN rounds \subseteq Nat
    BY DEF TypeOK
  <1>6. QED
    BY <1>1, <1>2, <1>3, <1>4, <1>5, Marks

\* A new round is the last one.
LEMMA RoundsGrow ==
  ASSUME TypeOK, NEW r, rounds' = Append(rounds, r)
  PROVE  /\ DOMAIN rounds' = DOMAIN rounds \cup {Len(rounds) + 1}
         /\ \A i \in DOMAIN rounds : rounds'[i] = rounds[i] /\ i < Len(rounds) + 1
         /\ rounds'[Len(rounds) + 1] = r /\ Len(rounds) \in Nat
  BY DEF TypeOK

\* A step that keeps who opened the rounds and for when keeps the order of their
\* marks.
LEMMA SameMarks ==
  ASSUME TypeOK, MarksInv, UNCHANGED <<asked, crashes, unseeded, lastMark>>,
         pc' \notin {"down", "listening", "off", "seed"} \/ pc' = pc,
         pc \notin {"down", "listening", "off", "seed"} \/ pc' = pc,
         DOMAIN rounds' = DOMAIN rounds,
         \A i \in DOMAIN rounds : rounds'[i].at = rounds[i].at /\ rounds'[i].by = rounds[i].by,
         timer' \in {timer, NoPlan} \/ lastMark < timer'.mark
  PROVE  MarksInv'
  BY DEF MarksInv

\* A mark is handled once: the timer's mark is after every mark that was run.
LEMMA MarksStep ==
  TypeOK /\ FlowInv /\ MarksInv /\ MomentsInv /\ [Next]_vars => MarksInv'
  <1> SUFFICES ASSUME TypeOK, FlowInv, MarksInv, MomentsInv, [Next]_vars PROVE MarksInv'
    OBVIOUS
<1>1. CASE Listen \/ Start
  BY <1>1 DEF Listen, Start, MarksInv, upsets
<1>2. CASE Seed
  <2> SUFFICES ASSUME (asked = 0 /\ ~unseeded) \/ crashes = 0, (asked = 0 /\ ~unseeded') \/ crashes = 0
               PROVE  MarksInv'
    BY <1>2 DEF Seed, MarksInv
  <2>1. \A i \in DOMAIN rounds : rounds[i].by = "tick" => rounds[i].at <= lastMark'
    <3> SUFFICES ASSUME NEW i \in DOMAIN rounds, rounds[i].by = "tick" PROVE rounds[i].at <= lastMark'
      OBVIOUS
    <3>1. asked = 0 /\ ~unseeded' /\ crashes # 0
      BY <1>2 DEF Seed, MarksInv, TypeOK
    <3>2. Len(rounds) \in DOMAIN rounds /\ i <= Len(rounds) /\ i \in Nat /\ Len(rounds) \in Nat /\ rounds # <<>>
      BY DEF TypeOK
    <3>3. rounds[Len(rounds)].by = "tick" /\ lastMark' = rounds[Len(rounds)].at
      BY <1>2, <3>1, <3>2 DEF Seed, MarksInv
    <3>4. i = Len(rounds) \/ i < Len(rounds)
      BY <3>2
    <3>5. i < Len(rounds) => rounds[i].at < rounds[Len(rounds)].at
      BY <3>1, <3>2, <3>3 DEF MarksInv
    <3>6. QED
      BY <3>2, <3>3, <3>4, <3>5, Times
  <2>2. timer' = NoPlan
    BY <1>2 DEF Seed, FlowInv
  <2>3. QED
    BY <1>2, <2>1, <2>2 DEF Seed, MarksInv
<1>3. CASE Resume
  <2>1. rounds' = rounds /\ pc' \in {"armed", "running"} /\ pc = "resume"
    BY <1>3, ResumeCases, Scheduled
  <2>2. timer' = timer \/ lastMark < timer'.mark
    BY <1>3, ResumeCases, Scheduled
  <2>3. QED
    BY <1>3, <2>1, <2>2, ResumeCases, SameMarks
<1>4. CASE OnTick
  <2> SUFFICES ASSUME (asked = 0 /\ ~unseeded) \/ crashes = 0 PROVE MarksInv'
    BY <1>4, TickCases DEF MarksInv
  <2>1. lastMark < timer.mark /\ lastMark' = timer.mark /\ UNCHANGED <<asked, crashes, unseeded>>
    BY <1>4, TickCases DEF MarksInv
  <2>2. \A i \in DOMAIN rounds : rounds[i].by = "tick" => rounds[i].at < timer.mark
    <3> SUFFICES ASSUME NEW i \in DOMAIN rounds, rounds[i].by = "tick" PROVE rounds[i].at < timer.mark
      OBVIOUS
    <3>1. rounds[i].at <= lastMark
      BY <1>4, TickCases DEF MarksInv
    <3>2. rounds[i].at \in Int /\ lastMark \in Int /\ timer.mark \in Int
      BY <1>4, TickCases, Times
    <3>3. QED
      BY <2>1, <3>1, <3>2
  <2>3. timer' # NoPlan => lastMark' < timer'.mark
    BY <1>4, TickCases
  <2>4. pc' \notin {"down", "listening", "off", "seed"}
    BY <1>4, TickCases
  <2>5. CASE rounds' = rounds
    <3>1. \A i \in DOMAIN rounds' : rounds'[i].by = "tick" => rounds'[i].at <= lastMark'
      BY <2>1, <2>2, <2>5, <1>4, TickCases, Times
    <3>2. QED
      BY <2>1, <2>3, <2>4, <2>5, <3>1 DEF MarksInv
  <2>6. CASE rounds' = Append(rounds, [at |-> timer.mark, by |-> "tick", read |-> None, done |-> FALSE])
    <3> DEFINE new == Len(rounds) + 1
    <3>1. /\ DOMAIN rounds' = DOMAIN rounds \cup {new}
          /\ \A i \in DOMAIN rounds : rounds'[i] = rounds[i] /\ i < new
          /\ rounds'[new].at = timer.mark /\ rounds'[new].by = "tick" /\ new \in Nat
      BY <2>6, RoundsGrow
    <3> HIDE DEF new
    <3>2. \A i \in DOMAIN rounds' : rounds'[i].by = "tick" => rounds'[i].at <= lastMark'
      BY <1>4, <2>1, <2>2, <3>1, TickCases, Times
    <3>3. asked = 0 => \A i \in DOMAIN rounds' : rounds'[i].by = "tick"
      BY <3>1 DEF MarksInv
    <3>4. ASSUME NEW i \in DOMAIN rounds', NEW j \in DOMAIN rounds',
                 rounds'[i].by = "tick", rounds'[j].by = "tick", i < j
          PROVE  rounds'[i].at < rounds'[j].at
      <4>1. i \in DOMAIN rounds
        BY <3>1, <3>4, Times
      <4>2. CASE j = new
        BY <2>2, <3>1, <3>4, <4>1, <4>2
      <4>3. CASE j \in DOMAIN rounds
        BY <3>1, <3>4, <4>1, <4>3 DEF MarksInv
      <4>4. QED
        BY <3>1, <4>2, <4>3
    <3>5. QED
      BY <2>1, <2>3, <2>4, <3>2, <3>3, <3>4 DEF MarksInv
  <2>7. QED
    BY <1>4, <2>5, <2>6, TickCases
<1>5. CASE OnOpenTick
  BY <1>5 DEF OnOpenTick, MarksInv, upsets
<1>6. CASE Crash
  <2>1. crashes' > 0 /\ pc' = "down" /\ timer' = NoPlan /\ UNCHANGED <<rounds, asked, unseeded>>
    BY <1>6 DEF Crash, TypeOK
  <2>2. QED
    BY <2>1 DEF MarksInv
<1>7. CASE Pass
  BY <1>7 DEF Pass, MarksInv, process, upsets
<1>8. ASSUME NEW resume \in BOOLEAN, Admin(resume) \/ Direct(resume) PROVE MarksInv'
  <2>1. asked' # 0 /\ UNCHANGED <<pc, lastMark, timer, crashes, unseeded>>
    <3>1. asked \in Nat
      BY Upsets
    <3>2. asked' = asked + 1 /\ UNCHANGED <<pc, lastMark, timer, crashes, unseeded>>
      BY <1>8, AdminCases, DirectCases
    <3>3. QED
      BY <3>1, <3>2
  <2>2. CASE rounds' = rounds
    BY <2>1, <2>2 DEF MarksInv
  <2>3. CASE rounds' = Append(rounds, [at |-> now, by |-> "admin", read |-> None, done |-> FALSE])
    <3>1. /\ DOMAIN rounds' = DOMAIN rounds \cup {Len(rounds) + 1}
          /\ \A i \in DOMAIN rounds : rounds'[i] = rounds[i]
          /\ rounds'[Len(rounds) + 1].by = "admin"
      BY <2>3, RoundsGrow
    <3>2. \A i \in DOMAIN rounds' : rounds'[i].by = "tick" => i \in DOMAIN rounds /\ rounds'[i] = rounds[i]
      BY <3>1
    <3>3. QED
      BY <2>1, <3>2 DEF MarksInv
  <2>4. QED
    BY <1>8, <2>2, <2>3, AdminCases, DirectCases
<1>9. ASSUME NEW run \in runs, Read(run) PROVE MarksInv'
  BY <1>9, ReadCases, SameMarks DEF process, upsets
<1>10. ASSUME NEW run \in runs, Finish(run) \/ Throw(run) PROVE MarksInv'
  <2>1. timer' = timer \/ lastMark < timer'.mark
    BY <1>10, EndsCases, Scheduled
  <2>2. pc' = pc \/ pc' = "armed"
    BY <1>10, EndsCases, Scheduled
  <2>3. pc \notin {"down", "listening", "off", "seed"} \/ pc' = pc
    BY <1>10, EndsCases DEF FlowInv
  <2>4. QED
    BY <1>10, <2>1, <2>2, <2>3, EndsCases, SameMarks
<1>11. CASE UNCHANGED vars
  BY <1>11 DEF vars, MarksInv
<1>12. QED
  BY NextCases, <1>1, <1>2, <1>3, <1>4, <1>5, <1>6, <1>7, <1>8, <1>9, <1>10, <1>11

-----------------------------------------------------------------------------
(* Moments.                                                                *)

\* A step that lets the clock stand and handles nothing keeps the moments.
LEMMA SameMoments ==
  ASSUME TypeOK, MomentsInv, UNCHANGED <<now, hashes, opens, lastMark, rounds>>,
         \/ timer' \in {timer, NoPlan}
         \/ timer'.mark + jitterFor[timer'.mark] <= timer'.at,
         openTimer' \in {openTimer, NoPlan} \/ openTimer' = PlanOpen(openTimer'.mark)
  PROVE  MomentsInv'
  BY DEF MomentsInv, PlanOpen, hashes

\* Nothing is handled before its moment, and a round's close is read after it
\* was opened.
LEMMA MomentsStep ==
  TypeOK /\ FlowInv /\ MomentsInv /\ [Next]_vars => MomentsInv'
  <1> SUFFICES ASSUME TypeOK, FlowInv, MomentsInv, [Next]_vars PROVE MomentsInv'
    OBVIOUS
<1>1. CASE Listen \/ Start
  BY <1>1 DEF Listen, Start, MomentsInv, PlanOpen, hashes
<1>2. CASE Seed
  <2>1. lastMark' <= now + Interval
    <3>1. rounds # <<>> => Len(rounds) \in DOMAIN rounds
      BY DEF TypeOK
    <3>2. QED
      BY <1>2, <3>1 DEF Seed, MomentsInv
  <2>2. QED
    BY <1>2, <2>1 DEF Seed, MomentsInv, PlanOpen, hashes
<1>3. CASE Resume
  <2>1. rounds' = rounds
    BY <1>3, ResumeCases
  <2>2. \/ timer' = timer
        \/ timer'.mark + jitterFor[timer'.mark] <= timer'.at
    BY <1>3, ResumeCases, Scheduled
  <2>3. openTimer' \in {openTimer, NoPlan} \/ openTimer' = PlanOpen(openTimer'.mark)
    <3>1. CASE UNCHANGED openTimer
      BY <3>1
    <3>2. CASE Schedule
      BY <3>2, Scheduled DEF PlanOpen
    <3>3. QED
      BY <1>3, <3>1, <3>2, ResumeCases
  <2>4. QED
    BY <1>3, <2>1, <2>2, <2>3, ResumeCases, SameMoments
<1>4. CASE OnTick
  <2>1. /\ lastMark' <= now + Interval /\ timer # NoPlan /\ timer.at = now
        /\ timer.mark + jitterFor[timer.mark] <= now
    <3>1. timer # NoPlan /\ timer.at = now /\ lastMark' = timer.mark /\ timer.mark \in 0 .. now + Interval
      BY <1>4, TickCases
    <3>2. timer.mark <= now + Interval
      BY <3>1, Times, IntervalAssumption
    <3>3. QED
      BY <3>1, <3>2 DEF MomentsInv
  <2>2. timer' # NoPlan => timer'.mark + jitterFor[timer'.mark] <= timer'.at
    BY <1>4, TickCases
  <2>3. openTimer' \in {openTimer, NoPlan} \/ openTimer' = PlanOpen(openTimer'.mark)
    <3>1. \/ openTimer' \in {openTimer, NoPlan}
          \/ openTimer' = PlanOpen(timer'.mark)
      BY <1>4, TickCases
    <3>2. openTimer' = PlanOpen(timer'.mark) => openTimer' = PlanOpen(openTimer'.mark)
      BY DEF PlanOpen
    <3>3. QED
      BY <3>1, <3>2
  <2>4. UNCHANGED <<now, hashes, opens>>
    BY <1>4, TickCases
  <2>5. \A i \in DOMAIN rounds' :
          /\ rounds'[i].at <= now + Interval
          /\ rounds'[i].by = "tick" =>
               /\ rounds'[i].at \in Mark /\ rounds'[i].at + jitterFor[rounds'[i].at] <= now
               /\ rounds'[i].read # None => rounds'[i].at + jitterFor[rounds'[i].at] <= rounds'[i].read
    <3>1. CASE rounds' = rounds
      BY <3>1 DEF MomentsInv
    <3>2. CASE rounds' = Append(rounds, [at |-> timer.mark, by |-> "tick", read |-> None, done |-> FALSE])
      <4>1. timer.mark \in Mark /\ timer.mark <= now + Interval
        BY <1>4, TickCases, Times, IntervalAssumption
      <4>2. QED
        BY <2>1, <3>2, <4>1, RoundsGrow DEF MomentsInv
    <3>3. QED
      BY <1>4, <3>1, <3>2, TickCases
  <2>6. QED
    BY <2>1, <2>2, <2>3, <2>4, <2>5 DEF MomentsInv, PlanOpen, hashes
<1>5. CASE OnOpenTick
  <2>1. [mark |-> openTimer.mark, at |-> now] = PlanOpen(openTimer.mark)
    BY <1>5 DEF OnOpenTick, MomentsInv, PlanOpen
  <2>2. \A o \in opens' : o = PlanOpen(o.mark)
    BY <1>5, <2>1 DEF OnOpenTick, MomentsInv
  <2>3. QED
    BY <1>5, <2>2 DEF OnOpenTick, MomentsInv, PlanOpen, hashes
<1>6. CASE Crash
  <2>1. lastMark' = None /\ timer' = NoPlan /\ openTimer' = NoPlan /\ UNCHANGED <<now, hashes, rounds, opens>>
    BY <1>6 DEF Crash
  <2>2. None <= now + Interval
    BY Times, IntervalAssumption DEF None
  <2>3. QED
    BY <2>1, <2>2 DEF MomentsInv, PlanOpen, hashes
<1>7. CASE Pass
  <2>1. now \in Nat /\ now' = now + 1 /\ lastMark \in Int /\ UNCHANGED <<hashes, rounds, opens, process>>
    BY <1>7, Times DEF Pass
  <2>2. lastMark <= now' + Interval
    BY <2>1, IntervalAssumption DEF MomentsInv
  <2>3. \A i \in DOMAIN rounds :
          /\ rounds[i].at <= now' + Interval
          /\ rounds[i].by = "tick" => rounds[i].at + jitterFor[rounds[i].at] <= now'
    BY <2>1, Times, Hashes, IntervalAssumption DEF MomentsInv
  <2>4. QED
    BY <2>1, <2>2, <2>3 DEF MomentsInv, PlanOpen, hashes, process
<1>8. ASSUME NEW resume \in BOOLEAN, Admin(resume) \/ Direct(resume) PROVE MomentsInv'
  <2>1. UNCHANGED <<now, hashes, opens, lastMark, timer, openTimer>>
    BY <1>8, AdminCases, DirectCases
  <2>2. CASE rounds' = rounds
    BY <2>1, <2>2, SameMoments
  <2>3. CASE rounds' = Append(rounds, [at |-> now, by |-> "admin", read |-> None, done |-> FALSE])
    <3>1. \A i \in DOMAIN rounds' :
            \/ i \in DOMAIN rounds /\ rounds'[i] = rounds[i]
            \/ rounds'[i].by = "admin" /\ rounds'[i].at = now
      BY <2>3, RoundsGrow
    <3>2. now <= now + Interval
      BY Times, IntervalAssumption
    <3>3. \A i \in DOMAIN rounds' :
            /\ rounds'[i].at <= now + Interval
            /\ rounds'[i].by = "tick" =>
                 /\ rounds'[i].at \in Mark /\ rounds'[i].at + jitterFor[rounds'[i].at] <= now
                 /\ rounds'[i].read # None => rounds'[i].at + jitterFor[rounds'[i].at] <= rounds'[i].read
      BY <3>1, <3>2 DEF MomentsInv
    <3>4. QED
      BY <2>1, <3>3 DEF MomentsInv, PlanOpen, hashes
  <2>4. QED
    BY <1>8, <2>2, <2>3, AdminCases, DirectCases
<1>9. ASSUME NEW run \in runs, Read(run) PROVE MomentsInv'
  <2>1. UNCHANGED <<now, hashes, opens, lastMark, timer, openTimer>> /\ DOMAIN rounds' = DOMAIN rounds
    BY <1>9, ReadCases DEF process
  <2>2. \A i \in DOMAIN rounds : /\ rounds'[i].at = rounds[i].at /\ rounds'[i].by = rounds[i].by
                                 /\ rounds'[i].read \in {rounds[i].read, now}
    BY <1>9, ReadCases
  <2>3. QED
    BY <2>1, <2>2 DEF MomentsInv, PlanOpen, hashes
<1>10. ASSUME NEW run \in runs, Finish(run) \/ Throw(run) PROVE MomentsInv'
  <2>1. UNCHANGED <<now, hashes, opens, lastMark>> /\ DOMAIN rounds' = DOMAIN rounds
    BY <1>10, EndsCases
  <2>2. \A i \in DOMAIN rounds : /\ rounds'[i].at = rounds[i].at /\ rounds'[i].by = rounds[i].by
                                 /\ rounds'[i].read = rounds[i].read
    BY <1>10, EndsCases
  <2>3. timer' = timer \/ timer'.mark + jitterFor[timer'.mark] <= timer'.at
    BY <1>10, EndsCases, Scheduled
  <2>4. openTimer' \in {openTimer, NoPlan} \/ openTimer' = PlanOpen(openTimer'.mark)
    <3>1. CASE UNCHANGED openTimer
      BY <3>1
    <3>2. CASE Schedule
      BY <3>2, Scheduled DEF PlanOpen
    <3>3. QED
      BY <1>10, <3>1, <3>2, EndsCases
  <2>5. QED
    BY <2>1, <2>2, <2>3, <2>4 DEF MomentsInv, PlanOpen, hashes
<1>11. CASE UNCHANGED vars
  BY <1>11 DEF vars, MomentsInv, PlanOpen, hashes, process
<1>12. QED
  BY NextCases, <1>1, <1>2, <1>3, <1>4, <1>5, <1>6, <1>7, <1>8, <1>9, <1>10, <1>11

-----------------------------------------------------------------------------
(* The theorems.                                                           *)

\* The invariant holds at the start.
LEMMA IInvInit ==
  Init => IInv
  <1> SUFFICES ASSUME Init PROVE IInv
    OBVIOUS
  <1>1. TypeOK
    BY TypeInit
  <1>2. FlowInv /\ MarksInv
    BY DEF Init, FlowInv, NeverStuck, MarksInv
  <1>3. MomentsInv
    BY IntervalAssumption DEF Init, MomentsInv, None
  <1>4. QED
    BY <1>1, <1>2, <1>3 DEF IInv

\* Every step keeps the invariant.
LEMMA IInvStep ==
  IInv /\ [Next]_vars => IInv'
  BY TypeStep, FlowStep, MarksStep, MomentsStep DEF IInv

\* Every reachable state satisfies the inductive invariant.
THEOREM Inductive ==
  Spec => []IInv
  BY IInvInit, IInvStep, PTL DEF Spec

\* Each variable has its type, and no timer is ever set for a moment that is past
\* (scheduler.js, armTimer).
THEOREM TypeCorrect ==
  Spec => []TypeOK
  <1>1. IInv => TypeOK
    BY DEF IInv
  <1>2. QED
    BY <1>1, Inductive, PTL

\* The scheduler never runs two rounds at the same time, whichever of its timers, its boot
\* and the operator asks for the second one: the flag of execute goes up before the round
\* begins and down after it ends.
THEOREM OneAtATime ==
  Spec => []OneRoundAtATime
  <1>1. ASSUME IInv PROVE OneRoundAtATime
    <2> DEFINE flagged == {run \in runs : run.by \in Flagged}
    <2>1. CASE flagged = {}
      BY <2>1, FS_EmptySet DEF OneRoundAtATime
    <2>2. CASE flagged # {}
      <3>1. PICK run \in flagged : TRUE
        BY <2>2
      <3>2. flagged = {run}
        BY <1>1, <3>1 DEF IInv, FlowInv
      <3>3. Cardinality(flagged) = 1
        BY <3>2, FS_Singleton
      <3>4. QED
        BY <3>3 DEF OneRoundAtATime
    <2>3. QED
      BY <2>1, <2>2
  <1>2. QED
    BY <1>1, Inductive, PTL

\* A keeper whose flow waits for a round has one of its own in flight.
THEOREM TheFlowIsWoken ==
  Spec => []NeverStuck
  <1>1. IInv => NeverStuck
    BY DEF IInv, FlowInv
  <1>2. QED
    BY <1>1, Inductive, PTL

\* "A restart must not re-run a mark this keeper already handled"
\* (scheduler.js:362): no two rounds are opened by the timer for one mark, whatever
\* the jitter, unless the process was restarted and either could not read the latest
\* round or found one the operator had run.
THEOREM NoMarkTwice ==
  Spec => []MarkRunsOnce
  <1>1. ASSUME IInv PROVE MarkRunsOnce
    <2> SUFFICES ASSUME (asked = 0 /\ ~unseeded) \/ crashes = 0, NEW i \in DOMAIN rounds, NEW j \in DOMAIN rounds,
                        rounds[i].by = "tick", rounds[j].by = "tick", rounds[i].at = rounds[j].at
                 PROVE  i = j
      BY DEF MarkRunsOnce
    <2>1. i \in Nat /\ j \in Nat /\ rounds[i].at \in Nat
      BY <1>1, Times DEF IInv
    <2>2. ~(i < j) /\ ~(j < i)
      BY <1>1, <2>1 DEF IInv, MarksInv
    <2>3. QED
      BY <2>1, <2>2
  <1>2. QED
    BY <1>1, Inductive, PTL

\* A round's close is read after its cycle's open (CONTRACT.md:355), when no jitter
\* brings a round forward into the window of its own open: which config.js, that
\* caps the window at a quarter of the interval and the jitter at all of it, leaves
\* to the operator.
THEOREM OpenComesFirst ==
  ASSUME \A j \in Jitters : Window - Interval <= j
  PROVE  Spec => []OpenBeforeClose
  <1>1. ASSUME IInv PROVE OpenBeforeClose
    <2> SUFFICES ASSUME NEW i \in DOMAIN rounds, NEW o \in opens,
                        rounds[i].by = "tick", rounds[i].at = o.mark, rounds[i].read # None
                 PROVE  o.at <= rounds[i].read
      BY DEF OpenBeforeClose
    <2> DEFINE m == o.mark
    <2>1. m \in Mark /\ o.at = m - Interval + openOffsetFor[m] /\ m + jitterFor[m] <= rounds[i].read
      BY <1>1 DEF IInv, MomentsInv, PlanOpen
    <2> HIDE DEF m
    <2>2. /\ m \in Nat /\ openOffsetFor[m] \in 0 .. Greatest(Window - 1, 0) /\ jitterFor[m] \in Int
          /\ Window - Interval <= jitterFor[m] /\ rounds[i].read \in Int /\ Interval \in Nat
      BY <1>1, <2>1, Marks, Hashes, Times, IntervalAssumption DEF IInv
    <2>3. openOffsetFor[m] \in Nat /\ openOffsetFor[m] <= Window
      BY <2>2, WindowIsBounded DEF Greatest
    <2>4. QED
      BY <2>1, <2>2, <2>3, WindowIsBounded
  <1>2. QED
    BY <1>1, Inductive, PTL

-----------------------------------------------------------------------------
(* Every mark.                                                             *)

\* A multiple of a step is a step behind the next one.
LEMMA Multiples ==
  ASSUME NEW a \in Nat, NEW b \in Nat, NEW d \in Nat
  PROVE  /\ a * d \in Nat /\ b * d \in Nat
         /\ a < b => a * d + d <= b * d
         /\ a <= b => a * d <= b * d
  <1>1. a * d \in Nat /\ b * d \in Nat
    OBVIOUS
  <1>2. ASSUME a <= b PROVE a * d <= b * d
    <2>1. PICK k \in Nat : b = a + k
      BY <1>2
    <2>2. b * d = a * d + k * d /\ k * d \in Nat
      BY <2>1
    <2>3. QED
      BY <1>1, <2>2
  <1>3. ASSUME a < b PROVE a * d + d <= b * d
    <2>1. PICK k \in Nat : b = (a + 1) + k
      BY <1>3
    <2>2. b * d = a * d + d + k * d /\ k * d \in Nat
      BY <2>1
    <2>3. QED
      BY <1>1, <2>2
  <1>4. QED
    BY <1>1, <1>2, <1>3

\* The day a moment falls in, and the interval of that day.
LEMMA NextMarkParts ==
  ASSUME NEW t \in Nat
  PROVE  \E k \in Nat, q \in Nat :
           /\ k * Day <= t /\ t < k * Day + Day
           /\ k * Day + q * Interval <= t /\ t < k * Day + q * Interval + Interval
           /\ NextMark(t) = Least(k * Day + (q * Interval + Interval), k * Day + Day)
  <1> DEFINE k == t \div Day
  <1> DEFINE into == t - k * Day
  <1> DEFINE q == into \div Interval
  <1>1. k \in Nat /\ k * Day \in Nat /\ k * Day <= t /\ t < k * Day + Day
    BY Division, IntervalAssumption
  <1>2. into \in Nat
    BY <1>1
  <1>3. q \in Nat /\ q * Interval \in Nat /\ q * Interval <= into /\ into < q * Interval + Interval
    BY <1>2, Division, IntervalAssumption
  <1>4. (q + 1) * Interval = q * Interval + Interval
    BY <1>3, IntervalAssumption
  <1>5. NextMark(t) = Least(k * Day + (q * Interval + Interval), k * Day + Day)
    BY <1>4 DEF NextMark
  <1>6. into = t - k * Day
    OBVIOUS
  <1> HIDE DEF k, into, q
  <1>7. k * Day + q * Interval <= t /\ t < k * Day + q * Interval + Interval
    <2> DEFINE start == k * Day
    <2> DEFINE ends == q * Interval
    <2> HIDE DEF start, ends
    <2>1. start \in Nat /\ ends \in Nat /\ ends <= into /\ into < ends + Interval /\ into = t - start
      BY <1>1, <1>3, <1>6 DEF start, ends
    <2>2. start + ends <= t /\ t < start + ends + Interval
      BY <2>1, IntervalAssumption
    <2>3. QED
      BY <2>2 DEF start, ends
  <1>8. QED
    BY <1>1, <1>3, <1>5, <1>7

\* No mark lies between a moment and its next mark.
LEMMA NextMarkIsNext ==
  ASSUME NEW s \in Nat, NEW t \in Nat, t < NextMark(s)
  PROVE  NextMark(t) <= NextMark(s)
  <1>1. PICK k \in Nat, q \in Nat :
           /\ k * Day <= t /\ t < k * Day + Day
           /\ k * Day + q * Interval <= t /\ t < k * Day + q * Interval + Interval
           /\ NextMark(t) = Least(k * Day + (q * Interval + Interval), k * Day + Day)
    BY NextMarkParts
  <1>2. PICK l \in Nat, p \in Nat :
           /\ l * Day <= s /\ s < l * Day + Day
           /\ l * Day + p * Interval <= s /\ s < l * Day + p * Interval + Interval
           /\ NextMark(s) = Least(l * Day + (p * Interval + Interval), l * Day + Day)
    BY NextMarkParts
  <1> DEFINE dayT == k * Day
  <1> DEFINE dayS == l * Day
  <1> DEFINE inT == q * Interval
  <1> DEFINE inS == p * Interval
  <1>3. /\ dayT \in Nat /\ dayS \in Nat /\ inT \in Nat /\ inS \in Nat
        /\ k < l => dayT + Day <= dayS
        /\ l < k => dayS + Day <= dayT
        /\ k = l => dayT = dayS
        /\ q <= p => inT <= inS
        /\ p < q => inS + Interval <= inT
    BY Multiples, IntervalAssumption
  <1>4. /\ dayT <= t /\ t < dayT + Day /\ dayT + inT <= t
        /\ NextMark(t) = Least(dayT + (inT + Interval), dayT + Day)
        /\ dayS <= s /\ s < dayS + Day /\ dayS + inS <= s
        /\ NextMark(s) = Least(dayS + (inS + Interval), dayS + Day)
    BY <1>1, <1>2
  <1> HIDE DEF dayT, dayS, inT, inS
  <1>5. NextMark(s) \in Nat /\ NextMark(t) \in Nat /\ NextMark(s) <= dayS + Day /\ NextMark(s) <= dayS + (inS + Interval)
    BY <1>3, <1>4, IntervalAssumption DEF Least
  <1>6. CASE k < l
    <2>1. NextMark(t) <= dayS /\ dayS <= s /\ s < NextMark(s)
      BY <1>3, <1>4, <1>6, NextMarkIsAhead, IntervalAssumption DEF Least
    <2>2. QED
      BY <1>3, <1>5, <2>1
  <1>7. ~(l < k)
    BY <1>3, <1>4, <1>5, IntervalAssumption
  <1>8. CASE k = l
    <2>1. q <= p
      BY <1>3, <1>4, <1>5, <1>8, IntervalAssumption
    <2>2. QED
      BY <1>3, <1>4, <1>8, <2>1, IntervalAssumption DEF Least
  <1>9. QED
    BY <1>6, <1>7, <1>8

\* planNext passes no mark over but those behind the clock or the last one handled.
LEMMA PlanIsNext ==
  ASSUME TypeOK, NEW t \in Time, NEW after \in {None} \cup 0 .. MaxTime + Interval
  PROVE  LET plan == PlanNext(t, after)
         IN /\ \A m \in Mark : m < plan.mark => m <= after \/ m <= t
            /\ plan.at = plan.mark + jitterFor[plan.mark] \/ plan.at = t
  <1> DEFINE mark == IF after # None /\ NextMark(t) <= after THEN NextMark(after) ELSE NextMark(t)
  <1>1. t \in Nat
    BY BoundsAssumption DEF Time
  <1>2. ASSUME NEW m \in Mark, m < mark PROVE m <= after \/ m <= t
    <2>1. PICK s \in 0 .. MaxTime + Interval : m = NextMark(s)
      BY DEF Mark
    <2>2. s \in Nat /\ m \in Nat
      BY <2>1, NextMarkIsAhead, IntervalAssumption, BoundsAssumption
    <2>3. CASE after # None /\ NextMark(t) <= after
      <3>1. after \in Nat /\ mark = NextMark(after)
        BY <2>3, IntervalAssumption, BoundsAssumption
      <3>2. QED
        BY <1>2, <2>1, <2>2, <3>1, NextMarkIsNext, NextMarkIsAhead
    <2>4. CASE ~(after # None /\ NextMark(t) <= after)
      BY <1>1, <1>2, <2>1, <2>2, <2>4, NextMarkIsNext, NextMarkIsAhead
    <2>5. QED
      BY <2>3, <2>4
  <1>3. PlanNext(t, after) = [mark |-> mark, at |-> Greatest(mark + jitterFor[mark], t)]
    BY DEF PlanNext
  <1> HIDE DEF mark
  <1>4. QED
    BY <1>2, <1>3 DEF Greatest


\* The keeper's plan is for the first mark that was not handled, when the clock has
\* passed no other, and it comes due at the latest a jitter after its mark.
LEMMA PlansTheNextMark ==
  ASSUME TypeOK, NEW after \in {None} \cup 0 .. MaxTime + Interval, NEW j \in Jitters,
         \A m \in Mark : after < m => now < m /\ now <= m + j
  PROVE  LET plan == PlanNext(now, after)
         IN /\ plan # NoPlan /\ \A m \in Mark : m < plan.mark => m <= after
            /\ \E i \in Jitters : plan.at <= plan.mark + i
  <1> DEFINE plan == PlanNext(now, after)
  <1>1. now \in Time /\ now \in Nat /\ after \in Int /\ after < plan.mark /\ plan # NoPlan /\ plan \in Plan
    BY Times, PlanIsAhead, BoundsAssumption, IntervalAssumption DEF TypeOK, None
  <1>2. plan.mark \in Mark /\ plan.at \in Int
    BY <1>1, IntervalAssumption, BoundsAssumption DEF Plan
  <1>3. /\ \A m \in Mark : m < plan.mark => m <= after \/ m <= now
        /\ plan.at = plan.mark + jitterFor[plan.mark] \/ plan.at = now
    BY <1>1, PlanIsNext
  <1> HIDE DEF plan
  <1>4. \A m \in Mark : m < plan.mark => m <= after
    BY <1>1, <1>3, Marks
  <1>5. now <= plan.mark + j
    BY <1>1, <1>2
  <1>6. jitterFor[plan.mark] \in Jitters /\ jitterFor[plan.mark] \in Int /\ plan.mark \in Nat
    BY <1>2, Hashes, Marks
  <1>7. \E i \in Jitters : plan.at <= plan.mark + i
    BY <1>2, <1>3, <1>5, <1>6
  <1>8. QED
    BY <1>1, <1>4, <1>7 DEF plan

\* The first mark is an interval away.
LEMMA FirstMark ==
  \A m \in Mark : Interval <= m
  <1> SUFFICES ASSUME NEW m \in Mark PROVE Interval <= m
    OBVIOUS
  <1>1. PICK s \in 0 .. MaxTime + Interval : m = NextMark(s)
    BY DEF Mark
  <1>2. s \in Nat /\ 0 < NextMark(s)
    BY <1>1, NextMarkIsAhead, IntervalAssumption, BoundsAssumption
  <1>3. NextMark(0) <= m
    BY <1>1, <1>2, NextMarkIsNext
  <1>4. NextMark(0) = Interval
    <2>1. 0 \div Day = 0 /\ 0 \div Interval = 0
      BY IntervalAssumption
    <2>2. QED
      BY <2>1, IntervalAssumption DEF NextMark, Least
  <1>5. QED
    BY <1>3, <1>4

\* While rounds end before the next mark, the next one is ahead of the clock at a moment
\* that is not later than a round of the last mark may last.
LEMMA NextIsAhead ==
  ASSUME TypeOK, RoundsEndInTime, NEW last \in Mark, NEW j \in Jitters, now <= last + j + Longest
  PROVE  \A m \in Mark : last < m => now < m /\ now <= m + j
  <1>1. now \in Nat /\ Longest \in Nat /\ last \in Nat /\ j \in Int
    BY Times, Marks, ConfigAssumption, IntervalAssumption, BoundsAssumption
  <1> SUFFICES ASSUME NEW m \in Mark, last < m PROVE now < m /\ now <= m + j
    OBVIOUS
  <1>2. m \in Nat /\ last + j + Longest < m /\ last + (-1) + Longest < m
    BY Marks DEF RoundsEndInTime
  <1>3. QED
    BY <1>1, <1>2

\* There are finitely many marks.
LEMMA BehindIsFinite ==
  IsFiniteSet(Behind)
  <1>1. PICK last \in Int : last = MaxTime + 2 * Interval
    BY IntervalAssumption, BoundsAssumption
  <1>2. Behind \subseteq 0 .. last
    BY <1>1, Marks DEF Behind
  <1>3. IsFiniteSet(0 .. last)
    BY FS_Interval
  <1>4. QED
    BY <1>2, <1>3, FS_Subset

\* What the marks and rounds that are left behind cost is paid for when no more are, or when
\* the store failed once more, or when a round that was left turns one of the two to the other.
LEMMA PaidFor ==
  ASSUME TypeOK, Paid, NEW m, faults' \in 0 .. MaxUpsets,
         \/ Behind' \subseteq Behind /\ Abandoned' \subseteq Abandoned /\ faults' \in {faults, faults + 1}
         \/ Behind' \subseteq Behind /\ faults' = faults + 1
         \/ Behind' \subseteq Behind \cup {m} /\ Abandoned' \subseteq Abandoned /\ faults' = faults + 1
         \/ Behind' \subseteq Behind \cup {m} /\ Abandoned # {} /\ Abandoned' = {} /\ faults' = faults
  PROVE  Paid'
  <1>1. IsFiniteSet(Behind)
    BY BehindIsFinite
  <1>2. PICK before, after : before = Behind /\ after = Behind'
    OBVIOUS
  <1>3. IsFiniteSet(before \cup {m}) /\ Cardinality(before) \in Nat
        /\ Cardinality(before \cup {m}) \in Nat /\ Cardinality(before \cup {m}) <= Cardinality(before) + 1
    <2>1. /\ IsFiniteSet(before \cup {m})
          /\ Cardinality(before \cup {m}) = IF m \in before THEN Cardinality(before) ELSE Cardinality(before) + 1
      BY <1>1, <1>2, FS_AddElement
    <2>2. Cardinality(before) \in Nat
      BY <1>1, <1>2, FS_CardinalityType
    <2>3. QED
      BY <2>1, <2>2
  <1>4. after \subseteq before \cup {m} => Cardinality(after) \in Nat /\ Cardinality(after) <= Cardinality(before) + 1
    BY <1>3, FS_Subset, FS_CardinalityType
  <1>5. after \subseteq before => Cardinality(after) \in Nat /\ Cardinality(after) <= Cardinality(before)
    BY <1>1, <1>2, FS_Subset, FS_CardinalityType
  <1>6. PICK b \in Nat : b = Cardinality(before)
    BY <1>3
  <1>7. PICK a \in Nat : a = Cardinality(after)
    BY <1>2, <1>4, <1>5
  <1>8. /\ after \subseteq before \cup {m} => a <= b + 1
        /\ after \subseteq before => a <= b
    BY <1>4, <1>5, <1>6, <1>7
  <1>9. b + (IF Abandoned = {} THEN 0 ELSE 1) <= faults /\ faults \in Nat /\ faults' \in Nat
    BY <1>2, <1>6, Upsets, BoundsAssumption DEF Paid
  <1>10. a + (IF Abandoned' = {} THEN 0 ELSE 1) <= faults'
    BY <1>2, <1>8, <1>9
  <1>11. QED
    BY <1>2, <1>7, <1>10 DEF Paid

\* The rounds and runs that count stay as they are when no round is opened, begun or ended.
LEMMA SameDebts ==
  ASSUME TypeOK, UNCHANGED <<lastMark, runs>>, DOMAIN rounds' = DOMAIN rounds,
         \A i \in DOMAIN rounds : rounds'[i].at = rounds[i].at /\ rounds'[i].done = rounds[i].done
  PROVE  Behind' = Behind /\ Unfinished' = Unfinished /\ Abandoned' = Abandoned
  <1>1. Behind' = Behind
    BY DEF Behind
  <1>2. Unfinished' = Unfinished
    BY DEF Unfinished
  <1>3. QED
    BY <1>1, <1>2 DEF Abandoned

\* What PassedInv says is kept by every step, when rounds end before the next mark.
LEMMA PassedStep ==
  ASSUME RoundsEndInTime
  PROVE  IInv /\ PassedInv /\ [Next]_vars => PassedInv'
  <1> SUFFICES ASSUME TypeOK, FlowInv, MomentsInv, PassedInv, [Next]_vars,
                      crashes' = 0, asked' = 0, pc' # "off"
               PROVE  PassedInv'
    BY DEF IInv, PassedInv
  <1> DEFINE Body ==
        /\ pc # "down" /\ \A run \in runs : run.by \in Flow
        /\ pc \in {"listening", "seed", "resume"} => now = 0 /\ lastMark = None /\ rounds = <<>>
        /\ (\A i, j \in Unfinished : i = j) /\ Paid
        /\ pc = "armed" =>
             /\ timer # NoPlan /\ \A m \in Mark : m < timer.mark => m <= lastMark
             /\ \E j \in Jitters : timer.at <= timer.mark + j
        /\ \A run \in runs : /\ lastMark \in Mark /\ now - run.since <= Longest
                             /\ \E j \in Jitters : run.since <= lastMark + j
  <1>a. crashes = 0 /\ asked = 0 /\ pc # "off"
    <2>1. crashes' = crashes \/ crashes' = crashes + 1
      BY NextCases, ResumeCases, TickCases, AdminCases, DirectCases, ReadCases, EndsCases
      DEF Listen, Start, Seed, OnOpenTick, Crash, Pass, vars, upsets
    <2>2. asked' = asked \/ asked' = asked + 1
      BY NextCases, ResumeCases, TickCases, AdminCases, DirectCases, ReadCases, EndsCases
      DEF Listen, Start, Seed, OnOpenTick, Crash, Pass, vars, upsets
    <2>3. crashes \in Nat /\ asked \in Nat
      BY Upsets
    <2>4. crashes = 0 /\ asked = 0
      BY <2>1, <2>2, <2>3
    <2>5. ASSUME pc = "off" PROVE FALSE
      <3>1. ~Crash
        BY <2>4, <2>3 DEF Crash
      <3>2. ASSUME NEW run \in runs, Finish(run) \/ Throw(run) PROVE pc' = "off"
        BY <2>5, <3>2, EndsCases DEF FlowInv
      <3>3. QED
        BY <2>5, <3>1, <3>2, NextCases, ResumeCases, TickCases, AdminCases, DirectCases, ReadCases
        DEF Listen, Start, Seed, OnOpenTick, Pass, vars, process
    <2>6. QED
      BY <2>4, <2>5
  <1>b. Body
    BY <1>a DEF PassedInv
  <1> SUFFICES Body'
    BY DEF PassedInv
  <1>0. now \in Nat /\ Longest \in Nat /\ \A run \in runs : run.since \in Nat
    BY Times, BoundsAssumption DEF TypeOK, Run, Time
<1>1. CASE Listen \/ Start
  <2>1. pc' \in {"listening", "seed"} /\ UNCHANGED <<now, rounds, runs, lastMark, timer, faults>>
        /\ now = 0 /\ lastMark = None /\ rounds = <<>>
    BY <1>b, <1>1 DEF Listen, Start, upsets
  <2>2. Behind' = Behind /\ Unfinished' = Unfinished /\ Abandoned' = Abandoned
    BY <2>1, SameDebts
  <2>3. Paid'
    BY <1>b, <2>1, <2>2 DEF Paid
  <2>4. QED
    BY <1>b, <2>1, <2>2, <2>3
<1>2. CASE Seed
  <2>1. pc = "seed" /\ pc' = "resume" /\ UNCHANGED <<now, rounds, runs, timer, lastMark>>
        /\ now = 0 /\ lastMark = None /\ rounds = <<>>
    BY <1>b, <1>2 DEF Seed
  <2>2. Behind' = Behind /\ Unfinished' = Unfinished /\ Abandoned' = Abandoned
    BY <2>1, SameDebts
  <2>3. Paid'
    BY <1>b, <1>2, <2>2, Upsets, PaidFor DEF Seed, StoreFails, TypeOK
  <2>4. QED
    BY <1>b, <2>1, <2>2, <2>3
<1>3. CASE Resume
  <2>1. now = 0 /\ lastMark = None /\ rounds = <<>> /\ UNCHANGED <<now, hashes, lastMark>>
    BY <1>b, <1>3, ResumeCases
  <2>2. Schedule /\ UNCHANGED <<runs, rounds>>
    <3>1. Unfinished = {}
      BY <2>1 DEF Unfinished
    <3>2. QED
      BY <1>3, <3>1 DEF Resume
  <2>3. PICK j \in Jitters : TRUE
    BY ConfigAssumption
  <2>4. \A m \in Mark : lastMark < m => now < m /\ now <= m + j
    BY <2>1, FirstMark, Marks, ConfigAssumption, IntervalAssumption
  <2>5. pc' = "armed" /\ timer' = PlanNext(now, lastMark) /\ lastMark \in {None} \cup 0 .. MaxTime + Interval
    BY <2>1, <2>2 DEF Schedule
  <2>6. /\ timer' # NoPlan /\ \A m \in Mark : m < timer'.mark => m <= lastMark
        /\ \E i \in Jitters : timer'.at <= timer'.mark + i
    BY <2>4, <2>5, PlansTheNextMark
  <2>7. Behind' = Behind /\ Unfinished' = Unfinished /\ Abandoned' = Abandoned
    BY <2>1, <2>2, SameDebts
  <2>8. Paid'
    BY <1>b, <1>3, <2>7, ResumeCases, PaidFor
  <2>9. QED
    BY <1>b, <2>1, <2>2, <2>5, <2>6, <2>7, <2>8
<1>4. CASE OnTick
  <2>1. pc = "armed" /\ timer # NoPlan /\ timer.at = now /\ timer.mark \in Mark
        /\ lastMark' = timer.mark /\ UNCHANGED <<now, hashes>> /\ faults' \in 0 .. MaxUpsets
    BY <1>b, <1>4, TickCases
  <2>2. runs = {} /\ ~running
    BY <1>b, <2>1 DEF FlowInv
  <2>3. PICK j \in Jitters : now <= timer.mark + j
    BY <1>b, <2>1
  <2>4. ASSUME NEW m \in Mark, m <= timer.mark PROVE m = timer.mark \/ m <= lastMark
    BY <1>b, <2>1, <2>4, Marks
  <2>5. CASE Execute(TRUE, timer.mark, "tick") /\ pc' = "running"
    <3>1. RunRound(TRUE, timer.mark, "tick") /\ faults' = faults
      BY <2>5 DEF Execute
    <3>2. \A run \in runs' : run.by = "tick" /\ run.since = now
      BY <2>2, <3>1 DEF RunRound
    <3>3. \A run \in runs' : /\ lastMark' \in Mark /\ now' - run.since <= Longest
                             /\ \E i \in Jitters : run.since <= lastMark' + i
      BY <1>0, <2>1, <2>3, <3>2
    <3>4. CASE Unfinished = {}
      <4>0. runs' = runs \cup {[round |-> Len(rounds) + 1, by |-> "tick", since |-> now]}
        BY <3>1, <3>4 DEF RunRound
      <4>a. \E run \in runs' : run.round = Len(rounds) + 1
        <5> DEFINE new == [round |-> Len(rounds) + 1, by |-> "tick", since |-> now]
        <5>1. new \in runs' /\ new.round = Len(rounds) + 1
          BY <4>0
        <5> HIDE DEF new
        <5>2. QED
          BY <5>1
      <4>1. rounds' = Append(rounds, [at |-> timer.mark, by |-> "tick", read |-> None, done |-> FALSE])
        BY <3>1, <3>4 DEF RunRound
      <4>2. /\ DOMAIN rounds' = DOMAIN rounds \cup {Len(rounds) + 1}
            /\ \A i \in DOMAIN rounds : rounds'[i] = rounds[i]
            /\ rounds'[Len(rounds) + 1].at = timer.mark
        BY <4>1, RoundsGrow
      <4>3. Unfinished' \subseteq {Len(rounds) + 1}
        BY <3>4, <4>2 DEF Unfinished
      <4>4. Abandoned' = {}
        BY <4>a, <4>3 DEF Abandoned
      <4>5. Behind' \subseteq Behind
        BY <2>1, <2>4, <4>2 DEF Behind
      <4>6. Paid'
        BY <1>b, <2>1, <3>1, <4>4, <4>5, PaidFor
      <4>7. QED
        BY <2>5, <3>2, <3>3, <4>3, <4>6 DEF Flow
    <3>5. CASE Unfinished # {}
      <4>0. runs' = runs \cup {[round |-> Oldest, by |-> "tick", since |-> now]}
        BY <3>1, <3>5 DEF RunRound
      <4>a. \E run \in runs' : run.round = Oldest
        <5> DEFINE new == [round |-> Oldest, by |-> "tick", since |-> now]
        <5>1. new \in runs' /\ new.round = Oldest
          BY <4>0
        <5> HIDE DEF new
        <5>2. QED
          BY <5>1
      <4>1. rounds' = rounds
        BY <3>1, <3>5 DEF RunRound
      <4>2. PICK u \in Unfinished : Unfinished = {u}
        BY <1>b, <3>5
      <4>3. Oldest = u
        <5>1. u <= u
          BY <4>2, Times DEF Unfinished
        <5>2. QED
          BY <4>2, <5>1 DEF Oldest
      <4>4. Unfinished' = Unfinished
        BY <4>1 DEF Unfinished
      <4>5. Abandoned # {} /\ Abandoned' = {}
        BY <2>2, <4>a, <4>2, <4>3, <4>4 DEF Abandoned
      <4>6. Behind' \subseteq Behind \cup {timer.mark}
        BY <2>1, <2>4, <4>1 DEF Behind
      <4>7. Paid'
        BY <1>b, <2>1, <3>1, <4>5, <4>6, PaidFor
      <4>8. QED
        BY <1>b, <2>5, <3>2, <3>3, <4>4, <4>7 DEF Flow
    <3>6. QED
      BY <3>4, <3>5
  <2>6. CASE (Busy \/ ExecuteInVain) /\ timer' = PlanNext(now, timer.mark) /\ UNCHANGED pc
    <3>1. faults' = faults + 1 /\ UNCHANGED <<runs, rounds>>
      BY <2>2, <2>6 DEF Busy, ExecuteInVain, StoreFails
    <3>2. Unfinished' = Unfinished /\ Abandoned' = Abandoned
      BY <3>1 DEF Unfinished, Abandoned
    <3>3. Behind' \subseteq Behind \cup {timer.mark}
      BY <2>1, <2>4, <3>1 DEF Behind
    <3>4. Paid'
      BY <1>b, <2>1, <3>1, <3>2, <3>3, PaidFor
    <3>5. now <= timer.mark + j + Longest
      BY <1>0, <2>1, <2>3, Marks, ConfigAssumption, IntervalAssumption
    <3>6. \A m \in Mark : timer.mark < m => now < m /\ now <= m + j
      BY <2>1, <3>5, NextIsAhead
    <3>7. timer.mark \in {None} \cup 0 .. MaxTime + Interval
      <4>1. timer.mark \in 0 .. now + Interval
        BY <1>4, TickCases
      <4>2. now <= MaxTime /\ now \in Nat /\ MaxTime \in Nat
        BY <1>0, BoundsAssumption DEF TypeOK, Time
      <4>3. QED
        BY <4>1, <4>2, IntervalAssumption
    <3>8. /\ timer' # NoPlan /\ \A m \in Mark : m < timer'.mark => m <= timer.mark
          /\ \E i \in Jitters : timer'.at <= timer'.mark + i
      BY <2>6, <3>6, <3>7, PlansTheNextMark
    <3>9. QED
      BY <1>b, <2>1, <2>2, <2>6, <3>1, <3>2, <3>4, <3>8
  <2>7. QED
    BY <1>4, <2>5, <2>6 DEF OnTick
<1>5. CASE OnOpenTick
  <2>1. UNCHANGED <<now, rounds, runs, pc, lastMark, timer, faults>>
    BY <1>5 DEF OnOpenTick, upsets
  <2>2. Behind' = Behind /\ Unfinished' = Unfinished /\ Abandoned' = Abandoned
    BY <2>1, SameDebts
  <2>3. Paid'
    BY <1>b, <2>1, <2>2 DEF Paid
  <2>4. QED
    BY <1>b, <2>1, <2>2, <2>3
<1>6. CASE Crash
  BY <1>6, Upsets DEF Crash
<1>7. CASE Pass
  <2>1. UNCHANGED <<rounds, runs, pc, lastMark, timer, faults>> /\ pc \notin {"listening", "seed", "resume"}
    BY <1>7 DEF Pass, process, upsets
  <2>2. \A run \in runs : now' - run.since <= Longest
    BY <1>0, <1>7, <2>1 DEF Pass
  <2>3. Behind' = Behind /\ Unfinished' = Unfinished /\ Abandoned' = Abandoned
    BY <2>1, SameDebts
  <2>4. Paid'
    BY <1>b, <2>1, <2>3 DEF Paid
  <2>5. QED
    BY <1>b, <2>1, <2>2, <2>3, <2>4
<1>8. ASSUME NEW resume \in BOOLEAN, Admin(resume) \/ Direct(resume) PROVE Body'
  BY <1>a, <1>8, AdminCases, DirectCases
<1>9. ASSUME NEW run \in runs, Read(run) PROVE Body'
  <2>1. UNCHANGED <<now, runs, pc, lastMark, timer, faults>> /\ pc \notin {"listening", "seed", "resume"}
    BY <1>b, <1>9, ReadCases DEF process, upsets, FlowInv
  <2>2. DOMAIN rounds' = DOMAIN rounds /\ \A i \in DOMAIN rounds : rounds'[i].at = rounds[i].at
    BY <1>9, ReadCases
  <2>3. \A i \in DOMAIN rounds : rounds'[i].done = rounds[i].done
    BY <1>9, Times DEF Read, Round
  <2>4. Behind' = Behind /\ Unfinished' = Unfinished /\ Abandoned' = Abandoned
    BY <2>1, <2>2, <2>3, SameDebts
  <2>5. Paid'
    BY <1>b, <2>1, <2>4 DEF Paid
  <2>6. QED
    BY <1>b, <2>1, <2>4, <2>5
<1>10. ASSUME NEW run \in runs, Finish(run) \/ Throw(run) PROVE Body'
  <2>1. run.by \in Flow /\ pc = "running" /\ runs = {run} /\ runs' = {} /\ UNCHANGED <<now, hashes, lastMark>>
    <3>1. run \in runs /\ run.by \in Flow
      BY <1>b, <1>10
    <3>2. pc = "running" /\ \A other \in runs : other = run
      BY <1>b, <3>1 DEF FlowInv, Flagged
    <3>3. runs' = runs \ {run} /\ UNCHANGED <<now, hashes, lastMark>>
      BY <1>10, EndsCases
    <3>4. runs = {run} /\ runs' = {}
      BY <3>1, <3>2, <3>3
    <3>5. QED
      BY <3>1, <3>2, <3>3, <3>4
  <2>2. /\ DOMAIN rounds' = DOMAIN rounds /\ faults' \in 0 .. MaxUpsets
        /\ \A i \in DOMAIN rounds : rounds'[i].at = rounds[i].at
        /\ \A i \in DOMAIN rounds : i # run.round => rounds'[i].done = rounds[i].done
        /\ \/ faults' = faults /\ rounds'[run.round].done
           \/ faults' = faults + 1 /\ rounds' = rounds
    BY <1>10, EndsCases
  <2>3. Unfinished' \subseteq Unfinished
    BY <2>2 DEF Unfinished
  <2>4. faults' = faults => Abandoned' \subseteq Abandoned
    <3> SUFFICES ASSUME faults' = faults, NEW i \in Abandoned' PROVE i \in Abandoned
      OBVIOUS
    <3>1. i \in DOMAIN rounds /\ ~rounds'[i].done
      BY <2>2 DEF Abandoned, Unfinished
    <3>2. rounds'[run.round].done
      BY <2>2, Upsets
    <3>3. i # run.round /\ i \in Unfinished
      BY <2>2, <3>1, <3>2 DEF Unfinished
    <3>4. QED
      BY <2>1, <3>3 DEF Abandoned
  <2>5. Behind' \subseteq Behind
    BY <2>1, <2>2 DEF Behind
  <2>6. Paid'
    BY <1>b, <2>2, <2>4, <2>5, PaidFor
  <2>7. PICK j \in Jitters : run.since <= lastMark + j
    BY <1>b, <2>1
  <2>8. lastMark \in Mark /\ lastMark \in Nat /\ j \in Int /\ now <= lastMark + j + Longest
    BY <1>0, <1>b, <2>1, <2>7, Marks, ConfigAssumption, IntervalAssumption
  <2>9. \A m \in Mark : lastMark < m => now < m /\ now <= m + j
    BY <2>8, NextIsAhead
  <2>10. pc' = "armed" /\ timer' = PlanNext(now, lastMark) /\ lastMark \in {None} \cup 0 .. MaxTime + Interval
    BY <1>10, <2>1, EndsCases, LastMarkIsNear DEF Schedule
  <2>11. /\ timer' # NoPlan /\ \A m \in Mark : m < timer'.mark => m <= lastMark
         /\ \E i \in Jitters : timer'.at <= timer'.mark + i
    BY <2>9, <2>10, PlansTheNextMark
  <2>12. QED
    BY <1>b, <2>1, <2>3, <2>6, <2>10, <2>11
<1>11. CASE UNCHANGED vars
  <2>1. UNCHANGED <<now, rounds, runs, pc, lastMark, timer, faults>>
    BY <1>11 DEF vars
  <2>2. Behind' = Behind /\ Unfinished' = Unfinished /\ Abandoned' = Abandoned
    BY <2>1, SameDebts
  <2>3. Paid'
    BY <1>b, <2>1, <2>2 DEF Paid
  <2>4. QED
    BY <1>b, <2>1, <2>2, <2>3
<1>12. QED
  BY NextCases, <1>1, <1>2, <1>3, <1>4, <1>5, <1>6, <1>7, <1>8, <1>9, <1>10, <1>11

\* While nothing crashes and nobody else runs a round, a mark whose last moment is past, and
\* as long a time again as a round may take, has a round, but for one mark for each failure
\* of the store; as long as rounds end before the next mark.
THEOREM NoMarkIsLost ==
  ASSUME RoundsEndInTime
  PROVE  Spec => []EveryMarkIsRun
  <1>1. Init => PassedInv
    <2> SUFFICES ASSUME Init PROVE PassedInv
      OBVIOUS
    <2>1. \A m \in Mark : ~(m <= None)
      BY Marks DEF None
    <2>2. Unfinished = {}
      BY DEF Init, Unfinished
    <2>3. Behind = {} /\ Abandoned = {}
      BY <2>1, <2>2 DEF Init, Behind, Abandoned
    <2>4. Cardinality(Behind) = 0
      BY <2>3, FS_EmptySet
    <2>5. Paid
      BY <2>3, <2>4 DEF Init, Paid
    <2>6. QED
      BY <2>2, <2>5 DEF Init, PassedInv
  <1>2. IInv /\ PassedInv /\ [Next]_vars => PassedInv'
    BY RoundsEndInTime, PassedStep
  <1>3. ASSUME IInv, PassedInv PROVE EveryMarkIsRun
    <2> SUFFICES ASSUME crashes = 0, asked = 0, pc # "off" PROVE Cardinality(Lost) <= faults
      BY DEF EveryMarkIsRun
    <2>1. ASSUME NEW m \in Lost PROVE m <= lastMark
      <3>1. /\ TypeOK /\ m \in Mark /\ m \in Nat /\ now \in Nat /\ Longest \in Nat /\ lastMark \in Int
            /\ \A j \in Jitters : now > m + j + Longest
        BY <1>3, Marks, Times, BoundsAssumption DEF IInv, Lost
      <3>2. \A j \in Jitters : j \in Int /\ -Interval <= j
        BY ConfigAssumption, IntervalAssumption
      <3>3. CASE pc \in {"listening", "seed", "resume"}
        <4>1. now = 0
          BY <1>3, <3>3 DEF PassedInv
        <4>2. PICK j \in Jitters : TRUE
          BY ConfigAssumption
        <4>3. QED
          BY <3>1, <3>2, <4>1, <4>2, FirstMark, IntervalAssumption
      <3>4. CASE pc = "armed"
        <4>1. PICK j \in Jitters : timer.at <= timer.mark + j
          BY <1>3, <3>4 DEF PassedInv
        <4>2. timer # NoPlan /\ timer.at >= now /\ timer.mark \in Nat /\ timer.at \in Int
          BY <1>3, <3>1, <3>4, Times DEF PassedInv, TypeOK
        <4>3. m < timer.mark
          BY <3>1, <3>2, <4>1, <4>2
        <4>4. QED
          BY <1>3, <3>1, <3>4, <4>3 DEF PassedInv
      <3>5. CASE pc = "running"
        <4>1. PICK run \in runs : TRUE
          BY <1>3, <3>5 DEF IInv, FlowInv, NeverStuck
        <4>2. PICK j \in Jitters : run.since <= lastMark + j
          BY <1>3, <4>1 DEF PassedInv
        <4>3. now - run.since <= Longest /\ run.since \in Nat
          BY <1>3, <3>1, <4>1, BoundsAssumption DEF PassedInv, TypeOK, Run, Time
        <4>4. QED
          BY <3>1, <3>2, <4>2, <4>3
      <3>6. QED
        BY <1>3, <3>1, <3>3, <3>4, <3>5 DEF PassedInv, TypeOK
    <2>2. Lost \subseteq Behind
      BY <2>1 DEF Lost, Behind
    <2>3. IsFiniteSet(Behind)
      BY BehindIsFinite
    <2>4. Cardinality(Lost) \in Nat /\ Cardinality(Lost) <= Cardinality(Behind) /\ Cardinality(Behind) \in Nat
      BY <2>2, <2>3, FS_Subset, FS_CardinalityType
    <2>5. Cardinality(Behind) <= faults /\ faults \in Nat
      BY <1>3, <2>4, Upsets DEF PassedInv, Paid, IInv
    <2>6. QED
      BY <2>4, <2>5
  <1>4. QED
    BY <1>1, <1>2, <1>3, Inductive, PTL DEF Spec

-----------------------------------------------------------------------------
(* The snapshots of a cycle: steps.                                        *)

\* Every step of the system is one of these.
LEMMA CycleNextCases ==
  [CycleNext]_cycleVars <=>
    \/ \E r \in RoundId : OpenTick(r)
    \/ \E r \in RoundId : Begin(r)
    \/ Look \/ TakeOpen \/ StoreOpen
    \/ TakeClose \/ LoadOpen \/ CheckPlaceholder \/ LeavePlaceholder \/ StoreLast \/ Save \/ Fail
    \/ UNCHANGED cycleVars
  BY DEF CycleNext

-----------------------------------------------------------------------------
(* The snapshots of a cycle: types.                                        *)

\* The open that is loaded, the close and the first snapshot have their types.
LEMMA Values ==
  /\ NoSnap \in Snap /\ NotLoaded \in [mode : Modes, snap : Snap]
  /\ NoDoc \in [mode : Modes \cup {"none", "begun"}, open : Snap, close : 0 .. MaxReadings]
  /\ \A r \in RoundId : Following[r] \in RoundId \cup {NoRound} /\ Following[r] # r
  BY ReadingsAssumption, FollowingAssumption
  DEF NoSnap, Snap, NotLoaded, NoDoc, Modes, Kind, RoundId, NoRound

\* A round's own close is a snapshot.
LEMMA CloseIsASnapshot ==
  CycleTypeOK => MyClose \in Snap
  BY DEF CycleTypeOK, MyClose, Snap, Kind

\* Every moment is a number.
LEMMA Moments ==
  CycleTypeOK =>
    /\ readings \in Nat /\ close \in Nat /\ taken \in Nat /\ lastClose.at \in Nat
    /\ \A r \in RoundId : open[r].at \in Nat
  BY ReadingsAssumption DEF CycleTypeOK, Snap

\* The first state is of its type.
LEMMA CycleTypeInit ==
  CycleInit => CycleTypeOK
  <1> SUFFICES ASSUME CycleInit PROVE CycleTypeOK
    OBVIOUS
  <1>1. {lastClose, placeholder, seen} \subseteq Snap /\ open \in [RoundId -> Snap]
    BY Values DEF CycleInit
  <1>2. doc \in [RoundId -> [mode : Modes \cup {"none", "begun"}, open : Snap, close : 0 .. MaxReadings]]
    BY Values DEF CycleInit
  <1>3. QED
    BY <1>1, <1>2, Values, ReadingsAssumption DEF CycleInit, CycleTypeOK, NoRound

\* Every step keeps every variable in its type.
LEMMA CycleTypeStep ==
  CycleTypeOK /\ TurnsInv /\ RoundInv /\ [CycleNext]_cycleVars => CycleTypeOK'
  <1> SUFFICES ASSUME CycleTypeOK, TurnsInv, RoundInv, [CycleNext]_cycleVars PROVE CycleTypeOK'
    OBVIOUS
  <1> USE ReadingsAssumption
<1>1. ASSUME NEW r \in RoundId, OpenTick(r) PROVE CycleTypeOK'
  BY <1>1 DEF OpenTick, CycleTypeOK, roundProc, ghosts
<1>2. ASSUME NEW r \in RoundId, Begin(r) PROVE CycleTypeOK'
  <2>1. doc' \in [RoundId -> [mode : Modes \cup {"none", "begun"}, open : Snap, close : 0 .. MaxReadings]]
    BY <1>2 DEF Begin, CycleTypeOK
  <2>2. late' \subseteq RoundId
    BY <1>2 DEF Begin, CycleTypeOK
  <2>3. QED
    BY <1>2, <2>1, <2>2 DEF Begin, CycleTypeOK, timerProc
<1>3. CASE Look
  <2>1. open[target] \in Snap
    BY <1>3 DEF Look, CycleTypeOK, TurnsInv
  <2>2. QED
    BY <1>3, <2>1 DEF Look, CycleTypeOK, roundProc, ghosts
<1>4. CASE TakeOpen
  BY <1>4, Values, CloseIsASnapshot DEF TakeOpen, CycleTypeOK, roundProc, timerProc, ghosts
<1>5. CASE StoreOpen
  <2>1. target \in RoundId
    BY <1>5 DEF StoreOpen, TurnsInv
  <2>2. [kind |-> "open", by |-> target, at |-> taken] \in Snap
    BY <2>1 DEF CycleTypeOK, Snap, Kind
  <2>3. open' \in [RoundId -> Snap]
    BY <1>5, <2>2 DEF StoreOpen, CycleTypeOK
  <2>4. QED
    BY <1>5, <2>3 DEF StoreOpen, CycleTypeOK, roundProc, ghosts
<1>6. CASE TakeClose
  BY <1>6, Values, CloseIsASnapshot DEF TakeClose, CycleTypeOK, roundProc, timerProc, ghosts
<1>7. CASE LoadOpen
  <2>1. cur \in RoundId /\ open[cur] \in Snap /\ lastClose \in Snap
    BY <1>7 DEF LoadOpen, CycleTypeOK, TurnsInv
  <2>2. loaded' \in [mode : Modes, snap : Snap]
    BY <1>7, <2>1, Values DEF LoadOpen, OpenFrom, Modes
  <2>3. unread' \subseteq RoundId
    BY <1>7, <2>1 DEF LoadOpen, CycleTypeOK
  <2>4. QED
    BY <1>7, <2>2, <2>3 DEF LoadOpen, CycleTypeOK, timerProc
<1>8. CASE CheckPlaceholder
  <2>1. cur \in RoundId
    BY <1>8 DEF CheckPlaceholder, TurnsInv
  <2>2. placeholder' \in Snap
    BY <1>8, <2>1, Values DEF CheckPlaceholder, CycleTypeOK
  <2>3. step' \in {"last", "leave"}
    BY <1>8 DEF CheckPlaceholder
  <2>4. QED
    BY <1>8, <2>2, <2>3 DEF CheckPlaceholder, CycleTypeOK, timerProc, ghosts
<1>9. CASE LeavePlaceholder
  <2>1. open' \in [RoundId -> Snap]
    BY <1>9, CloseIsASnapshot DEF LeavePlaceholder, CycleTypeOK
  <2>2. QED
    BY <1>9, <2>1 DEF LeavePlaceholder, CycleTypeOK, timerProc, ghosts
<1>10. CASE StoreLast
  BY <1>10, Values, CloseIsASnapshot DEF StoreLast, MyClose, CycleTypeOK, roundProc, timerProc, ghosts
<1>11. CASE Save
  <2>1. Combined \in [mode : Modes \cup {"none", "begun"}, open : Snap, close : 0 .. MaxReadings]
    BY DEF CycleTypeOK, Combined
  <2>2. doc' \in [RoundId -> [mode : Modes \cup {"none", "begun"}, open : Snap, close : 0 .. MaxReadings]]
    BY <1>11, <2>1 DEF Save, CycleTypeOK
  <2>3. QED
    BY <1>11, <2>2, Values DEF Save, Leave, CycleTypeOK, timerProc, ghosts
<1>12. CASE Fail
  BY <1>12, Values, CloseIsASnapshot DEF Fail, Leave, CycleTypeOK, roundProc, timerProc, ghosts
<1>13. CASE UNCHANGED cycleVars
  BY <1>13, Values, CloseIsASnapshot DEF cycleVars, CycleTypeOK, roundProc, timerProc, ghosts
<1>14. QED
  BY CycleNextCases, <1>1, <1>2, <1>3, <1>4, <1>5, <1>6, <1>7, <1>8, <1>9, <1>10, <1>11, <1>12, <1>13

-----------------------------------------------------------------------------
(* The snapshots of a cycle: the timer and the round.                      *)

\* The timer and the round take turns, as long as the schedule lets them.
LEMMA TurnsStep ==
  ASSUME ~Overlap
  PROVE  CycleTypeOK /\ TurnsInv /\ [CycleNext]_cycleVars => TurnsInv'
  <1> SUFFICES ASSUME CycleTypeOK, TurnsInv, [CycleNext]_cycleVars PROVE TurnsInv'
    OBVIOUS
<1>1. ASSUME NEW r \in RoundId, OpenTick(r) PROVE TurnsInv'
  BY <1>1, ~Overlap DEF OpenTick, OpenTick, CycleTypeOK, TurnsInv, roundProc, timerProc, ghosts
<1>2. ASSUME NEW r \in RoundId, Begin(r) PROVE TurnsInv'
  BY <1>2, ~Overlap DEF Begin, Begin, CycleTypeOK, TurnsInv, roundProc, timerProc, ghosts
<1>3. CASE Look
  BY <1>3, ~Overlap DEF Look, CycleTypeOK, TurnsInv, roundProc, timerProc, ghosts
<1>4. CASE TakeOpen
  BY <1>4, ~Overlap DEF TakeOpen, CycleTypeOK, TurnsInv, roundProc, timerProc, ghosts
<1>5. CASE StoreOpen
  BY <1>5, ~Overlap DEF StoreOpen, CycleTypeOK, TurnsInv, roundProc, timerProc, ghosts
<1>6. CASE TakeClose
  BY <1>6, ~Overlap DEF TakeClose, CycleTypeOK, TurnsInv, roundProc, timerProc, ghosts
<1>7. CASE LoadOpen
  BY <1>7, ~Overlap DEF LoadOpen, CycleTypeOK, TurnsInv, roundProc, timerProc, ghosts
<1>8. CASE CheckPlaceholder
  BY <1>8, ~Overlap DEF CheckPlaceholder, CycleTypeOK, TurnsInv, roundProc, timerProc, ghosts
<1>9. CASE LeavePlaceholder
  BY <1>9, ~Overlap DEF LeavePlaceholder, MyClose, CycleTypeOK, TurnsInv, roundProc, timerProc, ghosts
<1>10. CASE StoreLast
  BY <1>10, ~Overlap DEF StoreLast, MyClose, CycleTypeOK, TurnsInv, roundProc, timerProc, ghosts
<1>11. CASE Save
  BY <1>11, ~Overlap DEF Save, Leave, Combined, CycleTypeOK, TurnsInv, roundProc, timerProc, ghosts
<1>12. CASE Fail
  BY <1>12, ~Overlap DEF Fail, Leave, CycleTypeOK, TurnsInv, roundProc, timerProc, ghosts
<1>13. CASE UNCHANGED cycleVars
  BY <1>13, ~Overlap DEF cycleVars, CycleTypeOK, TurnsInv, roundProc, timerProc, ghosts
<1>14. QED
  BY CycleNextCases, <1>1, <1>2, <1>3, <1>4, <1>5, <1>6, <1>7, <1>8, <1>9, <1>10, <1>11, <1>12, <1>13

\* What is kept is no later than the last reading, and a real open only appears
\* where the timer that stores it saw none.
LEMMA KeptStep ==
  CycleTypeOK /\ TurnsInv /\ KeptInv /\ RoundInv /\ [CycleNext]_cycleVars => KeptInv'
  <1> SUFFICES ASSUME CycleTypeOK, TurnsInv, KeptInv, RoundInv, [CycleNext]_cycleVars PROVE KeptInv'
    OBVIOUS
<1>1. ASSUME NEW r \in RoundId, OpenTick(r) PROVE KeptInv'
  BY <1>1, Values, Moments DEF OpenTick, OpenTick, CycleTypeOK, TurnsInv, KeptInv, RoundInv, roundProc,
    timerProc, ghosts
<1>2. ASSUME NEW r \in RoundId, Begin(r) PROVE KeptInv'
  BY <1>2, Values, Moments DEF Begin, Begin, CycleTypeOK, TurnsInv, KeptInv, RoundInv, roundProc, timerProc, ghosts
<1>3. CASE Look
  BY <1>3, Values, Moments DEF Look, CycleTypeOK, TurnsInv, KeptInv, RoundInv, roundProc, timerProc, ghosts
<1>4. CASE TakeOpen
  BY <1>4, Moments DEF TakeOpen, CycleTypeOK, KeptInv, TurnsInv, roundProc, ghosts
<1>5. CASE StoreOpen
  BY <1>5, Values, Moments DEF StoreOpen, CycleTypeOK, TurnsInv, KeptInv, RoundInv, roundProc, timerProc, ghosts
<1>6. CASE TakeClose
  BY <1>6, Moments DEF TakeClose, KeptInv, timerProc, ghosts
<1>7. CASE LoadOpen
  BY <1>7, Values, Moments DEF LoadOpen, CycleTypeOK, TurnsInv, KeptInv, RoundInv, roundProc, timerProc, ghosts
<1>8. CASE CheckPlaceholder
  BY <1>8, Values, Moments DEF CheckPlaceholder, CycleTypeOK, TurnsInv, KeptInv, RoundInv, roundProc,
    timerProc, ghosts
<1>9. CASE LeavePlaceholder
  BY <1>9, Values, Moments DEF LeavePlaceholder, MyClose, CycleTypeOK, TurnsInv, KeptInv, RoundInv,
    roundProc, timerProc, ghosts
<1>10. CASE StoreLast
  BY <1>10, Values, Moments DEF StoreLast, MyClose, CycleTypeOK, TurnsInv, KeptInv, RoundInv, roundProc,
    timerProc, ghosts
<1>11. CASE Save
  BY <1>11, Values, Moments DEF Save, Leave, Combined, CycleTypeOK, TurnsInv, KeptInv, RoundInv,
    roundProc, timerProc, ghosts
<1>12. CASE Fail
  BY <1>12, Values, Moments DEF Fail, Leave, CycleTypeOK, TurnsInv, KeptInv, RoundInv, roundProc, timerProc, ghosts
<1>13. CASE UNCHANGED cycleVars
  BY <1>13, Values, Moments DEF cycleVars, CycleTypeOK, TurnsInv, KeptInv, RoundInv, roundProc, timerProc, ghosts
<1>14. QED
  BY CycleNextCases, <1>1, <1>2, <1>3, <1>4, <1>5, <1>6, <1>7, <1>8, <1>9, <1>10, <1>11, <1>12, <1>13

\* The round's own half: what it loaded is older than its close and not its own.
LEMMA RoundStep ==
  ASSUME ~Overlap
  PROVE  CycleTypeOK /\ TurnsInv /\ KeptInv /\ RoundInv /\ [CycleNext]_cycleVars => RoundInv'
  <1> SUFFICES ASSUME CycleTypeOK, TurnsInv, KeptInv, RoundInv, [CycleNext]_cycleVars PROVE RoundInv'
    OBVIOUS
<1>1. ASSUME NEW r \in RoundId, OpenTick(r) PROVE RoundInv'
  BY <1>1, Values, Moments DEF OpenTick, OpenTick, CycleTypeOK, TurnsInv, KeptInv, RoundInv, roundProc,
    timerProc, ghosts
<1>2. ASSUME NEW r \in RoundId, Begin(r) PROVE RoundInv'
  BY <1>2, Values, Moments DEF Begin, Begin, CycleTypeOK, TurnsInv, KeptInv, RoundInv, roundProc, timerProc, ghosts
<1>3. CASE Look
  BY <1>3, Values, Moments DEF Look, CycleTypeOK, TurnsInv, KeptInv, RoundInv, roundProc, timerProc, ghosts
<1>4. CASE TakeOpen
  BY <1>4, Values, Moments DEF TakeOpen, CycleTypeOK, TurnsInv, KeptInv, RoundInv, roundProc, timerProc, ghosts
<1>5. CASE StoreOpen
  BY <1>5, Values, Moments DEF StoreOpen, CycleTypeOK, TurnsInv, KeptInv, RoundInv, roundProc, timerProc, ghosts
<1>6. CASE TakeClose
  BY <1>6, Moments DEF TakeClose, KeptInv, RoundInv
<1>7. CASE LoadOpen
  <2>1. cur \in RoundId
    BY <1>7 DEF LoadOpen, TurnsInv
  <2>2. PICK own \in {open[cur], NoSnap}, prev \in {lastClose, NoSnap} :
          loaded' = OpenFrom(own, prev) /\ unread' = IF own = open[cur] THEN unread \ {cur} ELSE unread \cup {cur}
    BY <1>7 DEF LoadOpen
  <2>3. Usable(loaded'.snap) => loaded'.snap.at < close /\ (loaded'.snap.kind = "close" => loaded'.snap.by # cur)
    <3>1. CASE Usable(own)
      BY <1>7, <2>1, <2>2, <3>1 DEF LoadOpen, OpenFrom, KeptInv, RoundInv, Usable, NoSnap
    <3>2. CASE ~Usable(own) /\ Usable(prev) /\ prev.by # cur
      BY <1>7, <2>1, <2>2, <3>2 DEF LoadOpen, OpenFrom, RoundInv, Usable, NoSnap
    <3>3. CASE ~Usable(own) /\ ~(Usable(prev) /\ prev.by # cur)
      BY <2>2, <3>3 DEF OpenFrom, Usable, NotLoaded, NoSnap
    <3>4. QED
      BY <3>1, <3>2, <3>3
  <2>4. open[cur].kind = "open" /\ cur \notin unread' => loaded'.snap = open[cur]
    BY <2>2 DEF OpenFrom, Usable
  <2>5. QED
    BY <1>7, <2>3, <2>4 DEF LoadOpen, RoundInv
<1>8. CASE CheckPlaceholder
  BY <1>8, Values, Moments DEF CheckPlaceholder, CycleTypeOK, TurnsInv, KeptInv, RoundInv, roundProc,
    timerProc, ghosts
<1>9. CASE LeavePlaceholder
  BY <1>9, Values, Moments DEF LeavePlaceholder, MyClose, CycleTypeOK, TurnsInv, KeptInv, RoundInv,
    roundProc, timerProc, ghosts
<1>10. CASE StoreLast
  BY <1>10, Values, Moments DEF StoreLast, MyClose, CycleTypeOK, TurnsInv, KeptInv, RoundInv, roundProc,
    timerProc, ghosts
<1>11. CASE Save
  BY <1>11, Values, Moments DEF Save, Leave, Combined, CycleTypeOK, TurnsInv, KeptInv, RoundInv,
    roundProc, timerProc, ghosts
<1>12. CASE Fail
  BY <1>12, Values, Moments DEF Fail, Leave, CycleTypeOK, TurnsInv, KeptInv, RoundInv, roundProc, timerProc, ghosts
<1>13. CASE UNCHANGED cycleVars
  BY <1>13, Values, Moments DEF cycleVars, CycleTypeOK, TurnsInv, KeptInv, RoundInv, roundProc, timerProc, ghosts
<1>14. QED
  BY CycleNextCases, <1>1, <1>2, <1>3, <1>4, <1>5, <1>6, <1>7, <1>8, <1>9, <1>10, <1>11, <1>12, <1>13

\* The rounds keep their order: what a round finds of others is of earlier ones, unless it
\* is begun again after later ones.
LEMMA OrderStep ==
  ASSUME ~Overlap
  PROVE  CycleTypeOK /\ TurnsInv /\ KeptInv /\ RoundInv /\ OrderInv /\ [CycleNext]_cycleVars => OrderInv'
  <1> SUFFICES ASSUME CycleTypeOK, TurnsInv, KeptInv, RoundInv, OrderInv, [CycleNext]_cycleVars PROVE OrderInv'
    OBVIOUS
<1>1. ASSUME NEW r \in RoundId, OpenTick(r) PROVE OrderInv'
  BY <1>1, ~Overlap DEF OpenTick, CycleTypeOK, TurnsInv, OrderInv, Usable, roundProc, timerProc, ghosts
<1>2. ASSUME NEW r \in RoundId, Begin(r) PROVE OrderInv'
  BY <1>2, ~Overlap DEF Begin, CycleTypeOK, TurnsInv, OrderInv, Usable, roundProc, timerProc, ghosts
<1>3. CASE Look
  BY <1>3, ~Overlap DEF Look, CycleTypeOK, TurnsInv, OrderInv, Usable, roundProc, timerProc, ghosts
<1>4. CASE TakeOpen
  BY <1>4, ~Overlap DEF TakeOpen, CycleTypeOK, TurnsInv, OrderInv, Usable, roundProc, timerProc, ghosts
<1>5. CASE StoreOpen
  BY <1>5, ~Overlap DEF StoreOpen, CycleTypeOK, TurnsInv, OrderInv, Usable, roundProc, timerProc, ghosts
<1>6. CASE TakeClose
  BY <1>6, ~Overlap DEF TakeClose, CycleTypeOK, TurnsInv, OrderInv, Usable, roundProc, timerProc, ghosts
<1>7. CASE LoadOpen
  <2>1. cur \in RoundId /\ open[cur] \in Snap /\ lastClose \in Snap
    BY <1>7 DEF LoadOpen, CycleTypeOK, TurnsInv
  <2>2. PICK own \in {open[cur], NoSnap}, prev \in {lastClose, NoSnap} : loaded' = OpenFrom(own, prev)
    BY <1>7 DEF LoadOpen
  <2>3. cur \notin late /\ Usable(loaded'.snap) =>
          IF loaded'.snap.kind = "open" THEN loaded'.snap.by = cur ELSE loaded'.snap.by < cur
    <3> SUFFICES ASSUME cur \notin late, Usable(loaded'.snap)
                 PROVE  IF loaded'.snap.kind = "open" THEN loaded'.snap.by = cur ELSE loaded'.snap.by < cur
      OBVIOUS
    <3>1. CASE Usable(own)
      BY <2>1, <2>2, <3>1 DEF OpenFrom, OrderInv, Usable, NoSnap
    <3>2. CASE ~Usable(own) /\ Usable(prev) /\ prev.by # cur
      <4>1. loaded'.snap = lastClose /\ lastClose.kind = "close" /\ lastClose.by \in RoundId /\ lastClose.by # cur
            /\ doc[lastClose.by].mode # "none"
        BY <2>2, <3>2 DEF OpenFrom, OrderInv, Usable, NoSnap
      <4>2. ~(lastClose.by > cur)
        BY <1>7, <2>1, <4>1 DEF LoadOpen, OrderInv
      <4>3. QED
        BY <2>1, <4>1, <4>2, ReadingsAssumption DEF RoundId
    <3>3. CASE ~Usable(own) /\ ~(Usable(prev) /\ prev.by # cur)
      BY <2>2, <3>3 DEF OpenFrom, Usable, NotLoaded, NoSnap
    <3>4. QED
      BY <3>1, <3>2, <3>3
  <2>4. QED
    BY <1>7, <2>3 DEF LoadOpen, OrderInv, timerProc
<1>8. CASE CheckPlaceholder
  BY <1>8, ~Overlap DEF CheckPlaceholder, CycleTypeOK, TurnsInv, OrderInv, Usable, roundProc, timerProc, ghosts
<1>9. CASE LeavePlaceholder
  <2>1. cur \in RoundId /\ Following[cur] \in RoundId /\ Following[cur] > cur
    BY <1>9, FollowingAssumption DEF LeavePlaceholder, TurnsInv, RoundInv, RoundId, NoRound
  <2>2. MyClose.kind = "close" /\ MyClose.by = cur
    BY DEF MyClose
  <2>3. \A r \in RoundId : Usable(open'[r]) => IF open'[r].kind = "open" THEN open'[r].by = r ELSE open'[r].by < r
    <3> SUFFICES ASSUME NEW r \in RoundId, Usable(open'[r])
                 PROVE  IF open'[r].kind = "open" THEN open'[r].by = r ELSE open'[r].by < r
      OBVIOUS
    <3>1. CASE open'[r] = open[r]
      BY <3>1 DEF OrderInv
    <3>2. CASE open'[r] # open[r]
      <4>1. r = Following[cur] /\ open'[r] = MyClose
        BY <1>9, <3>2 DEF LeavePlaceholder, CycleTypeOK
      <4>2. QED
        BY <2>1, <2>2, <4>1, ReadingsAssumption DEF RoundId
    <3>3. QED
      BY <3>1, <3>2
  <2>4. QED
    BY <1>9, <2>3 DEF LeavePlaceholder, OrderInv, timerProc, ghosts
<1>10. CASE StoreLast
  <2>1. cur \in RoundId /\ doc[cur].mode # "none"
    BY <1>10 DEF StoreLast, TurnsInv
  <2>2. lastClose'.kind = "close" /\ lastClose'.by = cur
    BY <1>10 DEF StoreLast, MyClose
  <2>3. QED
    BY <1>10, <2>1, <2>2 DEF StoreLast, OrderInv, timerProc, ghosts
<1>11. CASE Save
  BY <1>11, ~Overlap DEF Save, Leave, Combined, Modes, NotLoaded, NoSnap, CycleTypeOK, TurnsInv, OrderInv,
    Usable, roundProc, timerProc, ghosts
<1>12. CASE Fail
  BY <1>12, ~Overlap DEF Fail, Leave, NotLoaded, NoSnap, CycleTypeOK, TurnsInv, OrderInv, Usable, roundProc,
    timerProc, ghosts
<1>13. CASE UNCHANGED cycleVars
  BY <1>13 DEF cycleVars, OrderInv
<1>14. QED
  BY CycleNextCases, <1>1, <1>2, <1>3, <1>4, <1>5, <1>6, <1>7, <1>8, <1>9, <1>10, <1>11, <1>12, <1>13

\* A real open is never replaced: the timer found none under the key, and nothing
\* but the round stored there since, which leaves no real open.
LEMMA KeptOpen ==
  CycleTypeOK /\ TurnsInv /\ KeptInv /\ RoundInv /\ [CycleNext]_cycleVars =>
    \A r \in RoundId : open[r].kind = "open" => open'[r] = open[r]
  <1> SUFFICES ASSUME CycleTypeOK, TurnsInv, KeptInv, RoundInv, [CycleNext]_cycleVars,
                      NEW q \in RoundId, open[q].kind = "open"
               PROVE  open'[q] = open[q]
    OBVIOUS
<1>1. ASSUME NEW r \in RoundId, OpenTick(r) PROVE open'[q] = open[q]
  BY <1>1 DEF OpenTick, OpenTick, CycleTypeOK, KeptInv, RoundInv
<1>2. ASSUME NEW r \in RoundId, Begin(r) PROVE open'[q] = open[q]
  BY <1>2 DEF Begin, Begin, CycleTypeOK, KeptInv, RoundInv
<1>3. CASE Look
  BY <1>3 DEF Look, CycleTypeOK, KeptInv, RoundInv
<1>4. CASE TakeOpen
  BY <1>4 DEF TakeOpen, CycleTypeOK, KeptInv, RoundInv
<1>5. CASE StoreOpen
  BY <1>5 DEF StoreOpen, CycleTypeOK, KeptInv, RoundInv
<1>6. CASE TakeClose
  BY <1>6 DEF TakeClose, CycleTypeOK, KeptInv, RoundInv
<1>7. CASE LoadOpen
  BY <1>7 DEF LoadOpen, CycleTypeOK, KeptInv, RoundInv
<1>8. CASE CheckPlaceholder
  BY <1>8 DEF CheckPlaceholder, CycleTypeOK, KeptInv, RoundInv
<1>9. CASE LeavePlaceholder
  BY <1>9 DEF LeavePlaceholder, MyClose, CycleTypeOK, KeptInv, RoundInv
<1>10. CASE StoreLast
  BY <1>10 DEF StoreLast, MyClose, CycleTypeOK, KeptInv, RoundInv
<1>11. CASE Save
  BY <1>11 DEF Save, Leave, Combined, CycleTypeOK, KeptInv, RoundInv
<1>12. CASE Fail
  BY <1>12 DEF Fail, Leave, CycleTypeOK, KeptInv, RoundInv
<1>13. CASE UNCHANGED cycleVars
  BY <1>13 DEF cycleVars, CycleTypeOK, KeptInv, RoundInv
<1>14. QED
  BY CycleNextCases, <1>1, <1>2, <1>3, <1>4, <1>5, <1>6, <1>7, <1>8, <1>9, <1>10, <1>11, <1>12, <1>13

-----------------------------------------------------------------------------
(* The snapshots of a cycle: the weighing.                                 *)

\* A round is saved with what it loaded and its close; afterwards neither its
\* document nor a real open of its cycle changes.
LEMMA WeighedStep ==
  ASSUME ~Overlap
  PROVE  CycleIInv /\ [CycleNext]_cycleVars => WeighedByTheCycle'
  <1> SUFFICES ASSUME CycleIInv, [CycleNext]_cycleVars PROVE WeighedByTheCycle'
    OBVIOUS
  <1> USE DEF CycleIInv
<1>1. ASSUME NEW r \in RoundId, OpenTick(r) PROVE WeighedByTheCycle'
  BY <1>1, ~Overlap DEF OpenTick, OpenTick, CycleTypeOK, TurnsInv, WeighedByTheCycle, WindowIsReal,
    OpenIsUsed, CycleIsItsOwn, Weighted, Usable, Modes, roundProc, timerProc, ghosts
<1>2. ASSUME NEW r \in RoundId, Begin(r) PROVE WeighedByTheCycle'
  BY <1>2, ~Overlap DEF Begin, Begin, CycleTypeOK, TurnsInv, WeighedByTheCycle, WindowIsReal, OpenIsUsed,
    CycleIsItsOwn,
    Weighted, Usable, Modes, roundProc, timerProc, ghosts
<1>3. CASE Look
  BY <1>3, ~Overlap DEF Look, CycleTypeOK, TurnsInv, WeighedByTheCycle, WindowIsReal, OpenIsUsed, CycleIsItsOwn,
    Weighted, Usable, Modes, roundProc, timerProc, ghosts
<1>4. CASE TakeOpen
  BY <1>4, ~Overlap DEF TakeOpen, CycleTypeOK, TurnsInv, WeighedByTheCycle, WindowIsReal, OpenIsUsed, CycleIsItsOwn,
    Weighted, Usable, Modes, roundProc, timerProc, ghosts
<1>5. CASE StoreOpen
  BY <1>5, ~Overlap DEF StoreOpen, CycleTypeOK, TurnsInv, WeighedByTheCycle, WindowIsReal, OpenIsUsed,
    CycleIsItsOwn,
    Weighted, Usable, Modes, roundProc, timerProc, ghosts
<1>6. CASE TakeClose
  BY <1>6, ~Overlap DEF TakeClose, CycleTypeOK, TurnsInv, WeighedByTheCycle, WindowIsReal, OpenIsUsed,
    CycleIsItsOwn,
    Weighted, Usable, Modes, roundProc, timerProc, ghosts
<1>7. CASE LoadOpen
  BY <1>7, ~Overlap DEF LoadOpen, CycleTypeOK, TurnsInv, WeighedByTheCycle, WindowIsReal, OpenIsUsed, CycleIsItsOwn,
    Weighted, Usable, Modes, roundProc, timerProc, ghosts
<1>8. CASE CheckPlaceholder
  BY <1>8, ~Overlap DEF CheckPlaceholder, CycleTypeOK, TurnsInv, WeighedByTheCycle, WindowIsReal,
    OpenIsUsed, CycleIsItsOwn, Weighted, Usable, Modes, roundProc, timerProc, ghosts
<1>9. CASE LeavePlaceholder
  BY <1>9, ~Overlap DEF LeavePlaceholder, MyClose, CycleTypeOK, TurnsInv, WeighedByTheCycle, WindowIsReal,
    OpenIsUsed, CycleIsItsOwn, Weighted, Usable, Modes, roundProc, timerProc, ghosts
<1>10. CASE StoreLast
  BY <1>10, ~Overlap DEF StoreLast, MyClose, CycleTypeOK, TurnsInv, WeighedByTheCycle, WindowIsReal,
    OpenIsUsed, CycleIsItsOwn, Weighted, Usable, Modes, roundProc, timerProc, ghosts
<1>11. CASE Save
  <2>1. cur \in RoundId /\ loaded \in [mode : Modes, snap : Snap]
    BY <1>11 DEF Save, CycleTypeOK, TurnsInv
  <2>2. doc'[cur] = Combined /\ \A r \in RoundId \ {cur} : doc'[r] = doc[r]
    BY <1>11, <2>1 DEF Save, CycleTypeOK
  <2>3. /\ Usable(loaded.snap) =>
             loaded.snap.at < close /\ (loaded.snap.kind = "close" => loaded.snap.by # cur)
        /\ open[cur].kind = "open" /\ cur \notin unread => loaded.snap = open[cur]
        /\ UNCHANGED <<open, unread, late>>
    BY <1>11 DEF Save, RoundInv, ghosts
  <2>4. Weighted' \subseteq Weighted \cup {cur}
    BY <2>2 DEF Weighted
  <2>5. WindowIsReal'
    <3> SUFFICES ASSUME NEW r \in Weighted', Usable(doc[r].open)'
                 PROVE  /\ (doc[r].open.at < doc[r].close)'
                        /\ (doc[r].open.kind = "close" => doc[r].open.by # r)'
      BY DEF WindowIsReal
    <3>1. CASE r = cur
      BY <2>2, <2>3, <3>1 DEF Combined, Usable
    <3>2. CASE r # cur
      BY <2>2, <2>4, <3>2 DEF WindowIsReal, WeighedByTheCycle, Usable, Weighted
    <3>3. QED
      BY <3>1, <3>2
  <2>6. OpenIsUsed'
    BY <1>11, <2>2, <2>3, <2>4 DEF Save, OpenIsUsed, WeighedByTheCycle, Combined
  <2>7. CycleIsItsOwn'
    <3> SUFFICES ASSUME NEW r \in Weighted', r \notin late, Usable(doc'[r].open)
                 PROVE  IF doc'[r].open.kind = "open" THEN doc'[r].open.by = r ELSE doc'[r].open.by < r
      BY <2>3 DEF CycleIsItsOwn
    <3>1. CASE r = cur
      BY <1>11, <2>2, <3>1 DEF Save, Combined, OrderInv, Usable
    <3>2. CASE r # cur
      BY <2>2, <2>4, <3>2 DEF CycleIsItsOwn, WeighedByTheCycle, Usable, Weighted
    <3>3. QED
      BY <3>1, <3>2
  <2>8. QED
    BY <2>5, <2>6, <2>7 DEF WeighedByTheCycle
<1>12. CASE Fail
  BY <1>12, ~Overlap DEF Fail, Leave, CycleTypeOK, TurnsInv, WeighedByTheCycle, WindowIsReal, OpenIsUsed,
    CycleIsItsOwn,
    Weighted, Usable, Modes, roundProc, timerProc, ghosts
<1>13. CASE UNCHANGED cycleVars
  BY <1>13, ~Overlap DEF cycleVars, CycleTypeOK, TurnsInv, WeighedByTheCycle, WindowIsReal, OpenIsUsed,
    CycleIsItsOwn,
    Weighted, Usable, Modes, roundProc, timerProc, ghosts
<1>14. QED
  BY CycleNextCases, <1>1, <1>2, <1>3, <1>4, <1>5, <1>6, <1>7, <1>8, <1>9, <1>10, <1>11, <1>12, <1>13

\* The invariant holds at the start.
LEMMA CycleIInvInit ==
  CycleInit => CycleIInv
  <1> SUFFICES ASSUME CycleInit PROVE CycleIInv
    OBVIOUS
  <1>1. CycleTypeOK
    BY CycleTypeInit
  <1>2. TurnsInv /\ KeptInv /\ RoundInv /\ OrderInv
    BY DEF CycleInit, TurnsInv, KeptInv, RoundInv, OrderInv, Usable, NoSnap
  <1>3. WeighedByTheCycle
    BY DEF CycleInit, WeighedByTheCycle, WindowIsReal, OpenIsUsed, CycleIsItsOwn, Weighted, Modes, NoDoc
  <1>4. QED
    BY <1>1, <1>2, <1>3 DEF CycleIInv

\* Every step keeps the invariant.
LEMMA CycleIInvStep ==
  ASSUME ~Overlap
  PROVE  CycleIInv /\ [CycleNext]_cycleVars => CycleIInv'
  BY ~Overlap, CycleTypeStep, TurnsStep, KeptStep, RoundStep, OrderStep, WeighedStep DEF CycleIInv

-----------------------------------------------------------------------------
(* The snapshots of a cycle: the theorems.                                 *)

\* Every reachable state satisfies the inductive invariant.
THEOREM CycleInductive ==
  ASSUME ~Overlap
  PROVE  CycleSpec => []CycleIInv
  <1>1. CycleInit => CycleIInv
    BY CycleIInvInit
  <1>2. CycleIInv /\ [CycleNext]_cycleVars => CycleIInv'
    BY ~Overlap, CycleIInvStep
  <1>3. QED
    BY <1>1, <1>2, PTL DEF CycleSpec

\* A holder is weighed on two moments, the second the round's close, however often the
\* SNAPSHOT step died and was run again: the first is the reading of the round's own window,
\* when there is one that it could read, and else the close of an earlier round, unless
\* later ones were begun before it (runner.js, takeOpenSnapshot and SNAPSHOT).
THEOREM WeighedOnTheRightOpen ==
  ASSUME ~Overlap
  PROVE  CycleSpec => []WeighedByTheCycle
  <1>1. CycleIInv => WeighedByTheCycle
    BY DEF CycleIInv
  <1>2. CycleSpec => []CycleIInv
    BY ~Overlap, CycleInductive
  <1>3. QED
    BY <1>1, <1>2, PTL

\* "A real in-window open is never replaced", neither by a second reading of the
\* timer nor by the close a round leaves under the next cycle's key.
THEOREM RealOpensAreFinal ==
  ASSUME ~Overlap
  PROVE  CycleSpec => OpenIsKept
  <1>1. CycleIInv /\ [CycleNext]_cycleVars => [\A r \in RoundId : open[r].kind = "open" => open'[r] = open[r]]_cycleVars
    BY KeptOpen DEF CycleIInv
  <1>2. CycleSpec => []CycleIInv
    BY ~Overlap, CycleInductive
  <1>3. QED
    BY <1>1, <1>2, PTL DEF CycleSpec, OpenIsKept
=============================================================================
