------------------------------- MODULE Daemon -------------------------------
(***************************************************************************)
(* The daemon's cycle over time: which interval is counted, when the next  *)
(* block is due, which warnings are shown and when the screen is locked.   *)
(*                                                                         *)
(* Agent models the same cycle step by step against the client, with time  *)
(* left to chance; here a cycle is one action and time is explicit.  A     *)
(* reading of the clock has a wall part and, when it comes from the clock  *)
(* and not from a calendar, a monotonic part, which stands still while the *)
(* computer is suspended (Go's time.Time).                                 *)
(*                                                                         *)
(* Abstractions.  One unit stands for the seconds between two cycles, so   *)
(* no fraction of a second is left over; one graphical session at a time;  *)
(* quotas do not change during the run.  Whether a screen is locked, and   *)
(* with it the effects of control commands and of a failed lock, is left   *)
(* to Agent; so is the text of a warning and whether a locked screen lets  *)
(* it pass.  An unlock that a command asked for may fail.                  *)
(***************************************************************************)
EXTENDS Schedule, FiniteSetsExt

CONSTANTS
  Dates,          \* the run covers dates 0..Dates-1
  Quota,          \* units allowed on each weekday
  Policies,       \* sets of routines the server may have accepted together
  Session, None,
  Checkpoint,     \* units between two checkpoints
  Retry,          \* sessionLockRetryInterval
  Warning, FiveMinutes, OneMinute,   \* distances of the warnings from a block
  Rearm,          \* minimumRearm
  Sleep,          \* units that the computer sleeps
  MaxChanges      \* bound: what happens to a cycle, time apart

Horizon == Dates * DayLength
Date    == 0..(Dates - 1)
Control == {"offline", "normal", "paused", "blocked"}

\* The monotonic clock has run for a while when the daemon starts, so that no
\* reading that the daemon computes lies before its beginning.
Origin == Warning + FiveMinutes + OneMinute

ASSUME DaemonAssumption ==
  /\ Quota \in [WeekDay -> Nat]
  /\ \A p \in Policies : p \subseteq Routine /\ \A r \in p : Accepts(p \ {r}, r)
  /\ {Dates, Checkpoint, Retry, OneMinute, FiveMinutes, Rearm} \subseteq Nat \ {0}
  /\ {Warning, Sleep, MaxChanges} \subseteq Nat
  /\ None \notin Session

VARIABLES
  clock,      \* the present, with its monotonic part
  rules,      \* policy in the agent's store: revision and routines
  bonus,      \* bonuses of each date
  control,    \* control state of the last heartbeat, or "offline"
  confirmed,  \* confirmed_session_state
  desk,       \* graphical session of the controlled user
  usage,      \* daily_usage
  tracker,    \* UsageTracker
  last,       \* lastAt, lastShouldCount, lastHadSession, lastCountUntil
  decision,   \* Status.Decision of the last complete cycle
  warned,     \* alert.Tracker
  attempt,    \* lockAttempts
  counted,    \* history: the instants that the last cycle counted, the end of all
              \* that were, and the number of cycles that went back behind it
  since,      \* history: whether the block was more than a minute ahead when the
              \* present authorization period was first seen, whether it has come
              \* closer since; the routines of the last cycle, and whether the
              \* unlocks that it asked for succeeded
  changes,    \* history: inputs that changed, restarts and failures
  failures    \* history: failed calls of the store

ghosts == <<counted, since, changes, failures>>
inputs == <<clock, rules, bonus, control, confirmed, desk>>
memory == <<tracker, last, decision, warned, attempt>>
vars   == <<inputs, usage, memory, ghosts>>

-----------------------------------------------------------------------------
(* Readings of the clock. *)

Time == [wall : Int, mono : Int]
Zero == [wall |-> -1, mono |-> -1]
AtWall(w) == [wall |-> w, mono |-> -1]

\* Add and Sub of time.Time: monotonic when both readings are.
Plus(t, d) == [wall |-> t.wall + d, mono |-> IF t.mono < 0 THEN -1 ELSE t.mono + d]
Minus(t, u) == IF t.mono >= 0 /\ u.mono >= 0 THEN t.mono - u.mono ELSE t.wall - u.wall

\* Mutant: the interval is not cut at the predicted block.
UncappedElapsed(start, end, until) == IF Minus(end, start) > 0 THEN Minus(end, start) ELSE 0

CappedElapsed(start, end, until) ==
  LET e == IF until # Zero /\ Minus(until, end) < 0 THEN until ELSE end
  IN IF Minus(e, start) > 0 THEN Minus(e, start) ELSE 0

Today    == DateOf(clock.wall)
Midnight == AtWall(Today * DayLength)

-----------------------------------------------------------------------------
(* policy.Evaluate. *)

Blocked(why) == [allowed |-> FALSE, reason |-> why, count |-> FALSE, nextAt |-> Zero,
  nextReason |-> "none"]
Passed(why)  == [Blocked(why) EXCEPT !.allowed = TRUE]

\* Mutant: the end of the balance whatever routine begins before it.
UntilQuota(now, remaining, routines) ==
  [allowed |-> TRUE, reason |-> "allowed", count |-> TRUE,
   nextAt |-> Plus(now, remaining), nextReason |-> "quota"]

\* The earlier of the next routine and the end of the balance; a routine wins ties.
Until(now, remaining, routines) ==
  LET start == NextRoutineStart(routines, now.wall)
      end   == Plus(now, remaining)
      first == start # Never /\ start <= end.wall
  IN [allowed |-> TRUE, reason |-> "allowed", count |-> TRUE,
      nextAt |-> IF first THEN AtWall(start) ELSE end,
      nextReason |-> IF first THEN "routine" ELSE "quota"]

Evaluate(now, ctl, remaining, routines) ==
  CASE ctl = "paused" -> Passed("paused")
    [] ctl = "blocked" -> Blocked("manual_block")
    [] ctl \in {"offline", "normal"} /\ ActiveRoutine(routines, now.wall) -> Blocked("routine")
    [] OTHER -> IF remaining = 0 THEN Blocked("quota") ELSE Until(now, remaining, routines)

MaxOf(a, b) == Max({a, b})

\* Mutant: a balance may be negative.
RemainingUnclamped(t) ==
  IF control = "offline" THEN Quota[WeekDayOf(t.date)] + bonus[t.date] - t.seconds
    ELSE IF confirmed # None /\ confirmed.date = t.date
           THEN confirmed.remaining - MaxOf(0, t.seconds - confirmed.usage) ELSE 0

\* What is left on the tracker's date: the server's balance while online, the
\* agent's own otherwise.
Remaining(t) ==
  IF control = "offline"
    THEN MaxOf(0, Quota[WeekDayOf(t.date)] + bonus[t.date] - t.seconds)
    ELSE IF confirmed # None /\ confirmed.date = t.date
           THEN MaxOf(0, confirmed.remaining - MaxOf(0, t.seconds - confirmed.usage)) ELSE 0

EvaluateNow(now, t) == Evaluate(now, control, Remaining(t), rules.routines)

-----------------------------------------------------------------------------
(* The counter. `mem` is the tracker with the table and the history it writes. *)

Mem == [tracker |-> tracker, usage |-> usage, instants |-> {}]

Persist(mem) ==
  [mem EXCEPT !.usage[mem.tracker.date] = MaxOf(@, mem.tracker.seconds), !.tracker.tail = 0]

CheckpointDue(mem, n) == n > 0 /\ mem.tracker.tail + n >= Checkpoint

\* addElapsed of n units that began at `start`; the counter in memory has grown
\* when the checkpoint fails.
InMemory(mem, start, n) ==
  [mem EXCEPT !.tracker.seconds = @ + n, !.tracker.tail = @ + n,
              !.instants = @ \cup start.wall..(start.wall + n - 1)]

AddElapsed(mem, start, n) ==
  IF CheckpointDue(mem, n) THEN Persist(InMemory(mem, start, n)) ELSE InMemory(mem, start, n)

\* prepareTracker: the old counter is flushed and the new date's is loaded.
PrepareTracker(mem) ==
  LET flushed == IF mem.tracker = None THEN mem ELSE Persist(mem)
  IN [flushed EXCEPT !.tracker = [date |-> Today, seconds |-> flushed.usage[Today], tail |-> 0]]

NewDay  == tracker # None /\ tracker.date # Today
SameDay == tracker # None /\ tracker.date = Today

Counting == last.at # Zero /\ last.count /\ last.hadSession
SinceLast == IF Counting THEN CappedElapsed(last.at, clock, last.until) ELSE 0
BeforeMidnight == IF Counting THEN CappedElapsed(last.at, Midnight, last.until) ELSE 0

\* Mutant: the whole interval is given to the new date.
AfterMidnightSinceLast(mem) ==
  LET d == EvaluateNow(Midnight, mem.tracker)
  IN IF d.count /\ desk # None
    /\ last.at # Zero THEN CappedElapsed(last.at, clock, d.nextAt) ELSE 0

\* The first cycle of a date decides at midnight whether the rest counts.
AfterMidnight(mem) ==
  LET d == EvaluateNow(Midnight, mem.tracker)
  IN IF d.count /\ desk # None THEN CappedElapsed(Midnight, clock, d.nextAt) ELSE 0

EndOfDay == AddElapsed(Mem, last.at, BeforeMidnight)

Account ==
  IF SameDay THEN AddElapsed(Mem, last.at, SinceLast)
  ELSE IF NewDay
    THEN LET new == PrepareTracker(EndOfDay) IN AddElapsed(new, Midnight, AfterMidnight(new))
    ELSE PrepareTracker(Mem)

ReconcileDue(mem) ==
  confirmed # None /\ confirmed.date = Today /\ mem.tracker.seconds < confirmed.usage

\* EnsureAtLeast raises the counter in memory before it writes.
Raised(mem) == [mem EXCEPT !.tracker.seconds = confirmed.usage, !.tracker.tail = 0]

Reconcile(mem) == IF ReconcileDue(mem) THEN Persist(Raised(mem)) ELSE mem

-----------------------------------------------------------------------------
(* alert.Tracker. *)

ActiveSession == IF desk # None /\ desk.active THEN desk.id ELSE None

Kind == {"primary", "five_minute", "one_minute"}
Distance == [primary |-> Warning, five_minute |-> FiveMinutes, one_minute |-> OneMinute]

\* Two warnings of the same instant are one, of the more urgent kind.
Planned == { k \in Kind : /\ Distance[k] > 0
                          /\ k = "primary" => Warning \notin {FiveMinutes, OneMinute}
                          /\ k = "five_minute" => FiveMinutes # OneMinute }

Cycle == [rev |-> rules.rev, session |-> ActiveSession, date |-> Today]
HasFutureBlock(d) == d.allowed /\ d.nextAt # Zero

NewCycle(d) ==
  \/ ~ warned.active \/ warned.cycle # Cycle \/ warned.reason # d.nextReason
  \/ warned.blockAt # Zero /\ Minus(d.nextAt, warned.blockAt) >= Rearm

\* Mutant: a warning that falls due exactly now waits for a later cycle.
CrossedBeforeNow(d) ==
  { k \in Planned \ warned.emitted :
      LET at == Plus(d.nextAt, - Distance[k])
      IN Minus(at, warned.at) > 0 /\ Minus(at, clock) < 0 }

\* Thresholds passed since the last observation and not yet announced.
Crossed(d) ==
  { k \in Planned \ warned.emitted :
      LET at == Plus(d.nextAt, - Distance[k])
      IN Minus(at, warned.at) > 0 /\ Minus(at, clock) <= 0 }

Observed(d, emitted) ==
  [init |-> TRUE, active |-> HasFutureBlock(d), cycle |-> Cycle, reason |-> d.nextReason,
   at |-> clock, blockAt |-> d.nextAt, emitted |-> emitted]

Due(d) ==
  IF ~ warned.init THEN Observed(d, {})
  ELSE IF ~ HasFutureBlock(d) THEN [warned EXCEPT !.active = FALSE, !.at = clock,
    !.blockAt = Zero]
  ELSE IF NewCycle(d) THEN Observed(d, {})
  ELSE Observed(d, warned.emitted \cup Crossed(d))

-----------------------------------------------------------------------------
(* One cycle. *)

NoLast == [at |-> Zero, count |-> FALSE, hadSession |-> FALSE, until |-> Zero]
NoWarned == [init |-> FALSE, active |-> FALSE, cycle |-> None, reason |-> "none",
             at |-> Zero, blockAt |-> Zero, emitted |-> {}]

Init ==
  /\ clock = [wall |-> 0, mono |-> Origin]
  /\ rules \in [rev : {1}, routines : Policies]
  /\ bonus = [d \in Date |-> 0] /\ usage = [d \in Date |-> 0]
  /\ control = "offline" /\ confirmed = None
  /\ desk \in {None} \cup [id : Session, active : {TRUE}]
  /\ tracker = None /\ last = NoLast /\ decision = Blocked("none")
  /\ warned = NoWarned /\ attempt = Zero
  /\ counted = [instants |-> {}, upto |-> 0, again |-> 0]
  /\ since = [ahead |-> FALSE, closer |-> FALSE, routines |-> {}, unlocked |-> TRUE]
  /\ changes = 0 /\ failures = 0

\* Attempts of sessions that are no longer active are forgotten first of all.
Attempt == IF ActiveSession = None THEN Zero ELSE attempt

\* The confirmed balance is that of the active session, of today and of these rules.
Anchored ==
  /\ confirmed # None /\ confirmed.session = ActiveSession
  /\ confirmed.date = Today /\ confirmed.rev >= rules.rev

AwaitingSynchronization == control = "normal" /\ ActiveSession # None /\ ~ Anchored

Decision(t) ==
  IF AwaitingSynchronization THEN Passed("awaiting_synchronization") ELSE EvaluateNow(clock, t)

FlushDue(d) == ~ d.allowed /\ last.count

LastOf(d) == [at |-> clock, count |-> d.count, hadSession |-> desk # None, until |-> d.nextAt]

SinceOf(d, unlocked) ==
  LET rearmed == ~ warned.init \/ ~ HasFutureBlock(d) \/ NewCycle(d) IN
  [ahead |-> IF rearmed THEN Minus(Plus(d.nextAt, - OneMinute), clock) > 0 ELSE since.ahead,
   closer |-> ~ rearmed /\ (since.closer \/ Minus(d.nextAt, warned.blockAt) < 0),
   routines |-> rules.routines, unlocked |-> unlocked]

Keep(mem) ==
  /\ tracker' = mem.tracker /\ usage' = mem.usage
  /\ counted' = [instants |-> mem.instants,
                 upto |-> Max({counted.upto} \cup { i + 1 : i \in mem.instants }),
                 again |-> IF \E i \in mem.instants : i < counted.upto
                             THEN counted.again + 1 ELSE counted.again]

LockDue(d) == ~ d.allowed /\ ActiveSession # None
  /\ (Attempt = Zero \/ Minus(clock, Attempt) >= Retry)

EndsLock(d) == d.allowed /\ d.reason # "awaiting_synchronization"

\* Mutant: an attempt is remembered across an allowed period.
AttemptRemembered(d, unlocked) == IF LockDue(d) THEN clock ELSE Attempt

\* A blocked session is locked, at most once per retry interval; an allowed cycle whose
\* unlock fails ends before the attempts are cleared.
AttemptAfter(d, unlocked) ==
  IF LockDue(d) THEN clock ELSE IF EndsLock(d) /\ unlocked THEN Zero ELSE Attempt

\* Step, when every call of the store succeeds.
Complete(unlocked) ==
  LET mem == Reconcile(Account)
      d   == Decision(mem.tracker)
  IN
  /\ last.at # clock
  /\ unlocked \/ (EndsLock(d) /\ control # "offline" /\ ActiveSession # None)
  /\ Keep(IF FlushDue(d) THEN Persist(mem) ELSE mem)
  /\ decision' = d
  /\ warned' = Due(d)
  /\ last' = LastOf(d)
  /\ attempt' = AttemptAfter(d, unlocked)
  /\ since' = SinceOf(d, unlocked)
  /\ UNCHANGED <<inputs, changes, failures>>

Step == Complete(TRUE)

\* The command that ended a block is still pending, and the session's Unlock fails.
UnlockFails == Complete(FALSE)

Change == changes < MaxChanges /\ changes' = changes + 1

\* A call of the store fails.  The cycle ends where it is: what was counted in
\* memory stays counted and lastAt does not advance.
FailedStep(mem) ==
  /\ Change /\ failures' = failures + 1
  /\ Keep(mem)
  /\ attempt' = Attempt
  /\ UNCHANGED <<inputs, last, decision, warned, since>>

\* The checkpoint of the counting.
CountFails ==
  \/ SameDay /\ CheckpointDue(Mem, SinceLast) /\ FailedStep(InMemory(Mem, last.at, SinceLast))
  \/ NewDay /\ CheckpointDue(Mem, BeforeMidnight)
       /\ FailedStep(InMemory(Mem, last.at, BeforeMidnight))
  \/ LET new == PrepareTracker(EndOfDay) IN
       NewDay /\ CheckpointDue(new, AfterMidnight(new))
              /\ FailedStep(InMemory(new, Midnight, AfterMidnight(new)))

\* The flush of the old date's counter, or the reading of the bonus at midnight.
PrepareFails ==
  \/ NewDay /\ FailedStep(EndOfDay)
  \/ NewDay /\ control = "offline" /\ FailedStep(PrepareTracker(EndOfDay))

\* The reconciliation, the reading of the bonus, or the flush before a lock.
DecideFails ==
  \/ ReconcileDue(Account) /\ FailedStep(Raised(Account))
  \/ LET mem == Reconcile(Account)
         d == Decision(mem.tracker)
     IN (control = "offline" \/ FlushDue(d)) /\ FailedStep(mem)

-----------------------------------------------------------------------------
(* What the daemon does not decide. *)

Elapse(wall, mono) ==
  /\ clock.wall + wall < Horizon
  /\ clock' = [wall |-> clock.wall + wall, mono |-> clock.mono + mono]
  /\ UNCHANGED <<rules, bonus, control, confirmed, desk, usage, memory, counted, since,
       failures>>

Tick == Elapse(1, 1) /\ UNCHANGED changes

\* The computer sleeps: the wall clock goes on, the monotonic one stands still.
Suspend == Change /\ Elapse(Sleep, 0)

Desk(new) ==
  /\ Change
  /\ desk' = new
  /\ UNCHANGED <<clock, rules, bonus, control, confirmed, usage, memory, counted, since,
       failures>>

Login(x)   == desk = None /\ Desk([id |-> x, active |-> TRUE])
Logout     == desk # None /\ Desk(None)
SwitchUser == desk # None /\ Desk([desk EXCEPT !.active = ~ @])

ReplacePolicy(routines) ==
  /\ Change
  /\ rules' = [rev |-> rules.rev + 1, routines |-> routines]
  /\ UNCHANGED <<clock, bonus, control, confirmed, desk, usage, memory, counted, since,
       failures>>

\* AddBonusWithEvent: also in the confirmed balance of the same date.
AddBonus ==
  /\ Change
  /\ bonus' = [bonus EXCEPT ![Today] = @ + 1]
  /\ confirmed' = IF confirmed # None /\ confirmed.date = Today
                    THEN [confirmed EXCEPT !.remaining = @ + 1] ELSE confirmed
  /\ UNCHANGED <<clock, rules, control, desk, usage, memory, counted, since, failures>>

\* A heartbeat ends: control state, and a balance for the session if it lacks
\* one.  A server that knows of more usage is that of a reinstalled agent.
Heartbeat(ctl, extra) ==
  LET total == MaxOf(usage[Today], extra)
      allowance == Quota[WeekDayOf(Today)] + bonus[Today]
      wanted == ActiveSession # None /\ ~ Anchored
  IN
  /\ Change
  /\ extra > 0 => wanted /\ confirmed = None /\ extra <= allowance
  /\ control' = ctl
  /\ confirmed' = IF wanted
       THEN [rev |-> rules.rev, session |-> ActiveSession, date |-> Today,
             remaining |-> MaxOf(0, allowance - total), usage |-> total] ELSE confirmed
  /\ usage' = IF wanted THEN [usage EXCEPT ![Today] = total] ELSE usage
  /\ UNCHANGED <<clock, rules, bonus, desk, memory, counted, since, failures>>

HeartbeatFails ==
  /\ Change
  /\ control # "offline" /\ control' = "offline"
  /\ UNCHANGED <<clock, rules, bonus, confirmed, desk, usage, memory, counted, since, failures>>

\* The process stops, with or without the flush of an orderly shutdown, and
\* starts again: what is in memory is gone.
Restart(flushed) ==
  /\ Change
  /\ flushed => tracker # None
  /\ usage' = IF flushed THEN Persist(Mem).usage ELSE usage
  /\ tracker' = None /\ last' = NoLast /\ decision' = Blocked("none")
  /\ warned' = NoWarned /\ attempt' = Zero
  /\ control' = "offline"
  /\ UNCHANGED <<clock, rules, bonus, confirmed, desk, counted, since, failures>>

Next ==
  \/ Step \/ UnlockFails \/ CountFails \/ PrepareFails \/ DecideFails
  \/ Tick \/ Suspend
  \/ (\E x \in Session : Login(x)) \/ Logout \/ SwitchUser
  \/ \E p \in Policies : ReplacePolicy(p)
  \/ AddBonus
  \/ \E c \in Control \ {"offline"}, extra \in 0..1 : Heartbeat(c, extra)
  \/ HeartbeatFails
  \/ \E flushed \in BOOLEAN : Restart(flushed)

Spec == Init /\ [][Next]_vars

-----------------------------------------------------------------------------
(* Properties *)

\* Counters, deadlines and the state of warnings and locks keep their shape in
\* every cycle, complete or cut short by a failure.
TypeOK ==
  /\ clock \in [wall : 0..(Horizon - 1), mono : Origin..(Origin + Horizon - 1)]
  /\ clock.mono - Origin <= clock.wall
  /\ rules \in [rev : Nat, routines : Policies]
  /\ bonus \in [Date -> Nat] /\ usage \in [Date -> Nat]
  /\ control \in Control
  /\ confirmed # None => confirmed \in [rev : Nat, session : Session, date : Date,
                                        remaining : Nat, usage : Nat]
  /\ desk # None => desk \in [id : Session, active : BOOLEAN]
  /\ tracker # None => tracker \in [date : Date, seconds : Nat, tail : Nat]
  /\ last \in [at : Time, count : BOOLEAN, hadSession : BOOLEAN, until : Time]
  /\ last.count => last.until # Zero /\ Minus(last.until, last.at) > 0
  /\ warned.emitted \subseteq Kind
  /\ counted.instants \subseteq 0..(Horizon - 1) /\ counted.upto \in 0..Horizon
  /\ attempt \in Time /\ Minus(clock, attempt) >= 0

\* The agent has not run a cycle yet, at any instant at which it may start.
Starting == tracker = None /\ changes = 0

\* The server refuses a routine exactly when the agent would find it in force
\* together with another one, over midnight and the end of the week included: of
\* several routines the engine takes the first and relies on there being one.
OverlapTestIsExact == Starting => OverlapIsExact

\* Until the end of the day the predicted start of a routine is the first
\* instant at which the engine blocks: the warnings and the end of the counting
\* hang on it.
NextStartIsExactToday == Starting => NextStartIsExact(clock.wall)

\* No interval is counted twice, whichever cycles are skipped, restarted or late,
\* and over midnight; only a failed call of the store makes one cycle go back,
\* because lastAt advances at the end.
NoInstantCountedTwice == counted.again <= failures

\* The counter never passes what the day allows: the interval between two
\* cycles is cut at the block that the first of them predicted, also when the
\* computer slept or the date changed in between.
BalanceIsNotOverdrawn ==
  tracker # None /\ failures = 0 =>
    tracker.seconds <= Quota[WeekDayOf(tracker.date)] + bonus[tracker.date]

\* Nothing is counted while a routine is in force: on the day of the cycle that
\* opened the interval under the routines of that cycle, on a day that began
\* since under the present ones.
RoutineTimeIsNotCounted ==
  [][ failures = 0 =>
        \A i \in counted'.instants \ counted.instants :
          LET opened == DateOf(last.at.wall) IN
          /\ DateOf(i) = opened => ~ ActiveRoutine(since.routines, i)
          /\ DateOf(i) = Today /\ Today # opened => ~ ActiveRoutine(rules.routines, i) ]_vars

Completes == last'.at # last.at /\ last'.at # Zero

\* Whoever works until a block that was predicted has been warned one minute
\* before (or the screen was locked then): unless it was not that far ahead when
\* the period was first seen, has come closer since, or no cycle fell into the
\* last minute.
WarnedBeforeBlocked ==
  [][ ( /\ Completes /\ warned.active
        /\ ~ decision'.allowed /\ decision'.reason = warned.reason
        /\ Minus(clock, warned.blockAt) >= 0 /\ clock.wall - warned.at.wall <= OneMinute
        /\ since.ahead /\ ~ since.closer )
      => "one_minute" \in warned.emitted ]_vars

\* The cycle that ends an allowed period locks the session it sees at once: the
\* retry interval of an earlier block never delays it.  Only when the unlock of the
\* cycle before has failed may the lock wait, for less than that interval.
BlockingLocksAtOnce ==
  [][ ( /\ Completes /\ decision.allowed /\ decision.reason # "awaiting_synchronization"
        /\ ~ decision'.allowed /\ ActiveSession # None )
      => attempt' = clock \/ (~ since.unlocked /\ Minus(clock, attempt') < Retry) ]_vars

\* "The caller supplies elapsed monotonic durations": a cycle counts at most the
\* time for which the computer was awake since the last one.
OnlyAwakeTimeIsCounted ==
  [][ Completes /\ last.at # Zero /\ failures = 0 =>
        Cardinality(counted'.instants) <= clock.mono - last.at.mono ]_vars

\* "The next predictable block": no routine comes into force before the block
\* that the last cycle announced, the routines being the same.
NoRoutineBeforePrediction ==
  [][ Completes /\ last.count /\ since.routines = rules.routines /\ decision'.reason = "routine"
      => Minus(clock, last.until) >= 0 ]_vars
=============================================================================
