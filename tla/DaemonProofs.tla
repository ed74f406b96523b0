---------------------------- MODULE DaemonProofs ----------------------------
(***************************************************************************)
(* What Daemon guarantees for any number of dates, any length of a day,    *)
(* any quotas, policies, thresholds and intervals, however long the        *)
(* computer sleeps and whichever calls of the store fail.                  *)
(***************************************************************************)
EXTENDS Daemon, ScheduleProofs

-----------------------------------------------------------------------------
(* The inductive invariant. *)

Counter == [date : Date, seconds : Nat, tail : Nat]
Balance == [rev : Nat, session : Session, date : Date, remaining : Nat, usage : Nat]
Reason == {"none", "routine", "quota"}
Moment == [wall : 0..(Horizon - 1), mono : Origin..(Origin + Horizon - 1)]
WarningState ==
  [init : BOOLEAN, active : BOOLEAN,
   cycle : {None} \cup [rev : Nat, session : Session \cup {None}, date : Date],
   reason : Reason, at : Time, blockAt : Time, emitted : SUBSET Kind]

DaemonType ==
  /\ clock \in Moment
  /\ rules \in [rev : Nat, routines : Policies]
  /\ bonus \in [Date -> Nat] /\ usage \in [Date -> Nat]
  /\ control \in Control
  /\ confirmed # None => confirmed \in Balance
  /\ desk # None => desk \in [id : Session, active : BOOLEAN]
  /\ tracker # None => tracker \in Counter
  /\ last \in [at : Time, count : BOOLEAN, hadSession : BOOLEAN, until : Time]
  /\ warned \in WarningState /\ attempt \in Time
  /\ counted \in [instants : SUBSET (0..(Horizon - 1)), upto : 0..Horizon, again : Nat]
  /\ failures \in Nat

\* A reading that the clock gave before: of both its parts the monotonic one has
\* advanced less.
Past(t) ==
  /\ t.wall \in Nat /\ t.mono \in Nat /\ t.mono <= clock.mono
  /\ clock.mono - t.mono <= clock.wall - t.wall

\* An end that is predicted at t is later by the same time on both parts, if it has both.
Ahead(u, t) ==
  /\ u \in Time /\ u # Zero /\ u.wall > t.wall
  /\ u.mono >= 0 => t.mono >= 0 /\ u.mono - t.mono = u.wall - t.wall

ClockInv ==
  /\ clock.mono - Origin <= clock.wall
  /\ last.at # Zero => Past(last.at)
  /\ attempt # Zero => Past(attempt)
  /\ last.count => last.at # Zero /\ Ahead(last.until, last.at)

\* A failed cycle has counted instants that the next one will count again.
Behind == last.at # Zero /\ last.at.wall < counted.upto

CountInv ==
  /\ counted.upto <= clock.wall
  /\ counted.again <= failures /\ (Behind => counted.again < failures)
  /\ tracker # None =>
       /\ tracker.date <= Today
       /\ last.at = Zero => counted.upto <= (tracker.date + 1) * DayLength
       /\ last.at # Zero => last.at.wall < (tracker.date + 1) * DayLength

\* What a date allows.
Allowance(d) == Quota[WeekDayOf(d)] + bonus[d]

BalanceInv ==
  failures = 0 =>
    /\ \A d \in Date : usage[d] <= Allowance(d)
    /\ confirmed # None => confirmed.remaining + confirmed.usage <= Allowance(confirmed.date)
    /\ tracker # None =>
         /\ tracker.seconds <= Allowance(tracker.date)
         /\ last.count =>
              tracker.seconds + (last.until.wall - last.at.wall) <= Allowance(tracker.date)

\* What the interval that is open rests on: no routine was in force when it began, and
\* none that was known then begins before its end.
RoutineInv ==
  /\ since.routines \in SUBSET Routine
  /\ last.count =>
       /\ ~ ActiveRoutine(since.routines, last.at.wall)
       /\ \A c \in RoutineStarts(since.routines, last.at.wall) : last.until.wall <= c
  /\ failures = 0 /\ tracker # None => last.at # Zero /\ DateOf(last.at.wall) = tracker.date

\* No attempt to lock outlives an allowed cycle whose unlocks succeed.
LockInv ==
  /\ decision.allowed \in BOOLEAN
  /\ EndsLock(decision) => attempt = Zero \/ ~ since.unlocked

DaemonInv == DaemonType /\ ClockInv /\ CountInv /\ BalanceInv /\ RoutineInv /\ LockInv

-----------------------------------------------------------------------------
(* Constants and the calendar. *)

LEMMA Numbers ==
  /\ Dates \in Nat /\ Dates > 0 /\ Horizon \in Nat
  /\ Retry \in Nat /\ Retry > 0
  /\ Sleep \in Nat
  /\ OneMinute \in Nat /\ OneMinute > 0 /\ Origin \in Nat /\ OneMinute <= Origin
  BY DaemonAssumption, Lengths DEF Horizon, Origin

LEMMA Rules ==
  ASSUME NEW p \in Policies
  PROVE  p \in SUBSET Routine
  BY DaemonAssumption

LEMMA QuotaIs == ASSUME NEW d \in Date PROVE Quota[WeekDayOf(d)] \in Nat
<1>1. WeekDayOf(d) \in WeekDay
  <2>1. d \in Int BY Numbers DEF Date
  <2>2. QED BY <2>1, WeekDays
<1>2. QED BY <1>1, DaemonAssumption

\* The present lies between the midnights of its date.
LEMMA TodayIs ==
  ASSUME clock \in Moment
  PROVE  /\ clock.wall \in Nat /\ clock.mono \in Nat /\ clock.wall < Horizon
         /\ Origin <= clock.mono /\ clock \in Time /\ clock # Zero
         /\ Today \in Date /\ Today \in Nat
         /\ Today * DayLength \in Nat /\ Today * DayLength <= clock.wall
         /\ clock.wall < (Today + 1) * DayLength
         /\ Midnight = [wall |-> Today * DayLength, mono |-> -1] /\ Midnight \in Time
<1>1. /\ clock.wall \in Nat /\ clock.mono \in Nat /\ clock.wall < Horizon
      /\ Origin <= clock.mono
  BY Numbers DEF Moment
<1>2. clock \in Time /\ clock # Zero BY <1>1 DEF Time, Zero, Moment
<1>3. Today \in Nat BY <1>1, NaturalDate DEF Today
<1>4. Today * DayLength <= clock.wall /\ clock.wall < (Today + 1) * DayLength
  BY <1>1, <1>3, Within DEF Today
<1>5. Today * DayLength \in Nat BY <1>3, Lengths
<1>6. Today \in Date
  <2>1. CASE Today >= Dates
    <3>1. Dates * DayLength <= Today * DayLength BY <1>3, <2>1, LaterDate, Numbers, Lengths
    <3>2. QED BY <1>1, <1>4, <1>5, <3>1, Numbers, Lengths DEF Horizon
  <2>2. QED BY <1>3, <2>1, Numbers DEF Date
<1>7. Midnight = [wall |-> Today * DayLength, mono |-> -1] /\ Midnight \in Time
  BY <1>5 DEF Midnight, AtWall, Time
<1>8. QED BY <1>1, <1>2, <1>3, <1>4, <1>5, <1>6, <1>7

LEMMA LargerOf ==
  ASSUME NEW a \in Int, NEW b \in Int
  PROVE  MaxOf(a, b) = IF a >= b THEN a ELSE b
  BY DEF MaxOf, Max

\* A set of numbers up to n has a greatest one.
LEMMA Greatest ==
  ASSUME NEW n \in Nat, NEW T, T \subseteq 0..n, T # {}
  PROVE  Max(T) \in T /\ \A x \in T : x <= Max(T)
<1> DEFINE U == { n - x : x \in T }
<1>1. \A x \in T : x \in Int /\ n - x \in Nat OBVIOUS
<1>2. PICK u \in U : \A v \in U : u <= v
  <2>1. U \subseteq Nat /\ U # {} BY <1>1
  <2>2. QED BY <2>1, LeastNatural
<1>3. PICK m \in T : u = n - m BY <1>2
<1>4. ASSUME NEW x \in T PROVE m >= x
  <2>1. u <= n - x BY <1>2
  <2>2. QED BY <1>1, <1>3, <2>1
<1>5. Max(T) \in T /\ \A x \in T : Max(T) >= x BY <1>3, <1>4 DEF Max
<1>6. QED BY <1>5

-----------------------------------------------------------------------------
(* Readings of the clock. *)

LEMMA Readings ==
  ASSUME NEW t \in Time
  PROVE  t.wall \in Int /\ t.mono \in Int
  BY DEF Time

\* What is counted up to an end and a predicted block lasts as long as the wall clock
\* says at most, and not longer than the prediction allows.
LEMMA Elapsed ==
  ASSUME NEW start \in Time, NEW end \in Time, NEW until \in Time,
         Ahead(until, start),
         start.mono >= 0 /\ end.mono >= 0 => end.mono - start.mono <= end.wall - start.wall
  PROVE  LET n == CappedElapsed(start, end, until) IN
         /\ n \in Nat
         /\ n > 0 => n <= end.wall - start.wall
         /\ n <= until.wall - start.wall
<1>1. /\ start.wall \in Int /\ start.mono \in Int /\ end.wall \in Int /\ end.mono \in Int
      /\ until.wall \in Int /\ until.mono \in Int
  BY Readings
<1>2. /\ until # Zero /\ until.wall > start.wall
      /\ until.mono >= 0 => start.mono >= 0 /\ until.mono - start.mono = until.wall - start.wall
  BY DEF Ahead
<1>3. CASE Minus(until, end) < 0
  <2>1. CappedElapsed(start, end, until)
          = IF Minus(until, start) > 0 THEN Minus(until, start) ELSE 0
    BY <1>2, <1>3 DEF CappedElapsed
  <2>2. Minus(until, start) = until.wall - start.wall BY <1>1, <1>2 DEF Minus
  <2>3. until.wall - start.wall <= end.wall - start.wall
    BY <1>1, <1>2, <1>3 DEF Minus
  <2>4. QED BY <1>1, <1>2, <2>1, <2>2, <2>3
<1>4. CASE ~ (Minus(until, end) < 0)
  <2>1. CappedElapsed(start, end, until)
          = IF Minus(end, start) > 0 THEN Minus(end, start) ELSE 0
    BY <1>4 DEF CappedElapsed
  <2>2. Minus(end, start) \in Int /\ Minus(end, start) <= end.wall - start.wall
    BY <1>1 DEF Minus
  <2>3. Minus(end, start) <= until.wall - start.wall
    BY <1>1, <1>2, <1>4 DEF Minus
  <2>4. QED BY <1>1, <1>2, <2>1, <2>2, <2>3
<1>5. QED BY <1>3, <1>4

-----------------------------------------------------------------------------
(* Decisions. *)

\* What is left on a date is a natural number, and never more than the date allows.
LEMMA RemainingFits ==
  ASSUME DaemonType, NEW t \in Counter
  PROVE  /\ Remaining(t) \in Nat
         /\ BalanceInv /\ failures = 0 /\ t.seconds <= Allowance(t.date)
              => t.seconds + Remaining(t) <= Allowance(t.date)
<1>1. /\ t.date \in Date /\ t.seconds \in Nat
      /\ Quota[WeekDayOf(t.date)] \in Nat /\ bonus[t.date] \in Nat
  BY QuotaIs DEF Counter, DaemonType
<1> DEFINE A == Allowance(t.date)
<1>2. A = Quota[WeekDayOf(t.date)] + bonus[t.date] /\ A \in Nat BY <1>1 DEF Allowance
<1> HIDE DEF A
<1>3. CASE control = "offline"
  <2>1. Remaining(t) = MaxOf(0, Quota[WeekDayOf(t.date)] + bonus[t.date] - t.seconds)
    BY <1>3 DEF Remaining
  <2>2. Remaining(t) = IF 0 >= A - t.seconds THEN 0 ELSE A - t.seconds
    BY <1>1, <1>2, <2>1, LargerOf
  <2>3. QED BY <1>1, <1>2, <2>2 DEF A
<1>4. CASE control # "offline" /\ confirmed # None /\ confirmed.date = t.date
  <2>1. confirmed \in Balance BY <1>4 DEF DaemonType
  <2>2. confirmed.remaining \in Nat /\ confirmed.usage \in Nat BY <2>1 DEF Balance
  <2>3. Remaining(t) = MaxOf(0, confirmed.remaining - MaxOf(0, t.seconds - confirmed.usage))
    BY <1>4 DEF Remaining
  <2>4. PICK u \in Int : /\ u = MaxOf(0, t.seconds - confirmed.usage)
                         /\ u >= 0 /\ u >= t.seconds - confirmed.usage
                         /\ (u = 0 \/ u = t.seconds - confirmed.usage)
    BY <1>1, <2>2, LargerOf
  <2>5. Remaining(t) = IF 0 >= confirmed.remaining - u THEN 0 ELSE confirmed.remaining - u
    BY <2>2, <2>3, <2>4, LargerOf
  <2>6. BalanceInv /\ failures = 0 => confirmed.remaining + confirmed.usage <= A
    BY <1>4 DEF BalanceInv, A
  <2>7. QED BY <1>1, <1>2, <2>2, <2>4, <2>5, <2>6 DEF A
<1>5. CASE control # "offline" /\ ~ (confirmed # None /\ confirmed.date = t.date)
  <2>1. Remaining(t) = 0 BY <1>5 DEF Remaining
  <2>2. QED BY <1>1, <2>1
<1>6. QED BY <1>3, <1>4, <1>5

\* What every decision is: an interval may count only until a predicted block that lies
\* ahead, within the balance and before any routine begins, and only while none is in force.
Decided(d, now, remaining, routines) ==
  /\ d.allowed \in BOOLEAN /\ d.count \in BOOLEAN
  /\ d.nextAt \in Time /\ d.nextReason \in Reason
  /\ d.count =>
       /\ Ahead(d.nextAt, now) /\ d.nextAt.wall - now.wall <= remaining
       /\ ~ ActiveRoutine(routines, now.wall)
       /\ \A c \in RoutineStarts(routines, now.wall) : d.nextAt.wall <= c

LEMMA UntilIs ==
  ASSUME NEW now \in Time, now.wall \in Nat, NEW remaining \in Nat, remaining > 0,
         NEW routines \in SUBSET Routine, ~ ActiveRoutine(routines, now.wall)
  PROVE  Decided(Until(now, remaining, routines), now, remaining, routines)
<1> DEFINE start == NextRoutineStart(routines, now.wall)
           end == Plus(now, remaining)
           first == start # Never /\ start <= end.wall
           d == Until(now, remaining, routines)
<1>1. now.wall \in Int /\ now.mono \in Int BY Readings
<1>2. /\ end \in Time /\ end.wall = now.wall + remaining
      /\ end.mono = IF now.mono < 0 THEN -1 ELSE now.mono + remaining
  BY <1>1 DEF Plus, Time
<1>3. end # Zero BY <1>1, <1>2 DEF Zero
<1>4. /\ d.allowed = TRUE /\ d.count = TRUE
      /\ d.nextAt = IF first THEN AtWall(start) ELSE end
      /\ d.nextReason \in Reason
  BY DEF Until, Reason
<1> HIDE DEF end, d
<1>5. CASE first
  <2>1. /\ start \in Nat /\ start > now.wall
        /\ \A c \in RoutineStarts(routines, now.wall) : start <= c
    BY <1>5, NextStart
  <2>2. d.nextAt = [wall |-> start, mono |-> -1] BY <1>4, <1>5 DEF AtWall
  <2>3. d.nextAt \in Time /\ d.nextAt # Zero BY <2>1, <2>2 DEF Time, Zero
  <2>4. Ahead(d.nextAt, now) /\ d.nextAt.wall - now.wall <= remaining
    BY <1>1, <1>2, <1>5, <2>1, <2>2, <2>3 DEF Ahead
  <2>5. \A c \in RoutineStarts(routines, now.wall) : d.nextAt.wall <= c BY <2>1, <2>2
  <2>6. QED BY <1>4, <2>3, <2>4, <2>5 DEF Decided, d
<1>6. CASE ~ first
  <2>1. d.nextAt = end BY <1>4, <1>6
  <2>2. Ahead(d.nextAt, now) /\ d.nextAt.wall - now.wall <= remaining
    BY <1>1, <1>2, <1>3, <2>1 DEF Ahead
  <2>3. \A c \in RoutineStarts(routines, now.wall) : d.nextAt.wall <= c
    <3>1. CASE RoutineStarts(routines, now.wall) = {} BY <3>1
    <3>2. CASE RoutineStarts(routines, now.wall) # {}
      <4>1. /\ start \in Nat /\ \A c \in RoutineStarts(routines, now.wall) : start <= c
        BY <3>2, NextStart
      <4>2. end.wall < start BY <1>1, <1>2, <1>6, <4>1 DEF Never
      <4>3. \A c \in RoutineStarts(routines, now.wall) : c \in Nat
        BY StartsAreNaturals
      <4>4. QED BY <1>1, <1>2, <2>1, <4>1, <4>2, <4>3
    <3>3. QED BY <3>1, <3>2
  <2>4. QED BY <1>2, <1>4, <2>1, <2>2, <2>3 DEF Decided, d
<1>7. QED BY <1>5, <1>6

LEMMA BlockedIs ==
  ASSUME NEW why, NEW now, NEW remaining, NEW routines
  PROVE  /\ Decided(Blocked(why), now, remaining, routines)
         /\ Decided(Passed(why), now, remaining, routines)
  BY DEF Decided, Blocked, Passed, Reason, Zero, Time

LEMMA EvaluateIs ==
  ASSUME DaemonType, NEW now \in Time, now.wall \in Nat, NEW t \in Counter
  PROVE  Decided(EvaluateNow(now, t), now, Remaining(t), rules.routines)
<1>1. /\ Remaining(t) \in Nat /\ rules.routines \in SUBSET Routine /\ control \in Control
  BY RemainingFits, Rules DEF DaemonType
<1> DEFINE r == Remaining(t)
           rr == rules.routines
           d == Evaluate(now, control, r, rr)
<1> HIDE DEF r, rr
<1>2. CASE control \in {"paused", "blocked"}
  BY <1>2, BlockedIs DEF EvaluateNow, Evaluate
<1>3. CASE control \in {"offline", "normal"} /\ ActiveRoutine(rr, now.wall)
  <2>1. d = Blocked("routine") BY <1>3 DEF Evaluate
  <2>2. QED BY <2>1, BlockedIs DEF EvaluateNow, r, rr
<1>4. CASE control \in {"offline", "normal"} /\ ~ ActiveRoutine(rr, now.wall)
  <2>1. d = IF r = 0 THEN Blocked("quota") ELSE Until(now, r, rr)
    BY <1>4 DEF Evaluate
  <2>2. CASE r = 0 BY <2>1, <2>2, BlockedIs DEF EvaluateNow, r, rr
  <2>3. CASE r # 0
    <3>1. r \in Nat /\ r > 0 /\ rr \in SUBSET Routine BY <1>1, <2>3 DEF r, rr
    <3>2. Decided(Until(now, r, rr), now, r, rr) BY <1>4, <3>1, UntilIs
    <3>3. QED BY <2>1, <2>3, <3>2 DEF EvaluateNow, r, rr
  <2>4. QED BY <2>2, <2>3
<1>5. QED BY <1>1, <1>2, <1>3, <1>4 DEF Control, rr

-----------------------------------------------------------------------------
(* The counter. *)

Accounted == [tracker : Counter, usage : [Date -> Nat], instants : SUBSET Int]

\* An instant that a cycle may count: it is past, it was not counted before unless a failed
\* cycle left it behind, and no routine was in force.
Countable(i) ==
  /\ i \in Nat /\ i < clock.wall
  /\ ~ Behind => counted.upto <= i
  /\ failures = 0 =>
       /\ DateOf(i) = DateOf(last.at.wall) => ~ ActiveRoutine(since.routines, i)
       /\ DateOf(i) = Today /\ Today # DateOf(last.at.wall) => ~ ActiveRoutine(rules.routines, i)

\* What a cycle has counted so far, wherever it stops.
Sound(mem) ==
  /\ mem \in Accounted
  /\ \A i \in mem.instants : Countable(i)
  /\ failures = 0 => /\ \A d \in Date : mem.usage[d] <= Allowance(d)
                     /\ mem.tracker.seconds <= Allowance(mem.tracker.date)

LEMMA AccountedFields ==
  ASSUME NEW mem \in Accounted
  PROVE  /\ mem.tracker \in Counter /\ mem.usage \in [Date -> Nat] /\ mem.instants \subseteq Int
         /\ mem.tracker.date \in Date /\ mem.tracker.seconds \in Nat /\ mem.tracker.tail \in Nat
  BY DEF Accounted, Counter

LEMMA AllowanceIs ==
  ASSUME DaemonType, NEW d \in Date
  PROVE  Allowance(d) \in Nat
  BY QuotaIs DEF Allowance, DaemonType

LEMMA PersistIs ==
  ASSUME NEW mem \in Accounted
  PROVE  /\ Persist(mem) \in Accounted
         /\ Persist(mem).instants = mem.instants
         /\ Persist(mem).tracker.date = mem.tracker.date
         /\ Persist(mem).tracker.seconds = mem.tracker.seconds
         /\ \A d \in Date : \/ Persist(mem).usage[d] = mem.usage[d]
                            \/ d = mem.tracker.date
                               /\ Persist(mem).usage[d] = mem.tracker.seconds
<1> DEFINE day == mem.tracker.date
           total == MaxOf(mem.usage[day], mem.tracker.seconds)
<1>1. /\ mem.tracker \in Counter /\ mem.usage \in [Date -> Nat] /\ mem.instants \subseteq Int
      /\ day \in Date /\ mem.tracker.seconds \in Nat
  BY AccountedFields
<1>2. total \in Nat /\ (total = mem.usage[day] \/ total = mem.tracker.seconds)
  BY <1>1, LargerOf
<1> HIDE DEF total
<1>3. Persist(mem) = [mem EXCEPT !.usage = [mem.usage EXCEPT ![day] = total],
                                 !.tracker = [mem.tracker EXCEPT !.tail = 0]]
  BY DEF Persist, Accounted, total
<1>4. [mem.usage EXCEPT ![day] = total] \in [Date -> Nat] BY <1>1, <1>2
<1>5. /\ [mem.tracker EXCEPT !.tail = 0] \in Counter
      /\ [mem.tracker EXCEPT !.tail = 0].date = day
      /\ [mem.tracker EXCEPT !.tail = 0].seconds = mem.tracker.seconds
  BY <1>1 DEF Counter
<1>6. /\ Persist(mem) \in Accounted /\ Persist(mem).instants = mem.instants
      /\ Persist(mem).tracker = [mem.tracker EXCEPT !.tail = 0]
      /\ Persist(mem).usage = [mem.usage EXCEPT ![day] = total]
  BY <1>3, <1>4, <1>5 DEF Accounted
<1>7. QED BY <1>1, <1>2, <1>5, <1>6

LEMMA PersistIsSound ==
  ASSUME NEW mem, Sound(mem)
  PROVE  Sound(Persist(mem)) /\ Persist(mem).tracker.date = mem.tracker.date
<1>1. mem \in Accounted BY DEF Sound
<1>2. /\ Persist(mem) \in Accounted
      /\ \A d \in Date : \/ Persist(mem).usage[d] = mem.usage[d]
                         \/ d = mem.tracker.date /\ Persist(mem).usage[d] = mem.tracker.seconds
      /\ Persist(mem).tracker.date = mem.tracker.date
      /\ Persist(mem).tracker.seconds = mem.tracker.seconds
      /\ Persist(mem).instants = mem.instants
  BY <1>1, PersistIs
<1>3. failures = 0 => \A d \in Date : Persist(mem).usage[d] <= Allowance(d)
  <2> SUFFICES ASSUME failures = 0, NEW d \in Date
               PROVE  Persist(mem).usage[d] <= Allowance(d)
    OBVIOUS
  <2>1. mem.usage[d] <= Allowance(d) /\ mem.tracker.seconds <= Allowance(mem.tracker.date)
    BY DEF Sound
  <2>2. QED BY <1>2, <2>1
<1>4. QED BY <1>2, <1>3 DEF Sound

\* Counting n units that began at `start`, in memory and with the checkpoint.
LEMMA CountingIsSound ==
  ASSUME DaemonType, NEW mem, Sound(mem), NEW start \in Time, NEW n \in Nat,
         failures = 0 => mem.tracker.seconds + n <= Allowance(mem.tracker.date),
         \A i \in start.wall..(start.wall + n - 1) : Countable(i)
  PROVE  /\ Sound(InMemory(mem, start, n)) /\ Sound(AddElapsed(mem, start, n))
         /\ InMemory(mem, start, n).tracker.date = mem.tracker.date
         /\ AddElapsed(mem, start, n).tracker.date = mem.tracker.date
         /\ n = 0 => /\ InMemory(mem, start, n).instants = mem.instants
                     /\ AddElapsed(mem, start, n).instants = mem.instants
<1> DEFINE new == InMemory(mem, start, n)
           span == start.wall..(start.wall + n - 1)
<1>1. /\ mem \in Accounted /\ mem.tracker \in Counter /\ mem.usage \in [Date -> Nat]
      /\ mem.instants \subseteq Int /\ mem.tracker.date \in Date
      /\ mem.tracker.seconds \in Nat /\ mem.tracker.tail \in Nat
  BY AccountedFields DEF Sound
<1>2. start.wall \in Int /\ span \subseteq Int BY Readings
<1> DEFINE counter == [mem.tracker EXCEPT !.seconds = @ + n, !.tail = @ + n]
<1>3. /\ counter \in Counter /\ counter.date = mem.tracker.date
      /\ counter.seconds = mem.tracker.seconds + n
  <2>1. mem.tracker.seconds + n \in Nat /\ mem.tracker.tail + n \in Nat BY <1>1
  <2> DEFINE grown == [mem.tracker EXCEPT !.seconds = @ + n]
  <2>2. /\ grown \in Counter /\ grown.date = mem.tracker.date
        /\ grown.seconds = mem.tracker.seconds + n /\ grown.tail = mem.tracker.tail
    BY <1>1, <2>1 DEF Counter
  <2>3. counter = [grown EXCEPT !.tail = @ + n] OBVIOUS
  <2> HIDE DEF grown, counter
  <2>4. QED BY <1>1, <2>1, <2>2, <2>3 DEF Counter
<1>4. new = [mem EXCEPT !.tracker = counter, !.instants = mem.instants \cup span]
  BY <1>1 DEF InMemory, Accounted
<1> HIDE DEF counter, span, new
<1>5. /\ new \in Accounted /\ new.tracker = counter /\ new.usage = mem.usage
      /\ new.instants = mem.instants \cup span
  <2>1. mem.instants \cup span \subseteq Int BY <1>1, <1>2
  <2>2. QED BY <1>1, <1>3, <1>4, <2>1 DEF Accounted
<1>6. \A i \in new.instants : Countable(i) BY <1>5 DEF Sound, span
<1>7. failures = 0 => /\ \A d \in Date : new.usage[d] <= Allowance(d)
                      /\ new.tracker.seconds <= Allowance(new.tracker.date)
  BY <1>3, <1>5 DEF Sound
<1>8. Sound(new) /\ new.tracker.date = mem.tracker.date
  BY <1>3, <1>5, <1>6, <1>7 DEF Sound
<1>9. /\ Sound(Persist(new)) /\ Persist(new).tracker.date = mem.tracker.date
      /\ Persist(new).instants = new.instants
  BY <1>5, <1>8, PersistIsSound, PersistIs
<1>10. \/ AddElapsed(mem, start, n) = new
       \/ AddElapsed(mem, start, n) = Persist(new)
  BY DEF AddElapsed, new
<1>11. n = 0 => new.instants = mem.instants
  <2>1. n = 0 => span = {} BY <1>2 DEF span
  <2>2. QED BY <1>5, <2>1
<1>12. QED BY <1>5, <1>8, <1>9, <1>10, <1>11 DEF new

\* An instant of the same day as t, after it and before every start, is as free of routines
\* as t is.
LEMMA StillFree ==
  ASSUME NEW routines \in SUBSET Routine, NEW t \in Nat, NEW u \in Nat, t <= u,
         DateOf(u) = DateOf(t), ~ ActiveRoutine(routines, t),
         \A c \in RoutineStarts(routines, t) : u < c
  PROVE  ~ ActiveRoutine(routines, u)
<1> SUFFICES ASSUME ActiveRoutine(routines, u) PROVE FALSE OBVIOUS
<1>1. PICK c \in RoutineStarts(routines, t) : c <= u BY StartBeforeActive
<1>2. c \in Nat BY StartsAreNaturals
<1>3. u < c BY <1>1
<1>4. QED BY <1>1, <1>2, <1>3

\* The interval that is open, up to the present or to the midnight that has passed.
LEMMA OpenInterval ==
  ASSUME DaemonInv, tracker # None, NEW end,
         (end = clock /\ SameDay) \/ end = Midnight,
         NEW n, n = IF Counting THEN CappedElapsed(last.at, end, last.until) ELSE 0
  PROVE  /\ n \in Nat /\ (last.at = Zero => n = 0)
         /\ failures = 0 => tracker.seconds + n <= Allowance(tracker.date)
         /\ \A i \in last.at.wall..(last.at.wall + n - 1) : Countable(i)
<1>1. /\ clock \in Moment
      /\ last.at \in Time /\ last.until \in Time /\ failures \in Nat
      /\ counted.upto \in Nat /\ tracker.seconds \in Nat
      /\ last.at.wall \in Int
  <2>1. tracker \in Counter BY DEF DaemonInv, DaemonType
  <2>2. QED BY <2>1, Numbers, Readings DEF DaemonInv, DaemonType, Counter
<1> DEFINE AtMidnight == end.wall <= Today * DayLength /\ end.mono = -1
<1>2. /\ clock.wall \in Nat /\ clock.mono \in Nat /\ end \in Time /\ end.wall \in Nat
      /\ end.wall <= clock.wall
      /\ Today \in Nat /\ Today * DayLength \in Nat
      /\ end = Midnight => AtMidnight
  <2>1. /\ clock.wall \in Nat /\ clock.mono \in Nat /\ clock \in Time
        /\ Today \in Nat /\ Today * DayLength \in Nat /\ Today * DayLength <= clock.wall
        /\ Midnight = [wall |-> Today * DayLength, mono |-> -1] /\ Midnight \in Time
    BY <1>1, TodayIs
  <2>2. CASE end = Midnight
    <3>1. end.wall = Today * DayLength /\ end.mono = -1 BY <2>1, <2>2
    <3>2. QED BY <2>1, <2>2, <3>1
  <2>3. CASE end # Midnight
    <3>1. end = clock BY <2>3
    <3>2. QED BY <2>1, <2>3, <3>1
  <2>4. QED BY <2>2, <2>3
<1>3. CASE ~ Counting
  <2>1. n = 0 BY <1>3
  <2>2. failures = 0 => tracker.seconds <= Allowance(tracker.date)
    BY DEF DaemonInv, BalanceInv
  <2>3. QED BY <1>1, <2>1, <2>2
<1>4. CASE Counting
  <2>1. /\ last.at # Zero /\ last.count
        /\ last.at.wall \in Nat /\ last.at.mono \in Nat /\ last.at.mono <= clock.mono
        /\ clock.mono - last.at.mono <= clock.wall - last.at.wall
        /\ Ahead(last.until, last.at)
    BY <1>4 DEF Counting, DaemonInv, ClockInv, Past
  <2>2. last.at.mono >= 0 /\ end.mono >= 0
           => end.mono - last.at.mono <= end.wall - last.at.wall
    BY <1>2, <2>1
  <2>3. /\ n \in Nat /\ (n > 0 => n <= end.wall - last.at.wall)
        /\ n <= last.until.wall - last.at.wall
    BY <1>1, <1>2, <1>4, <2>1, <2>2, Elapsed
  <2>4. failures = 0 => tracker.seconds + n <= Allowance(tracker.date)
    <3> SUFFICES ASSUME failures = 0 PROVE tracker.seconds + n <= Allowance(tracker.date)
      OBVIOUS
    <3>1. tracker.seconds + (last.until.wall - last.at.wall) <= Allowance(tracker.date)
      BY <2>1 DEF DaemonInv, BalanceInv
    <3>2. tracker.date \in Date /\ last.until.wall \in Int
      BY <1>1, Readings DEF DaemonInv, DaemonType, Counter
    <3>3. Allowance(tracker.date) \in Nat BY <3>2, AllowanceIs DEF DaemonInv
    <3>4. QED BY <1>1, <2>3, <3>1, <3>2, <3>3
  <2>5. ASSUME NEW i \in last.at.wall..(last.at.wall + n - 1)
        PROVE  Countable(i)
    <3>1. /\ i \in Nat /\ last.at.wall <= i /\ i < end.wall /\ i < last.until.wall
          /\ i < clock.wall
      BY <1>1, <1>2, <2>1, <2>3, Readings
    <3>2. ~ Behind => counted.upto <= i
      BY <1>1, <2>1, <3>1 DEF Behind
    <3>3. ASSUME DateOf(i) = DateOf(last.at.wall)
          PROVE  ~ ActiveRoutine(since.routines, i)
      <4>1. /\ since.routines \in SUBSET Routine /\ ~ ActiveRoutine(since.routines, last.at.wall)
            /\ \A c \in RoutineStarts(since.routines, last.at.wall) : last.until.wall <= c
        BY <2>1 DEF DaemonInv, RoutineInv
      <4>2. \A c \in RoutineStarts(since.routines, last.at.wall) : i < c
        <5>1. \A c \in RoutineStarts(since.routines, last.at.wall) : c \in Nat
          BY <2>1, <4>1, StartsAreNaturals
        <5>2. last.until.wall \in Int BY <1>1, Readings
        <5>3. QED BY <3>1, <4>1, <5>1, <5>2
      <4>3. QED BY <2>1, <3>1, <3>3, <4>1, <4>2, StillFree
    <3>4. ASSUME failures = 0 PROVE ~ (DateOf(i) = Today /\ Today # DateOf(last.at.wall))
      <4>1. CASE end = clock /\ SameDay
        BY <3>4, <4>1 DEF SameDay, DaemonInv, RoutineInv
      <4>2. CASE end = Midnight
        <5>1. i < Today * DayLength BY <1>2, <3>1, <4>2
        <5>2. DateOf(i) # Today BY <1>2, <3>1, <5>1, Within
        <5>3. QED BY <5>2
      <4>3. QED BY <4>1, <4>2
    <3>5. QED BY <3>1, <3>2, <3>3, <3>4 DEF Countable
  <2>6. QED BY <2>1, <2>3, <2>4, <2>5
<1>5. QED BY <1>3, <1>4

LEMMA MemIsSound ==
  ASSUME DaemonInv, tracker # None
  PROVE  Sound(Mem) /\ Mem.tracker = tracker /\ Mem.instants = {}
<1>1. /\ Mem.tracker = tracker /\ Mem.usage = usage /\ Mem.instants = {}
      /\ tracker \in Counter /\ usage \in [Date -> Nat]
  BY DEF Mem, DaemonInv, DaemonType
<1>2. Mem \in Accounted BY <1>1 DEF Mem, Accounted
<1>3. failures = 0 => /\ \A d \in Date : usage[d] <= Allowance(d)
                      /\ tracker.seconds <= Allowance(tracker.date)
  BY DEF DaemonInv, BalanceInv
<1>4. QED BY <1>1, <1>2, <1>3 DEF Sound

\* A counter that is loaded has what the table says of its date.
LEMMA LoadIsSound ==
  ASSUME DaemonInv, NEW old, NEW u \in [Date -> Nat], NEW instants \in SUBSET Int,
         \A i \in instants : Countable(i),
         failures = 0 => \A d \in Date : u[d] <= Allowance(d),
         NEW mem, mem = [tracker |-> old, usage |-> u, instants |-> instants],
         NEW new, new = [mem EXCEPT !.tracker = [date |-> Today, seconds |-> mem.usage[Today],
                                                 tail |-> 0]]
  PROVE  Sound(new) /\ new.tracker.date = Today /\ new.instants = instants
<1>1. Today \in Date BY TodayIs DEF DaemonInv, DaemonType
<1> DEFINE counter == [date |-> Today, seconds |-> u[Today], tail |-> 0]
<1>2. counter \in Counter /\ counter.date = Today /\ counter.seconds = u[Today]
  BY <1>1 DEF Counter
<1>3. new = [tracker |-> counter, usage |-> u, instants |-> instants] OBVIOUS
<1> HIDE DEF counter
<1>4. /\ new \in Accounted /\ new.tracker = counter /\ new.usage = u
      /\ new.instants = instants
  BY <1>2, <1>3 DEF Accounted
<1>5. failures = 0 => new.tracker.seconds <= Allowance(new.tracker.date)
  BY <1>1, <1>2, <1>4
<1>6. QED BY <1>2, <1>4, <1>5 DEF Sound

LEMMA PrepareIsSound ==
  ASSUME DaemonInv, NEW mem, Sound(mem) \/ (tracker = None /\ mem = Mem)
  PROVE  /\ Sound(PrepareTracker(mem)) /\ PrepareTracker(mem).tracker.date = Today
         /\ PrepareTracker(mem).instants = mem.instants
<1> DEFINE flushed == IF mem.tracker = None THEN mem ELSE Persist(mem)
<1>1. PrepareTracker(mem)
        = [flushed EXCEPT !.tracker = [date |-> Today, seconds |-> flushed.usage[Today],
                                       tail |-> 0]]
  BY DEF PrepareTracker
<1>2. CASE Sound(mem)
  <2>1. Sound(flushed) /\ flushed.instants = mem.instants
    BY <1>2, PersistIsSound, PersistIs DEF Sound
  <2> HIDE DEF flushed
  <2>2. /\ flushed.usage \in [Date -> Nat] /\ flushed.instants \in SUBSET Int
        /\ flushed = [tracker |-> flushed.tracker, usage |-> flushed.usage,
                      instants |-> flushed.instants]
    BY <2>1 DEF Sound, Accounted
  <2>3. /\ \A i \in flushed.instants : Countable(i)
        /\ failures = 0 => \A d \in Date : flushed.usage[d] <= Allowance(d)
    BY <2>1 DEF Sound
  <2>4. QED BY <1>1, <2>1, <2>2, <2>3, LoadIsSound
<1>3. CASE tracker = None /\ mem = Mem
  <2>1. flushed = [tracker |-> None, usage |-> usage, instants |-> {}]
    BY <1>3 DEF Mem
  <2>2. mem.instants = {} BY <1>3 DEF Mem
  <2> HIDE DEF flushed
  <2>3. /\ usage \in [Date -> Nat]
        /\ failures = 0 => \A d \in Date : usage[d] <= Allowance(d)
    BY DEF DaemonInv, DaemonType, BalanceInv
  <2>4. QED BY <1>1, <2>1, <2>2, <2>3, LoadIsSound
<1>4. QED BY <1>2, <1>3

\* The part of the interval that belongs to the new date.
LEMMA NewInterval ==
  ASSUME DaemonInv, NewDay, NEW mem, Sound(mem), mem.tracker.date = Today
  PROVE  /\ AfterMidnight(mem) \in Nat
         /\ failures = 0
              => mem.tracker.seconds + AfterMidnight(mem) <= Allowance(mem.tracker.date)
         /\ \A i \in Midnight.wall..(Midnight.wall + AfterMidnight(mem) - 1) : Countable(i)
<1> DEFINE d == EvaluateNow(Midnight, mem.tracker)
           n == AfterMidnight(mem)
           begin == Today * DayLength
<1>1. /\ clock.wall \in Nat /\ clock.mono \in Nat /\ clock \in Time
      /\ Today \in Nat /\ Today \in Date /\ begin \in Nat /\ begin <= clock.wall
      /\ clock.wall < (Today + 1) * DayLength
      /\ Midnight \in Time /\ Midnight.wall = begin /\ Midnight.mono = -1
  BY TodayIs DEF DaemonInv, DaemonType
<1>2. mem.tracker \in Counter /\ mem.tracker.seconds \in Nat /\ DaemonType
  BY AccountedFields DEF Sound, DaemonInv
<1>3. /\ Decided(d, Midnight, Remaining(mem.tracker), rules.routines)
      /\ Remaining(mem.tracker) \in Nat
  BY <1>1, <1>2, EvaluateIs, RemainingFits
<1>4. failures = 0 => /\ mem.tracker.seconds <= Allowance(mem.tracker.date)
                      /\ mem.tracker.seconds + Remaining(mem.tracker) <= Allowance(mem.tracker.date)
  BY <1>2, RemainingFits DEF Sound, DaemonInv
<1>5. mem.tracker.date \in Date /\ Allowance(mem.tracker.date) \in Nat
  BY <1>1, <1>2, AllowanceIs
<1>6. n = IF d.count /\ desk # None THEN CappedElapsed(Midnight, clock, d.nextAt) ELSE 0
  BY DEF AfterMidnight
<1> HIDE DEF n, d, begin
<1>7. CASE ~ (d.count /\ desk # None)
  <2>1. n = 0 BY <1>6, <1>7
  <2>2. QED BY <1>1, <1>2, <1>4, <1>5, <2>1 DEF n
<1>8. CASE d.count /\ desk # None
  <2>1. /\ Ahead(d.nextAt, Midnight) /\ d.nextAt \in Time
        /\ d.nextAt.wall - begin <= Remaining(mem.tracker)
        /\ ~ ActiveRoutine(rules.routines, begin)
        /\ \A c \in RoutineStarts(rules.routines, begin) : d.nextAt.wall <= c
    BY <1>1, <1>3, <1>8 DEF Decided
  <2>2. /\ n \in Nat /\ (n > 0 => n <= clock.wall - begin) /\ n <= d.nextAt.wall - begin
    <3>1. Midnight.mono >= 0 /\ clock.mono >= 0
             => clock.mono - Midnight.mono <= clock.wall - Midnight.wall
      BY <1>1
    <3>2. QED BY <1>1, <1>6, <1>8, <2>1, <3>1, Elapsed
  <2>3. d.nextAt.wall \in Int BY <2>1, Readings
  <2>4. failures = 0 => mem.tracker.seconds + n <= Allowance(mem.tracker.date)
    BY <1>1, <1>2, <1>3, <1>4, <1>5, <2>1, <2>2, <2>3
  <2>5. ASSUME NEW i \in begin..(begin + n - 1) PROVE Countable(i)
    <3>1. /\ i \in Nat /\ begin <= i /\ i < clock.wall /\ i < d.nextAt.wall
      BY <1>1, <2>2, <2>3
    <3>2. DateOf(i) = Today /\ DateOf(begin) = Today
      BY <1>1, <3>1, Within, Lengths DEF begin
    <3>3. /\ tracker.date \in Nat /\ tracker.date < Today
          /\ last.at = Zero => counted.upto <= (tracker.date + 1) * DayLength
          /\ last.at # Zero => last.at.wall < (tracker.date + 1) * DayLength
      <4>1. tracker # None /\ tracker.date # Today /\ tracker \in Counter
        BY DEF NewDay, DaemonInv, DaemonType
      <4>2. tracker.date \in Nat BY <4>1 DEF Counter, Date
      <4>3. QED BY <1>1, <4>1, <4>2 DEF DaemonInv, CountInv
    <3>4. (tracker.date + 1) * DayLength <= begin /\ (tracker.date + 1) * DayLength \in Nat
      BY <1>1, <3>3, LaterDate, Lengths DEF begin
    <3>5. counted.upto \in Nat /\ last.at.wall \in Int
      BY Readings, Numbers DEF DaemonInv, DaemonType
    <3>6. ~ Behind => counted.upto <= i
      BY <1>1, <3>1, <3>3, <3>4, <3>5 DEF Behind
    <3>7. ASSUME failures = 0 PROVE DateOf(last.at.wall) # Today
      <4>1. DateOf(last.at.wall) = tracker.date
        BY <3>7 DEF NewDay, DaemonInv, RoutineInv
      <4>2. QED BY <1>1, <3>3, <4>1
    <3>8. ~ ActiveRoutine(rules.routines, i)
      <4>1. rules.routines \in SUBSET Routine BY Rules DEF DaemonInv, DaemonType
      <4>2. \A c \in RoutineStarts(rules.routines, begin) : i < c
        <5>1. \A c \in RoutineStarts(rules.routines, begin) : c \in Nat
          BY <1>1, <4>1, StartsAreNaturals
        <5>2. QED BY <2>1, <2>3, <3>1, <5>1
      <4>3. QED BY <1>1, <2>1, <3>1, <3>2, <4>1, <4>2, StillFree
    <3>9. QED BY <3>1, <3>2, <3>6, <3>7, <3>8 DEF Countable
  <2>6. QED BY <1>1, <2>2, <2>4, <2>5 DEF n
<1>9. QED BY <1>7, <1>8

\* The end of the old date.
LEMMA EndOfDayIsSound ==
  ASSUME DaemonInv, NewDay,
         NEW mem, mem = EndOfDay \/ mem = InMemory(Mem, last.at, BeforeMidnight)
  PROVE  /\ Sound(mem) /\ mem.tracker.date = tracker.date
         /\ last.at = Zero => mem.instants = {}
<1>1. tracker # None /\ DaemonType /\ last.at \in Time BY DEF NewDay, DaemonInv, DaemonType
<1>2. /\ BeforeMidnight \in Nat /\ (last.at = Zero => BeforeMidnight = 0)
      /\ failures = 0 => tracker.seconds + BeforeMidnight <= Allowance(tracker.date)
      /\ \A i \in last.at.wall..(last.at.wall + BeforeMidnight - 1) : Countable(i)
  BY <1>1, OpenInterval DEF BeforeMidnight
<1>3. Sound(Mem) /\ Mem.tracker = tracker /\ Mem.instants = {} BY <1>1, MemIsSound
<1>4. \/ mem = AddElapsed(Mem, last.at, BeforeMidnight)
      \/ mem = InMemory(Mem, last.at, BeforeMidnight)
  BY DEF EndOfDay
<1>5. /\ Sound(mem) /\ mem.tracker.date = tracker.date
      /\ BeforeMidnight = 0 => mem.instants = {}
  BY <1>1, <1>2, <1>3, <1>4, CountingIsSound
<1>6. QED BY <1>2, <1>5

LEMMA NewDayIsSound ==
  ASSUME DaemonInv, NewDay, NEW new, new = PrepareTracker(EndOfDay),
         NEW mem, \/ mem = new
                  \/ mem = InMemory(new, Midnight, AfterMidnight(new))
                  \/ mem = AddElapsed(new, Midnight, AfterMidnight(new))
  PROVE  Sound(mem) /\ mem.tracker.date = Today
<1>1. Sound(EndOfDay) BY EndOfDayIsSound
<1>2. Sound(new) /\ new.tracker.date = Today
  <2>1. /\ Sound(PrepareTracker(EndOfDay)) /\ PrepareTracker(EndOfDay).tracker.date = Today
    BY <1>1, PrepareIsSound
  <2>2. QED BY <2>1
<1>3. /\ AfterMidnight(new) \in Nat
      /\ failures = 0 => new.tracker.seconds + AfterMidnight(new) <= Allowance(new.tracker.date)
      /\ \A i \in Midnight.wall..(Midnight.wall + AfterMidnight(new) - 1) : Countable(i)
  BY <1>2, NewInterval
<1>4. DaemonType /\ Midnight \in Time BY TodayIs DEF DaemonInv, DaemonType
<1>5. QED BY <1>2, <1>3, <1>4, CountingIsSound

LEMMA SameDayIsSound ==
  ASSUME DaemonInv, SameDay,
         NEW mem, \/ mem = InMemory(Mem, last.at, SinceLast)
                  \/ mem = AddElapsed(Mem, last.at, SinceLast)
  PROVE  Sound(mem) /\ mem.tracker.date = Today
<1>1. /\ tracker # None /\ tracker.date = Today /\ DaemonType /\ last.at \in Time
  BY DEF SameDay, DaemonInv, DaemonType
<1>2. /\ SinceLast \in Nat
      /\ failures = 0 => tracker.seconds + SinceLast <= Allowance(tracker.date)
      /\ \A i \in last.at.wall..(last.at.wall + SinceLast - 1) : Countable(i)
  BY <1>1, OpenInterval DEF SinceLast
<1>3. Sound(Mem) /\ Mem.tracker = tracker BY <1>1, MemIsSound
<1>4. QED BY <1>1, <1>2, <1>3, CountingIsSound

LEMMA AccountIsSound ==
  ASSUME DaemonInv
  PROVE  Sound(Account) /\ Account.tracker.date = Today
<1>1. CASE SameDay BY <1>1, SameDayIsSound DEF Account
<1>2. CASE ~ SameDay /\ NewDay
  <2> DEFINE new == PrepareTracker(EndOfDay)
  <2>1. Account = AddElapsed(new, Midnight, AfterMidnight(new)) BY <1>2 DEF Account
  <2>2. QED BY <1>2, <2>1, NewDayIsSound
<1>3. CASE ~ SameDay /\ ~ NewDay
  <2>1. Account = PrepareTracker(Mem) BY <1>3 DEF Account
  <2>2. tracker = None BY <1>3 DEF SameDay, NewDay
  <2>3. QED BY <2>1, <2>2, PrepareIsSound
<1>4. QED BY <1>1, <1>2, <1>3

LEMMA RaisedIsSound ==
  ASSUME DaemonInv, NEW mem, Sound(mem), mem.tracker.date = Today, ReconcileDue(mem)
  PROVE  Sound(Raised(mem)) /\ Raised(mem).tracker.date = Today
<1>1. /\ confirmed # None /\ confirmed.date = Today /\ confirmed \in Balance
      /\ confirmed.usage \in Nat /\ confirmed.remaining \in Nat
  BY DEF ReconcileDue, DaemonInv, DaemonType, Balance
<1>2. /\ mem \in Accounted /\ mem.tracker \in Counter /\ mem.tracker.date = Today
      /\ mem.usage \in [Date -> Nat] /\ mem.instants \subseteq Int
  BY AccountedFields DEF Sound
<1> DEFINE counter == [mem.tracker EXCEPT !.seconds = confirmed.usage, !.tail = 0]
<1>3. counter \in Counter /\ counter.date = Today /\ counter.seconds = confirmed.usage
  BY <1>1, <1>2 DEF Counter
<1>4. Raised(mem) = [mem EXCEPT !.tracker = counter] BY <1>2 DEF Raised, Accounted
<1> HIDE DEF counter
<1>5. /\ Raised(mem) \in Accounted /\ Raised(mem).tracker = counter
      /\ Raised(mem).usage = mem.usage /\ Raised(mem).instants = mem.instants
  BY <1>2, <1>3, <1>4 DEF Accounted
<1>6. failures = 0 => confirmed.usage <= Allowance(Today)
  <2>1. failures = 0 => confirmed.remaining + confirmed.usage <= Allowance(Today)
    BY <1>1 DEF DaemonInv, BalanceInv
  <2>2. Allowance(Today) \in Nat
    BY <1>1, AllowanceIs DEF DaemonInv, Balance
  <2>3. QED BY <1>1, <2>1, <2>2
<1>7. QED BY <1>3, <1>5, <1>6 DEF Sound

LEMMA ReconcileIsSound ==
  ASSUME DaemonInv, NEW mem, Sound(mem), mem.tracker.date = Today
  PROVE  Sound(Reconcile(mem)) /\ Reconcile(mem).tracker.date = Today
<1>1. CASE ReconcileDue(mem)
  BY <1>1, RaisedIsSound, PersistIsSound DEF Reconcile
<1>2. CASE ~ ReconcileDue(mem) BY <1>2 DEF Reconcile
<1>3. QED BY <1>1, <1>2

\* What is kept of a sound account.
LEMMA KeepIs ==
  ASSUME DaemonInv, NEW mem, Sound(mem), Keep(mem)
  PROVE  /\ tracker' = mem.tracker /\ tracker' \in Counter /\ usage' \in [Date -> Nat]
         /\ counted' \in [instants : SUBSET (0..(Horizon - 1)), upto : 0..Horizon, again : Nat]
         /\ counted'.upto <= clock.wall
         /\ mem.instants = {} => counted'.upto = counted.upto
         /\ counted'.again <= counted.again + 1
         /\ ~ Behind => counted'.again = counted.again
         /\ \A i \in counted'.instants : Countable(i)
<1>1. /\ tracker' = mem.tracker /\ usage' = mem.usage
      /\ counted'.instants = mem.instants
      /\ counted'.upto = Max({counted.upto} \cup { i + 1 : i \in mem.instants })
      /\ counted'.again = IF \E i \in mem.instants : i < counted.upto
                            THEN counted.again + 1 ELSE counted.again
      /\ counted' = [instants |-> counted'.instants, upto |-> counted'.upto,
                     again |-> counted'.again]
  BY DEF Keep
<1>2. /\ counted.upto \in Nat /\ counted.upto <= clock.wall /\ counted.again \in Nat
      /\ clock.wall \in Nat /\ clock.wall < Horizon /\ Horizon \in Nat
  BY TodayIs, Numbers DEF DaemonInv, DaemonType, CountInv
<1>3. /\ tracker' \in Counter /\ usage' \in [Date -> Nat]
      /\ \A i \in mem.instants : Countable(i)
  BY <1>1, AccountedFields DEF Sound
<1>4. \A i \in mem.instants : i \in Nat /\ i < clock.wall /\ (~ Behind => counted.upto <= i)
  BY <1>3 DEF Countable
<1> DEFINE ends == {counted.upto} \cup { i + 1 : i \in mem.instants }
<1>5. ends \subseteq 0..clock.wall /\ ends # {}
  <2>1. \A i \in mem.instants : i + 1 \in 0..clock.wall BY <1>2, <1>4
  <2>2. counted.upto \in 0..clock.wall BY <1>2
  <2>3. QED BY <2>1, <2>2
<1>6. Max(ends) \in ends BY <1>2, <1>5, Greatest
<1>7. counted'.upto \in 0..clock.wall
      /\ (mem.instants = {} => counted'.upto = counted.upto)
  <2>1. counted'.upto \in 0..clock.wall BY <1>1, <1>5, <1>6
  <2>2. ASSUME mem.instants = {} PROVE ends = {counted.upto} BY <2>2
  <2>3. QED BY <1>1, <1>6, <2>1, <2>2
<1> HIDE DEF ends
<1>8. /\ counted'.again \in Nat /\ counted'.again <= counted.again + 1
      /\ ~ Behind => counted'.again = counted.again
  BY <1>1, <1>2, <1>4
<1>9. counted'.instants \subseteq 0..(Horizon - 1) BY <1>1, <1>2, <1>4
<1>10. counted'.upto \in 0..Horizon /\ counted'.upto <= clock.wall BY <1>2, <1>7
<1>11. QED BY <1>1, <1>3, <1>7, <1>8, <1>9, <1>10

-----------------------------------------------------------------------------
(* One cycle, complete or cut short. *)

LEMMA DecisionIs ==
  ASSUME DaemonInv, NEW t \in Counter
  PROVE  Decided(Decision(t), clock, Remaining(t), rules.routines)
<1>1. DaemonType /\ clock \in Time /\ clock.wall \in Nat
  BY TodayIs DEF DaemonInv, DaemonType
<1>2. CASE AwaitingSynchronization BY <1>2, BlockedIs DEF Decision
<1>3. CASE ~ AwaitingSynchronization BY <1>1, <1>3, EvaluateIs DEF Decision
<1>4. QED BY <1>2, <1>3

LEMMA ActiveSessionIs ==
  ASSUME DaemonType
  PROVE  ActiveSession \in Session \cup {None}
  BY DEF DaemonType, ActiveSession

LEMMA DueIs ==
  ASSUME DaemonInv, NEW d, d.allowed \in BOOLEAN, d.nextAt \in Time, d.nextReason \in Reason
  PROVE  Due(d) \in WarningState
<1>1. Cycle \in [rev : Nat, session : Session \cup {None}, date : Date]
  BY TodayIs, ActiveSessionIs DEF DaemonInv, DaemonType, Cycle
<1>2. warned \in WarningState /\ warned.emitted \subseteq Kind /\ clock \in Time
  BY TodayIs DEF DaemonInv, DaemonType, WarningState
<1>3. Zero \in Time BY DEF Zero, Time
<1>4. HasFutureBlock(d) \in BOOLEAN BY DEF HasFutureBlock
<1>5. \A emitted \in SUBSET Kind : Observed(d, emitted) \in WarningState
  BY <1>1, <1>2, <1>4 DEF Observed, WarningState
<1>6. warned.emitted \cup Crossed(d) \in SUBSET Kind BY <1>2 DEF Crossed, Planned
<1>7. [warned EXCEPT !.active = FALSE, !.at = clock, !.blockAt = Zero] \in WarningState
  BY <1>2, <1>3 DEF WarningState
<1>8. \/ Due(d) = Observed(d, {}) \/ Due(d) = Observed(d, warned.emitted \cup Crossed(d))
      \/ Due(d) = [warned EXCEPT !.active = FALSE, !.at = clock, !.blockAt = Zero]
  BY DEF Due
<1>9. QED BY <1>5, <1>6, <1>7, <1>8

LEMMA StepKeepsInv ==
  ASSUME DaemonInv, NEW unlocked \in BOOLEAN, Complete(unlocked)
  PROVE  DaemonInv'
<1> DEFINE mem == Reconcile(Account)
           d == Decision(mem.tracker)
           kept == IF FlushDue(d) THEN Persist(mem) ELSE mem
<1>1. Sound(mem) /\ mem.tracker.date = Today BY AccountIsSound, ReconcileIsSound
<1>2. /\ Keep(kept) /\ decision' = d /\ warned' = Due(d) /\ last' = LastOf(d)
      /\ attempt' = AttemptAfter(d, unlocked) /\ since' = SinceOf(d, unlocked)
      /\ clock' = clock /\ rules' = rules /\ bonus' = bonus /\ control' = control
      /\ confirmed' = confirmed /\ desk' = desk /\ failures' = failures
  BY DEF Complete, inputs
<1>3. kept = mem \/ kept = Persist(mem) OBVIOUS
<1> HIDE DEF mem, d, kept
<1>4. /\ mem \in Accounted /\ mem.tracker \in Counter
      /\ mem.tracker.date \in Date /\ mem.tracker.seconds \in Nat
  BY <1>1, AccountedFields DEF Sound
<1>5. Decided(d, clock, Remaining(mem.tracker), rules.routines)
  BY <1>4, DecisionIs DEF d
<1>6. /\ Sound(kept) /\ kept.tracker.date = Today
      /\ kept.tracker.seconds = mem.tracker.seconds
  BY <1>1, <1>3, <1>4, PersistIsSound, PersistIs
<1>7. /\ tracker' = kept.tracker /\ tracker' \in Counter /\ usage' = kept.usage
      /\ usage' \in [Date -> Nat]
      /\ counted' \in [instants : SUBSET (0..(Horizon - 1)), upto : 0..Horizon, again : Nat]
      /\ counted'.upto <= clock.wall
      /\ counted'.again <= counted.again + 1
      /\ ~ Behind => counted'.again = counted.again
  BY <1>2, <1>6, KeepIs DEF Keep
<1>8. /\ clock \in Moment
      /\ clock.wall \in Nat /\ clock.mono \in Nat /\ clock \in Time /\ clock # Zero
      /\ Today \in Nat /\ Today \in Date /\ clock.wall < (Today + 1) * DayLength
      /\ (Today + 1) * DayLength \in Nat
  BY TodayIs, Lengths DEF DaemonInv, DaemonType
<1>9. /\ last'.at = clock /\ last'.count = d.count /\ last'.until = d.nextAt
      /\ last' \in [at : Time, count : BOOLEAN, hadSession : BOOLEAN, until : Time]
  <2>1. d.count \in BOOLEAN /\ d.nextAt \in Time BY <1>5 DEF Decided
  <2>2. QED BY <1>2, <1>8, <2>1 DEF LastOf
<1>10. Today' = Today BY <1>2 DEF Today
<1>11. DaemonType'
  <2>1. warned' \in WarningState BY <1>2, <1>5, DueIs DEF Decided
  <2>2. attempt' \in Time
    BY <1>2, <1>8 DEF AttemptAfter, Attempt, Zero, Time, DaemonInv, DaemonType
  <2>3. QED BY <1>2, <1>7, <1>9, <2>1, <2>2
           DEF DaemonType, DaemonInv, WarningState, Reason, Counter, Balance, Control, Time
<1>12. ClockInv'
  <2>1. clock.mono - Origin <= clock.wall BY DEF DaemonInv, ClockInv
  <2>2. Past(clock) BY <1>8 DEF Past
  <2>3. attempt' # Zero => Past(attempt')
    BY <1>2, <2>2 DEF AttemptAfter, Attempt, DaemonInv, ClockInv
  <2>4. d.count => Ahead(d.nextAt, clock) BY <1>5 DEF Decided
  <2>5. QED BY <1>2, <1>8, <1>9, <2>1, <2>2, <2>3, <2>4 DEF ClockInv, Past, Ahead
<1>13. CountInv'
  <2>1. counted'.upto \in Nat BY <1>7, Numbers
  <2>2. ~ (last'.at.wall < counted'.upto) BY <1>7, <1>8, <1>9, <2>1
  <2>3. counted'.again <= failures
    BY <1>7, Numbers DEF DaemonInv, DaemonType, CountInv
  <2>4. QED BY <1>2, <1>6, <1>7, <1>8, <1>9, <1>10, <2>2, <2>3 DEF CountInv, Behind
<1>14. BalanceInv'
  <2> SUFFICES ASSUME failures = 0 PROVE BalanceInv' BY <1>2 DEF BalanceInv
  <2>1. \A day \in Date : usage'[day] <= Allowance(day) BY <1>6, <1>7 DEF Sound
  <2>2. tracker'.seconds <= Allowance(tracker'.date) BY <1>6, <1>7 DEF Sound
  <2>3. confirmed # None => confirmed.remaining + confirmed.usage <= Allowance(confirmed.date)
    BY DEF DaemonInv, BalanceInv
  <2>4. d.count => tracker'.seconds + (d.nextAt.wall - clock.wall) <= Allowance(tracker'.date)
    <3>1. /\ DaemonType /\ BalanceInv
          /\ mem.tracker.seconds <= Allowance(mem.tracker.date)
      BY <1>1 DEF Sound, DaemonInv
    <3>2. /\ Remaining(mem.tracker) \in Nat
          /\ mem.tracker.seconds + Remaining(mem.tracker) <= Allowance(mem.tracker.date)
      BY <1>4, <3>1, RemainingFits
    <3>3. d.nextAt \in Time /\ (d.count => d.nextAt.wall - clock.wall <= Remaining(mem.tracker))
      BY <1>5 DEF Decided
    <3>4. Allowance(Today) \in Nat BY <1>8, AllowanceIs DEF DaemonInv
    <3>5. d.nextAt.wall \in Int BY <3>3, Readings
    <3>6. QED BY <1>1, <1>4, <1>6, <1>7, <1>8, <3>2, <3>3, <3>4, <3>5
  <2>5. QED BY <1>2, <1>9, <2>1, <2>2, <2>3, <2>4 DEF BalanceInv, Allowance
<1>15. RoutineInv'
  <2>1. since'.routines = rules.routines BY <1>2 DEF SinceOf
  <2>2. rules.routines \in SUBSET Routine BY Rules DEF DaemonInv, DaemonType
  <2>3. d.count => /\ ~ ActiveRoutine(rules.routines, clock.wall)
                   /\ \A c \in RoutineStarts(rules.routines, clock.wall) : d.nextAt.wall <= c
    BY <1>5 DEF Decided
  <2>4. DateOf(clock.wall) = kept.tracker.date BY <1>6 DEF Today
  <2>5. QED BY <1>7, <1>8, <1>9, <2>1, <2>2, <2>3, <2>4 DEF RoutineInv
<1>16. LockInv'
  <2>1. d.allowed \in BOOLEAN BY <1>5 DEF Decided
  <2>2. EndsLock(d) /\ unlocked => AttemptAfter(d, unlocked) = Zero
    BY DEF AttemptAfter, LockDue, EndsLock
  <2>3. since'.unlocked = unlocked BY <1>2 DEF SinceOf
  <2>4. QED BY <1>2, <2>1, <2>2, <2>3 DEF LockInv, EndsLock
<1>17. QED BY <1>11, <1>12, <1>13, <1>14, <1>15, <1>16 DEF DaemonInv

\* A cycle that a failed call cuts short: the next one counts from where this one began.
LEMMA FailedStepKeepsInv ==
  ASSUME DaemonInv, NEW mem, Sound(mem), FailedStep(mem),
         \/ mem.tracker.date = Today
         \/ /\ tracker # None /\ mem.tracker.date = tracker.date
            /\ last.at = Zero => mem.instants = {}
  PROVE  DaemonInv'
<1>1. /\ failures' = failures + 1 /\ Keep(mem) /\ attempt' = Attempt
      /\ clock' = clock /\ rules' = rules /\ bonus' = bonus /\ control' = control
      /\ confirmed' = confirmed /\ desk' = desk /\ last' = last /\ decision' = decision
      /\ warned' = warned /\ since' = since
  BY DEF FailedStep, inputs
<1>2. /\ tracker' = mem.tracker /\ tracker' \in Counter /\ usage' \in [Date -> Nat]
      /\ counted' \in [instants : SUBSET (0..(Horizon - 1)), upto : 0..Horizon, again : Nat]
      /\ counted'.upto <= clock.wall
      /\ mem.instants = {} => counted'.upto = counted.upto
      /\ counted'.again <= counted.again + 1
      /\ ~ Behind => counted'.again = counted.again
  BY <1>1, KeepIs
<1>3. /\ clock.wall \in Nat /\ Today \in Nat /\ clock.wall < (Today + 1) * DayLength
      /\ (Today + 1) * DayLength \in Nat
  BY TodayIs, Lengths DEF DaemonInv, DaemonType
<1>4. Today' = Today BY <1>1 DEF Today
<1>5. /\ failures \in Nat /\ failures' \in Nat /\ failures' # 0
      /\ counted.again \in Nat /\ counted'.again \in Nat /\ counted'.upto \in Nat
      /\ last.at.wall \in Int
  BY <1>1, <1>2, Numbers, Readings DEF DaemonInv, DaemonType
<1>6. DaemonType'
  <2>1. attempt' \in Time BY <1>1 DEF Attempt, Zero, Time, DaemonInv, DaemonType
  <2>2. QED BY <1>1, <1>2, <1>5, <2>1
           DEF DaemonType, DaemonInv, WarningState, Reason, Counter, Balance, Control, Time
<1>7. ClockInv'
  <2>1. attempt' # Zero => Past(attempt')
    BY <1>1 DEF Attempt, DaemonInv, ClockInv
  <2>2. QED BY <1>1, <2>1 DEF DaemonInv, ClockInv, Past, Ahead
<1>8. CountInv'
  <2>1. counted'.again <= failures' /\ (Behind' => counted'.again < failures')
    <3>1. counted.again <= failures /\ (Behind => counted.again < failures)
      BY DEF DaemonInv, CountInv
    <3>2. QED BY <1>1, <1>2, <1>5, <3>1
  <2>2. tracker'.date \in Nat /\ tracker'.date <= Today
        /\ (last.at = Zero => counted'.upto <= (tracker'.date + 1) * DayLength)
        /\ (last.at # Zero => last.at.wall < (tracker'.date + 1) * DayLength)
    <3>1. CASE mem.tracker.date = Today
      <4>1. last.at # Zero => last.at.wall <= clock.wall
        BY <1>3, <1>5, TodayIs DEF DaemonInv, ClockInv, Past, DaemonType
      <4>2. QED BY <1>2, <1>3, <1>5, <3>1, <4>1
    <3>2. CASE /\ tracker # None /\ mem.tracker.date = tracker.date
               /\ last.at = Zero => mem.instants = {}
      <4>1. tracker'.date \in Nat BY <1>2 DEF Counter, Date
      <4>2. QED BY <1>2, <3>2, <4>1 DEF DaemonInv, CountInv
    <3>3. QED BY <3>1, <3>2
  <2>3. QED BY <1>1, <1>2, <1>4, <2>1, <2>2 DEF CountInv
<1>9. BalanceInv' BY <1>5 DEF BalanceInv
<1>10. RoutineInv' BY <1>1, <1>5 DEF DaemonInv, RoutineInv
<1>11. LockInv' BY <1>1 DEF Attempt, DaemonInv, LockInv, EndsLock
<1>12. QED BY <1>6, <1>7, <1>8, <1>9, <1>10, <1>11 DEF DaemonInv

\* Wherever a call of the store fails, what was counted until then is sound.
LEMMA FailureIsSound ==
  ASSUME DaemonInv, CountFails \/ PrepareFails \/ DecideFails
  PROVE  \E mem : /\ Sound(mem) /\ FailedStep(mem)
                  /\ \/ mem.tracker.date = Today
                     \/ /\ tracker # None /\ mem.tracker.date = tracker.date
                        /\ last.at = Zero => mem.instants = {}
<1> DEFINE new == PrepareTracker(EndOfDay)
           account == Reconcile(Account)
<1>1. CASE SameDay /\ FailedStep(InMemory(Mem, last.at, SinceLast))
  BY <1>1, SameDayIsSound
<1>2. CASE NewDay /\ FailedStep(InMemory(Mem, last.at, BeforeMidnight))
  BY <1>2, EndOfDayIsSound DEF NewDay
<1>3. CASE NewDay /\ FailedStep(InMemory(new, Midnight, AfterMidnight(new)))
  <2>1. /\ Sound(InMemory(new, Midnight, AfterMidnight(new)))
        /\ InMemory(new, Midnight, AfterMidnight(new)).tracker.date = Today
    BY <1>3, NewDayIsSound
  <2>2. QED BY <1>3, <2>1
<1>4. CASE NewDay /\ FailedStep(EndOfDay)
  BY <1>4, EndOfDayIsSound DEF NewDay
<1>5. CASE NewDay /\ FailedStep(new)
  <2>1. Sound(new) /\ new.tracker.date = Today BY <1>5, NewDayIsSound
  <2>2. QED BY <1>5, <2>1
<1>6. CASE ReconcileDue(Account) /\ FailedStep(Raised(Account))
  BY <1>6, AccountIsSound, RaisedIsSound
<1>7. CASE FailedStep(account)
  BY <1>7, AccountIsSound, ReconcileIsSound
<1>8. QED
  BY <1>1, <1>2, <1>3, <1>4, <1>5, <1>6, <1>7 DEF CountFails, PrepareFails, DecideFails

-----------------------------------------------------------------------------
(* What the daemon does not decide. *)

LEMMA ElapseKeepsInv ==
  ASSUME DaemonInv, NEW wall \in Nat, NEW mono \in Nat, mono <= wall, Elapse(wall, mono)
  PROVE  DaemonInv'
<1>1. /\ clock' = [wall |-> clock.wall + wall, mono |-> clock.mono + mono]
      /\ clock.wall + wall < Horizon
      /\ rules' = rules /\ bonus' = bonus /\ control' = control /\ confirmed' = confirmed
      /\ desk' = desk /\ usage' = usage /\ tracker' = tracker /\ last' = last
      /\ decision' = decision /\ warned' = warned /\ attempt' = attempt
      /\ counted' = counted /\ since' = since /\ failures' = failures
  BY DEF Elapse, memory
<1>2. /\ clock.wall \in Nat /\ clock.mono \in Nat /\ clock.mono - Origin <= clock.wall
      /\ Origin <= clock.mono /\ Today \in Nat
  BY TodayIs DEF DaemonInv, DaemonType, ClockInv
<1>3. /\ clock'.wall = clock.wall + wall /\ clock'.mono = clock.mono + mono
      /\ clock'.wall \in Nat /\ clock'.mono \in Nat
  BY <1>1, <1>2
<1>4. DaemonType'
  <2>1. clock' \in Moment
    BY <1>1, <1>2, Numbers DEF Moment
  <2>2. QED BY <1>1, <2>1
           DEF DaemonType, DaemonInv, WarningState, Reason, Counter, Balance, Control, Time
<1>5. ClockInv'
  <2>1. /\ last.at.wall \in Int /\ last.at.mono \in Int
        /\ attempt.wall \in Int /\ attempt.mono \in Int
    BY Readings DEF DaemonInv, DaemonType
  <2>2. last'.at # Zero => Past(last.at)'
    BY <1>1, <1>2, <1>3, <2>1 DEF DaemonInv, ClockInv, Past
  <2>3. attempt' # Zero => Past(attempt)'
    BY <1>1, <1>2, <1>3, <2>1 DEF DaemonInv, ClockInv, Past
  <2>4. clock'.mono - Origin <= clock'.wall BY <1>2, <1>3, Numbers
  <2>5. QED BY <1>1, <2>2, <2>3, <2>4 DEF DaemonInv, ClockInv, Ahead
<1>6. CountInv'
  <2>1. Today' \in Nat /\ Today <= Today'
    BY <1>2, <1>3, NaturalDate, DatesGrow DEF Today
  <2>2. tracker # None => tracker.date \in Nat
    BY DEF DaemonInv, DaemonType, Counter, Date
  <2>3. counted.upto \in Nat BY Numbers DEF DaemonInv, DaemonType
  <2>4. QED BY <1>1, <1>2, <1>3, <2>1, <2>2, <2>3 DEF DaemonInv, CountInv, Behind
<1>7. BalanceInv' BY <1>1 DEF DaemonInv, BalanceInv, Allowance
<1>8. RoutineInv' /\ LockInv' BY <1>1 DEF DaemonInv, RoutineInv, LockInv
<1>9. QED BY <1>4, <1>5, <1>6, <1>7, <1>8 DEF DaemonInv

\* An action that leaves the clock, the account and the memory of the cycle alone.
LEMMA OthersKeepInv ==
  ASSUME DaemonInv, DaemonType', BalanceInv',
         clock' = clock, tracker' = tracker, last' = last, decision' = decision,
         attempt' = attempt, counted' = counted, since' = since, failures' = failures
  PROVE  DaemonInv'
<1>1. Today' = Today BY DEF Today
<1>2. ClockInv' BY DEF DaemonInv, ClockInv, Past, Ahead
<1>3. CountInv' BY <1>1 DEF DaemonInv, CountInv, Behind
<1>4. RoutineInv' /\ LockInv' BY DEF DaemonInv, RoutineInv, LockInv
<1>5. QED BY <1>2, <1>3, <1>4 DEF DaemonInv

LEMMA DeskKeepsInv ==
  ASSUME DaemonInv, NEW new, new # None => new \in [id : Session, active : BOOLEAN], Desk(new)
  PROVE  DaemonInv'
<1>1. /\ desk' = new
      /\ clock' = clock /\ rules' = rules /\ bonus' = bonus /\ control' = control
      /\ confirmed' = confirmed /\ usage' = usage /\ tracker' = tracker /\ last' = last
      /\ decision' = decision /\ warned' = warned /\ attempt' = attempt
      /\ counted' = counted /\ since' = since /\ failures' = failures
  BY DEF Desk, memory
<1>2. DaemonType'
  BY <1>1 DEF DaemonType, DaemonInv, WarningState, Reason, Counter, Balance, Control, Time
<1>3. BalanceInv' BY <1>1 DEF DaemonInv, BalanceInv, Allowance
<1>4. QED BY <1>1, <1>2, <1>3, OthersKeepInv

LEMMA ReplacePolicyKeepsInv ==
  ASSUME DaemonInv, NEW p \in Policies, ReplacePolicy(p)
  PROVE  DaemonInv'
<1>1. /\ rules' = [rev |-> rules.rev + 1, routines |-> p]
      /\ clock' = clock /\ bonus' = bonus /\ control' = control /\ confirmed' = confirmed
      /\ desk' = desk /\ usage' = usage /\ tracker' = tracker /\ last' = last
      /\ decision' = decision /\ warned' = warned /\ attempt' = attempt
      /\ counted' = counted /\ since' = since /\ failures' = failures
  BY DEF ReplacePolicy, memory
<1>2. DaemonType'
  <2>1. rules' \in [rev : Nat, routines : Policies] BY <1>1 DEF DaemonInv, DaemonType
  <2>2. QED BY <1>1, <2>1
           DEF DaemonType, DaemonInv, WarningState, Reason, Counter, Balance, Control, Time
<1>3. BalanceInv' BY <1>1 DEF DaemonInv, BalanceInv, Allowance
<1>4. QED BY <1>1, <1>2, <1>3, OthersKeepInv

LEMMA AddBonusKeepsInv == ASSUME DaemonInv, AddBonus PROVE DaemonInv'
<1>1. /\ bonus' = [bonus EXCEPT ![Today] = @ + 1]
      /\ confirmed' = IF confirmed # None /\ confirmed.date = Today
                        THEN [confirmed EXCEPT !.remaining = @ + 1] ELSE confirmed
      /\ clock' = clock /\ rules' = rules /\ control' = control
      /\ desk' = desk /\ usage' = usage /\ tracker' = tracker /\ last' = last
      /\ decision' = decision /\ warned' = warned /\ attempt' = attempt
      /\ counted' = counted /\ since' = since /\ failures' = failures
  BY DEF AddBonus, memory
<1>2. /\ Today \in Date /\ bonus \in [Date -> Nat] /\ usage \in [Date -> Nat]
      /\ \A d \in Date : Quota[WeekDayOf(d)] \in Nat
  BY TodayIs, QuotaIs DEF DaemonInv, DaemonType
<1>3. bonus' \in [Date -> Nat] /\ bonus'[Today] = bonus[Today] + 1
      /\ \A d \in Date : d # Today => bonus'[d] = bonus[d]
  BY <1>1, <1>2
<1>4. \A d \in Date : /\ Allowance(d) \in Nat
                      /\ Quota[WeekDayOf(d)] + bonus'[d]
                           = IF d = Today THEN Allowance(d) + 1 ELSE Allowance(d)
  BY <1>2, <1>3 DEF Allowance
<1>5. /\ confirmed = None => confirmed' = None
      /\ confirmed # None =>
           /\ confirmed \in Balance /\ confirmed' \in Balance
           /\ confirmed'.date = confirmed.date /\ confirmed'.usage = confirmed.usage
           /\ confirmed'.remaining = IF confirmed.date = Today THEN confirmed.remaining + 1
                                     ELSE confirmed.remaining
  <2>1. confirmed # None => confirmed \in Balance BY DEF DaemonInv, DaemonType
  <2>2. QED BY <1>1, <2>1 DEF Balance
<1>6. DaemonType'
  BY <1>1, <1>3, <1>5
     DEF DaemonType, DaemonInv, WarningState, Reason, Counter, Balance, Control, Time
<1>7. BalanceInv'
  <2> SUFFICES ASSUME failures = 0 PROVE BalanceInv' BY <1>1 DEF BalanceInv
  <2> DEFINE A(d) == Quota[WeekDayOf(d)] + bonus'[d]
  <2>1. \A d \in Date : A(d) \in Nat /\ Allowance(d) \in Nat /\ Allowance(d) <= A(d)
                        /\ (d = Today => A(d) = Allowance(d) + 1)
    BY <1>4
  <2>2. \A d \in Date : Quota[WeekDayOf(d)] + bonus'[d] = A(d) OBVIOUS
  <2> HIDE DEF A
  <2>3. \A d \in Date : usage[d] <= A(d)
    BY <1>2, <2>1 DEF DaemonInv, BalanceInv
  <2>4. confirmed' # None => confirmed'.remaining + confirmed'.usage <= A(confirmed'.date)
    <3>1. CASE confirmed = None BY <1>5, <3>1
    <3>2. CASE confirmed # None
      <4>1. confirmed.remaining + confirmed.usage <= Allowance(confirmed.date)
        BY <3>2 DEF DaemonInv, BalanceInv
      <4>2. /\ confirmed.date \in Date /\ confirmed.remaining \in Nat /\ confirmed.usage \in Nat
        BY <1>5, <3>2 DEF Balance
      <4>3. QED BY <1>5, <2>1, <3>2, <4>1, <4>2
    <3>3. QED BY <3>1, <3>2
  <2>5. tracker # None =>
           /\ tracker.date \in Date /\ tracker.seconds \in Nat
           /\ tracker.seconds <= A(tracker.date)
           /\ last.count =>
                tracker.seconds + (last.until.wall - last.at.wall) <= A(tracker.date)
    <3> SUFFICES ASSUME tracker # None
                 PROVE /\ tracker.date \in Date /\ tracker.seconds \in Nat
                       /\ tracker.seconds <= A(tracker.date)
                       /\ last.count =>
                            tracker.seconds + (last.until.wall - last.at.wall) <= A(tracker.date)
      OBVIOUS
    <3>1. tracker.date \in Date /\ tracker.seconds \in Nat
      BY DEF DaemonInv, DaemonType, Counter
    <3>2. last.until.wall \in Int /\ last.at.wall \in Int
      BY Readings DEF DaemonInv, DaemonType
    <3>3. QED BY <2>1, <3>1, <3>2 DEF DaemonInv, BalanceInv
  <2>6. tracker' # None => tracker'.date \in Date BY <1>1, <2>5
  <2>7. confirmed' # None => confirmed'.date \in Date BY <1>5 DEF Balance
  <2>8. QED BY <1>1, <2>2, <2>3, <2>4, <2>5, <2>6, <2>7 DEF BalanceInv, Allowance
<1>8. QED BY <1>1, <1>6, <1>7, OthersKeepInv

LEMMA HeartbeatKeepsInv ==
  ASSUME DaemonInv, NEW ctl \in Control, NEW extra \in Nat, Heartbeat(ctl, extra)
  PROVE  DaemonInv'
<1> DEFINE total == MaxOf(usage[Today], extra)
           allowance == Quota[WeekDayOf(Today)] + bonus[Today]
           wanted == ActiveSession # None /\ ~ Anchored
           balance == [rev |-> rules.rev, session |-> ActiveSession, date |-> Today,
                       remaining |-> MaxOf(0, allowance - total), usage |-> total]
<1>1. /\ extra > 0 => extra <= allowance
      /\ control' = ctl
      /\ confirmed' = IF wanted THEN balance ELSE confirmed
      /\ usage' = IF wanted THEN [usage EXCEPT ![Today] = total] ELSE usage
      /\ clock' = clock /\ rules' = rules /\ bonus' = bonus
      /\ desk' = desk /\ tracker' = tracker /\ last' = last
      /\ decision' = decision /\ warned' = warned /\ attempt' = attempt
      /\ counted' = counted /\ since' = since /\ failures' = failures
  BY DEF Heartbeat, memory
<1>2. /\ Today \in Date /\ bonus \in [Date -> Nat] /\ usage \in [Date -> Nat]
      /\ Quota[WeekDayOf(Today)] \in Nat /\ usage[Today] \in Nat
      /\ allowance \in Nat /\ allowance = Allowance(Today) /\ rules.rev \in Nat
  BY TodayIs, QuotaIs DEF DaemonInv, DaemonType, Allowance
<1> HIDE DEF allowance
<1>3. /\ total \in Nat /\ total >= usage[Today]
      /\ total = usage[Today] \/ (extra > 0 /\ total = extra)
  BY <1>2, LargerOf
<1> HIDE DEF total
<1>4. MaxOf(0, allowance - total) \in Nat
      /\ (total <= allowance => MaxOf(0, allowance - total) + total = allowance)
  BY <1>2, <1>3, LargerOf
<1>5. wanted => /\ balance \in Balance /\ balance.date = Today /\ balance.usage = total
                /\ balance.remaining = MaxOf(0, allowance - total)
  <2>1. wanted => ActiveSession \in Session
    BY ActiveSessionIs DEF DaemonInv
  <2>2. QED BY <1>2, <1>3, <1>4, <2>1 DEF Balance
<1> HIDE DEF balance, wanted
<1>6. DaemonType'
  <2>1. confirmed' # None => confirmed' \in Balance
    BY <1>1, <1>5 DEF DaemonInv, DaemonType
  <2>2. usage' \in [Date -> Nat] BY <1>1, <1>2, <1>3
  <2>3. QED BY <1>1, <2>1, <2>2
           DEF DaemonType, DaemonInv, WarningState, Reason, Counter, Balance, Control, Time
<1>7. BalanceInv'
  <2> SUFFICES ASSUME failures = 0 PROVE BalanceInv' BY <1>1 DEF BalanceInv
  <2>1. usage[Today] <= allowance BY <1>2 DEF DaemonInv, BalanceInv
  <2>2. total <= allowance BY <1>1, <1>2, <1>3, <2>1
  <2>3. \A d \in Date : usage'[d] <= Allowance(d)
    BY <1>1, <1>2, <1>3, <2>2 DEF DaemonInv, BalanceInv
  <2>4. confirmed' # None =>
           confirmed'.remaining + confirmed'.usage <= Allowance(confirmed'.date)
    <3>1. CASE wanted
      <4>1. confirmed'.remaining + confirmed'.usage = allowance /\ confirmed'.date = Today
        BY <1>1, <1>4, <1>5, <2>2, <3>1
      <4>2. QED BY <1>2, <4>1
    <3>2. CASE ~ wanted BY <1>1, <3>2 DEF DaemonInv, BalanceInv
    <3>3. QED BY <3>1, <3>2
  <2>5. QED BY <1>1, <2>3, <2>4 DEF DaemonInv, BalanceInv, Allowance
<1>8. QED BY <1>1, <1>6, <1>7, OthersKeepInv

LEMMA HeartbeatFailsKeepsInv == ASSUME DaemonInv, HeartbeatFails PROVE DaemonInv'
<1>1. /\ control' = "offline"
      /\ clock' = clock /\ rules' = rules /\ bonus' = bonus /\ confirmed' = confirmed
      /\ desk' = desk /\ usage' = usage /\ tracker' = tracker /\ last' = last
      /\ decision' = decision /\ warned' = warned /\ attempt' = attempt
      /\ counted' = counted /\ since' = since /\ failures' = failures
  BY DEF HeartbeatFails, memory
<1>2. DaemonType'
  BY <1>1 DEF DaemonType, DaemonInv, WarningState, Reason, Counter, Balance, Control, Time
<1>3. BalanceInv' BY <1>1 DEF DaemonInv, BalanceInv, Allowance
<1>4. QED BY <1>1, <1>2, <1>3, OthersKeepInv

LEMMA ForgottenIs ==
  /\ NoLast \in [at : Time, count : BOOLEAN, hadSession : BOOLEAN, until : Time]
  /\ NoLast.at = Zero /\ NoLast.count = FALSE
  /\ NoWarned \in WarningState /\ Zero \in Time
  /\ \A why : Blocked(why).allowed = FALSE
<1>1. Zero \in Time BY DEF Zero, Time
<1>2. NoWarned \in WarningState
  <2>1. "none" \in Reason /\ {} \in SUBSET Kind BY DEF Reason
  <2>2. QED BY <1>1, <2>1 DEF NoWarned, WarningState
<1>3. QED BY <1>1, <1>2 DEF NoLast, Blocked

LEMMA RestartKeepsInv ==
  ASSUME DaemonInv, NEW flushed \in BOOLEAN, Restart(flushed)
  PROVE  DaemonInv'
<1>1. /\ flushed => tracker # None
      /\ usage' = IF flushed THEN Persist(Mem).usage ELSE usage
      /\ tracker' = None /\ last' = NoLast /\ decision' = Blocked("none")
      /\ warned' = NoWarned /\ attempt' = Zero /\ control' = "offline"
      /\ clock' = clock /\ rules' = rules /\ bonus' = bonus /\ confirmed' = confirmed
      /\ desk' = desk /\ counted' = counted /\ since' = since /\ failures' = failures
  BY DEF Restart
<1>2. Today' = Today BY <1>1 DEF Today
<1>3. usage' \in [Date -> Nat] /\ (failures = 0 => \A d \in Date : usage'[d] <= Allowance(d))
  <2>1. CASE flushed
    <3>1. Sound(Mem) BY <1>1, <2>1, MemIsSound
    <3>2. Sound(Persist(Mem)) BY <3>1, PersistIsSound
    <3>3. QED BY <1>1, <2>1, <3>2, AccountedFields DEF Sound
  <2>2. CASE ~ flushed BY <1>1, <2>2 DEF DaemonInv, DaemonType, BalanceInv
  <2>3. QED BY <2>1, <2>2
<1>4. DaemonType'
  BY <1>1, <1>3, ForgottenIs
     DEF DaemonType, DaemonInv, Counter, Balance, Control
<1>5. ClockInv' BY <1>1, ForgottenIs DEF DaemonInv, ClockInv
<1>6. CountInv'
  <2>1. ~ Behind' BY <1>1, ForgottenIs DEF Behind
  <2>2. QED BY <1>1, <2>1 DEF DaemonInv, CountInv
<1>7. BalanceInv' BY <1>1, <1>3 DEF DaemonInv, BalanceInv, Allowance
<1>8. RoutineInv' BY <1>1, ForgottenIs DEF DaemonInv, RoutineInv
<1>9. LockInv' BY <1>1, ForgottenIs DEF LockInv
<1>10. QED BY <1>4, <1>5, <1>6, <1>7, <1>8, <1>9 DEF DaemonInv

-----------------------------------------------------------------------------
(* The inductive invariant. *)

LEMMA InitEstablishesInv == Init => DaemonInv
<1> SUFFICES ASSUME Init PROVE DaemonInv OBVIOUS
<1>1. /\ clock = [wall |-> 0, mono |-> Origin] /\ tracker = None /\ last = NoLast
      /\ confirmed = None /\ warned = NoWarned /\ attempt = Zero /\ failures = 0
      /\ decision = Blocked("none") /\ control = "offline"
      /\ counted = [instants |-> {}, upto |-> 0, again |-> 0]
      /\ since = [ahead |-> FALSE, closer |-> FALSE, routines |-> {}, unlocked |-> TRUE]
      /\ bonus = [d \in Date |-> 0] /\ usage = [d \in Date |-> 0]
  BY DEF Init
<1>2. Horizon \in Nat /\ Horizon > 0 BY Numbers, Lengths DEF Horizon
<1>3. DaemonType
  <2>1. clock \in Moment BY <1>1, <1>2, Numbers DEF Moment
  <2>2. bonus \in [Date -> Nat] /\ usage \in [Date -> Nat] BY <1>1
  <2>3. counted \in [instants : SUBSET (0..(Horizon - 1)), upto : 0..Horizon, again : Nat]
    BY <1>1, <1>2
  <2>4. /\ rules \in [rev : Nat, routines : Policies]
        /\ desk # None => desk \in [id : Session, active : BOOLEAN]
    <3>1. rules \in [rev : {1}, routines : Policies] BY DEF Init
    <3>2. desk \in {None} \cup [id : Session, active : {TRUE}] BY DEF Init
    <3>3. [id : Session, active : {TRUE}] \subseteq [id : Session, active : BOOLEAN] OBVIOUS
    <3>4. rules \in [rev : Nat, routines : Policies] BY <3>1
    <3>5. QED BY <3>2, <3>3, <3>4
  <2>5. QED BY <1>1, <2>1, <2>2, <2>3, <2>4, ForgottenIs DEF DaemonType, Control
<1>4. ClockInv BY <1>1, Numbers, ForgottenIs DEF ClockInv
<1>5. CountInv BY <1>1, ForgottenIs DEF CountInv, Behind
<1>6. BalanceInv
  <2>1. \A d \in Date : Allowance(d) \in Nat BY <1>3, AllowanceIs
  <2>2. QED BY <1>1, <2>1 DEF BalanceInv
<1>7. RoutineInv BY <1>1, ForgottenIs DEF RoutineInv
<1>8. LockInv BY <1>1, ForgottenIs DEF LockInv
<1>9. QED BY <1>3, <1>4, <1>5, <1>6, <1>7, <1>8 DEF DaemonInv

LEMMA NextKeepsInv == DaemonInv /\ [Next]_vars => DaemonInv'
<1> SUFFICES ASSUME DaemonInv, [Next]_vars PROVE DaemonInv' OBVIOUS
<1>1. CASE Step \/ UnlockFails BY <1>1, StepKeepsInv DEF Step, UnlockFails
<1>2. CASE CountFails \/ PrepareFails \/ DecideFails
  BY <1>2, FailureIsSound, FailedStepKeepsInv
<1>3. CASE Tick BY <1>3, ElapseKeepsInv DEF Tick
<1>4. CASE Suspend
  <2>1. Sleep \in Nat /\ 0 <= Sleep BY Numbers
  <2>2. QED BY <1>4, <2>1, ElapseKeepsInv DEF Suspend
<1>5. ASSUME NEW x \in Session, Login(x) PROVE DaemonInv'
  <2>1. [id |-> x, active |-> TRUE] \in [id : Session, active : BOOLEAN] OBVIOUS
  <2>2. QED BY <1>5, <2>1, DeskKeepsInv DEF Login
<1>6. CASE Logout BY <1>6, DeskKeepsInv DEF Logout
<1>7. CASE SwitchUser
  <2>1. [desk EXCEPT !.active = ~ @] \in [id : Session, active : BOOLEAN]
    BY <1>7 DEF SwitchUser, DaemonInv, DaemonType
  <2>2. QED BY <1>7, <2>1, DeskKeepsInv DEF SwitchUser
<1>8. ASSUME NEW p \in Policies, ReplacePolicy(p) PROVE DaemonInv'
  BY <1>8, ReplacePolicyKeepsInv
<1>9. CASE AddBonus BY <1>9, AddBonusKeepsInv
<1>10. ASSUME NEW c \in Control \ {"offline"}, NEW extra \in 0..1, Heartbeat(c, extra)
       PROVE  DaemonInv'
  <2>1. c \in Control /\ extra \in Nat OBVIOUS
  <2>2. QED BY <1>10, <2>1, HeartbeatKeepsInv
<1>11. CASE HeartbeatFails BY <1>11, HeartbeatFailsKeepsInv
<1>12. ASSUME NEW flushed \in BOOLEAN, Restart(flushed) PROVE DaemonInv'
  BY <1>12, RestartKeepsInv
<1>13. CASE UNCHANGED vars
  <2>1. /\ clock' = clock /\ rules' = rules /\ bonus' = bonus /\ control' = control
        /\ confirmed' = confirmed /\ desk' = desk /\ usage' = usage /\ tracker' = tracker
        /\ last' = last /\ decision' = decision /\ warned' = warned /\ attempt' = attempt
        /\ counted' = counted /\ since' = since /\ failures' = failures
    BY <1>13 DEF vars, inputs, memory, ghosts
  <2>2. DaemonType'
    BY <2>1 DEF DaemonType, DaemonInv, WarningState, Reason, Counter, Balance, Control, Time
  <2>3. BalanceInv' BY <2>1 DEF DaemonInv, BalanceInv, Allowance
  <2>4. QED BY <2>1, <2>2, <2>3, OthersKeepInv
<1>14. QED
  BY <1>1, <1>2, <1>3, <1>4, <1>5, <1>6, <1>7, <1>8, <1>9, <1>10, <1>11, <1>12, <1>13 DEF Next

THEOREM DaemonInvariant == Spec => []DaemonInv
BY InitEstablishesInv, NextKeepsInv, PTL DEF Spec

\* Counters, deadlines and the state of warnings and locks keep their shape in every cycle,
\* complete or cut short, and the end of an open interval lies after its beginning on the
\* clock that measures it.
THEOREM DaemonTypes == Spec => []TypeOK
<1>1. DaemonInv => TypeOK
  <2> SUFFICES ASSUME DaemonInv PROVE TypeOK OBVIOUS
  <2>1. last.count => last.until # Zero /\ Minus(last.until, last.at) > 0
    <3>1. last.at.wall \in Int /\ last.until.wall \in Int /\ last.at.mono \in Int
          /\ last.until.mono \in Int
      BY Readings DEF DaemonInv, DaemonType
    <3>2. QED BY <3>1 DEF DaemonInv, ClockInv, Ahead, Minus
  <2>2. Minus(clock, attempt) >= 0
    <3>1. clock.wall \in Nat /\ clock.mono \in Nat BY TodayIs DEF DaemonInv, DaemonType
    <3>2. CASE attempt = Zero BY <3>1, <3>2 DEF Minus, Zero
    <3>3. CASE attempt # Zero BY <3>1, <3>3 DEF Minus, DaemonInv, ClockInv, Past
    <3>4. QED BY <3>2, <3>3
  <2>3. DaemonType /\ clock.mono - Origin <= clock.wall BY DEF DaemonInv, ClockInv
  <2>4. warned.emitted \subseteq Kind BY <2>3 DEF DaemonType, WarningState
  <2>5. counted.instants \subseteq 0..(Horizon - 1) /\ counted.upto \in 0..Horizon
    BY <2>3 DEF DaemonType
  <2>6. QED BY <2>1, <2>2, <2>3, <2>4, <2>5 DEF TypeOK, DaemonType, Counter, Balance, Moment
<1>2. QED BY <1>1, DaemonInvariant, PTL

\* Of the cycles that complete none counts what another one has counted: only a cycle after
\* a failed one goes back, and at most once for each failure.
THEOREM CountsOnce == Spec => []NoInstantCountedTwice
<1>1. DaemonInv => NoInstantCountedTwice
  BY DEF DaemonInv, CountInv, NoInstantCountedTwice
<1>2. QED BY <1>1, DaemonInvariant, PTL

\* As long as no call of the store fails the counter stays within what its date allows,
\* for every quota, bonus and routine and however long the computer sleeps.
THEOREM StaysWithinBalance == Spec => []BalanceIsNotOverdrawn
<1>1. DaemonInv => BalanceIsNotOverdrawn
  BY DEF DaemonInv, BalanceInv, BalanceIsNotOverdrawn, Allowance
<1>2. QED BY <1>1, DaemonInvariant, PTL

\* The server's test of overlaps, for every length of a day and of a week.
THEOREM OverlapAtEveryInstant == Spec => []OverlapTestIsExact
<1>1. DaemonInv => OverlapTestIsExact BY OverlapTest DEF OverlapTestIsExact
<1>2. QED BY <1>1, DaemonInvariant, PTL

\* The next start of a routine, from every instant of the clock.
THEOREM NextStartAtEveryInstant == Spec => []NextStartIsExactToday
<1>1. DaemonInv => NextStartIsExactToday
  <2> SUFFICES ASSUME DaemonInv PROVE NextStartIsExactToday OBVIOUS
  <2>1. clock.wall \in Nat BY TodayIs DEF DaemonInv, DaemonType
  <2>2. QED BY <2>1, NextStartToday DEF NextStartIsExactToday
<1>2. QED BY <1>1, DaemonInvariant, PTL

\* What a cycle adds to the instants that were counted was free of routines.
LEMMA StepCountsFreeTime ==
  ASSUME DaemonInv, [Next]_vars, failures = 0, NEW i \in counted'.instants \ counted.instants
  PROVE  Countable(i)
<1>1. ASSUME NEW unlocked \in BOOLEAN, Complete(unlocked) PROVE Countable(i)
  <2> DEFINE mem == Reconcile(Account)
             kept == IF FlushDue(Decision(mem.tracker)) THEN Persist(mem) ELSE mem
  <2>1. Sound(mem) BY AccountIsSound, ReconcileIsSound
  <2>2. Keep(kept) /\ (kept = mem \/ kept = Persist(mem)) BY <1>1 DEF Complete
  <2> HIDE DEF mem, kept
  <2>3. Sound(kept) BY <2>1, <2>2, PersistIsSound
  <2>4. \A j \in counted'.instants : Countable(j) BY <2>2, <2>3, KeepIs
  <2>5. QED BY <2>4
<1>2. CASE CountFails \/ PrepareFails \/ DecideFails
  <2>1. PICK mem : Sound(mem) /\ FailedStep(mem) BY <1>2, FailureIsSound
  <2>2. \A j \in counted'.instants : Countable(j) BY <2>1, KeepIs DEF FailedStep
  <2>3. QED BY <2>2
<1>3. CASE counted' = counted BY <1>3
<1>4. QED
  BY <1>1, <1>2, <1>3
     DEF Next, Step, UnlockFails, Tick, Suspend, Elapse, Login, Logout, SwitchUser, Desk,
         ReplacePolicy, AddBonus,
         Heartbeat, HeartbeatFails, Restart, vars, ghosts

\* Nothing is counted while a routine is in force, on the day on which the interval began
\* and on the present day.
THEOREM RoutineTimeIsFree == Spec => RoutineTimeIsNotCounted
<1>1. DaemonInv /\ [Next]_vars =>
        [ failures = 0 =>
            \A i \in counted'.instants \ counted.instants :
              LET opened == DateOf(last.at.wall) IN
              /\ DateOf(i) = opened => ~ ActiveRoutine(since.routines, i)
              /\ DateOf(i) = Today /\ Today # opened => ~ ActiveRoutine(rules.routines, i) ]_vars
  BY StepCountsFreeTime DEF Countable
<1>2. QED BY <1>1, DaemonInvariant, PTL DEF Spec, RoutineTimeIsNotCounted

\* Only a complete cycle makes lastAt advance.
LEMMA OnlyStepCompletes ==
  ASSUME [Next]_vars, Completes
  PROVE  \E unlocked \in BOOLEAN : Complete(unlocked)
<1>1. ~ UNCHANGED last BY DEF Completes
<1>2. \A flushed \in BOOLEAN : ~ Restart(flushed)
  BY ForgottenIs DEF Restart, Completes
<1>3. QED
  BY <1>1, <1>2
     DEF Next, Step, UnlockFails, CountFails, PrepareFails, DecideFails, FailedStep, Tick,
         Suspend, Elapse, Login, Logout, SwitchUser, Desk, ReplacePolicy, AddBonus, Heartbeat,
           HeartbeatFails, vars,
         memory

\* The cycle that ends an allowed period tries to lock the session it sees, whatever was
\* tried before: no attempt outlives an allowed cycle, unless its unlock failed, and then
\* the lock waits for the rest of the retry interval.
THEOREM LocksAtOnce == Spec => BlockingLocksAtOnce
<1>1. DaemonInv /\ [Next]_vars =>
        [ ( /\ Completes /\ decision.allowed /\ decision.reason # "awaiting_synchronization"
            /\ ~ decision'.allowed /\ ActiveSession # None )
          => attempt' = clock \/ (~ since.unlocked /\ Minus(clock, attempt') < Retry) ]_vars
  <2> SUFFICES ASSUME DaemonInv, [Next]_vars, Completes, decision.allowed,
                      decision.reason # "awaiting_synchronization",
                      ~ decision'.allowed, ActiveSession # None
               PROVE  attempt' = clock \/ (~ since.unlocked /\ Minus(clock, attempt') < Retry)
    OBVIOUS
  <2>1. PICK unlocked \in BOOLEAN : Complete(unlocked) BY OnlyStepCompletes
  <2>2. attempt' = AttemptAfter(decision', unlocked) BY <2>1 DEF Complete
  <2>3. Attempt = attempt BY DEF Attempt
  <2>4. CASE LockDue(decision') BY <2>2, <2>4 DEF AttemptAfter
  <2>5. CASE ~ LockDue(decision')
    <3>1. attempt # Zero /\ ~ (Minus(clock, attempt) >= Retry) BY <2>3, <2>5 DEF LockDue
    <3>2. ~ since.unlocked BY <3>1 DEF DaemonInv, LockInv, EndsLock
    <3>3. attempt' = attempt BY <2>2, <2>3, <2>5 DEF AttemptAfter, EndsLock
    <3>4. Minus(clock, attempt) \in Int /\ Retry \in Int
      BY Readings, Numbers DEF Minus, DaemonInv, DaemonType, Moment, Time
    <3>5. QED BY <3>1, <3>2, <3>3, <3>4
  <2>6. QED BY <2>4, <2>5
<1>2. QED BY <1>1, DaemonInvariant, PTL DEF Spec, BlockingLocksAtOnce

-----------------------------------------------------------------------------
(* The warning of the last minute. *)

\* A predicted block comes from the calendar or from the clock, and its kind tells which.
Predicted(at, reason) ==
  \/ reason = "routine" /\ at.mono = -1
  \/ reason = "quota" /\ at.mono >= Origin

LastMinute(at) == Plus(at, - OneMinute)

\* While the block of a period stays where it is or moves away, the last minute either has
\* been announced or has not begun at the last cycle.
WarningInv ==
  /\ since.ahead \in BOOLEAN /\ since.closer \in BOOLEAN
  /\ warned.init => Past(warned.at)
  /\ warned.active =>
       /\ warned.init
       /\ Predicted(warned.blockAt, warned.reason)
       /\ since.ahead /\ ~ since.closer =>
            \/ "one_minute" \in warned.emitted
            \/ Minus(LastMinute(warned.blockAt), warned.at) > 0

LEMMA DecisionIsPredicted ==
  ASSUME DaemonInv, NEW t \in Counter, HasFutureBlock(Decision(t))
  PROVE  Predicted(Decision(t).nextAt, Decision(t).nextReason)
<1> DEFINE r == Remaining(t)
           start == NextRoutineStart(rules.routines, clock.wall)
           end == Plus(clock, r)
<1>1. clock.mono \in Nat /\ Origin <= clock.mono /\ Origin \in Nat
  BY TodayIs, Numbers DEF DaemonInv, DaemonType
<1>2. r \in Nat BY RemainingFits DEF DaemonInv, DaemonType
<1>3. \A why : ~ HasFutureBlock(Blocked(why)) /\ ~ HasFutureBlock(Passed(why))
  BY DEF HasFutureBlock, Blocked, Passed
<1> HIDE DEF r
<1>4. Decision(t) = Until(clock, r, rules.routines)
  BY <1>3 DEF Decision, EvaluateNow, Evaluate, r
<1>5. end.mono >= Origin BY <1>1, <1>2 DEF Plus
<1>6. AtWall(start).mono = -1 BY DEF AtWall
<1>7. \/ Decision(t).nextAt = AtWall(start) /\ Decision(t).nextReason = "routine"
      \/ Decision(t).nextAt = end /\ Decision(t).nextReason = "quota"
  BY <1>4 DEF Until
<1>8. QED BY <1>5, <1>6, <1>7 DEF Predicted

\* A block that does not come closer does not bring its last minute closer.
LEMMA LaterBlock ==
  ASSUME NEW b \in Time, NEW c \in Time, NEW now \in Time, NEW reason,
         Predicted(b, reason), Predicted(c, reason), now.mono \in Nat,
         ~ (Minus(c, b) < 0), Minus(LastMinute(b), now) > 0
  PROVE  Minus(LastMinute(c), now) > 0
<1>1. /\ b.wall \in Int /\ b.mono \in Int /\ c.wall \in Int /\ c.mono \in Int
      /\ now.wall \in Int /\ now.mono \in Int
      /\ OneMinute \in Nat /\ OneMinute > 0 /\ Origin \in Nat /\ OneMinute <= Origin
  BY Readings, Numbers
<1>2. CASE b.mono = -1 /\ c.mono = -1
  <2>1. Minus(c, b) = c.wall - b.wall BY <1>2 DEF Minus
  <2>2. /\ Minus(LastMinute(b), now) = b.wall - OneMinute - now.wall
        /\ Minus(LastMinute(c), now) = c.wall - OneMinute - now.wall
    BY <1>1, <1>2 DEF Minus, LastMinute, Plus
  <2>3. QED BY <1>1, <2>1, <2>2
<1>3. CASE b.mono >= Origin /\ c.mono >= Origin
  <2>1. Minus(c, b) = c.mono - b.mono BY <1>1, <1>3 DEF Minus
  <2>2. /\ Minus(LastMinute(b), now) = b.mono - OneMinute - now.mono
        /\ Minus(LastMinute(c), now) = c.mono - OneMinute - now.mono
    BY <1>1, <1>3 DEF Minus, LastMinute, Plus
  <2>3. QED BY <1>1, <2>1, <2>2
<1>4. QED BY <1>2, <1>3 DEF Predicted

\* Who reaches the block within a minute of the last cycle has been in its last minute then.
LEMMA LastCycleIsClose ==
  ASSUME NEW b \in Time, NEW at \in Time, NEW now \in Time, NEW reason,
         Predicted(b, reason), at.mono \in Nat, now.mono \in Nat,
         now.mono - at.mono <= now.wall - at.wall,
         Minus(now, b) >= 0, now.wall - at.wall <= OneMinute
  PROVE  ~ (Minus(LastMinute(b), at) > 0)
<1>1. /\ b.wall \in Int /\ b.mono \in Int /\ at.wall \in Int /\ at.mono \in Int
      /\ now.wall \in Int /\ now.mono \in Int
      /\ OneMinute \in Nat /\ OneMinute > 0 /\ Origin \in Nat /\ OneMinute <= Origin
  BY Readings, Numbers
<1>2. CASE b.mono = -1
  <2>1. /\ Minus(now, b) = now.wall - b.wall
        /\ Minus(LastMinute(b), at) = b.wall - OneMinute - at.wall
    BY <1>1, <1>2 DEF Minus, LastMinute, Plus
  <2>2. QED BY <1>1, <2>1
<1>3. CASE b.mono >= Origin
  <2>1. /\ Minus(now, b) = now.mono - b.mono
        /\ Minus(LastMinute(b), at) = b.mono - OneMinute - at.mono
    BY <1>1, <1>3 DEF Minus, LastMinute, Plus
  <2>2. QED BY <1>1, <2>1
<1>4. QED BY <1>2, <1>3 DEF Predicted

\* A period that goes on: the threshold is announced by the cycle that passes it.
LEMMA PeriodGoesOn ==
  ASSUME DaemonInv, WarningInv, NEW d, d.nextAt \in Time, Predicted(d.nextAt, d.nextReason),
         warned.init, ~ NewCycle(d), since.ahead, ~ since.closer,
         ~ (Minus(d.nextAt, warned.blockAt) < 0)
  PROVE  \/ "one_minute" \in warned.emitted \cup Crossed(d)
         \/ Minus(LastMinute(d.nextAt), clock) > 0
<1>1. warned.active /\ warned.reason = d.nextReason BY DEF NewCycle
<1>2. CASE "one_minute" \in warned.emitted BY <1>2
<1>3. CASE "one_minute" \notin warned.emitted
  <2>1. /\ warned.at \in Time /\ warned.blockAt \in Time /\ warned.at.mono \in Nat
        /\ Predicted(warned.blockAt, d.nextReason)
        /\ Minus(LastMinute(warned.blockAt), warned.at) > 0
    BY <1>1, <1>3 DEF WarningInv, Past, DaemonInv, DaemonType, WarningState
  <2>2. Minus(LastMinute(d.nextAt), warned.at) > 0 BY <2>1, LaterBlock
  <2>3. "one_minute" \in Planned /\ Distance["one_minute"] = OneMinute
    BY Numbers DEF Planned, Kind, Distance
  <2>4. Minus(LastMinute(d.nextAt), clock) <= 0 => "one_minute" \in Crossed(d)
    BY <1>3, <2>2, <2>3 DEF Crossed, LastMinute
  <2>5. Minus(LastMinute(d.nextAt), clock) \in Int
    BY Readings, TodayIs, Numbers
       DEF Minus, LastMinute, Plus, DaemonInv, DaemonType
  <2>6. QED BY <2>4, <2>5
<1>4. QED BY <1>2, <1>3

LEMMA StepKeepsWarning ==
  ASSUME DaemonInv, WarningInv, NEW unlocked \in BOOLEAN, Complete(unlocked)
  PROVE  WarningInv'
<1> DEFINE mem == Reconcile(Account)
           d == Decision(mem.tracker)
<1>1. /\ warned' = Due(d) /\ since' = SinceOf(d, unlocked) /\ clock' = clock
  BY DEF Complete, inputs
<1>2. mem.tracker \in Counter BY AccountIsSound, ReconcileIsSound, AccountedFields DEF Sound
<1> HIDE DEF mem
<1>3. Decided(d, clock, Remaining(mem.tracker), rules.routines) BY <1>2, DecisionIs
<1>4. HasFutureBlock(d) => Predicted(d.nextAt, d.nextReason) BY <1>2, DecisionIsPredicted
<1> HIDE DEF d
<1>5. d.nextAt \in Time /\ d.allowed \in BOOLEAN BY <1>3 DEF Decided
<1>6. clock \in Time /\ clock # Zero /\ clock.wall \in Nat /\ clock.mono \in Nat
  BY TodayIs DEF DaemonInv, DaemonType
<1>7. Past(clock) /\ Past(clock)' BY <1>1, <1>6 DEF Past
<1> DEFINE rearmed == ~ warned.init \/ ~ HasFutureBlock(d) \/ NewCycle(d)
           early == Minus(LastMinute(d.nextAt), clock) > 0
           nearer == Minus(d.nextAt, warned.blockAt) < 0
<1>8. /\ since'.ahead = IF rearmed THEN early ELSE since.ahead
      /\ since'.closer = (~ rearmed /\ (since.closer \/ nearer))
  BY <1>1 DEF SinceOf, LastMinute
<1>9. since'.ahead \in BOOLEAN /\ since'.closer \in BOOLEAN
  <2>1. early \in BOOLEAN /\ (~ rearmed /\ (since.closer \/ nearer)) \in BOOLEAN OBVIOUS
  <2>2. since.ahead \in BOOLEAN BY DEF WarningInv
  <2> HIDE DEF early, rearmed
  <2>3. since'.ahead \in BOOLEAN BY <1>8, <2>1, <2>2
  <2>4. since'.closer \in BOOLEAN BY <1>8, <2>1
  <2>5. QED BY <2>3, <2>4
<1>10. CASE ~ warned.init \/ (HasFutureBlock(d) /\ NewCycle(d))
  <2>1. warned' = Observed(d, {}) BY <1>1, <1>10 DEF Due
  <2>2. /\ warned'.init = TRUE /\ warned'.active = HasFutureBlock(d)
        /\ warned'.at = clock /\ warned'.blockAt = d.nextAt /\ warned'.reason = d.nextReason
    BY <2>1 DEF Observed
  <2>3. since'.ahead => early BY <1>8, <1>10
  <2>4. QED BY <1>1, <1>4, <1>7, <1>9, <2>2, <2>3 DEF WarningInv
<1>11. CASE warned.init /\ ~ HasFutureBlock(d)
  <2>1. warned' = [warned EXCEPT !.active = FALSE, !.at = clock, !.blockAt = Zero]
    BY <1>1, <1>11 DEF Due
  <2>2. ~ warned'.active /\ warned'.at = clock
    BY <2>1 DEF DaemonInv, DaemonType, WarningState
  <2>3. QED BY <1>1, <1>7, <1>9, <2>2 DEF WarningInv
<1>12. CASE warned.init /\ HasFutureBlock(d) /\ ~ NewCycle(d)
  <2>1. warned' = Observed(d, warned.emitted \cup Crossed(d)) BY <1>1, <1>12 DEF Due
  <2>2. /\ warned'.init = TRUE /\ warned'.at = clock /\ warned'.blockAt = d.nextAt
        /\ warned'.reason = d.nextReason /\ warned'.emitted = warned.emitted \cup Crossed(d)
    BY <2>1 DEF Observed
  <2>3. since'.ahead /\ ~ since'.closer => since.ahead /\ ~ since.closer /\ ~ nearer
    BY <1>8, <1>12
  <2>4. since'.ahead /\ ~ since'.closer =>
          "one_minute" \in warned.emitted \cup Crossed(d) \/ early
    BY <1>4, <1>5, <1>12, <2>3, PeriodGoesOn
  <2>5. QED BY <1>1, <1>4, <1>7, <1>9, <1>12, <2>2, <2>4 DEF WarningInv
<1>13. QED BY <1>10, <1>11, <1>12

LEMMA WarningInvariant == Spec => []WarningInv
<1>1. Init => WarningInv
  BY DEF Init, NoWarned, WarningInv
<1>2. DaemonInv /\ DaemonInv' /\ WarningInv /\ [Next]_vars => WarningInv'
  <2> SUFFICES ASSUME DaemonInv, DaemonInv', WarningInv, [Next]_vars PROVE WarningInv'
    OBVIOUS
  <2>1. CASE Step \/ UnlockFails BY <2>1, StepKeepsWarning DEF Step, UnlockFails
  <2>2. ASSUME NEW flushed \in BOOLEAN, Restart(flushed) PROVE WarningInv'
    BY <2>2 DEF Restart, NoWarned, WarningInv
  <2>3. ASSUME NEW wall \in Nat, NEW mono \in Nat, mono <= wall, Elapse(wall, mono)
        PROVE  WarningInv'
    <3>1. /\ warned' = warned /\ since' = since
          /\ clock' = [wall |-> clock.wall + wall, mono |-> clock.mono + mono]
      BY <2>3 DEF Elapse, memory
    <3>2. clock.wall \in Nat /\ clock.mono \in Nat BY TodayIs DEF DaemonInv, DaemonType
    <3>3. warned.init => Past(warned.at)'
      BY <2>3, <3>1, <3>2 DEF WarningInv, Past
    <3>4. QED BY <3>1, <3>3 DEF WarningInv
  <2>4. CASE warned' = warned /\ since' = since /\ clock' = clock
    BY <2>4 DEF WarningInv, Past
  <2>5. Sleep \in Nat /\ 0 <= Sleep BY Numbers
  <2>6. CASE Tick BY <2>3, <2>6 DEF Tick
  <2>7. CASE Suspend BY <2>3, <2>5, <2>7 DEF Suspend
  <2>8. QED
    BY <2>1, <2>2, <2>4, <2>6, <2>7
       DEF Next, CountFails, PrepareFails, DecideFails, FailedStep, Login, Logout, SwitchUser,
           Desk, ReplacePolicy, AddBonus, Heartbeat, HeartbeatFails, vars, inputs, memory,
           ghosts
<1>3. QED BY <1>1, <1>2, DaemonInvariant, PTL DEF Spec

\* Whoever works until a block that was predicted has passed its last warning, unless there
\* was no minute left for it or no cycle ran in that minute.
THEOREM WarnsBeforeBlock == Spec => WarnedBeforeBlocked
<1>1. DaemonInv /\ WarningInv /\ warned.active /\ since.ahead /\ ~ since.closer
        /\ Minus(clock, warned.blockAt) >= 0 /\ clock.wall - warned.at.wall <= OneMinute
        => "one_minute" \in warned.emitted
  <2> SUFFICES ASSUME DaemonInv, WarningInv, warned.active, since.ahead, ~ since.closer,
                      Minus(clock, warned.blockAt) >= 0,
                      clock.wall - warned.at.wall <= OneMinute
               PROVE  "one_minute" \in warned.emitted
    OBVIOUS
  <2>1. /\ warned.at \in Time /\ warned.blockAt \in Time
        /\ clock \in Time /\ clock.mono \in Nat
    BY TodayIs DEF DaemonInv, DaemonType, WarningState
  <2>2. /\ Predicted(warned.blockAt, warned.reason) /\ warned.at.mono \in Nat
        /\ clock.mono - warned.at.mono <= clock.wall - warned.at.wall
    BY DEF WarningInv, Past
  <2>3. ~ (Minus(LastMinute(warned.blockAt), warned.at) > 0)
    BY <2>1, <2>2, LastCycleIsClose
  <2>4. QED BY <2>3 DEF WarningInv
<1>2. QED BY <1>1, DaemonInvariant, WarningInvariant, PTL DEF Spec, WarnedBeforeBlocked

=============================================================================
