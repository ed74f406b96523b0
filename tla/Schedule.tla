------------------------------ MODULE Schedule ------------------------------
(***************************************************************************)
(* The weekly routines: the server's test of what may be saved             *)
(* (server/storage/domain.go) and the agent's policy engine                *)
(* (agent/policy/policy.go), two readings of the same rows that nothing    *)
(* but their results ties together.                                        *)
(*                                                                         *)
(* Time is counted in units, DayLength of them in a day and Week days in a *)
(* week; instant 0 begins weekday 0.  Days have the same length: a change  *)
(* of the time zone's offset is left out.                                  *)
(***************************************************************************)
EXTENDS Integers, FiniteSets

CONSTANTS
  DayLength,   \* units in a day
  Week         \* days in a week

ASSUME ScheduleAssumption == DayLength \in Nat \ {0} /\ Week \in Nat \ {0}

WeekDay == 0..(Week - 1)
Second  == 0..(DayLength - 1)

\* days: those on which the routine starts; end is exclusive; an end that is
\* not after the start belongs to the next day; equal: the whole day.
Routine == [days : SUBSET WeekDay, start : Second, end : Second, enabled : BOOLEAN]

Never == -1
DateOf(t)     == t \div DayLength
WeekDayOf(d)  == d % Week
SecondOf(t)   == t % DayLength
DayBefore(wd) == (wd + Week - 1) % Week

-----------------------------------------------------------------------------
(* The server: intervals of the week, and whether two routines share one. *)

\* Mutant: the part after midnight stays on the day that the routine starts.
RoutineIntervalsUnwrapped(r) ==
  UNION { IF r.start = r.end
            THEN IF d \in r.days THEN {<<d * DayLength, (d + 1) * DayLength>>} ELSE {}
          ELSE IF r.start < r.end
            THEN IF d \in r.days THEN {<<d * DayLength + r.start, d * DayLength + r.end>>} ELSE {}
          ELSE (IF d \in r.days /\ r.end > 0
                  THEN {<<d * DayLength, d * DayLength + r.end>>} ELSE {})
               \cup (IF d \in r.days
                       THEN {<<d * DayLength + r.start, (d + 1) * DayLength>>} ELSE {})
          : d \in WeekDay }

RoutineIntervals(r) ==
  LET whole(d)   == <<d * DayLength, (d + 1) * DayLength>>
      within(d)  == <<d * DayLength + r.start, d * DayLength + r.end>>
      evening(d) == <<d * DayLength + r.start, (d + 1) * DayLength>>
      morning(d) == <<d * DayLength, d * DayLength + r.end>>
  IN
  CASE r.start = r.end -> { whole(d) : d \in r.days }
    [] r.start < r.end -> { within(d) : d \in r.days }
    [] OTHER -> { evening(d) : d \in r.days }
                  \cup { morning(d) : d \in { e \in WeekDay : r.end > 0 /\ DayBefore(e) \in r.days } }

RoutinesOverlap(first, second) ==
  \E a \in RoutineIntervals(first), b \in RoutineIntervals(second) : a[1] < b[2] /\ b[1] < a[2]

\* SaveRoutine's conditions; `others` holds the other routines, enabled or not.
Accepts(others, r) ==
  /\ r.days # {}
  /\ \A other \in others : ~ RoutinesOverlap(r, other)

-----------------------------------------------------------------------------
(* The agent. *)

\* Mutant: the start is exclusive.
ActiveAfterStart(r, t) ==
  LET today == WeekDayOf(DateOf(t)) IN
  /\ r.enabled
  /\ CASE r.start = r.end -> today \in r.days
       [] r.start < r.end -> today \in r.days /\ r.start < SecondOf(t) /\ SecondOf(t) < r.end
       [] OTHER -> \/ today \in r.days /\ r.start < SecondOf(t)
                   \/ DayBefore(today) \in r.days /\ SecondOf(t) < r.end

\* activeRoutine, for one routine.
Active(r, t) ==
  LET today == WeekDayOf(DateOf(t)) IN
  /\ r.enabled
  /\ CASE r.start = r.end -> today \in r.days
       [] r.start < r.end -> today \in r.days /\ r.start <= SecondOf(t) /\ SecondOf(t) < r.end
       [] OTHER -> \/ today \in r.days /\ r.start <= SecondOf(t)
                   \/ DayBefore(today) \in r.days /\ SecondOf(t) < r.end

ActiveRoutine(routines, t) == \E r \in routines : Active(r, t)

\* Starts within one week and one day; `start` is taken as it stands, also for
\* a routine of the whole day.
RoutineStarts(routines, t) ==
  UNION { { c \in { (DateOf(t) + offset) * DayLength + r.start : offset \in 0..Week } :
              r.enabled /\ c > t /\ WeekDayOf(DateOf(c)) \in r.days } : r \in routines }

NextRoutineStart(routines, t) ==
  LET starts == RoutineStarts(routines, t) IN
  IF starts = {} THEN Never ELSE CHOOSE c \in starts : \A other \in starts : c <= other

-----------------------------------------------------------------------------
(* References, over every routine of a week of this size. *)

\* The instants of a week, and of one more day, in which the engine blocks.
BlockedInstants(routines) ==
  { t \in 0..((Week + 1) * DayLength - 1) : ActiveRoutine(routines, t) }

Rule == { r \in Routine : r.enabled /\ r.days # {} }

\* RoutinesOverlap against the instants that the engine would block.
OverlapIsExact ==
  \A first, second \in Rule :
    RoutinesOverlap(first, second) <=>
      BlockedInstants({first}) \cap BlockedInstants({second}) # {}

\* NextRoutineStart at instant t against the instants left of its day.
NextStartIsExact(t) ==
  \A first, second \in Rule :
    LET both    == {first, second}
        blocked == { u \in t..((DateOf(t) + 1) * DayLength - 1) : ActiveRoutine(both, u) }
        next    == NextRoutineStart(both, t)
    IN RoutinesOverlap(first, second) \/ t \in blocked
       \/ IF blocked = {} THEN next = Never \/ DateOf(next) > DateOf(t)
                          ELSE next \in blocked /\ \A u \in blocked : next <= u
=============================================================================
