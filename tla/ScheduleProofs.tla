--------------------------- MODULE ScheduleProofs ---------------------------
(***************************************************************************)
(* The two readings of the weekly routines agree, whatever the length of a *)
(* day and of a week: also for the 86400 seconds and 7 days of the code.   *)
(***************************************************************************)
EXTENDS Schedule, FiniteSetTheorems, TLAPS

(* Dates and seconds. *)

LEMMA Lengths == DayLength \in Nat /\ DayLength > 0 /\ Week \in Nat /\ Week > 0
  BY ScheduleAssumption

LEMMA DateAndSecond ==
  ASSUME NEW t \in Int
  PROVE  /\ DateOf(t) \in Int /\ SecondOf(t) \in Second
         /\ t = DateOf(t) * DayLength + SecondOf(t)
  BY Lengths DEF DateOf, SecondOf, Second

LEMMA InstantOf ==
  ASSUME NEW d \in Int, NEW s \in Second
  PROVE  DateOf(d * DayLength + s) = d /\ SecondOf(d * DayLength + s) = s
  BY Lengths DEF DateOf, SecondOf, Second

\* A later date begins after the end of an earlier one.
LEMMA LaterDate ==
  ASSUME NEW a \in Int, NEW b \in Int, a < b
  PROVE  (a + 1) * DayLength <= b * DayLength
  BY Lengths

\* An instant belongs to the date between whose midnights it lies.
LEMMA Within ==
  ASSUME NEW t \in Int, NEW d \in Int
  PROVE  d * DayLength <= t /\ t < (d + 1) * DayLength <=> DateOf(t) = d
<1>1. /\ DateOf(t) \in Int /\ DateOf(t) * DayLength <= t
      /\ t < (DateOf(t) + 1) * DayLength
  BY DateAndSecond, Lengths DEF Second
<1>2. CASE d < DateOf(t) BY <1>1, <1>2, LaterDate, Lengths
<1>3. CASE DateOf(t) < d BY <1>1, <1>3, LaterDate, Lengths
<1>4. CASE DateOf(t) = d BY <1>1, <1>4
<1>5. QED BY <1>1, <1>2, <1>3, <1>4

LEMMA NaturalDate == ASSUME NEW t \in Nat PROVE DateOf(t) \in Nat
  BY Lengths DEF DateOf

LEMMA DatesGrow ==
  ASSUME NEW t \in Int, NEW u \in Int, t <= u
  PROVE  DateOf(t) <= DateOf(u)
<1>1. /\ DateOf(t) \in Int /\ DateOf(t) * DayLength <= t
      /\ DateOf(u) \in Int /\ u < (DateOf(u) + 1) * DayLength
  <2>1. DateOf(t) \in Int /\ DateOf(u) \in Int BY DateAndSecond
  <2>2. QED BY <2>1, Within
<1>2. CASE DateOf(u) < DateOf(t) BY <1>1, <1>2, LaterDate, Lengths
<1>3. QED BY <1>1, <1>2

LEMMA WeekDays ==
  ASSUME NEW d \in Int
  PROVE  WeekDayOf(d) \in WeekDay /\ (d \in WeekDay => WeekDayOf(d) = d)
<1>1. WeekDayOf(d) \in WeekDay BY Lengths DEF WeekDayOf, WeekDay
<1>2. ASSUME d \in WeekDay PROVE WeekDayOf(d) = d BY <1>2, Lengths DEF WeekDayOf, WeekDay
<1>3. QED BY <1>1, <1>2

LEMMA NextWeek ==
  ASSUME NEW d \in WeekDay
  PROVE  WeekDayOf(Week + d) = d
  BY Lengths DEF WeekDayOf, WeekDay

LEMMA DayBeforeIs ==
  ASSUME NEW d \in WeekDay
  PROVE  /\ DayBefore(d) \in WeekDay
         /\ DayBefore(d) = IF d = 0 THEN Week - 1 ELSE d - 1
<1>1. CASE d = 0 BY <1>1, Lengths DEF DayBefore, WeekDay
<1>2. CASE d > 0
  <2>1. d + Week - 1 = Week + (d - 1) /\ d - 1 \in WeekDay
    BY <1>2, Lengths DEF WeekDay
  <2>2. QED BY <1>2, <2>1, NextWeek DEF DayBefore, WeekDayOf, WeekDay
<1>3. QED BY <1>1, <1>2 DEF WeekDay

\* A set of naturals has a least element, because the sets 0..(n-1) are well founded.
LEMMA LeastNatural ==
  ASSUME NEW T, T \subseteq Nat, T # {}
  PROVE  \E x \in T : \A y \in T : x <= y
<1> DEFINE Below(n) == 0..(n - 1)
           B == { Below(n) : n \in T }
<1>1. \A n \in Nat : Below(n) \in SUBSET Nat /\ IsFiniteSet(Below(n))
  BY FS_Interval
<1>2. B \subseteq FiniteSubsetsOf(Nat) /\ B # {}
  BY <1>1 DEF FiniteSubsetsOf
<1>3. PICK b \in B : \A c \in B : ~ (<<c, b>> \in StrictSubsetOrdering(Nat))
  BY <1>2, FS_StrictSubsetOrderingWellFounded, WFMin
<1>4. PICK x \in T : b = Below(x)
  OBVIOUS
<1>5. ASSUME NEW y \in T, y < x PROVE FALSE
  <2>1. Below(y) \subseteq Below(x) /\ y \in Below(x) /\ y \notin Below(y)
    BY <1>5
  <2>2. <<Below(y), Below(x)>> \in StrictSubsetOrdering(Nat)
    BY <1>1, <2>1 DEF StrictSubsetOrdering
  <2>3. QED BY <1>3, <1>4, <2>2
<1>6. QED BY <1>5

-----------------------------------------------------------------------------
(* RoutinesOverlap: the server's intervals are the instants of the week in *)
(* which the agent blocks.                                                 *)

LEMMA RoutineFields ==
  ASSUME NEW r \in Routine
  PROVE  r.days \subseteq WeekDay /\ r.start \in Second /\ r.end \in Second
  BY DEF Routine

LEMMA DayOfWeek ==
  ASSUME NEW t \in 0..(Week * DayLength - 1)
  PROVE  DateOf(t) \in WeekDay
<1>1. DateOf(t) \in Nat /\ DateOf(t) * DayLength <= t
  BY NaturalDate, DateAndSecond, Lengths DEF Second
<1>2. CASE DateOf(t) >= Week
  BY <1>1, <1>2, Lengths
<1>3. QED BY <1>1, <1>2, Lengths DEF WeekDay

\* Every interval is a piece of one day of the week, and not empty.
LEMMA IntervalsOfWeek ==
  ASSUME NEW r \in Routine, NEW a \in RoutineIntervals(r)
  PROVE  \E d \in WeekDay : \E from, to \in 0..DayLength :
            a = <<d * DayLength + from, d * DayLength + to>> /\ from < to
<1>1. CASE r.start = r.end
  <2>1. PICK d \in r.days : a = <<d * DayLength, (d + 1) * DayLength>>
    BY <1>1, RoutineFields, Lengths DEF RoutineIntervals, Second
  <2>2. d \in WeekDay /\ d \in Int BY <2>1, RoutineFields, Lengths DEF WeekDay
  <2>3. a = <<d * DayLength + 0, d * DayLength + DayLength>> BY <2>1, <2>2, Lengths
  <2>4. QED BY <2>2, <2>3, Lengths
<1>2. CASE r.start < r.end
  <2>1. PICK d \in r.days : a = <<d * DayLength + r.start, d * DayLength + r.end>>
    BY <1>2, RoutineFields, Lengths DEF RoutineIntervals, Second
  <2>2. QED BY <1>2, <2>1, RoutineFields, Lengths DEF Second
<1>3. CASE r.end < r.start
  <2>1. CASE \E d \in r.days : a = <<d * DayLength + r.start, (d + 1) * DayLength>>
    <3>1. PICK d \in r.days : a = <<d * DayLength + r.start, (d + 1) * DayLength>>
      BY <2>1
    <3>2. d \in WeekDay /\ d \in Int BY <3>1, RoutineFields, Lengths DEF WeekDay
    <3>3. a = <<d * DayLength + r.start, d * DayLength + DayLength>> BY <3>1, <3>2, Lengths
    <3>4. QED BY <3>2, <3>3, RoutineFields, Lengths DEF Second
  <2>2. CASE \E d \in WeekDay : r.end > 0 /\ a = <<d * DayLength, d * DayLength + r.end>>
    <3>1. PICK d \in WeekDay : r.end > 0 /\ a = <<d * DayLength, d * DayLength + r.end>>
      BY <2>2
    <3>2. a = <<d * DayLength + 0, d * DayLength + r.end>> BY <3>1, Lengths DEF WeekDay
    <3>3. QED BY <3>1, <3>2, RoutineFields, Lengths DEF Second
  <2>3. QED BY <1>3, <2>1, <2>2, RoutineFields, Lengths DEF RoutineIntervals, Second
<1>4. QED BY <1>1, <1>2, <1>3, RoutineFields, Lengths DEF Second

LEMMA IntervalEnds ==
  ASSUME NEW r \in Routine, NEW a \in RoutineIntervals(r)
  PROVE  /\ a[1] \in Int /\ a[2] \in Int
         /\ 0 <= a[1] /\ a[1] < a[2] /\ a[2] <= Week * DayLength
<1>1. PICK d \in WeekDay, from \in 0..DayLength, to \in 0..DayLength :
        a = <<d * DayLength + from, d * DayLength + to>> /\ from < to
  BY IntervalsOfWeek
<1>2. d \in Nat /\ d < Week BY Lengths DEF WeekDay
<1>3. 0 <= d * DayLength /\ (d + 1) * DayLength <= Week * DayLength
  BY <1>2, LaterDate, Lengths
<1>4. QED BY <1>1, <1>2, <1>3, Lengths

\* The three shapes of a routine in the engine.
LEMMA ActiveWhen ==
  ASSUME NEW r \in Routine, r.enabled, NEW t
  PROVE  /\ r.start = r.end => (Active(r, t) <=> WeekDayOf(DateOf(t)) \in r.days)
         /\ r.start < r.end => (Active(r, t) <=> /\ WeekDayOf(DateOf(t)) \in r.days
                                                /\ r.start <= SecondOf(t) /\ SecondOf(t) < r.end)
         /\ r.end < r.start =>
              (Active(r, t) <=> \/ WeekDayOf(DateOf(t)) \in r.days /\ r.start <= SecondOf(t)
                                \/ /\ DayBefore(WeekDayOf(DateOf(t))) \in r.days
                                   /\ SecondOf(t) < r.end)
<1>1. r.start \in Int /\ r.end \in Int BY RoutineFields, Lengths DEF Second
<1>2. CASE r.start = r.end
  <2>1. ~ (r.start < r.end) /\ ~ (r.end < r.start) BY <1>1, <1>2
  <2>2. QED BY <1>2, <2>1 DEF Active
<1>3. CASE r.start < r.end
  <2>1. r.start # r.end /\ ~ (r.end < r.start) BY <1>1, <1>3
  <2>2. QED BY <1>3, <2>1 DEF Active
<1>4. CASE r.end < r.start
  <2>1. r.start # r.end /\ ~ (r.start < r.end) BY <1>1, <1>4
  <2>2. QED BY <1>4, <2>1 DEF Active
<1>5. QED BY <1>1, <1>2, <1>3, <1>4

\* An instant of the week is in an interval exactly when the engine finds the routine
\* in force.
LEMMA IntervalsAreActive ==
  ASSUME NEW r \in Routine, r.enabled, NEW t \in 0..(Week * DayLength - 1)
  PROVE  Active(r, t) <=> \E a \in RoutineIntervals(r) : a[1] <= t /\ t < a[2]
<1> DEFINE today == DateOf(t)
           s == SecondOf(t)
<1>1. /\ t \in Int /\ today \in WeekDay /\ WeekDayOf(today) = today
      /\ today \in Int /\ s \in Int /\ 0 <= s /\ s < DayLength
      /\ t = today * DayLength + s
  BY DayOfWeek, WeekDays, DateAndSecond, Lengths DEF WeekDay, Second
<1>2. \A d \in WeekDay : d * DayLength <= t /\ t < (d + 1) * DayLength <=> d = today
  BY <1>1, Within, Lengths DEF WeekDay
<1>3. \A d \in WeekDay : \A from, to \in 0..DayLength :
         d * DayLength + from <= t /\ t < d * DayLength + to
           <=> d = today /\ from <= s /\ s < to
  <2> SUFFICES ASSUME NEW d \in WeekDay, NEW from \in 0..DayLength, NEW to \in 0..DayLength
               PROVE  d * DayLength + from <= t /\ t < d * DayLength + to
                        <=> d = today /\ from <= s /\ s < to
    OBVIOUS
  <2>1. d \in Int BY Lengths DEF WeekDay
  <2>2. CASE d = today BY <1>1, <2>2, Lengths
  <2>3. CASE d # today BY <1>1, <1>2, <2>1, <2>3, Lengths
  <2>4. QED BY <2>2, <2>3
<1> HIDE DEF today, s
<1>4. r.start \in 0..DayLength /\ r.end \in 0..DayLength /\ r.days \subseteq WeekDay
  BY RoutineFields, Lengths DEF Second
<1>5. CASE r.start = r.end
  <2>1. RoutineIntervals(r) = { <<d * DayLength, (d + 1) * DayLength>> : d \in r.days }
    BY <1>4, <1>5, Lengths DEF RoutineIntervals
  <2>2. Active(r, t) <=> today \in r.days
    BY <1>1, <1>5, ActiveWhen DEF today, s
  <2>3. (\E a \in RoutineIntervals(r) : a[1] <= t /\ t < a[2])
          <=> \E d \in r.days : d * DayLength <= t /\ t < (d + 1) * DayLength
    <3>1. ASSUME NEW a \in RoutineIntervals(r), a[1] <= t, t < a[2]
          PROVE  \E d \in r.days : d * DayLength <= t /\ t < (d + 1) * DayLength
      <4>1. PICK d \in r.days : a = <<d * DayLength, (d + 1) * DayLength>> BY <2>1
      <4>2. QED BY <3>1, <4>1
    <3>2. ASSUME NEW d \in r.days, d * DayLength <= t, t < (d + 1) * DayLength
          PROVE  \E a \in RoutineIntervals(r) : a[1] <= t /\ t < a[2]
      <4>1. <<d * DayLength, (d + 1) * DayLength>> \in RoutineIntervals(r) BY <2>1
      <4>2. QED BY <3>2, <4>1
    <3>3. QED BY <3>1, <3>2
  <2>4. QED BY <1>2, <1>4, <2>2, <2>3
<1>6. CASE r.start < r.end
  <2>1. RoutineIntervals(r)
          = { <<d * DayLength + r.start, d * DayLength + r.end>> : d \in r.days }
    BY <1>4, <1>6, Lengths DEF RoutineIntervals
  <2>2. Active(r, t) <=> today \in r.days /\ r.start <= s /\ s < r.end
    BY <1>1, <1>6, ActiveWhen DEF today, s
  <2>3. (\E a \in RoutineIntervals(r) : a[1] <= t /\ t < a[2])
          <=> \E d \in r.days : d * DayLength + r.start <= t /\ t < d * DayLength + r.end
    <3>1. ASSUME NEW a \in RoutineIntervals(r), a[1] <= t, t < a[2]
          PROVE  \E d \in r.days : d * DayLength + r.start <= t /\ t < d * DayLength + r.end
      <4>1. PICK d \in r.days : a = <<d * DayLength + r.start, d * DayLength + r.end>> BY <2>1
      <4>2. QED BY <3>1, <4>1
    <3>2. ASSUME NEW d \in r.days, d * DayLength + r.start <= t, t < d * DayLength + r.end
          PROVE  \E a \in RoutineIntervals(r) : a[1] <= t /\ t < a[2]
      <4>1. <<d * DayLength + r.start, d * DayLength + r.end>> \in RoutineIntervals(r) BY <2>1
      <4>2. QED BY <3>2, <4>1
    <3>3. QED BY <3>1, <3>2
  <2>4. QED BY <1>3, <1>4, <2>2, <2>3
<1>7. CASE r.end < r.start
  <2> DEFINE mornings == { e \in WeekDay : r.end > 0 /\ DayBefore(e) \in r.days }
  <2> HIDE DEF mornings
  <2>1. RoutineIntervals(r)
          = { <<d * DayLength + r.start, (d + 1) * DayLength>> : d \in r.days }
            \cup { <<d * DayLength, d * DayLength + r.end>> : d \in mornings }
    BY <1>4, <1>7, Lengths DEF RoutineIntervals, mornings
  <2>2. Active(r, t) <=> \/ today \in r.days /\ r.start <= s
                         \/ DayBefore(today) \in r.days /\ s < r.end
    BY <1>1, <1>7, ActiveWhen DEF today, s
  <2>3. \A d \in r.days : d * DayLength + r.start <= t /\ t < (d + 1) * DayLength
                             <=> d = today /\ r.start <= s
    <3> SUFFICES ASSUME NEW d \in r.days
                 PROVE  d * DayLength + r.start <= t /\ t < (d + 1) * DayLength
                          <=> d = today /\ r.start <= s
      OBVIOUS
    <3>1. d \in WeekDay /\ d \in Int BY <1>4, Lengths DEF WeekDay
    <3>2. (d + 1) * DayLength = d * DayLength + DayLength BY <3>1, Lengths
    <3>3. QED BY <1>1, <1>3, <1>4, <3>1, <3>2, Lengths
  <2>4. \A d \in WeekDay : d * DayLength <= t /\ t < d * DayLength + r.end
                             <=> d = today /\ s < r.end
    <3> SUFFICES ASSUME NEW d \in WeekDay
                 PROVE  d * DayLength <= t /\ t < d * DayLength + r.end
                          <=> d = today /\ s < r.end
      OBVIOUS
    <3>1. d * DayLength + 0 = d * DayLength /\ 0 \in 0..DayLength /\ 0 <= s
      BY <1>1, Lengths DEF WeekDay
    <3>2. d * DayLength + 0 <= t /\ t < d * DayLength + r.end <=> d = today /\ 0 <= s /\ s < r.end
      BY <1>3, <1>4, <3>1
    <3>3. QED BY <3>1, <3>2
  <2>5. (\E a \in RoutineIntervals(r) : a[1] <= t /\ t < a[2])
          <=> \/ \E d \in r.days : d * DayLength + r.start <= t /\ t < (d + 1) * DayLength
              \/ \E d \in mornings : d * DayLength <= t /\ t < d * DayLength + r.end
    <3>1. ASSUME NEW a \in RoutineIntervals(r), a[1] <= t, t < a[2]
          PROVE  \/ \E d \in r.days : d * DayLength + r.start <= t /\ t < (d + 1) * DayLength
                 \/ \E d \in mornings : d * DayLength <= t /\ t < d * DayLength + r.end
      <4>1. CASE \E d \in r.days : a = <<d * DayLength + r.start, (d + 1) * DayLength>>
        BY <3>1, <4>1
      <4>2. CASE \E d \in mornings : a = <<d * DayLength, d * DayLength + r.end>>
        BY <3>1, <4>2
      <4>3. QED BY <2>1, <4>1, <4>2
    <3>2. ASSUME NEW d \in r.days, d * DayLength + r.start <= t, t < (d + 1) * DayLength
          PROVE  \E a \in RoutineIntervals(r) : a[1] <= t /\ t < a[2]
      <4>1. <<d * DayLength + r.start, (d + 1) * DayLength>> \in RoutineIntervals(r) BY <2>1
      <4>2. QED BY <3>2, <4>1
    <3>3. ASSUME NEW d \in mornings, d * DayLength <= t, t < d * DayLength + r.end
          PROVE  \E a \in RoutineIntervals(r) : a[1] <= t /\ t < a[2]
      <4>1. <<d * DayLength, d * DayLength + r.end>> \in RoutineIntervals(r) BY <2>1
      <4>2. QED BY <3>3, <4>1
    <3>4. QED BY <3>1, <3>2, <3>3
  <2>6. 0 <= s /\ s < r.end => r.end > 0 BY <1>1, <1>4
  <2>7. QED BY <1>1, <1>4, <2>2, <2>3, <2>4, <2>5, <2>6 DEF mornings
<1>8. QED BY <1>4, <1>5, <1>6, <1>7, Lengths

\* A week later the same routines are in force.
LEMMA ActiveNextWeek ==
  ASSUME NEW r \in Routine, NEW t \in 0..(DayLength - 1)
  PROVE  Active(r, Week * DayLength + t) <=> Active(r, t)
<1>1. 0 * DayLength + t = t /\ t \in Second BY Lengths DEF Second
<1>2. DateOf(t) = 0 /\ SecondOf(t) = t BY <1>1, InstantOf
<1>3. DateOf(Week * DayLength + t) = Week /\ SecondOf(Week * DayLength + t) = t
  <2>1. Week \in Int BY Lengths
  <2>2. QED BY <1>1, <2>1, InstantOf
<1>4. WeekDayOf(Week) = 0 /\ WeekDayOf(0) = 0
  BY NextWeek, WeekDays, Lengths DEF WeekDay
<1>5. QED BY <1>2, <1>3, <1>4 DEF Active

LEMMA BlockedByOne ==
  ASSUME NEW r, NEW t
  PROVE  ActiveRoutine({r}, t) <=> Active(r, t)
  BY DEF ActiveRoutine

\* Two intervals that share a part of the week share an instant, and the engine finds
\* both routines in force then.
LEMMA OverlapBlocksTwice ==
  ASSUME NEW first \in Routine, NEW second \in Routine, first.enabled, second.enabled,
         RoutinesOverlap(first, second)
  PROVE  \E t \in 0..(Week * DayLength - 1) : Active(first, t) /\ Active(second, t)
<1>1. PICK a \in RoutineIntervals(first), b \in RoutineIntervals(second) :
        a[1] < b[2] /\ b[1] < a[2]
  BY DEF RoutinesOverlap
<1>2. /\ a[1] \in Int /\ a[2] \in Int /\ 0 <= a[1] /\ a[1] < a[2] /\ a[2] <= Week * DayLength
      /\ b[1] \in Int /\ b[2] \in Int /\ 0 <= b[1] /\ b[1] < b[2] /\ b[2] <= Week * DayLength
  BY IntervalEnds
<1>3. Week * DayLength \in Int BY Lengths
<1>4. \E t \in 0..(Week * DayLength - 1) : a[1] <= t /\ t < a[2] /\ b[1] <= t /\ t < b[2]
  <2>1. CASE a[1] <= b[1]
    <3>1. b[1] \in 0..(Week * DayLength - 1) BY <1>2, <1>3
    <3>2. QED BY <1>1, <1>2, <2>1, <3>1
  <2>2. CASE b[1] < a[1]
    <3>1. a[1] \in 0..(Week * DayLength - 1) BY <1>2, <1>3
    <3>2. QED BY <1>1, <1>2, <2>2, <3>1
  <2>3. QED BY <1>2, <2>1, <2>2
<1>5. QED BY <1>4, IntervalsAreActive

\* ... and where it finds both, their intervals share that instant.
LEMMA BlockedTwiceOverlaps ==
  ASSUME NEW first \in Routine, NEW second \in Routine, first.enabled, second.enabled,
         NEW t \in 0..(Week * DayLength - 1), Active(first, t), Active(second, t)
  PROVE  RoutinesOverlap(first, second)
<1>1. PICK a \in RoutineIntervals(first) : a[1] <= t /\ t < a[2]
  BY IntervalsAreActive
<1>2. PICK b \in RoutineIntervals(second) : b[1] <= t /\ t < b[2]
  BY IntervalsAreActive
<1>3. /\ a[1] \in Int /\ a[2] \in Int /\ b[1] \in Int /\ b[2] \in Int /\ t \in Int
  BY IntervalEnds, Lengths
<1>4. a[1] < b[2] /\ b[1] < a[2] BY <1>1, <1>2, <1>3
<1>5. QED BY <1>4 DEF RoutinesOverlap

\* SaveRoutine's test is exact: two enabled routines overlap if and only if there is
\* an instant of the week, or of the night after it, in which the engine blocks for both.
THEOREM OverlapTest == OverlapIsExact
<1> SUFFICES ASSUME NEW first \in Rule, NEW second \in Rule
             PROVE  RoutinesOverlap(first, second) <=>
                      BlockedInstants({first}) \cap BlockedInstants({second}) # {}
  BY DEF OverlapIsExact
<1>1. first \in Routine /\ second \in Routine /\ first.enabled /\ second.enabled
  BY DEF Rule
<1>2. /\ Week * DayLength \in Nat
      /\ (Week + 1) * DayLength = Week * DayLength + DayLength
  BY Lengths
<1>3. ASSUME RoutinesOverlap(first, second)
      PROVE  BlockedInstants({first}) \cap BlockedInstants({second}) # {}
  <2>1. PICK t \in 0..(Week * DayLength - 1) : Active(first, t) /\ Active(second, t)
    BY <1>1, <1>3, OverlapBlocksTwice
  <2>2. t \in 0..((Week + 1) * DayLength - 1) BY <1>2, Lengths
  <2>3. QED BY <2>1, <2>2, BlockedByOne DEF BlockedInstants
<1>4. ASSUME NEW t \in BlockedInstants({first}) \cap BlockedInstants({second})
      PROVE  RoutinesOverlap(first, second)
  <2>1. /\ t \in 0..((Week + 1) * DayLength - 1)
        /\ Active(first, t) /\ Active(second, t)
    BY BlockedByOne DEF BlockedInstants
  <2>2. CASE t < Week * DayLength
    <3>1. t \in 0..(Week * DayLength - 1) BY <1>2, <2>1, <2>2, Lengths
    <3>2. QED BY <1>1, <2>1, <3>1, BlockedTwiceOverlaps
  <2>3. CASE t >= Week * DayLength
    <3>1. PICK u \in 0..(DayLength - 1) : t = Week * DayLength + u
      <4>1. t - Week * DayLength \in 0..(DayLength - 1) BY <1>2, <2>1, <2>3, Lengths
      <4>2. t = Week * DayLength + (t - Week * DayLength) BY <1>2, <2>1, Lengths
      <4>3. QED BY <4>1, <4>2
    <3>2. Active(first, u) /\ Active(second, u) BY <1>1, <2>1, <3>1, ActiveNextWeek
    <3>3. u \in 0..(Week * DayLength - 1)
      <4>1. 1 * DayLength <= Week * DayLength BY Lengths, LaterDate
      <4>2. QED BY <1>2, <4>1, Lengths
    <3>4. QED BY <1>1, <3>2, <3>3, BlockedTwiceOverlaps
  <2>4. QED BY <1>2, <2>1, <2>2, <2>3, Lengths
<1>5. QED BY <1>3, <1>4

-----------------------------------------------------------------------------
(* NextRoutineStart. *)

LEMMA RuleFields ==
  ASSUME NEW routines \in SUBSET Routine, NEW r \in routines
  PROVE  r \in Routine /\ r.days \subseteq WeekDay /\ r.start \in Second /\ r.end \in Second
  BY RoutineFields

\* What a start is: the hour of an enabled routine, on one of its days, after t.
LEMMA StartsAre ==
  ASSUME NEW routines, NEW t, NEW c
  PROVE  c \in RoutineStarts(routines, t) <=>
           \E r \in routines : \E offset \in 0..Week :
              /\ c = (DateOf(t) + offset) * DayLength + r.start
              /\ r.enabled /\ c > t /\ WeekDayOf(DateOf(c)) \in r.days
  BY DEF RoutineStarts

LEMMA StartsAreNaturals ==
  ASSUME NEW routines \in SUBSET Routine, NEW t \in Nat
  PROVE  RoutineStarts(routines, t) \subseteq { c \in Nat : c > t }
<1> SUFFICES ASSUME NEW c \in RoutineStarts(routines, t) PROVE c \in Nat /\ c > t
  OBVIOUS
<1>1. PICK r \in routines, offset \in 0..Week :
        c = (DateOf(t) + offset) * DayLength + r.start /\ c > t
  BY StartsAre
<1>2. r.start \in Int /\ DateOf(t) \in Int
  <2>1. r.start \in Second BY <1>1, RuleFields
  <2>2. QED BY <2>1, NaturalDate, Lengths DEF Second
<1>3. c \in Int BY <1>1, <1>2, Lengths
<1>4. QED BY <1>1, <1>3

\* The prediction is the earliest start, if there is any.
LEMMA NextStart ==
  ASSUME NEW routines \in SUBSET Routine, NEW t \in Nat
  PROVE  \/ /\ RoutineStarts(routines, t) = {}
            /\ NextRoutineStart(routines, t) = Never
         \/ /\ NextRoutineStart(routines, t) \in RoutineStarts(routines, t)
            /\ NextRoutineStart(routines, t) \in Nat /\ NextRoutineStart(routines, t) > t
            /\ \A c \in RoutineStarts(routines, t) : NextRoutineStart(routines, t) <= c
<1>1. CASE RoutineStarts(routines, t) = {}
  BY <1>1 DEF NextRoutineStart
<1>2. CASE RoutineStarts(routines, t) # {}
  <2>1. \E x \in RoutineStarts(routines, t) : \A y \in RoutineStarts(routines, t) : x <= y
    BY <1>2, StartsAreNaturals, LeastNatural
  <2>2. /\ NextRoutineStart(routines, t) \in RoutineStarts(routines, t)
        /\ \A c \in RoutineStarts(routines, t) : NextRoutineStart(routines, t) <= c
    BY <1>2, <2>1 DEF NextRoutineStart
  <2>3. QED BY <2>2, StartsAreNaturals
<1>3. QED BY <1>1, <1>2

\* A routine is in force at its start.
LEMMA ActiveAtStart ==
  ASSUME NEW routines \in SUBSET Routine, NEW t \in Nat, NEW c \in RoutineStarts(routines, t)
  PROVE  ActiveRoutine(routines, c)
<1>1. PICK r \in routines, offset \in 0..Week :
        /\ c = (DateOf(t) + offset) * DayLength + r.start
        /\ r.enabled /\ WeekDayOf(DateOf(c)) \in r.days
  BY StartsAre
<1>2. r \in Routine /\ r.start \in Second /\ r.end \in Second
  BY <1>1, RuleFields
<1>3. DateOf(t) + offset \in Int BY NaturalDate
<1>4. SecondOf(c) = r.start BY <1>1, <1>2, <1>3, InstantOf
<1>5. r.start \in Int /\ r.end \in Int BY <1>2, Lengths DEF Second
<1>6. Active(r, c) BY <1>1, <1>2, <1>4, <1>5, ActiveWhen
<1>7. QED BY <1>1, <1>6 DEF ActiveRoutine

\* A routine that comes into force later on the same day has its start in between.
LEMMA StartBeforeActive ==
  ASSUME NEW routines \in SUBSET Routine, NEW t \in Nat, NEW u \in Nat, t <= u,
         DateOf(u) = DateOf(t), ActiveRoutine(routines, u), ~ ActiveRoutine(routines, t)
  PROVE  \E c \in RoutineStarts(routines, t) : c <= u
<1> DEFINE D == DateOf(t)
<1>1. PICK r \in routines : Active(r, u) /\ ~ Active(r, t)
  BY DEF ActiveRoutine
<1>2. r \in Routine /\ r.start \in Second /\ r.end \in Second /\ r.enabled
  BY <1>1, RuleFields DEF Active
<1>3. r.start \in Int /\ r.end \in Int /\ 0 <= r.start
  BY <1>2, Lengths DEF Second
<1>4. /\ D \in Int /\ SecondOf(t) \in Int /\ SecondOf(u) \in Int
      /\ t = D * DayLength + SecondOf(t) /\ u = D * DayLength + SecondOf(u)
      /\ D * DayLength \in Int
  BY DateAndSecond, NaturalDate, Lengths DEF Second
<1> HIDE DEF D
<1>5. SecondOf(t) <= SecondOf(u) BY <1>4
<1>6. WeekDayOf(D) \in r.days /\ SecondOf(t) < r.start /\ r.start <= SecondOf(u)
  <2>1. CASE r.start = r.end BY <1>1, <1>2, <2>1, ActiveWhen
  <2>2. CASE r.start < r.end BY <1>1, <1>2, <1>3, <1>4, <1>5, <2>2, ActiveWhen DEF D
  <2>3. CASE r.end < r.start BY <1>1, <1>2, <1>3, <1>4, <1>5, <2>3, ActiveWhen DEF D
  <2>4. QED BY <1>3, <2>1, <2>2, <2>3
<1> DEFINE c == D * DayLength + r.start
<1>7. DateOf(c) = D BY <1>2, <1>4, InstantOf
<1>8. t < c /\ c <= u BY <1>3, <1>4, <1>6
<1>9. c = (DateOf(t) + 0) * DayLength + r.start /\ 0 \in 0..Week
  BY <1>4, Lengths DEF D
<1>10. c \in RoutineStarts(routines, t)
  BY <1>1, <1>2, <1>6, <1>7, <1>8, <1>9, StartsAre
<1>11. QED BY <1>8, <1>10

\* Until the end of the day the predicted start is the first instant at which the engine
\* blocks, at every instant of every day and under any two routines.
THEOREM NextStartToday == ASSUME NEW t \in Nat PROVE NextStartIsExact(t)
<1> SUFFICES ASSUME NEW first \in Rule, NEW second \in Rule,
                    ~ ActiveRoutine({first, second}, t)
             PROVE  LET both == {first, second}
                        blocked == { u \in t..((DateOf(t) + 1) * DayLength - 1) :
                                       ActiveRoutine(both, u) }
                        next == NextRoutineStart(both, t)
                    IN IF blocked = {} THEN next = Never \/ DateOf(next) > DateOf(t)
                       ELSE next \in blocked /\ \A u \in blocked : next <= u
  <2>1. t \in t..((DateOf(t) + 1) * DayLength - 1)
    BY NaturalDate, Within, Lengths
  <2>2. QED BY <2>1 DEF NextStartIsExact
<1> DEFINE both == {first, second}
           today == t..((DateOf(t) + 1) * DayLength - 1)
           blocked == { u \in today : ActiveRoutine(both, u) }
           next == NextRoutineStart(both, t)
<1>1. both \in SUBSET Routine BY DEF Rule
<1>2. DateOf(t) \in Nat /\ DateOf(t) * DayLength <= t BY NaturalDate, Within, Lengths
<1>3. \A u \in Nat : u \in today <=> t <= u /\ DateOf(u) = DateOf(t)
  <2> SUFFICES ASSUME NEW u \in Nat
               PROVE  u \in today <=> t <= u /\ DateOf(u) = DateOf(t)
    OBVIOUS
  <2>1. DateOf(t) * DayLength <= u /\ u < (DateOf(t) + 1) * DayLength
           <=> DateOf(u) = DateOf(t)
    BY <1>2, Within
  <2>2. QED BY <1>2, <2>1, Lengths
<1>4. today \subseteq Nat BY <1>2, Lengths
<1>5. \A u \in blocked : \E c \in RoutineStarts(both, t) : c <= u
  BY <1>1, <1>3, <1>4, StartBeforeActive
<1>6. \A c \in RoutineStarts(both, t) :
         c \in Nat /\ c > t /\ (DateOf(c) = DateOf(t) => c \in blocked)
  <2> SUFFICES ASSUME NEW c \in RoutineStarts(both, t)
               PROVE  c \in Nat /\ c > t /\ (DateOf(c) = DateOf(t) => c \in blocked)
    OBVIOUS
  <2>1. c \in Nat /\ c > t BY <1>1, StartsAreNaturals
  <2>2. ActiveRoutine(both, c) BY <1>1, ActiveAtStart
  <2>3. QED BY <1>3, <2>1, <2>2
<1>7. CASE blocked = {}
  <2>1. CASE RoutineStarts(both, t) = {}
    BY <1>1, <1>7, <2>1, NextStart
  <2>2. CASE next \in RoutineStarts(both, t)
    <3>1. next \in Nat /\ next > t /\ DateOf(next) # DateOf(t) BY <1>6, <1>7, <2>2
    <3>2. DateOf(next) \in Nat /\ DateOf(t) <= DateOf(next)
      BY <3>1, NaturalDate, DatesGrow
    <3>3. QED BY <1>2, <1>7, <3>1, <3>2
  <2>3. QED BY <1>1, <2>1, <2>2, NextStart
<1>8. CASE blocked # {}
  <2>1. RoutineStarts(both, t) # {} BY <1>5, <1>8
  <2>2. /\ next \in RoutineStarts(both, t) /\ next \in Nat
        /\ \A c \in RoutineStarts(both, t) : next <= c
    BY <1>1, <2>1, NextStart
  <2>3. ASSUME NEW u \in blocked PROVE next <= u
    <3>1. PICK c \in RoutineStarts(both, t) : c <= u BY <1>5
    <3>2. u \in Nat /\ c \in Nat /\ next <= c BY <1>4, <1>6, <2>2
    <3>3. QED BY <2>2, <3>1, <3>2
  <2>4. next \in blocked
    <3>1. PICK u \in blocked : TRUE BY <1>8
    <3>2. u \in Nat /\ DateOf(u) = DateOf(t) /\ t <= next /\ next <= u
      BY <1>3, <1>4, <1>6, <2>2, <2>3, <3>1
    <3>3. DateOf(t) <= DateOf(next) /\ DateOf(next) <= DateOf(u)
      BY <2>2, <3>2, DatesGrow
    <3>4. QED BY <1>2, <1>6, <2>2, <3>2, <3>3, NaturalDate
  <2>5. QED BY <1>8, <2>3, <2>4
<1>9. QED BY <1>7, <1>8
=============================================================================
