---------------------------- MODULE AgentProofs ----------------------------
(***************************************************************************)
(* What Agent guarantees whatever a server answers, wherever a crash, a    *)
(* timeout or a failed statement falls, for any number of days, bonuses    *)
(* and commands and any checkpoint interval.                               *)
(***************************************************************************)
EXTENDS Agent, FiniteSetTheorems, TLAPS

LEMMA NumberOfBonuses == ASSUME NEW S, S \subseteq Bonus PROVE Cardinality(S) \in Nat
  BY FS_Subset, FS_CardinalityType, AgentAssumption

\* The fields of an answer that the client uses.
LEMMA AnswerFields ==
  ASSUME NEW a \in Answer
  PROVE  /\ a.control.rev \in Nat /\ a.control.paused \in BOOLEAN /\ a.control.blocked \in BOOLEAN
         /\ a.hasPolicy \in BOOLEAN /\ a.policy \in Policy /\ a.hasState \in BOOLEAN
         /\ a.state.rev \in Nat /\ a.state.remaining \in Nat /\ a.state.usage \in Nat
         /\ a.commands \subseteq Op
  BY DEF Answer

LEMMA RequestType == TypeOK => NextRequest \in Request
<1> SUFFICES ASSUME TypeOK PROVE NextRequest \in Request
  OBVIOUS
<1>1. localUsage[day] \in Nat BY DEF TypeOK
<1>2. PendingEvent \subseteq Event BY DEF PendingEvent, Event
<1>3. (IF anchor = None THEN 0 ELSE anchor.rev) \in Nat BY DEF TypeOK, Anchor
<1>4. (seen.session # None /\ NeedsAnchor(seen.session, day, localPolicy.rev)) \in BOOLEAN
  OBVIOUS
<1>5. QED BY <1>1, <1>2, <1>3, <1>4 DEF NextRequest, Request, TypeOK, Policy, Control

LEMMA InitType == Init => TypeOK
<1> SUFFICES ASSUME Init PROVE TypeOK
  OBVIOUS
<1>1. NoPolicy \in Policy /\ Offline \in Control BY DEF NoPolicy, Policy, Offline, Control
<1>2. NoView \in View BY <1>1 DEF NoView, NoLast, Last, View
<1>3. localPolicy \in Policy /\ remote \in Control /\ view \in View BY <1>1, <1>2 DEF Init
<1>4. seen \in [session : Session \cup {None}, locked : BOOLEAN] BY DEF Init, NoSession
<1>5. last \in Last BY DEF Init, NoLast, Last
<1>6. QED BY <1>3, <1>4, <1>5 DEF Init, TypeOK

-----------------------------------------------------------------------------
(* The heartbeat. *)

LEMMA StartType ==
  ASSUME TypeOK, Send \/ \E a \in Answers : Receive(a)
  PROVE  TypeOK'
<1>1. CASE Send
  BY <1>1, RequestType DEF Send, TypeOK, tables, daemon, desktop
<1>2. ASSUME NEW a \in Answers, Receive(a) PROVE TypeOK'
  <2>1. a \in Answer BY AnswersAssumption
  <2>2. remote' \in Control BY <1>2, <2>1, AnswerFields DEF Receive, Control
  <2>3. answer' \in Answer /\ phase' = "events" /\ sent' = sent /\ sent \in Request
    BY <1>2, <2>1 DEF Receive, TypeOK
  <2>4. UNCHANGED <<tables, seen, daemon, desktop>> BY <1>2 DEF Receive
  <2>5. QED BY <2>2, <2>3, <2>4 DEF TypeOK, tables, daemon, desktop
<1>3. QED BY <1>1, <1>2

\* The anchor that a checked answer leaves.
LEMMA ConfirmedType ==
  ASSUME TypeOK, SaveConfirmedSessionState, answer.hasState
  PROVE  Confirmed(answer.state) \in Anchor
<1>1. answer \in Answer /\ sent \in Request BY DEF TypeOK, SaveConfirmedSessionState
<1>2. sent.session \in Session BY <1>1 DEF SaveConfirmedSessionState, InvalidState, Request
<1>3. UnreportedBonus(sent.day) \in Nat BY NumberOfBonuses DEF UnreportedBonus, Bonus
<1>4. QED BY <1>1, <1>2, <1>3, AnswerFields DEF Confirmed, Anchor, Request

LEMMA SaveConfirmedType ==
  ASSUME TypeOK, SaveConfirmedSessionState
  PROVE  TypeOK'
<1>1. answer \in Answer /\ sent.day \in Day BY DEF TypeOK, SaveConfirmedSessionState, Request
<1>2. CASE answer.hasState
  <2>1. anchor' \in Anchor BY <1>2, ConfirmedType DEF SaveConfirmedSessionState
  <2>2. localUsage' \in [Day -> Nat]
    BY <1>1, <1>2, AnswerFields DEF SaveConfirmedSessionState, TypeOK, MaxOf
  <2>3. QED BY <2>1, <2>2 DEF SaveConfirmedSessionState, TypeOK, daemon, desktop
<1>3. CASE ~ answer.hasState
  BY <1>3 DEF SaveConfirmedSessionState, TypeOK, daemon, desktop
<1>4. QED BY <1>2, <1>3

LEMMA CommandType ==
  ASSUME TypeOK, NEW c, Taken(c)
  PROVE  answer' \in Answer
<1>1. answer \in Answer BY DEF TypeOK, Taken
<1>2. QED BY <1>1 DEF Taken, Answer

LEMMA StageType ==
  ASSUME TypeOK, NEW c \in ControlOp, NEW k \in ControlKind, StageControlEffect(c, k)
  PROVE  TypeOK'
<1>1. effect' \in Effect
  BY AnswerFields DEF StageControlEffect, Taken, TypeOK, Effect
<1>2. answer' \in Answer BY CommandType DEF StageControlEffect
<1>3. QED BY <1>1, <1>2 DEF StageControlEffect, TypeOK, daemon, desktop

LEMMA RemoteBonusType ==
  ASSUME TypeOK, NEW b \in RemoteBonus, ApplyRemoteBonus(b)
  PROVE  TypeOK'
<1>1. answer' \in Answer BY CommandType DEF ApplyRemoteBonus
<1>2. sent.day \in Day BY DEF TypeOK, ApplyRemoteBonus, Taken, Request
<1>3. localLedger' \in [Bonus -> Day \cup {None}]
  BY <1>2 DEF ApplyRemoteBonus, TypeOK
<1>4. applied' \subseteq Op BY DEF ApplyRemoteBonus, TypeOK, Op
<1>5. QED BY <1>1, <1>3, <1>4 DEF ApplyRemoteBonus, TypeOK, daemon, desktop

LEMMA FailType == ASSUME TypeOK, Fail PROVE TypeOK'
<1>1. remote' \in Control BY DEF Fail, Offline, Control
<1>2. QED BY <1>1 DEF Fail, EndHeartbeat, TypeOK, tables, daemon, desktop

LEMMA ApplyType ==
  ASSUME TypeOK, Apply
  PROVE  TypeOK'
<1>1. ASSUME NEW e \in PendingEvent, AcknowledgeEvent(e) PROVE TypeOK'
  <2>1. e.id \in LocalBonus BY DEF PendingEvent
  <2>2. event' \in [LocalBonus -> {"none", "pending", "sent"}]
    BY <1>1, <2>1 DEF AcknowledgeEvent, TypeOK
  <2>3. QED BY <1>1, <2>2 DEF AcknowledgeEvent, TypeOK, client, daemon, desktop
<1>2. CASE ForgetAppliedCommandIDs
  BY <1>2 DEF ForgetAppliedCommandIDs, TypeOK, daemon, desktop
<1>3. CASE ReplacePolicy
  <2>1. localPolicy' \in Policy BY <1>3, AnswerFields DEF ReplacePolicy, TypeOK
  <2>2. QED BY <1>3, <2>1 DEF ReplacePolicy, TypeOK, daemon, desktop
<1>4. CASE Finish
  BY <1>4 DEF Finish, EndHeartbeat, TypeOK, tables, daemon, desktop
<1>5. QED BY <1>1, <1>2, <1>3, <1>4, SaveConfirmedType, RemoteBonusType, FailType
          DEF Apply, Refuse

LEMMA LocalBonusType ==
  ASSUME TypeOK, NEW b \in LocalBonus, AddBonusWithEvent(b)
  PROVE  TypeOK'
<1>1. localLedger' \in [Bonus -> Day \cup {None}] BY DEF AddBonusWithEvent, TypeOK
<1>2. event' \in [LocalBonus -> {"none", "pending", "sent"}] BY DEF AddBonusWithEvent, TypeOK
<1>3. anchor' \in Anchor \cup {None} BY DEF AddBonusWithEvent, TypeOK, Anchor
<1>4. QED BY <1>1, <1>2, <1>3 DEF AddBonusWithEvent, TypeOK, client, daemon, desktop

-----------------------------------------------------------------------------
(* The cycle of the daemon. *)

LEMMA ObserveType == ASSUME TypeOK, Observe PROVE TypeOK'
<1>1. view' \in View /\ view'.day \in Day
  BY DEF Observe, NoView, View, TypeOK, Policy, Control
<1>2. seen' \in [session : Session \cup {None}, locked : BOOLEAN] BY DEF Observe, TypeOK
<1>3. QED BY <1>1, <1>2 DEF Observe, TypeOK, tables, client, desktop

LEMMA EffectType ==
  ASSUME TypeOK, PendingControlEffect \/ CompleteControlEffect
  PROVE  TypeOK'
<1>2. CASE PendingControlEffect
  <2>1. view' \in View /\ view'.day \in Day BY <1>2 DEF PendingControlEffect, TypeOK, View
  <2>2. QED BY <1>2, <2>1 DEF PendingControlEffect, TypeOK, tables, client, desktop
<1>3. CASE CompleteControlEffect
  <2>1. view' \in View /\ view'.day \in Day BY <1>3 DEF CompleteControlEffect, TypeOK, View
  <2>2. effect' \in Effect \cup {None} /\ applied' \subseteq Op
    BY <1>3 DEF CompleteControlEffect, TypeOK, Effect, Op
  <2>3. QED BY <1>3, <2>1, <2>2 DEF CompleteControlEffect, TypeOK, client, desktop
<1>4. QED BY <1>2, <1>3

\* What the tracker of a cycle is: the loaded one, or the old one with the new
\* time, raised to what the server knows.
LEMMA AddType ==
  ASSUME NEW t \in Tracker, NEW u \in {0, 1}
  PROVE  /\ Add(t, u) \in Tracker /\ Add(t, u).day = t.day /\ Add(t, u).seconds = t.seconds + u
         /\ Add(t, u).tail = IF u > 0 /\ t.tail + u >= Checkpoint THEN 0 ELSE t.tail + u
         /\ Grown(t, u) \in Tracker /\ Grown(t, u).day = t.day
         /\ Grown(t, u).seconds = t.seconds + u /\ Grown(t, u).tail = t.tail + u
<1> DEFINE w == Add(t, u)
           g == Grown(t, u)
           s == t.seconds + u
           n == t.tail + u
<1>1. s \in Nat /\ n \in Nat BY DEF Tracker
<1>2. g = [t EXCEPT !.seconds = s, !.tail = n] BY DEF Grown
<1>3. w = IF Full(t, u) THEN [g EXCEPT !.tail = 0] ELSE g BY DEF Add, Written
<1> HIDE DEF w, g, s, n
<1>4. g \in Tracker /\ g.day = t.day /\ g.seconds = s /\ g.tail = n BY <1>1, <1>2 DEF Tracker
<1>5. CASE Full(t, u)
  <2>1. w \in Tracker /\ w.day = t.day /\ w.seconds = s /\ w.tail = 0
    BY <1>3, <1>4, <1>5 DEF Tracker
  <2>2. QED BY <1>4, <1>5, <2>1 DEF w, g, s, n, Full
<1>6. CASE ~ Full(t, u)
  <2>1. w = g BY <1>3, <1>6
  <2>2. QED BY <1>4, <1>6, <2>1 DEF w, g, s, n, Full
<1>7. QED BY <1>5, <1>6

LEMMA LoadType ==
  ASSUME TypeOK, NEW d \in Day
  PROVE  /\ LoadTracker(d) \in Tracker /\ LoadTracker(d).day = d
         /\ LoadTracker(d).tail = 0 /\ LoadTracker(d).seconds = localUsage[d]
  BY DEF LoadTracker, Tracker, TypeOK

LEMMA WrittenType ==
  ASSUME NEW t \in Tracker
  PROVE  /\ Written(t) \in Tracker /\ Written(t).day = t.day
         /\ Written(t).seconds = t.seconds /\ Written(t).tail = 0
  BY DEF Written, Tracker

LEMMA CountedType ==
  ASSUME TypeOK, view.day \in Day, tracker # None => tracker.day = view.day, NEW u \in Elapsed
  PROVE  /\ Counted(u) \in Tracker /\ Counted(u).day = view.day
         /\ tracker # None => Counted(u).seconds >= tracker.seconds /\ Counted(u) = Add(tracker, u)
         /\ tracker = None => Counted(u) = LoadTracker(view.day)
<1>1. u \in {0, 1} BY DEF Elapsed
<1>2. CASE tracker = None
  BY <1>2, LoadType DEF Counted
<1>3. CASE tracker # None
  <2>1. tracker \in Tracker BY <1>3 DEF TypeOK
  <2>2. Counted(u) = Add(tracker, u) BY <1>3 DEF Counted
  <2>3. /\ Add(tracker, u) \in Tracker /\ Add(tracker, u).day = tracker.day
        /\ Add(tracker, u).seconds = tracker.seconds + u
    BY <1>1, <2>1, AddType
  <2>4. tracker.seconds \in Nat BY <2>1 DEF Tracker
  <2>5. QED BY <1>1, <1>3, <2>2, <2>3, <2>4
<1>4. QED BY <1>2, <1>3

LEMMA ReconciledType ==
  ASSUME TypeOK, NEW c \in Tracker
  PROVE  /\ Reconciled(c) \in Tracker /\ Reconciled(c).day = c.day
         /\ Reconciled(c).seconds >= c.seconds
         /\ \/ Reconciled(c) = c
            \/ /\ Reconciled(c).tail = 0 /\ anchor # None /\ anchor.day = c.day
               /\ Reconciled(c).seconds = anchor.usage
<1> DEFINE t == Reconciled(c)
<1>1. c.seconds \in Nat BY DEF Tracker
<1>2. CASE t = c BY <1>1, <1>2
<1>3. CASE t # c
  <2>1. /\ anchor # None /\ anchor.day = c.day /\ c.seconds < anchor.usage
        /\ t = Written([c EXCEPT !.seconds = anchor.usage])
    BY <1>3 DEF Reconciled
  <2>2. anchor.usage \in Nat BY <2>1 DEF TypeOK, Anchor
  <2> HIDE DEF t
  <2> DEFINE s == anchor.usage
             r == [c EXCEPT !.seconds = s]
  <2>3. s \in Nat /\ t = Written(r) BY <2>1, <2>2
  <2> HIDE DEF s
  <2>4. r \in Tracker /\ r.day = c.day /\ r.seconds = s BY <2>3 DEF Tracker
  <2> HIDE DEF r
  <2>5. t \in Tracker /\ t.day = c.day /\ t.tail = 0 /\ t.seconds = s
    BY <2>3, <2>4, WrittenType
  <2>6. s = anchor.usage BY DEF s
  <2>7. QED BY <1>1, <2>1, <2>2, <2>5, <2>6 DEF t
<1>4. QED BY <1>2, <1>3

LEMMA CycleTracker ==
  ASSUME TypeOK, step = "decide", tracker # None => tracker.day = view.day, NEW u \in Elapsed
  PROVE  LET t == Reconciled(Counted(u)) IN
           /\ t \in Tracker /\ t.day = view.day
           /\ tracker # None => t.seconds >= tracker.seconds
           /\ t.tail # 0 => tracker # None /\ t = Add(tracker, u)
<1> DEFINE c == Counted(u)
           t == Reconciled(c)
<1>1. view.day \in Day BY DEF TypeOK
<1>2. /\ c \in Tracker /\ c.day = view.day
      /\ tracker # None => c.seconds >= tracker.seconds /\ c = Add(tracker, u)
      /\ tracker = None => c = LoadTracker(view.day)
  BY <1>1, CountedType
<1>3. tracker = None => c.tail = 0 BY <1>1, <1>2, LoadType
<1> HIDE DEF c
<1>4. /\ t \in Tracker /\ t.day = c.day /\ t.seconds >= c.seconds
      /\ t = c \/ t.tail = 0
  BY <1>2, ReconciledType
<1> HIDE DEF t
<1>5. tracker # None => tracker.seconds \in Nat BY DEF TypeOK, Tracker
<1>6. c.seconds \in Nat /\ t.seconds \in Nat BY <1>2, <1>4 DEF Tracker
<1>7. tracker # None => t.seconds >= tracker.seconds BY <1>2, <1>4, <1>5, <1>6
<1>8. QED BY <1>2, <1>3, <1>4, <1>7 DEF t, c

LEMMA CheckpointType ==
  ASSUME TypeOK, NEW t \in Tracker
  PROVE  /\ CheckpointUsage(t) \in [Day -> Nat]
         /\ CheckpointUsage(t)[t.day] >= t.seconds
         /\ \A d \in Day : CheckpointUsage(t)[d] >= localUsage[d]
<1>1. localUsage \in [Day -> Nat] /\ t.day \in Day /\ t.seconds \in Nat BY DEF TypeOK, Tracker
<1>2. QED BY <1>1 DEF CheckpointUsage, MaxOf

LEMMA SavedType ==
  ASSUME TypeOK, NEW t \in Tracker
  PROVE  /\ Saved(t) \in [Day -> Nat]
         /\ t.tail = 0 => Saved(t)[t.day] >= t.seconds
         /\ \A d \in Day : Saved(t)[d] >= localUsage[d]
<1>1. localUsage \in [Day -> Nat] BY DEF TypeOK
<1>2. QED BY <1>1, CheckpointType DEF Saved

\* The tail is all of a counter that the table misses.
Covered(t, use) == t.seconds - t.tail <= use[t.day]

LEMMA AddCovered ==
  ASSUME TypeOK, CheckpointBoundsLoss, tracker # None, NEW u \in {0, 1}
  PROVE  /\ Covered(Grown(tracker, u), localUsage)
         /\ Covered(Add(tracker, u), Saved(Add(tracker, u)))
         /\ Add(tracker, u).tail < Checkpoint \/ Overdue(Add(tracker, u))
<1> DEFINE g == Grown(tracker, u)
           w == Add(tracker, u)
           use == Saved(w)
<1>1. tracker \in Tracker BY DEF TypeOK
<1>2. /\ tracker.seconds \in Nat /\ tracker.tail \in Nat /\ tracker.day \in Day
      /\ localUsage[tracker.day] \in Nat
  BY <1>1 DEF Tracker, TypeOK
<1>3. /\ tracker.tail < Checkpoint \/ overdue
      /\ tracker.seconds - tracker.tail <= localUsage[tracker.day]
  BY DEF CheckpointBoundsLoss
<1>4. /\ g.day = tracker.day /\ g.seconds = tracker.seconds + u /\ g.tail = tracker.tail + u
      /\ w \in Tracker /\ w.day = tracker.day /\ w.seconds = tracker.seconds + u
      /\ w.tail = IF u > 0 /\ tracker.tail + u >= Checkpoint THEN 0 ELSE tracker.tail + u
  BY <1>1, AddType
<1>5. /\ use \in [Day -> Nat]
      /\ w.tail = 0 => use[w.day] >= w.seconds
      /\ \A d \in Day : use[d] >= localUsage[d]
  BY <1>4, SavedType
<1>6. Overdue(w) <=> (overdue /\ w.tail # 0) BY DEF Overdue
<1> HIDE DEF g, w, use
<1>11. (tracker.seconds + u) - (tracker.tail + u) <= localUsage[tracker.day] BY <1>2, <1>3
<1>7. Covered(g, localUsage)
  <2>1. g.day = tracker.day /\ g.seconds = tracker.seconds + u /\ g.tail = tracker.tail + u
    BY <1>4
  <2>2. g.seconds - g.tail <= localUsage[g.day] BY <1>11, <2>1
  <2>3. QED BY <2>2 DEF Covered
<1>8. use[tracker.day] \in Nat /\ use[tracker.day] >= localUsage[tracker.day] BY <1>2, <1>5
<1>9. Covered(w, use)
  <2>1. CASE w.tail = 0
    <3>1. w.seconds \in Nat /\ use[w.day] \in Nat BY <1>2, <1>4, <1>8
    <3>2. use[w.day] >= w.seconds BY <1>5, <2>1
    <3>3. w.seconds - w.tail <= use[w.day] BY <2>1, <3>1, <3>2
    <3>4. QED BY <3>3 DEF Covered
  <2>2. CASE w.tail # 0
    <3>1. w.tail = tracker.tail + u BY <1>4, <2>2
    <3>2. (tracker.seconds + u) - (tracker.tail + u) <= use[tracker.day]
      BY <1>2, <1>8, <1>11
    <3>3. QED BY <1>4, <3>1, <3>2 DEF Covered
  <2>3. QED BY <2>1, <2>2
<1>10. w.tail < Checkpoint \/ Overdue(w)
  <2>1. CASE w.tail = 0 BY <2>1, AgentAssumption
  <2>2. CASE w.tail # 0
    <3>1. w.tail = tracker.tail + u /\ (u = 0 \/ tracker.tail + u < Checkpoint)
      BY <1>2, <1>4, <2>2, AgentAssumption
    <3>2. CASE tracker.tail + u < Checkpoint BY <3>1, <3>2
    <3>3. CASE u = 0
      <4>1. w.tail = tracker.tail BY <1>2, <3>1, <3>3
      <4>2. QED BY <1>3, <1>6, <2>2, <4>1
    <3>4. QED BY <3>1, <3>2, <3>3
  <2>3. QED BY <2>1, <2>2
<1>12. QED BY <1>7, <1>9, <1>10 DEF g, w, use

LEMMA LastType ==
  ASSUME NEW v PROVE LastCycle(v) \in Last
  BY DEF LastCycle, Last

\* What the two decisions of the daemon leave: its tracker, whose tail is the
\* only usage that the table may miss, and a counter that has not shrunk.
LEMMA DecideEffect ==
  ASSUME TypeOK, Decide
  PROVE  /\ TypeOK'
         /\ tracker # None => tracker'.day = tracker.day /\ tracker'.seconds >= tracker.seconds
         /\ \A d \in Day : localUsage'[d] >= localUsage[d]
         /\ CheckpointBoundsLoss => CheckpointBoundsLoss'
<1>1. PICK u \in Elapsed, routine \in InRoutine :
        LET t == Reconciled(Counted(u))
            v == Verdict(t, routine)
            flush == view.last.shouldCount /\ v \in {"manual_block", "routine", "quota"}
        IN
        /\ tracker' = IF flush THEN Written(t) ELSE t
        /\ localUsage' = Saved(tracker')
        /\ overdue' = Overdue(tracker')
        /\ last' = LastCycle(v)
        /\ view' = [view EXCEPT !.verdict = v]
        /\ step' = IF v = "awaiting" THEN "idle" ELSE "enforce"
  BY DEF Decide
<1> DEFINE t == Reconciled(Counted(u))
           v == Verdict(t, routine)
<1>2. step = "decide" /\ (tracker # None => tracker.day = view.day) BY DEF Decide
<1>3. /\ t \in Tracker /\ t.day = view.day
      /\ tracker # None => t.seconds >= tracker.seconds
      /\ t.tail # 0 => tracker # None /\ t = Add(tracker, u)
  BY <1>2, CycleTracker
<1> HIDE DEF t
<1>4. v \in {"awaiting", "paused", "manual_block", "routine", "quota", "allowed"}
  BY DEF Verdict, Evaluate
<1> HIDE DEF v
<1>5. /\ tracker' \in {t, Written(t)}
      /\ localUsage' = Saved(tracker')
      /\ overdue' = Overdue(tracker')
      /\ last' = LastCycle(v) /\ view' = [view EXCEPT !.verdict = v]
      /\ step' \in {"idle", "enforce"}
  BY <1>1 DEF t, v
<1>6. /\ tracker' \in Tracker /\ tracker'.day = t.day /\ tracker'.seconds = t.seconds
      /\ tracker'.tail # 0 => tracker' = t
  BY <1>3, <1>5, WrittenType
<1>7. /\ localUsage' \in [Day -> Nat] /\ \A d \in Day : localUsage'[d] >= localUsage[d]
      /\ tracker'.tail = 0 => localUsage'[t.day] >= t.seconds
  BY <1>5, <1>6, SavedType
<1>8. TypeOK'
  <2>1. view' \in View /\ view'.day \in Day BY <1>2, <1>4, <1>5 DEF View, TypeOK
  <2>2. last' \in Last BY <1>5, LastType
  <2>3. UNCHANGED <<localPolicy, anchor, event, localLedger, applied, effect, remote, seen,
                    client, desktop>>
    BY DEF Decide
  <2>4. overdue' \in BOOLEAN BY <1>5 DEF Overdue, TypeOK
  <2>5. QED BY <1>5, <1>6, <1>7, <2>1, <2>2, <2>3, <2>4 DEF TypeOK, client, desktop
<1>9. tracker # None => tracker'.day = tracker.day /\ tracker'.seconds >= tracker.seconds
  BY <1>2, <1>3, <1>6
<1>10. ASSUME CheckpointBoundsLoss PROVE CheckpointBoundsLoss'
  <2>1. CASE tracker'.tail = 0
    BY <1>3, <1>6, <1>7, <2>1, AgentAssumption DEF Tracker, CheckpointBoundsLoss
  <2>2. CASE tracker'.tail # 0
    <3>1. tracker # None /\ tracker' = Add(tracker, u) /\ u \in {0, 1}
      BY <1>3, <1>6, <2>2 DEF Elapsed
    <3>2. Covered(tracker', localUsage') /\ (tracker'.tail < Checkpoint \/ overdue')
      BY <1>5, <1>10, <3>1, AddCovered
    <3>3. QED BY <3>2 DEF CheckpointBoundsLoss, Covered
  <2>3. QED BY <2>1, <2>2
<1>11. QED BY <1>7, <1>8, <1>9, <1>10

LEMMA ChangeDayEffect ==
  ASSUME TypeOK, ChangeDay
  PROVE  /\ TypeOK'
         /\ tracker'.day # tracker.day
         /\ \A d \in Day : localUsage'[d] >= localUsage[d]
         /\ CheckpointBoundsLoss'
<1>1. PICK u \in Elapsed, routine \in InRoutine :
        /\ localUsage' = CheckpointUsage(Add(tracker, u))
        /\ tracker' = LoadTracker(view.day)
        /\ last' = LastCycle(Evaluate(LoadTracker(view.day), routine))
  BY DEF ChangeDay
<1>2. tracker \in Tracker /\ u \in {0, 1} /\ view.day \in Day /\ tracker.day # view.day
  BY DEF ChangeDay, TypeOK, Elapsed
<1>3. localUsage' \in [Day -> Nat] /\ \A d \in Day : localUsage'[d] >= localUsage[d]
  BY <1>1, <1>2, AddType, CheckpointType
<1>4. /\ tracker' \in Tracker /\ tracker'.day = view.day /\ tracker'.tail = 0
      /\ tracker'.seconds = localUsage[view.day] /\ localUsage[view.day] \in Nat
  BY <1>1, <1>2 DEF LoadTracker, Tracker, TypeOK
<1>5. last' \in Last BY <1>1, LastType
<1>6. UNCHANGED <<localPolicy, anchor, event, localLedger, applied, effect, remote, seen,
                  client, step, view, desktop>>
  BY DEF ChangeDay
<1>7. TypeOK'
  <2>1. overdue' \in BOOLEAN BY DEF ChangeDay
  <2>2. QED BY <1>3, <1>4, <1>5, <1>6, <2>1 DEF TypeOK, client, desktop
<1>8. CheckpointBoundsLoss'
  <2>1. localUsage'[view.day] >= localUsage[view.day] /\ localUsage'[view.day] \in Nat
    BY <1>2, <1>3
  <2>2. 0 < Checkpoint BY AgentAssumption
  <2>3. /\ tracker'.tail < Checkpoint
        /\ tracker'.seconds - tracker'.tail <= localUsage'[tracker'.day]
    BY <1>4, <2>1, <2>2
  <2>4. QED BY <2>3 DEF CheckpointBoundsLoss
<1>9. QED BY <1>2, <1>3, <1>4, <1>7, <1>8

\* The usage of a stored balance is in the table: a reconciliation that fails loses nothing.
AnchorIsSaved == anchor # None => anchor.usage <= localUsage[anchor.day]

\* What a cycle that fails leaves, whichever of its writes fails.
LEMMA FailsEffect ==
  ASSUME TypeOK, step = "decide", NEW u \in Elapsed,
         AddFails(u) \/ ChangeFails(u) \/ VerdictFails(u)
  PROVE  /\ tracker' \in Tracker /\ overdue' \in BOOLEAN
         /\ localUsage' \in [Day -> Nat] /\ \A d \in Day : localUsage'[d] >= localUsage[d]
         /\ tracker # None /\ tracker'.day = tracker.day => tracker'.seconds >= tracker.seconds
         /\ CheckpointBoundsLoss /\ AnchorIsSaved => CheckpointBoundsLoss'
<1>1. u \in {0, 1} /\ view.day \in Day /\ localUsage \in [Day -> Nat] BY DEF TypeOK, Elapsed
<1>2. CASE AddFails(u)
  <2>1. /\ tracker # None /\ tracker \in Tracker /\ tracker' = Grown(tracker, u)
        /\ overdue' = TRUE /\ UNCHANGED localUsage
    BY <1>2 DEF AddFails, TypeOK
  <2>2. tracker' \in Tracker /\ tracker'.seconds = tracker.seconds + u
    BY <1>1, <2>1, AddType
  <2>3. tracker.seconds \in Nat BY <2>1 DEF Tracker
  <2>4. tracker'.seconds >= tracker.seconds BY <1>1, <2>2, <2>3
  <2>5. ASSUME CheckpointBoundsLoss PROVE CheckpointBoundsLoss'
    <3>1. Covered(tracker', localUsage') BY <1>1, <2>1, <2>5, AddCovered
    <3>2. QED BY <2>1, <3>1 DEF CheckpointBoundsLoss, Covered
  <2>6. \A d \in Day : localUsage'[d] >= localUsage[d] BY <1>1, <2>1
  <2>7. QED BY <1>1, <2>1, <2>2, <2>4, <2>5, <2>6
<1>3. CASE ChangeFails(u)
  <2> DEFINE old == Add(tracker, u)
  <2>1. /\ tracker # None /\ tracker \in Tracker /\ tracker.day # view.day
        /\ overdue' = Overdue(tracker')
        /\ \/ tracker' = old /\ localUsage' = Saved(old)
           \/ tracker' = Written(old) /\ localUsage' = CheckpointUsage(old)
           \/ tracker' = LoadTracker(view.day) /\ localUsage' = CheckpointUsage(old)
    BY <1>3 DEF ChangeFails, TypeOK
  <2>2. /\ old \in Tracker /\ old.day = tracker.day /\ old.seconds = tracker.seconds + u
    BY <1>1, <2>1, AddType
  <2>3. tracker.seconds \in Nat /\ old.seconds \in Nat BY <2>1, <2>2 DEF Tracker
  <2>4. CheckpointBoundsLoss =>
          Covered(old, Saved(old)) /\ (old.tail < Checkpoint \/ Overdue(old))
    BY <1>1, <2>1, AddCovered
  <2> HIDE DEF old
  <2>5. overdue' \in BOOLEAN BY <2>1 DEF Overdue, TypeOK
  <2>6. CASE tracker' = old /\ localUsage' = Saved(old)
    <3>1. localUsage' \in [Day -> Nat] /\ \A d \in Day : localUsage'[d] >= localUsage[d]
      BY <2>2, <2>6, SavedType
    <3>2. CheckpointBoundsLoss => CheckpointBoundsLoss'
      BY <2>1, <2>4, <2>6 DEF CheckpointBoundsLoss, Covered
    <3>3. tracker'.seconds >= tracker.seconds BY <1>1, <2>2, <2>3, <2>6
    <3>4. QED BY <2>2, <2>5, <2>6, <3>1, <3>2, <3>3
  <2>7. CASE tracker' # old \/ localUsage' # Saved(old)
    <3>1. /\ localUsage' = CheckpointUsage(old)
          /\ tracker' = Written(old) \/ tracker' = LoadTracker(view.day)
      BY <2>1, <2>7
    <3>2. /\ localUsage' \in [Day -> Nat] /\ \A d \in Day : localUsage'[d] >= localUsage[d]
          /\ localUsage'[old.day] >= old.seconds
      BY <2>2, <3>1, CheckpointType
    <3>3. /\ tracker' \in Tracker /\ tracker'.tail = 0
          /\ \/ tracker'.day = old.day /\ tracker'.seconds = old.seconds
             \/ tracker'.day = view.day /\ tracker'.seconds = localUsage[view.day]
      BY <1>1, <2>2, <3>1, WrittenType, LoadType
    <3>4. tracker'.seconds <= localUsage'[tracker'.day] BY <1>1, <2>3, <3>2, <3>3
    <3>5. tracker'.seconds \in Nat /\ localUsage'[tracker'.day] \in Nat
      BY <3>2, <3>3 DEF Tracker
    <3>6. /\ tracker'.tail < Checkpoint
          /\ tracker'.seconds - tracker'.tail <= localUsage'[tracker'.day]
      BY <3>3, <3>4, <3>5, AgentAssumption
    <3>7. tracker'.day = tracker.day => tracker'.seconds >= tracker.seconds
      BY <1>1, <2>1, <2>2, <2>3, <3>3
    <3>8. QED BY <2>5, <3>2, <3>3, <3>6, <3>7 DEF CheckpointBoundsLoss
  <2>8. QED BY <2>6, <2>7
<1>4. CASE VerdictFails(u)
  <2> DEFINE c == Counted(u)
  <2>1. /\ tracker # None => tracker.day = view.day
        /\ tracker' = Reconciled(c) /\ overdue' = Overdue(tracker')
        /\ localUsage' = Saved(c) \/ localUsage' = Saved(tracker')
    BY <1>4 DEF VerdictFails
  <2>2. /\ c \in Tracker /\ c.day = view.day
        /\ tracker # None => c.seconds >= tracker.seconds /\ c = Add(tracker, u)
        /\ tracker = None => c = LoadTracker(view.day)
    BY <1>1, <2>1, CountedType
  <2>3. tracker = None => c.tail = 0 /\ c.seconds = localUsage[view.day]
    BY <1>1, <2>2, LoadType
  <2>4. CheckpointBoundsLoss /\ tracker # None =>
          Covered(c, Saved(c)) /\ (c.tail < Checkpoint \/ Overdue(c))
    BY <1>1, <2>2, AddCovered
  <2> HIDE DEF c
  <2>5. /\ tracker' \in Tracker /\ tracker'.day = c.day /\ tracker'.seconds >= c.seconds
        /\ \/ tracker' = c
           \/ /\ tracker'.tail = 0 /\ anchor # None /\ anchor.day = c.day
              /\ tracker'.seconds = anchor.usage
    BY <2>1, <2>2, ReconciledType
  <2>6. localUsage' \in [Day -> Nat] /\ \A d \in Day : localUsage'[d] >= localUsage[d]
    BY <2>1, <2>2, <2>5, SavedType
  <2>7. overdue' \in BOOLEAN BY <2>1 DEF Overdue, TypeOK
  <2>8. tracker # None => tracker'.seconds >= tracker.seconds
    <3>1. tracker # None => tracker.seconds \in Nat BY DEF TypeOK, Tracker
    <3>2. c.seconds \in Nat /\ tracker'.seconds \in Nat BY <2>2, <2>5 DEF Tracker
    <3>3. QED BY <2>2, <2>5, <3>1, <3>2
  <2>9. ASSUME CheckpointBoundsLoss, AnchorIsSaved PROVE CheckpointBoundsLoss'
    <3>1. localUsage'[c.day] \in Nat /\ localUsage[c.day] \in Nat
          /\ localUsage'[c.day] >= localUsage[c.day]
      BY <1>1, <2>2, <2>6
    <3>2. tracker'.seconds \in Nat /\ c.seconds \in Nat BY <2>2, <2>5 DEF Tracker
    <3>3. CASE tracker' = c
      <4>1. CASE tracker = None
        <5>1. /\ tracker'.tail < Checkpoint
              /\ tracker'.seconds - tracker'.tail <= localUsage'[tracker'.day]
          BY <2>2, <2>3, <3>1, <3>2, <3>3, <4>1, AgentAssumption
        <5>2. QED BY <5>1 DEF CheckpointBoundsLoss
      <4>2. CASE tracker # None
        BY <2>1, <2>4, <2>9, <3>3, <4>2 DEF CheckpointBoundsLoss, Covered
      <4>3. QED BY <4>1, <4>2
    <3>4. CASE tracker' # c
      <4>1. tracker'.seconds <= localUsage[c.day]
        BY <2>5, <2>9, <3>4 DEF AnchorIsSaved
      <4>2. /\ tracker'.tail < Checkpoint
            /\ tracker'.seconds - tracker'.tail <= localUsage'[tracker'.day]
        BY <2>5, <3>1, <3>2, <3>4, <4>1, AgentAssumption
      <4>3. QED BY <4>2 DEF CheckpointBoundsLoss
    <3>5. QED BY <3>3, <3>4
  <2>10. QED BY <2>5, <2>6, <2>7, <2>8, <2>9
<1>5. QED BY <1>2, <1>3, <1>4

LEMMA AbortEffect ==
  ASSUME TypeOK, AbortCycle
  PROVE  /\ TypeOK'
         /\ \A d \in Day : localUsage'[d] >= localUsage[d]
         /\ tracker # None /\ tracker' # None /\ tracker'.day = tracker.day =>
              tracker'.seconds >= tracker.seconds
         /\ CheckpointBoundsLoss /\ AnchorIsSaved => CheckpointBoundsLoss'
<1> DEFINE Forward ==
      /\ tracker' \in Tracker \cup {None} /\ overdue' \in BOOLEAN
      /\ localUsage' \in [Day -> Nat] /\ \A d \in Day : localUsage'[d] >= localUsage[d]
      /\ tracker # None /\ tracker' # None /\ tracker'.day = tracker.day =>
           tracker'.seconds >= tracker.seconds
      /\ CheckpointBoundsLoss /\ AnchorIsSaved => CheckpointBoundsLoss'
<1>1. ASSUME NothingCounted PROVE Forward
  <2>1. UNCHANGED <<tracker, localUsage, overdue>> BY <1>1 DEF NothingCounted
  <2>2. tracker # None => tracker.seconds \in Nat BY DEF TypeOK, Tracker
  <2>3. localUsage \in [Day -> Nat] BY DEF TypeOK
  <2>4. \A d \in Day : localUsage'[d] >= localUsage[d] BY <2>1, <2>3
  <2>5. CheckpointBoundsLoss => CheckpointBoundsLoss' BY <2>1 DEF CheckpointBoundsLoss
  <2>6. tracker # None => tracker'.seconds >= tracker.seconds BY <2>1, <2>2
  <2>7. tracker' \in Tracker \cup {None} /\ overdue' \in BOOLEAN BY <2>1 DEF TypeOK
  <2>8. QED BY <2>1, <2>3, <2>4, <2>5, <2>6, <2>7
<1>2. ASSUME ~ NothingCounted PROVE Forward
  <2>1. step = "decide" /\ \E u \in Elapsed : AddFails(u) \/ ChangeFails(u) \/ VerdictFails(u)
    BY <1>2 DEF AbortCycle
  <2>2. QED BY <2>1, FailsEffect
<1>3. Forward BY <1>1, <1>2
<1>4. NoView \in View BY DEF NoView, NoPolicy, NoLast, Last, Offline, View, Policy, Control
<1>5. last' \in Last BY DEF AbortCycle, TypeOK, View
<1>6. TypeOK' BY <1>3, <1>4, <1>5 DEF AbortCycle, TypeOK, client, desktop
<1>7. QED BY <1>3, <1>6

LEMMA EnforceType == ASSUME TypeOK, Enforce PROVE TypeOK'
<1>1. NoView \in View BY DEF NoView, NoPolicy, NoLast, Last, Offline, View, Policy, Control
<1>2. locked' \in BOOLEAN BY DEF Enforce, TypeOK
<1>3. QED BY <1>1, <1>2 DEF Enforce, TypeOK, tables, client

LEMMA OutsideType == ASSUME TypeOK, Crash \/ Environment PROVE TypeOK'
<1>1. NoView \in View /\ Offline \in Control
  BY DEF NoView, NoPolicy, NoLast, Last, Offline, View, Policy, Control
<1>2. CASE Crash
  <2>1. last' \in Last
    BY <1>2 DEF Crash, NoLast, Last
  <2>2. seen' \in [session : Session \cup {None}, locked : BOOLEAN]
    BY <1>2 DEF Crash, NoSession
  <2>3. QED BY <1>1, <1>2, <2>1, <2>2 DEF Crash, EndHeartbeat, TypeOK, tables, desktop
<1>3. CASE Environment
  <2>1. day' \in Day BY <1>3 DEF Environment, Login, Logout, ToggleLock, Midnight, TypeOK, desktop
  <2>2. session' \in Session \cup {None} /\ locked' \in BOOLEAN
    BY <1>3 DEF Environment, Login, Logout, ToggleLock, Midnight, TypeOK
  <2>3. UNCHANGED <<tables, remote, seen, client, daemon>>
    BY <1>3 DEF Environment, Login, Logout, ToggleLock, Midnight
  <2>4. QED BY <2>1, <2>2, <2>3 DEF TypeOK, tables, client, daemon
<1>4. QED BY <1>2, <1>3

-----------------------------------------------------------------------------
(* The theorems. *)

LEMMA NextType == TypeOK /\ [Next]_vars => TypeOK'
<1> SUFFICES ASSUME TypeOK, [Next]_vars PROVE TypeOK'
  OBVIOUS
<1>1. CASE UNCHANGED vars
  BY <1>1 DEF TypeOK, vars, tables, client, daemon, desktop
<1>2. CASE Next
  BY <1>2, StartType, ApplyType, StageType, FailType, LocalBonusType, ObserveType, EffectType,
     AbortEffect, DecideEffect, ChangeDayEffect, EnforceType, OutsideType
     DEF Next, Cycle
<1>3. QED BY <1>1, <1>2

\* Every table row and every value held in memory keeps its shape, whatever the
\* server answers and wherever a crash, a timeout or a refused answer falls.
THEOREM AgentTypeCorrect == Spec => []TypeOK
<1>1. QED BY InitType, NextType, PTL DEF Spec

\* Apart from the decisions of the cycle, its failures and a crash, no step touches
\* the tracker, and only the balance of an answer touches the counters, to raise one.
LEMMA CountersElsewhere ==
  ASSUME TypeOK, [Next]_vars, ~ Decide, ~ ChangeDay, ~ AbortCycle
  PROVE  /\ UNCHANGED <<tracker, overdue>> \/ tracker' = None
         /\ \A d \in Day : localUsage'[d] >= localUsage[d]
<1>1. localUsage \in [Day -> Nat] BY DEF TypeOK
<1>2. CASE SaveConfirmedSessionState
  <2>1. answer \in Answer /\ sent.day \in Day
    BY <1>2 DEF TypeOK, SaveConfirmedSessionState, Request
  <2>2. answer.hasState => answer.state.usage \in Nat BY <2>1, AnswerFields
  <2>3. QED BY <1>1, <1>2, <2>1, <2>2 DEF SaveConfirmedSessionState, MaxOf, daemon
<1>3. CASE Crash BY <1>1, <1>3 DEF Crash, tables
<1>4. CASE UNCHANGED <<tracker, overdue, localUsage>> BY <1>1, <1>4
<1>5. QED
  BY <1>2, <1>3, <1>4
     DEF Next, Apply, Cycle, Environment, vars, tables, client, daemon, desktop, Send, Receive,
         AcknowledgeEvent, ForgetAppliedCommandIDs, ReplacePolicy, ApplyRemoteBonus, Finish,
         Refuse, Fail, StageControlEffect, AddBonusWithEvent, Observe, PendingControlEffect,
         CompleteControlEffect, AbortCycle, Enforce, Login, Logout, ToggleLock, Midnight

\* The balance that the server confirmed is never ahead of the counter of its
\* day: both are written by one transaction, and counters never shrink.
LEMMA AnchorSaved == TypeOK /\ AnchorIsSaved /\ [Next]_vars => AnchorIsSaved'
<1> SUFFICES ASSUME TypeOK, AnchorIsSaved, [Next]_vars PROVE AnchorIsSaved'
  OBVIOUS
<1>1. localUsage \in [Day -> Nat] /\ localUsage' \in [Day -> Nat] BY NextType DEF TypeOK
<1>2. \A d \in Day : localUsage'[d] >= localUsage[d]
  BY DecideEffect, ChangeDayEffect, AbortEffect, CountersElsewhere
<1>3. CASE SaveConfirmedSessionState /\ answer.hasState
  <2>1. answer \in Answer /\ sent.day \in Day
    BY <1>3 DEF TypeOK, SaveConfirmedSessionState, Request
  <2>2. answer.state.usage \in Nat BY <2>1, AnswerFields
  <2>3. /\ anchor'.usage = answer.state.usage /\ anchor'.day = sent.day
        /\ localUsage' = [localUsage EXCEPT ![sent.day] = MaxOf(@, answer.state.usage)]
    BY <1>3 DEF SaveConfirmedSessionState, Confirmed
  <2>4. localUsage'[sent.day] = MaxOf(localUsage[sent.day], answer.state.usage)
    BY <1>1, <2>1, <2>3
  <2>5. answer.state.usage <= localUsage'[sent.day] BY <1>1, <2>1, <2>2, <2>4 DEF MaxOf
  <2>6. QED BY <2>3, <2>5 DEF AnchorIsSaved
<1>4. CASE \/ UNCHANGED anchor
           \/ anchor # None /\ anchor'.usage = anchor.usage /\ anchor'.day = anchor.day
  <2>1. anchor # None => anchor.day \in Day /\ anchor.usage \in Nat BY DEF TypeOK, Anchor
  <2>2. anchor # None => anchor.usage <= localUsage'[anchor.day]
    BY <1>1, <1>2, <2>1 DEF AnchorIsSaved
  <2>3. QED BY <1>4, <2>2 DEF AnchorIsSaved
<1>5. ASSUME NEW b \in LocalBonus, AddBonusWithEvent(b)
      PROVE  \/ UNCHANGED anchor
             \/ anchor # None /\ anchor'.usage = anchor.usage /\ anchor'.day = anchor.day
  BY <1>5 DEF AddBonusWithEvent, TypeOK, Anchor
<1>6. QED
  BY <1>3, <1>4, <1>5
     DEF Next, Apply, Cycle, Environment, vars, tables, client, daemon, desktop, Send, Receive,
         AcknowledgeEvent, ForgetAppliedCommandIDs, ReplacePolicy, SaveConfirmedSessionState,
         ApplyRemoteBonus, Finish, Refuse, Fail, StageControlEffect, Observe,
         PendingControlEffect, CompleteControlEffect, AbortCycle, ChangeDay, Decide, Enforce,
         Crash, Login, Logout, ToggleLock, Midnight

\* A crash loses the tail of the tracker and no more, which reaches the checkpoint
\* interval only while a checkpoint has failed and none has succeeded.  A cycle
\* may fail at any write: at that of a reconciliation the tail is already reset,
\* and nothing is lost because the server's counter was saved with its balance.
THEOREM LossBounded == Spec => []CheckpointBoundsLoss
<1> DEFINE LossInv == AnchorIsSaved /\ CheckpointBoundsLoss
<1>1. Init => LossInv BY DEF Init, CheckpointBoundsLoss, AnchorIsSaved
<1>2. TypeOK /\ LossInv /\ [Next]_vars => LossInv'
  <2> SUFFICES ASSUME TypeOK, LossInv, [Next]_vars PROVE CheckpointBoundsLoss'
    BY AnchorSaved
  <2>1. CASE Decide \/ ChangeDay \/ AbortCycle
    BY <2>1, DecideEffect, ChangeDayEffect, AbortEffect
  <2>2. CASE ~ Decide /\ ~ ChangeDay /\ ~ AbortCycle
    <3>1. /\ UNCHANGED <<tracker, overdue>> \/ tracker' = None
          /\ \A d \in Day : localUsage'[d] >= localUsage[d]
      BY <2>2, CountersElsewhere
    <3>2. CASE tracker' = None BY <3>2 DEF CheckpointBoundsLoss
    <3>3. CASE tracker # None /\ UNCHANGED <<tracker, overdue>>
      <4>1. tracker \in Tracker BY <3>3 DEF TypeOK
      <4>2. /\ tracker.day \in Day /\ tracker.seconds \in Nat /\ tracker.tail \in Nat
            /\ localUsage[tracker.day] \in Nat /\ localUsage'[tracker.day] \in Nat
        BY <4>1, NextType DEF Tracker, TypeOK
      <4>3. localUsage'[tracker.day] >= localUsage[tracker.day] BY <3>1, <4>2
      <4>4. tracker.seconds - tracker.tail <= localUsage[tracker.day]
        BY <3>3 DEF CheckpointBoundsLoss
      <4>5. tracker.seconds - tracker.tail <= localUsage'[tracker.day] BY <4>2, <4>3, <4>4
      <4>6. QED BY <3>3, <4>5 DEF CheckpointBoundsLoss
    <3>4. QED BY <3>1, <3>2, <3>3
  <2>3. QED BY <2>1, <2>2
<1>3. LossInv => CheckpointBoundsLoss
  OBVIOUS
<1> HIDE DEF LossInv
<1>4. QED BY <1>1, <1>2, <1>3, AgentTypeCorrect, PTL DEF Spec

\* A bonus whose receipt is sent has been recorded: its row is written with the
\* receipt, a control operation never has the identifier of a bonus, and no row
\* is ever removed.
THEOREM BonusRecorded == Spec => []AppliedBonusIsRecorded
<1>1. Init => AppliedBonusIsRecorded BY DEF Init, AppliedBonusIsRecorded
<1>2. TypeOK /\ AppliedBonusIsRecorded /\ [Next]_vars => AppliedBonusIsRecorded'
  <2> SUFFICES ASSUME TypeOK, AppliedBonusIsRecorded, [Next]_vars
               PROVE  AppliedBonusIsRecorded'
    OBVIOUS
  <2>1. None \notin Day /\ RemoteBonus \cap ControlOp = {} /\ RemoteBonus \cap LocalBonus = {}
    BY AgentAssumption DEF Bonus
  <2>2. localLedger \in [Bonus -> Day \cup {None}] /\ RemoteBonus \subseteq Bonus
    BY DEF TypeOK, Bonus
  <2>3. ASSUME NEW b \in RemoteBonus, ApplyRemoteBonus(b) PROVE AppliedBonusIsRecorded'
    <3>1. sent.day \in Day BY <2>3 DEF ApplyRemoteBonus, Taken, TypeOK, Request
    <3>2. \A x \in RemoteBonus :
            localLedger'[x] = IF x = b /\ b \notin applied /\ localLedger[b] = None
                                THEN sent.day ELSE localLedger[x]
      BY <2>2, <2>3 DEF ApplyRemoteBonus
    <3>3. QED BY <2>1, <2>3, <3>1, <3>2 DEF ApplyRemoteBonus, AppliedBonusIsRecorded
  <2>4. ASSUME NEW b \in LocalBonus, AddBonusWithEvent(b) PROVE AppliedBonusIsRecorded'
    <3>1. \A x \in RemoteBonus : localLedger'[x] = localLedger[x]
      BY <2>1, <2>2, <2>4 DEF AddBonusWithEvent
    <3>2. QED BY <2>4, <3>1 DEF AddBonusWithEvent, AppliedBonusIsRecorded
  <2>5. CASE CompleteControlEffect
    <3>1. effect # None => effect.id \in ControlOp BY DEF TypeOK, Effect
    <3>2. QED BY <2>1, <2>5, <3>1 DEF CompleteControlEffect, AppliedBonusIsRecorded
  <2>6. CASE applied' \subseteq applied /\ UNCHANGED localLedger
    BY <2>6 DEF AppliedBonusIsRecorded
  <2>7. QED
    BY <2>3, <2>4, <2>5, <2>6
       DEF Next, Apply, Cycle, Environment, vars, tables, client, daemon, desktop, Send, Receive,
           AcknowledgeEvent, ForgetAppliedCommandIDs, ReplacePolicy, SaveConfirmedSessionState,
           Finish, Refuse, Fail, StageControlEffect, Observe, PendingControlEffect, AbortCycle,
           ChangeDay, Decide, Enforce, Crash, Login, Logout, ToggleLock, Midnight
<1>3. QED BY <1>1, <1>2, AgentTypeCorrect, PTL DEF Spec

\* No answer, reconciliation, change of day or crash gives time back to a day,
\* and no answer brings back an older policy.
THEOREM NothingLost == Spec => NothingGoesBack
<1> DEFINE Forward ==
      /\ \A d \in Day : localUsage'[d] >= localUsage[d]
      /\ tracker # None /\ tracker' # None /\ tracker'.day = tracker.day =>
           tracker'.seconds >= tracker.seconds
      /\ localPolicy'.rev >= localPolicy.rev
<1>1. TypeOK /\ [Next]_vars => [Forward]_vars
  <2> SUFFICES ASSUME TypeOK, [Next]_vars PROVE Forward
    OBVIOUS
  <2>1. \A d \in Day : localUsage'[d] >= localUsage[d]
    BY DecideEffect, ChangeDayEffect, AbortEffect, CountersElsewhere
  <2>2. ASSUME tracker # None, tracker' # None, tracker'.day = tracker.day
        PROVE  tracker'.seconds >= tracker.seconds
    <3>1. tracker.seconds \in Nat BY <2>2 DEF TypeOK, Tracker
    <3>2. QED BY <2>2, <3>1, DecideEffect, ChangeDayEffect, AbortEffect, CountersElsewhere
  <2>3. localPolicy'.rev >= localPolicy.rev
    <3>1. localPolicy.rev \in Nat BY DEF TypeOK, Policy
    <3>2. CASE ReplacePolicy
      <4>1. answer.policy.rev \in Nat BY <3>2, AnswerFields DEF ReplacePolicy, TypeOK, Policy
      <4>2. QED BY <3>1, <3>2, <4>1 DEF ReplacePolicy
    <3>3. CASE UNCHANGED localPolicy BY <3>1, <3>3
    <3>4. QED
      BY <3>2, <3>3
         DEF Next, Apply, Cycle, Environment, vars, tables, client, daemon, desktop, Send, Receive,
             AcknowledgeEvent, ForgetAppliedCommandIDs, SaveConfirmedSessionState,
             ApplyRemoteBonus, Finish, Refuse, Fail, StageControlEffect, AddBonusWithEvent,
             Observe, PendingControlEffect, CompleteControlEffect, AbortCycle, ChangeDay, Decide,
             Enforce, Crash, Login, Logout, ToggleLock, Midnight
  <2>4. QED BY <2>1, <2>2, <2>3
<1>2. QED BY <1>1, AgentTypeCorrect, PTL DEF Spec, NothingGoesBack

=============================================================================
