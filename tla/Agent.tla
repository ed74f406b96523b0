------------------------------- MODULE Agent -------------------------------
(***************************************************************************)
(* The agent on the controlled computer: its SQLite store, the client that *)
(* exchanges heartbeats, the daemon that counts and enforces, and the      *)
(* person at the keyboard.                                                 *)
(*                                                                         *)
(* Client and daemon are goroutines of one process over one store, whose   *)
(* statements are atomic.  A heartbeat applies its answer with several     *)
(* statements (phase); a cycle of the daemon captures the policy, the      *)
(* remote control and the session first and uses them to its end (step).   *)
(* A crash may fall between any two of these actions and loses everything  *)
(* but the tables.                                                         *)
(*                                                                         *)
(* Abstractions.  Time is counted in units of one bonus; the quota is the  *)
(* same on every weekday; at most one graphical session of the controlled  *)
(* user exists, and it is the active one; whether a routine is in force is *)
(* a free choice of the clock.  Heartbeats report at most 100 events and   *)
(* commands, more than any instance has.  The request is built atomically: *)
(* apart from usage, events and acknowledgements, which are independent of *)
(* each other, only the client itself writes what it reads.  A verdict is  *)
(* taken from one reading of the anchor (the code reads it from memory     *)
(* twice).                                                                 *)
(***************************************************************************)
EXTENDS Integers, FiniteSets

CONSTANTS
  Day,          \* local dates, numbered in calendar order
  Session,      \* identifiers of graphical sessions
  RemoteBonus, LocalBonus, ControlOp, Routines, None,   \* as in ServerStore
  Checkpoint,   \* units of usage counted in memory between two checkpoints
  MaxUsage,     \* bound on the usage of a day
  Answers       \* answers that a server may give

Bonus == RemoteBonus \cup LocalBonus
Op == RemoteBonus \cup ControlOp
ControlKind == {"pause_monitoring", "resume_monitoring", "block_now", "clear_manual_block"}

ASSUME AgentAssumption ==
  /\ IsFiniteSet(Bonus) /\ IsFiniteSet(Day)
  /\ Day \subseteq Nat /\ ControlOp \subseteq Nat
  /\ RemoteBonus \cap LocalBonus = {} /\ ControlOp \cap Bonus = {}
  /\ Checkpoint \in Nat \ {0} /\ MaxUsage \in Nat
  /\ None \notin Day \cup Session \cup Routines

VARIABLES
  localPolicy,  \* policy, weekly_quota and routine tables (rev 0: no policy)
  anchor,       \* confirmed_session_state, the balance the server confirmed
  localUsage,   \* daily_usage
  event,        \* pending_event: none, pending, or sent (deleted)
  localLedger,  \* bonus rows: the date of each, or None
  applied,      \* applied_command
  effect,       \* pending_control_effect
  remote,       \* the control state of the last heartbeat, held in memory
  seen,         \* the session the daemon last reported to the client
  phase,        \* where the client is in a heartbeat
  sent,         \* its request
  answer,       \* what is left to apply of the answer
  step,         \* where the daemon is in a cycle
  view,         \* what the cycle captured
  tracker,      \* UsageTracker
  last,         \* whether the last cycle allowed use, and had a session
  overdue,      \* history: the checkpoint of a full tail failed, and none followed
  day,          \* local date
  session,      \* graphical session, locked or not
  locked

tables  == <<localPolicy, anchor, localUsage, event, localLedger, applied, effect>>
client  == <<phase, sent, answer>>
daemon  == <<step, view, tracker, last, overdue>>
desktop == <<day, session, locked>>
vars    == <<tables, remote, seen, client, daemon, desktop>>

-----------------------------------------------------------------------------
(* Types *)

Control == [online : BOOLEAN, paused : BOOLEAN, blocked : BOOLEAN, rev : Nat]
Policy  == [rev : Nat, quota : Nat, routines : Routines \cup {None},
            days : Routines \cup {None}]
Anchor  == [rev : Nat, session : Session, day : Day, remaining : Nat, usage : Nat]
Effect  == [id : ControlOp, rev : Nat, kind : ControlKind]
Tracker == [day : Day, seconds : Nat, tail : Nat]
Last    == [shouldCount : BOOLEAN, hadSession : BOOLEAN]
Event   == [id : LocalBonus, day : Day]
Request ==
  [policyRev : Nat, controlRev : Nat, stateRev : Nat, wantState : BOOLEAN, day : Day,
   used : Nat, session : Session \cup {None}, locked : BOOLEAN,
   events : SUBSET Event, acks : SUBSET Op]

\* What the agent relies on in a well-formed answer.
Answer ==
  [control : [rev : Nat, paused : BOOLEAN, blocked : BOOLEAN],
   hasPolicy : BOOLEAN, policy : Policy, hasState : BOOLEAN,
   state : [rev : Nat, remaining : Nat, usage : Nat], commands : SUBSET Op]

View ==
  [policy : Policy, remote : Control, session : Session \cup {None}, locked : BOOLEAN,
   day : Day \cup {None}, last : Last, effect : Effect \cup {None},
   verdict : {"none", "awaiting", "paused", "manual_block", "routine", "quota", "allowed"}]

ASSUME AnswersAssumption == Answers \subseteq Answer

-----------------------------------------------------------------------------
Offline   == [online |-> FALSE, paused |-> FALSE, blocked |-> FALSE, rev |-> 0]
NoSession == [session |-> None, locked |-> FALSE]
NoPolicy  == [rev |-> 0, quota |-> 0, routines |-> None, days |-> None]
NoLast    == [shouldCount |-> FALSE, hadSession |-> FALSE]
NoView    == [policy |-> NoPolicy, remote |-> Offline, session |-> None, locked |-> FALSE,
              day |-> None, last |-> NoLast, effect |-> None, verdict |-> "none"]

MaxOf(a, b) == IF a >= b THEN a ELSE b

Init ==
  /\ localPolicy = NoPolicy
  /\ anchor = None
  /\ localUsage = [d \in Day |-> 0]
  /\ event = [b \in LocalBonus |-> "none"]
  /\ localLedger = [b \in Bonus |-> None]
  /\ applied = {} /\ effect = None
  /\ remote = Offline /\ seen = NoSession
  /\ phase = "idle" /\ sent = None /\ answer = None
  /\ step = "idle" /\ view = NoView /\ tracker = None /\ last = NoLast
  /\ overdue = FALSE
  /\ day \in Day /\ (\A d \in Day : day <= d)
  /\ session = None /\ locked = FALSE

-----------------------------------------------------------------------------
(* The synchronization client. *)

\* The anchor does not authorize session x on day d under policy revision rev.
NeedsAnchor(x, d, rev) ==
  \/ anchor = None
  \/ anchor.session # x
  \/ anchor.day # d
  \/ anchor.rev < rev

PendingEvent == { e \in [id : LocalBonus, day : Day] :
                    event[e.id] = "pending" /\ localLedger[e.id] = e.day }

\* Mutant: dated by the daemon's cycle instead of the clock.
NextRequestOfCycle ==
  [policyRev |-> localPolicy.rev, controlRev |-> remote.rev,
   stateRev |-> IF anchor = None THEN 0 ELSE anchor.rev,
   wantState |-> seen.session # None /\ NeedsAnchor(seen.session, day, localPolicy.rev),
   day |-> view.day, used |-> localUsage[day], session |-> seen.session, locked |-> seen.locked,
   events |-> PendingEvent, acks |-> applied]

NextRequest ==
  [policyRev |-> localPolicy.rev, controlRev |-> remote.rev,
   stateRev |-> IF anchor = None THEN 0 ELSE anchor.rev,
   wantState |-> seen.session # None /\ NeedsAnchor(seen.session, day, localPolicy.rev),
   day |-> day, used |-> localUsage[day], session |-> seen.session, locked |-> seen.locked,
   events |-> PendingEvent, acks |-> applied]

\* Mutant: an event leaves the queue when it is sent.
SendAndForget ==
  /\ phase = "idle"
  /\ phase' = "waiting"
  /\ sent' = NextRequest
  /\ event' = [b \in LocalBonus |-> IF event[b] = "pending" THEN "sent" ELSE event[b]]
  /\ UNCHANGED <<localPolicy, anchor, localUsage, localLedger, applied, effect, remote, seen,
                 answer, daemon, desktop>>

Send ==
  /\ phase = "idle"
  /\ phase' = "waiting"
  /\ sent' = NextRequest
  /\ UNCHANGED <<tables, remote, seen, answer, daemon, desktop>>

\* The control state comes into force before anything else is applied.
Receive(a) ==
  /\ phase = "waiting"
  /\ phase' = "events"
  /\ answer' = a
  /\ remote' = [online |-> TRUE, paused |-> a.control.paused, blocked |-> a.control.blocked,
                rev |-> a.control.rev]
  /\ UNCHANGED <<tables, seen, sent, daemon, desktop>>

\* The server acknowledges the events and commands of the request.
AcknowledgeEvent(e) ==
  /\ phase = "events"
  /\ e \in sent.events /\ event[e.id] = "pending"
  /\ event' = [event EXCEPT ![e.id] = "sent"]
  /\ UNCHANGED <<localPolicy, anchor, localUsage, localLedger, applied, effect, remote, seen,
                 client, daemon, desktop>>

\* Mutant: the receipts of the server are ignored.
KeepAppliedCommandIDs ==
  /\ phase = "events"
  /\ \A e \in sent.events : event[e.id] # "pending"
  /\ phase' = "policy"
  /\ UNCHANGED <<tables, remote, seen, sent, answer, daemon, desktop>>

ForgetAppliedCommandIDs ==
  /\ phase = "events"
  /\ \A e \in sent.events : event[e.id] # "pending"
  /\ phase' = "policy"
  /\ applied' = applied \ sent.acks
  /\ UNCHANGED <<localPolicy, anchor, localUsage, event, localLedger, effect, remote, seen,
                 sent, answer, daemon, desktop>>

StalePolicy == answer.hasPolicy /\ answer.policy.rev < localPolicy.rev

\* Mutant: the policy of the answer is written whatever its revision.
ReplacePolicyAlways ==
  /\ phase = "policy"
  /\ localPolicy' = IF answer.hasPolicy THEN answer.policy ELSE localPolicy
  /\ phase' = "state"
  /\ UNCHANGED <<anchor, localUsage, event, localLedger, applied, effect, remote, seen,
                 sent, answer, daemon, desktop>>

\* An equal revision is not written again.
ReplacePolicy ==
  /\ phase = "policy"
  /\ ~ StalePolicy
  /\ localPolicy' = IF answer.hasPolicy /\ answer.policy.rev > localPolicy.rev
                      THEN answer.policy ELSE localPolicy
  /\ phase' = "state"
  /\ UNCHANGED <<anchor, localUsage, event, localLedger, applied, effect, remote, seen,
                 sent, answer, daemon, desktop>>

\* The answer lacks a balance it should carry, or carries one it should not.
InvalidState ==
  IF answer.hasState
    THEN \/ sent.session = None
         \/ answer.hasPolicy /\ answer.state.rev < answer.policy.rev
    ELSE \/ sent.wantState
         \/ answer.hasPolicy /\ sent.session # None /\ answer.policy.rev > sent.stateRev

\* Mutants: bonuses that the server has counted, and those of other days.
ReportedBonusToo(d) == Cardinality({ b \in LocalBonus : localLedger[b] = d })
UnreportedOfAnyDay(d) == Cardinality({ b \in LocalBonus : event[b] = "pending" })

\* Local bonuses of that day that no request has reported yet.
UnreportedBonus(d) ==
  Cardinality({ b \in LocalBonus : event[b] = "pending" /\ localLedger[b] = d })

Confirmed(a) ==
  [rev |-> a.rev, session |-> sent.session, day |-> sent.day,
   remaining |-> a.remaining + UnreportedBonus(sent.day), usage |-> a.usage]

SaveConfirmedSessionState ==
  /\ phase = "state"
  /\ ~ InvalidState
  /\ phase' = "commands"
  /\ IF answer.hasState
       THEN /\ anchor' = Confirmed(answer.state)
            /\ localUsage' = [localUsage EXCEPT ![sent.day] = MaxOf(@, answer.state.usage)]
       ELSE UNCHANGED <<anchor, localUsage>>
  /\ UNCHANGED <<localPolicy, event, localLedger, applied, effect, remote, seen,
                 sent, answer, daemon, desktop>>

Taken(c) ==
  /\ phase = "commands"
  /\ c \in answer.commands
  /\ answer' = [answer EXCEPT !.commands = @ \ {c}]

\* A control command only waits for its effect, under the revision of the
\* control state of the same answer; the table has one row.
StageControlEffect(c, k) ==
  /\ c \in ControlOp
  /\ Taken(c)
  /\ effect' = [id |-> c, rev |-> answer.control.rev, kind |-> k]
  /\ UNCHANGED <<localPolicy, anchor, localUsage, event, localLedger, applied, remote, seen,
                 phase, sent, daemon, desktop>>

\* Mutant: the acknowledgement is recorded without the bonus.
ApplyRemoteBonusAckFirst(b) ==
  /\ b \in RemoteBonus
  /\ Taken(b)
  /\ applied' = applied \cup {b}
  /\ UNCHANGED <<localPolicy, anchor, localUsage, event, localLedger, effect, remote, seen,
                 phase, sent, daemon, desktop>>

\* A bonus is recorded with its acknowledgement, on the day of the request.
ApplyRemoteBonus(b) ==
  /\ b \in RemoteBonus
  /\ Taken(b)
  /\ applied' = applied \cup {b}
  /\ localLedger' = IF b \notin applied /\ localLedger[b] = None
                      THEN [localLedger EXCEPT ![b] = sent.day] ELSE localLedger
  /\ UNCHANGED <<localPolicy, anchor, localUsage, event, effect, remote, seen, phase, sent,
                 daemon, desktop>>

EndHeartbeat == phase' = "idle" /\ sent' = None /\ answer' = None

Finish ==
  /\ phase = "commands" /\ answer.commands = {}
  /\ EndHeartbeat
  /\ UNCHANGED <<tables, remote, seen, daemon, desktop>>

\* A timeout, which also bounds the application of the answer, an error status
\* or a failed statement: what was applied stays, the control state is dropped.
Fail ==
  /\ phase # "idle"
  /\ EndHeartbeat
  /\ remote' = Offline
  /\ UNCHANGED <<tables, seen, daemon, desktop>>

\* The checks of the client reject the answer.
Refuse ==
  /\ (phase = "policy" /\ StalePolicy) \/ (phase = "state" /\ InvalidState)
  /\ Fail

Apply ==
  \/ \E e \in PendingEvent : AcknowledgeEvent(e)
  \/ ForgetAppliedCommandIDs
  \/ ReplacePolicy
  \/ SaveConfirmedSessionState
  \/ \E b \in RemoteBonus : ApplyRemoteBonus(b)
  \/ Finish
  \/ Refuse

-----------------------------------------------------------------------------
(* The local bonus, authorized by a parent's password at the computer. *)

AddBonusWithEvent(b) ==
  /\ localPolicy.rev > 0
  /\ localLedger[b] = None
  /\ localLedger' = [localLedger EXCEPT ![b] = day]
  /\ event' = [event EXCEPT ![b] = "pending"]
  /\ anchor' = IF anchor # None /\ anchor.day = day
                 THEN [anchor EXCEPT !.remaining = @ + 1] ELSE anchor
  /\ UNCHANGED <<localPolicy, localUsage, applied, effect, remote, seen, client, daemon, desktop>>

-----------------------------------------------------------------------------
(* One cycle of the daemon. *)

\* Policy, control, date and session are captured here; the control of an
\* offline agent is "neither paused nor blocked".
Observe ==
  /\ step = "idle"
  /\ localPolicy.rev > 0
  /\ step' = "effect"
  /\ view' = [NoView EXCEPT !.policy = localPolicy, !.remote = remote, !.session = session,
                            !.locked = locked, !.day = day,
                            !.last = last]
  /\ seen' = [session |-> session, locked |-> locked]
  /\ UNCHANGED <<tables, remote, client, tracker, last, overdue, desktop>>

\* The effect belongs to the control state that this cycle enforces.
EffectCurrent ==
  view.effect # None /\ view.remote.online /\ view.effect.rev = view.remote.rev

EffectShown ==
  CASE view.effect.kind = "block_now" -> view.session # None /\ view.locked
    [] view.effect.kind = "resume_monitoring" -> TRUE
    [] OTHER -> view.session = None \/ ~ view.locked

PendingControlEffect ==
  /\ step = "effect"
  /\ view' = [view EXCEPT !.effect = effect]
  /\ step' = IF EffectCurrent' /\ EffectShown' THEN "complete" ELSE "decide"
  /\ UNCHANGED <<tables, remote, seen, client, tracker, last, overdue, desktop>>

\* Only the row of the command that was read is removed and acknowledged.
CompleteControlEffect ==
  /\ step = "complete"
  /\ IF effect # None /\ effect.id = view.effect.id
       THEN effect' = None /\ applied' = applied \cup {effect.id}
       ELSE UNCHANGED <<effect, applied>>
  /\ view' = [view EXCEPT !.effect = None]
  /\ step' = "decide"
  /\ UNCHANGED <<localPolicy, anchor, localUsage, event, localLedger, remote, seen, client,
                 tracker, last, overdue, desktop>>

\* NewUsageTracker.
LoadTracker(d) == [day |-> d, seconds |-> localUsage[d], tail |-> 0]

\* UsageTracker.Add of u units: in memory first, then the checkpoint of a full
\* tail.  A cycle without new time does not call it.
Grown(t, u) == [t EXCEPT !.seconds = @ + u, !.tail = @ + u]
Written(t)  == [t EXCEPT !.tail = 0]

\* Mutant: the checkpoint happens one unit late.
FullLate(t, u) == u > 0 /\ t.tail + u > Checkpoint

Full(t, u) == u > 0 /\ t.tail + u >= Checkpoint
Add(t, u)  == IF Full(t, u) THEN Written(Grown(t, u)) ELSE Grown(t, u)

Elapsed == IF last.shouldCount /\ last.hadSession THEN {0, 1} ELSE {0}

\* A tracker is loaded by the first cycle; later ones add the time since the last.
Counted(u) == IF tracker = None THEN LoadTracker(view.day) ELSE Add(tracker, u)

\* UsageTracker.EnsureAtLeast: the server knows of more usage than the tracker.
Reconciled(t) ==
  IF anchor # None /\ anchor.day = t.day /\ t.seconds < anchor.usage
    THEN Written([t EXCEPT !.seconds = anchor.usage]) ELSE t

\* What is left of the balance: the server's while online, the local one otherwise.
Left(t) ==
  IF view.remote.online
    THEN IF anchor # None /\ anchor.day = t.day
           THEN MaxOf(0, anchor.remaining - MaxOf(0, t.seconds - anchor.usage)) ELSE 0
    ELSE MaxOf(0, view.policy.quota + Cardinality({b \in Bonus : localLedger[b] = t.day})
                    - t.seconds)

AwaitingSynchronization ==
  /\ view.remote.online /\ ~ view.remote.paused /\ ~ view.remote.blocked
  /\ view.session # None
  /\ NeedsAnchor(view.session, view.day, view.policy.rev)

InRoutine == IF None \in {view.policy.routines, view.policy.days} THEN {FALSE} ELSE BOOLEAN

\* policy.Evaluate, in its order of precedence.
Evaluate(t, routine) ==
  IF view.remote.online /\ view.remote.paused THEN "paused"
  ELSE IF view.remote.online /\ view.remote.blocked THEN "manual_block"
  ELSE IF routine THEN "routine"
  ELSE IF Left(t) = 0 THEN "quota"
  ELSE "allowed"

Verdict(t, routine) ==
  IF AwaitingSynchronization THEN "awaiting" ELSE Evaluate(t, routine)

\* Mutant: a checkpoint replaces the counter.
CheckpointUsageReplacing(t) == [localUsage EXCEPT ![t.day] = t.seconds]

\* CheckpointUsage never lowers a day's counter.
CheckpointUsage(t) == [localUsage EXCEPT ![t.day] = MaxOf(@, t.seconds)]

\* The table once the writes that reset the tail of t have succeeded.
Saved(t) == IF t.tail = 0 THEN CheckpointUsage(t) ELSE localUsage

Overdue(t) == overdue /\ t.tail # 0

LastCycle(v) == [shouldCount |-> v = "allowed", hadSession |-> view.session # None]

\* The first cycle of a new day gives the time before midnight to the old
\* tracker, flushes it, and decides at midnight whether the rest counts.
ChangeDay ==
  /\ step = "decide"
  /\ tracker # None /\ tracker.day # view.day
  /\ \E u \in Elapsed, routine \in InRoutine :
       LET old == Add(tracker, u)
           new == LoadTracker(view.day)
       IN
       /\ old.seconds <= MaxUsage
       /\ localUsage' = CheckpointUsage(old)
       /\ tracker' = new
       /\ last' = LastCycle(Evaluate(new, routine))
  /\ overdue' = FALSE
  /\ UNCHANGED <<localPolicy, anchor, event, localLedger, applied, effect, remote, seen,
                 client, step, view, desktop>>

\* The time since the last cycle is counted, then the verdict is taken.  The
\* counter is checkpointed when its tail is full, at a reconciliation, and by
\* the first verdict that ends the counting.
Decide ==
  /\ step = "decide"
  /\ tracker # None => tracker.day = view.day
  /\ \E u \in Elapsed, routine \in InRoutine :
       LET t == Reconciled(Counted(u))
           v == Verdict(t, routine)
           flush == view.last.shouldCount /\ v \in {"manual_block", "routine", "quota"}
       IN
       /\ t.seconds <= MaxUsage
       /\ tracker' = IF flush THEN Written(t) ELSE t
       /\ localUsage' = Saved(tracker')
       /\ overdue' = Overdue(tracker')
       /\ last' = LastCycle(v)
       /\ view' = [view EXCEPT !.verdict = v]
       /\ step' = IF v = "awaiting" THEN "idle" ELSE "enforce"
  /\ UNCHANGED <<localPolicy, anchor, event, localLedger, applied, effect, remote, seen,
                 client, desktop>>

\* Which of the writes of a failing cycle fails.  Before anything is counted:
NothingCounted ==
  /\ step \in {"effect", "complete"} \/ tracker = None
  /\ UNCHANGED <<tracker, localUsage, overdue>>

\* The checkpoint of a full tail: counter and tail keep the new time.
AddFails(u) ==
  /\ tracker # None /\ Full(tracker, u)
  /\ tracker' = Grown(tracker, u)
  /\ overdue' = TRUE
  /\ UNCHANGED localUsage

\* The flush of the old day, the loading of the new one, or its first verdict.
ChangeFails(u) ==
  /\ tracker # None /\ tracker.day # view.day
  /\ LET old == Add(tracker, u) IN
       \/ tracker' = old /\ localUsage' = Saved(old)
       \/ /\ tracker' \in {Written(old), LoadTracker(view.day)}
          /\ localUsage' = CheckpointUsage(old)
  /\ overdue' = Overdue(tracker')

\* The reconciliation, which has already raised the counter and reset the tail,
\* the verdict, or the flush before a block.
VerdictFails(u) ==
  /\ tracker # None => tracker.day = view.day
  /\ LET t == Counted(u) IN
       /\ tracker' = Reconciled(t)
       /\ localUsage' \in {Saved(t), Saved(tracker')}
  /\ overdue' = Overdue(tracker')

\* A cycle fails where it reads or writes the store.  What it counted stays in
\* memory, and the next one counts the same interval again.
AbortCycle ==
  /\ step \in {"effect", "complete", "decide"}
  /\ \/ NothingCounted
     \/ /\ step = "decide"
        /\ \E u \in Elapsed : AddFails(u) \/ ChangeFails(u) \/ VerdictFails(u)
        /\ tracker'.seconds <= MaxUsage
  /\ step' = "idle" /\ view' = NoView /\ last' = view.last
  /\ UNCHANGED <<localPolicy, anchor, event, localLedger, applied, effect, remote, seen,
                 client, desktop>>

UnlockRequested ==
  /\ EffectCurrent /\ view.effect.kind \in {"clear_manual_block", "pause_monitoring"}
  /\ view.locked

\* logind acts on the session that was captured, if it still exists; the call
\* may fail, and a lock is not repeated before its retry interval.
Enforce ==
  /\ step = "enforce"
  /\ \/ UNCHANGED locked
     \/ view.session # None /\ session = view.session /\
          \/ view.verdict \in {"allowed", "paused"} /\ UnlockRequested /\ locked' = FALSE
          \/ view.verdict \in {"manual_block", "routine", "quota"} /\ locked' = TRUE
  /\ step' = "idle" /\ view' = NoView
  /\ UNCHANGED <<tables, remote, seen, client, tracker, last, overdue, day, session>>

Cycle ==
  \/ Observe \/ PendingControlEffect \/ CompleteControlEffect
  \/ ChangeDay \/ Decide \/ Enforce

-----------------------------------------------------------------------------
(* What the agent does not decide. *)

Login(x) ==
  /\ session = None
  /\ session' = x /\ locked' = FALSE
  /\ UNCHANGED <<tables, remote, seen, client, daemon, day>>

Logout ==
  /\ session # None
  /\ session' = None /\ locked' = FALSE
  /\ UNCHANGED <<tables, remote, seen, client, daemon, day>>

ToggleLock ==
  /\ session # None
  /\ locked' = ~ locked
  /\ UNCHANGED <<tables, remote, seen, client, daemon, day, session>>

Midnight ==
  /\ day + 1 \in Day
  /\ day' = day + 1
  /\ UNCHANGED <<tables, remote, seen, client, daemon, session, locked>>

Environment == (\E x \in Session : Login(x)) \/ Logout \/ ToggleLock \/ Midnight

\* The process stops at any point and starts again from its tables.
Crash ==
  /\ remote' = Offline /\ seen' = NoSession
  /\ EndHeartbeat
  /\ step' = "idle" /\ view' = NoView /\ tracker' = None /\ last' = NoLast
  /\ overdue' = FALSE
  /\ UNCHANGED <<tables, desktop>>

\* The agent against any server: whatever its well-formed answers say.
Next ==
  \/ Send \/ \E a \in Answers : Receive(a)
  \/ Apply \/ \E c \in ControlOp, k \in ControlKind : StageControlEffect(c, k)
  \/ Fail \/ Crash
  \/ \E b \in LocalBonus : AddBonusWithEvent(b)
  \/ Cycle \/ AbortCycle
  \/ Environment

Spec == Init /\ [][Next]_vars

-----------------------------------------------------------------------------
(* Properties *)

\* Every row and every value in memory keeps its shape, whatever the server says
\* and wherever a crash or a failure falls: balances and counters stay natural.
TypeOK ==
  /\ localPolicy \in Policy
  /\ anchor \in Anchor \cup {None}
  /\ localUsage \in [Day -> Nat]
  /\ event \in [LocalBonus -> {"none", "pending", "sent"}]
  /\ localLedger \in [Bonus -> Day \cup {None}]
  /\ applied \subseteq Op
  /\ effect \in Effect \cup {None}
  /\ remote \in Control
  /\ seen \in [session : Session \cup {None}, locked : BOOLEAN]
  /\ phase \in {"idle", "waiting", "events", "policy", "state", "commands"}
  /\ sent \in Request \cup {None} /\ (phase # "idle" => sent \in Request)
  /\ phase \notin {"idle", "waiting"} => answer \in Answer
  /\ step \in {"idle", "effect", "complete", "decide", "enforce"}
  /\ view \in View /\ (step # "idle" => view.day \in Day)
  /\ tracker \in Tracker \cup {None}
  /\ last \in Last
  /\ overdue \in BOOLEAN
  /\ day \in Day /\ session \in Session \cup {None} /\ locked \in BOOLEAN

\* A crash loses at most the tail of the counter, which is less than one checkpoint
\* interval unless a checkpoint has failed and none has succeeded since; all the
\* rest is in the table, through failing writes, reconciliations and midnights.
CheckpointBoundsLoss ==
  tracker # None =>
    /\ tracker.tail < Checkpoint \/ overdue
    /\ tracker.seconds - tracker.tail <= localUsage[tracker.day]

\* An acknowledgement is only sent for a bonus whose row exists.
AppliedBonusIsRecorded == \A b \in RemoteBonus : b \in applied => localLedger[b] # None

\* No answer, crash or reconciliation gives time back: the counters of a day
\* never shrink, and an older policy never replaces a newer one.
NothingGoesBack ==
  [][ /\ \A d \in Day : localUsage'[d] >= localUsage[d]
      /\ tracker # None /\ tracker' # None /\ tracker'.day = tracker.day =>
           tracker'.seconds >= tracker.seconds
      /\ localPolicy'.rev >= localPolicy.rev ]_vars
=============================================================================
