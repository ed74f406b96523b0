--------------------------- MODULE CompassoProofs ---------------------------
(***************************************************************************)
(* What one device and its server guarantee together, for any number of    *)
(* exchanges, days, bonuses and clicks, whatever is lost, late or          *)
(* restarted.                                                              *)
(***************************************************************************)
EXTENDS Compasso, FiniteSetTheorems, TLAPS

\* The parts with the widest environment they were written for: the server
\* against any device, the agent against any server.
Srv == INSTANCE ServerStoreProofs WITH Reports <- Server!Request
Agt == INSTANCE AgentProofs WITH Answers <- Agent!Answer
Crd == INSTANCE CreditProofs
         WITH granted <- Granted, computer <- localLedger, server <- ledger, settled <- Settled

-----------------------------------------------------------------------------
(* Every step of the system is a step of each part. *)

\* The assumptions of the parts follow from those of the system.
LEMMA ServerAssumptions ==
  /\ Srv!IsFiniteSet(Srv!Bonus)
  /\ ControlOp \subseteq Nat /\ Quota \subseteq Nat
  /\ RemoteBonus \cap LocalBonus = {} /\ ControlOp \cap Srv!Bonus = {}
  /\ MaxRevision \in Nat
  /\ CleanupDue \in BOOLEAN
  /\ None \notin Day \cup Session \cup Routines
  /\ Server!Request \subseteq Srv!Request
  BY SystemAssumption DEF Srv!Bonus, Srv!IsFiniteSet, IsFiniteSet, Server!Request, Srv!Request,
         Server!Op, Srv!Op, Server!Event, Srv!Event

LEMMA AgentAssumptions ==
  /\ Agt!IsFiniteSet(Agt!Bonus) /\ Agt!IsFiniteSet(Day)
  /\ Day \subseteq Nat /\ ControlOp \subseteq Nat
  /\ RemoteBonus \cap LocalBonus = {} /\ ControlOp \cap Agt!Bonus = {}
  /\ Checkpoint \in Nat \ {0} /\ MaxUsage \in Nat
  /\ None \notin Day \cup Session \cup Routines
  /\ Agent!Answer \subseteq Agt!Answer
  BY SystemAssumption DEF Agt!Bonus, Agt!IsFiniteSet, IsFiniteSet, Agent!Answer, Agt!Answer,
         Agent!Policy, Agt!Policy, Agent!Op, Agt!Op

\* The instances have the same definitions.
LEMMA ServerActions ==
  ASSUME NEW s, NEW r
  PROVE  /\ Server!Init => Srv!Init
         /\ Server!Administer => Srv!Administer
         /\ Server!Handle(s) => Srv!Handle(s)
         /\ Server!Abandon(s) => Srv!Abandon(s)
         /\ Server!Arrive(s, r) => Srv!Arrive(s, r)
  BY DEF Server!Bonus, Srv!Bonus, Server!Op, Srv!Op, Server!ControlKind, Srv!ControlKind,
         Server!config, Srv!config, Server!exchange, Srv!exchange, Server!NoControl,
         Srv!NoControl, Server!NoPolicy, Srv!NoPolicy, Server!NoState, Srv!NoState,
         Server!NoResponse, Srv!NoResponse, Server!MaxOf, Srv!MaxOf, Server!PendingControl,
         Srv!PendingControl, Server!NewestPending, Srv!NewestPending, Server!HasRow,
         Srv!HasRow, Server!BonusSeconds, Srv!BonusSeconds, Server!Remaining, Srv!Remaining,
         Server!Completed, Srv!Completed, Server!Expirable, Srv!Expirable, Server!Init,
         Srv!Init, Server!BumpPolicy, Srv!BumpPolicy, Server!SaveQuotas, Srv!SaveQuotas,
         Server!SaveRoutine, Srv!SaveRoutine, Server!DeleteRoutine, Srv!DeleteRoutine,
         Server!SetLocalPassword, Srv!SetLocalPassword, Server!QueueRemoteBonus,
         Srv!QueueRemoteBonus, Server!Superseded, Srv!Superseded,
         Server!QueueControlOperation, Srv!QueueControlOperation,
         Server!CleanupExpiredCompletedActivities, Srv!CleanupExpiredCompletedActivities,
         Server!Arrive, Srv!Arrive, Server!Close, Srv!Close, Server!Abandon, Srv!Abandon,
         Server!RevisionAhead, Srv!RevisionAhead, Server!RejectRevisionAhead,
         Srv!RejectRevisionAhead, Server!UsageAfter, Srv!UsageAfter, Server!LedgerAfter,
         Srv!LedgerAfter, Server!CommandAfter, Srv!CommandAfter, Server!ActivityAfter,
         Srv!ActivityAfter, Server!ReceiveHeartbeat, Srv!ReceiveHeartbeat, Server!Reading,
         Srv!Reading, Server!SendsPolicy, Srv!SendsPolicy, Server!SendsState, Srv!SendsState,
         Server!AfterPolicy, Srv!AfterPolicy, Server!AfterControl, Srv!AfterControl,
         Server!LoadControl, Srv!LoadControl, Server!LoadPolicyRevision,
         Srv!LoadPolicyRevision, Server!LoadPolicyQuota, Srv!LoadPolicyQuota,
         Server!LoadPolicyRoutines, Srv!LoadPolicyRoutines, Server!OnlyDays, Srv!OnlyDays,
         Server!LoadPolicyDays, Srv!LoadPolicyDays, Server!UnknownDay, Srv!UnknownDay,
           Server!ConfirmRevision,
         Srv!ConfirmRevision, Server!ConfirmQuota, Srv!ConfirmQuota, Server!ConfirmBalance,
         Srv!ConfirmBalance, Server!LoadPendingCommands, Srv!LoadPendingCommands,
         Server!OfferCommands, Srv!OfferCommands, Server!Answer, Srv!Answer, Server!Handle,
         Srv!Handle, Server!Administer, Srv!Administer, Server!Cardinality, Srv!Cardinality

LEMMA AgentActions ==
  ASSUME NEW c, NEW k, NEW a, NEW b
  PROVE  /\ Agent!Init => Agt!Init
         /\ Agent!Send => Agt!Send
         /\ Agent!Receive(a) => Agt!Receive(a)
         /\ Agent!Apply => Agt!Apply
         /\ Agent!StageControlEffect(c, k) => Agt!StageControlEffect(c, k)
         /\ Agent!Fail => Agt!Fail
         /\ Agent!Crash => Agt!Crash
         /\ Agent!AddBonusWithEvent(b) => Agt!AddBonusWithEvent(b)
         /\ Agent!AbortCycle => Agt!AbortCycle
         /\ Agent!Environment => Agt!Environment
  BY DEF Agent!Bonus, Agt!Bonus, Agent!tables, Agt!tables, Agent!client, Agt!client,
         Agent!daemon, Agt!daemon, Agent!desktop, Agt!desktop, Agent!Offline, Agt!Offline,
         Agent!NoSession, Agt!NoSession, Agent!NoPolicy, Agt!NoPolicy, Agent!NoLast,
         Agt!NoLast, Agent!NoView, Agt!NoView, Agent!MaxOf, Agt!MaxOf, Agent!Init, Agt!Init,
         Agent!NeedsAnchor, Agt!NeedsAnchor, Agent!PendingEvent, Agt!PendingEvent,
         Agent!NextRequest, Agt!NextRequest, Agent!Send, Agt!Send, Agent!Receive,
         Agt!Receive, Agent!AcknowledgeEvent, Agt!AcknowledgeEvent,
         Agent!ForgetAppliedCommandIDs, Agt!ForgetAppliedCommandIDs, Agent!StalePolicy,
         Agt!StalePolicy, Agent!ReplacePolicy, Agt!ReplacePolicy, Agent!InvalidState,
         Agt!InvalidState, Agent!UnreportedBonus, Agt!UnreportedBonus, Agent!Confirmed,
         Agt!Confirmed, Agent!SaveConfirmedSessionState, Agt!SaveConfirmedSessionState,
         Agent!Taken, Agt!Taken, Agent!StageControlEffect, Agt!StageControlEffect,
         Agent!ApplyRemoteBonus, Agt!ApplyRemoteBonus, Agent!EndHeartbeat, Agt!EndHeartbeat,
         Agent!Finish, Agt!Finish, Agent!Fail, Agt!Fail, Agent!Refuse, Agt!Refuse,
         Agent!Apply, Agt!Apply, Agent!AddBonusWithEvent, Agt!AddBonusWithEvent,
         Agent!AbortCycle, Agt!AbortCycle, Agent!NothingCounted, Agt!NothingCounted,
         Agent!AddFails, Agt!AddFails, Agent!ChangeFails, Agt!ChangeFails,
         Agent!VerdictFails, Agt!VerdictFails, Agent!Grown, Agt!Grown, Agent!Written,
         Agt!Written, Agent!Full, Agt!Full, Agent!Add, Agt!Add, Agent!Saved, Agt!Saved,
         Agent!Overdue, Agt!Overdue, Agent!CheckpointUsage, Agt!CheckpointUsage,
         Agent!Counted, Agt!Counted, Agent!LoadTracker, Agt!LoadTracker,
         Agent!Reconciled, Agt!Reconciled, Agent!Elapsed, Agt!Elapsed, Agent!Login, Agt!Login,
           Agent!Logout, Agt!Logout,
         Agent!ToggleLock, Agt!ToggleLock, Agent!Midnight, Agt!Midnight, Agent!Environment,
         Agt!Environment, Agent!Crash, Agt!Crash, Agent!Cardinality, Agt!Cardinality

LEMMA AgentCycle == Agent!Cycle => Agt!Cycle
  BY DEF Agent!Bonus, Agt!Bonus, Agent!tables, Agt!tables, Agent!client, Agt!client,
         Agent!desktop, Agt!desktop, Agent!Offline, Agt!Offline, Agent!NoPolicy,
         Agt!NoPolicy, Agent!NoView, Agt!NoView, Agent!MaxOf, Agt!MaxOf, Agent!NeedsAnchor,
         Agt!NeedsAnchor, Agent!Observe, Agt!Observe, Agent!EffectCurrent, Agt!EffectCurrent,
         Agent!EffectShown, Agt!EffectShown, Agent!PendingControlEffect,
         Agt!PendingControlEffect, Agent!CompleteControlEffect, Agt!CompleteControlEffect,
         Agent!LoadTracker, Agt!LoadTracker, Agent!Grown, Agt!Grown, Agent!Written, Agt!Written,
         Agent!Full, Agt!Full, Agent!Saved, Agt!Saved, Agent!Overdue, Agt!Overdue,
         Agent!NoLast, Agt!NoLast, Agent!Add, Agt!Add, Agent!Elapsed, Agt!Elapsed,
         Agent!Counted, Agt!Counted, Agent!Reconciled, Agt!Reconciled, Agent!Left, Agt!Left,
         Agent!AwaitingSynchronization, Agt!AwaitingSynchronization, Agent!InRoutine,
         Agt!InRoutine, Agent!Evaluate, Agt!Evaluate, Agent!Verdict, Agt!Verdict,
         Agent!CheckpointUsage, Agt!CheckpointUsage, Agent!LastCycle, Agt!LastCycle,
         Agent!ChangeDay, Agt!ChangeDay, Agent!Decide, Agt!Decide, Agent!UnlockRequested,
         Agt!UnlockRequested, Agent!Enforce, Agt!Enforce, Agent!Cycle, Agt!Cycle,
         Agent!Cardinality, Agt!Cardinality

LEMMA ServerTypes == Server!TypeOK <=> Srv!TypeOK
  BY DEF Server!Bonus, Srv!Bonus, Server!Op, Srv!Op, Server!ControlKind, Srv!ControlKind,
         Server!Control, Srv!Control, Server!Policy, Srv!Policy, Server!State, Srv!State,
         Server!Event, Srv!Event, Server!Request, Srv!Request, Server!Response, Srv!Response,
         Server!Stage, Srv!Stage, Server!ActivityStatus, Srv!ActivityStatus, Server!TypeOK,
         Srv!TypeOK

LEMMA AgentTypes == Agent!TypeOK <=> Agt!TypeOK
  BY DEF Agent!Bonus, Agt!Bonus, Agent!Op, Agt!Op, Agent!ControlKind, Agt!ControlKind,
         Agent!Control, Agt!Control, Agent!Policy, Agt!Policy, Agent!Anchor, Agt!Anchor,
         Agent!Effect, Agt!Effect, Agent!Tracker, Agt!Tracker, Agent!Event, Agt!Event,
         Agent!Request, Agt!Request, Agent!Answer, Agt!Answer, Agent!View, Agt!View,
         Agent!Last, Agt!Last,
         Agent!TypeOK, Agt!TypeOK
-----------------------------------------------------------------------------
(* The inductive invariant. *)

\* The tables, the memory and the messages of both parts are well-formed.
Types == Server!TypeOK /\ Agent!TypeOK

Going(s) == stage[s] # "idle"
Applying == phase \notin {"idle", "waiting"}

\* A desktop without a session is not locked, and the client hears of no lock.
DesktopInv ==
  /\ session = None => ~ locked
  /\ seen.session = None => ~ seen.locked

\* The exchange that the agent waits for carries its request while it goes on.
WaitInv ==
  /\ current \in Slot \cup {None}
  /\ phase = "waiting" => current # None /\ (Going(current) => request[current] = sent)
  /\ phase # "waiting" => current = None

\* Only what was queued is offered, and a control command keeps its kind.
OfferInv ==
  /\ \A c \in Op :
       /\ \A s \in Slot : c \in response[s].commands => command[c] # "unused"
       /\ Applying /\ c \in answer.commands => command[c] # "unused"
  /\ \A c \in ControlOp : command[c] # "unused" => kind[c] \in Server!ControlKind

-----------------------------------------------------------------------------
(* Each part is the environment that the other one expects. *)

\* The agent's request is well-formed: without a session it reports no lock and
\* asks for no balance.
LEMMA RequestIsWellFormed ==
  ASSUME Types, DesktopInv
  PROVE  Agent!NextRequest \in Server!Request
<1>1. localUsage[day] \in Nat BY DEF Types, Agent!TypeOK
<1>2. Agent!PendingEvent \subseteq Server!Event BY DEF Agent!PendingEvent, Server!Event
<1>3. (IF anchor = None THEN 0 ELSE anchor.rev) \in Nat
  BY DEF Types, Agent!TypeOK, Agent!Anchor
<1>4. (seen.session # None /\ Agent!NeedsAnchor(seen.session, day, localPolicy.rev)) \in BOOLEAN
  OBVIOUS
<1>5. localPolicy.rev \in Nat /\ remote.rev \in Nat
  BY DEF Types, Agent!TypeOK, Agent!Policy, Agent!Control
<1>6. applied \subseteq Server!Op BY DEF Types, Agent!TypeOK, Agent!Op, Server!Op
<1>7. QED BY <1>1, <1>2, <1>3, <1>4, <1>5, <1>6
             DEF Agent!NextRequest, Server!Request, Types, Agent!TypeOK, DesktopInv

\* What the server answers is well-formed.
LEMMA AnswerIsWellFormed ==
  ASSUME Types, NEW s \in Slot
  PROVE  AnswerOf(response[s]) \in Agent!Answer
<1>1. response[s] \in Server!Response BY DEF Types, Server!TypeOK
<1>2. QED BY <1>1 DEF Server!Response, Server!Control, Server!Policy, Server!State, Server!Op,
                      AnswerOf, Agent!Answer, Agent!Policy, Agent!Op

LEMMA ServerSide ==
  ASSUME Types, DesktopInv, WaitInv, [Next]_vars
  PROVE  [Srv!Next]_(Srv!vars)
<1>0. ASSUME UNCHANGED serverVars PROVE UNCHANGED Srv!vars
  BY <1>0 DEF serverVars, Srv!vars, Srv!config, Srv!exchange
<1>1. CASE ServerStep(Server!Administer)
  BY <1>1, ServerActions DEF ServerStep, Srv!Next
<1>2. ASSUME NEW s \in Slot, SendHeartbeat(s) PROVE Srv!Next
  <2>1. Srv!Arrive(s, Agent!NextRequest) BY <1>2, ServerActions DEF SendHeartbeat
  <2>2. QED BY <2>1, RequestIsWellFormed DEF Srv!Next
<1>3. ASSUME NEW s \in Slot, Server!Abandon(s) PROVE Srv!Next
  BY <1>3, ServerActions DEF Srv!Next
<1>4. ASSUME NEW s \in Slot, ServerStep(Server!Handle(s)) PROVE Srv!Next
  BY <1>4, ServerActions DEF ServerStep, Srv!Next
<1>5. CASE Interrupted
  BY <1>0, <1>3, <1>5 DEF Interrupted, WaitInv
<1>6. CASE UNCHANGED serverVars BY <1>0, <1>6
<1>7. QED
  BY <1>1, <1>2, <1>3, <1>4, <1>5, <1>6
     DEF Next, vars, ApplyAnswer, AgentStep, Move, Timeout, Crash, DeliverAnswer, DropOrphan

LEMMA AgentSide ==
  ASSUME Types, OfferInv, [Next]_vars
  PROVE  [Agt!Next]_(Agt!vars)
<1>0. ASSUME UNCHANGED agentVars PROVE UNCHANGED Agt!vars
  BY <1>0 DEF agentVars, Agt!vars, Agt!tables, Agt!client, Agt!daemon, Agt!desktop
<1>1. ASSUME NEW s \in Slot, SendHeartbeat(s) PROVE Agt!Next
  BY <1>1, AgentActions DEF SendHeartbeat, Agt!Next
<1>2. ASSUME NEW s \in Slot, DeliverAnswer(s) PROVE Agt!Next
  BY <1>2, AgentActions, AnswerIsWellFormed DEF DeliverAnswer, Agt!Next
<1>3. CASE ApplyAnswer
  <2>1. CASE Agent!Apply BY <2>1, AgentActions DEF Agt!Next
  <2>2. ASSUME NEW c \in ControlOp, Agent!StageControlEffect(c, kind[c]) PROVE Agt!Next
    <3>1. c \in Op /\ c \in answer.commands /\ phase = "commands"
      BY <2>2 DEF Agent!StageControlEffect, Agent!Taken, Op
    <3>2. kind[c] \in Agt!ControlKind
      BY <3>1 DEF OfferInv, Applying, Server!ControlKind, Agt!ControlKind
    <3>3. QED BY <2>2, <3>2, AgentActions DEF Agt!Next
  <2>3. QED BY <1>3, <2>1, <2>2 DEF ApplyAnswer, AgentStep
<1>4. CASE Agent!Cycle \/ Agent!AbortCycle
  BY <1>4, AgentActions, AgentCycle DEF Agt!Next
<1>5. ASSUME NEW b \in LocalBonus, Agent!AddBonusWithEvent(b) PROVE Agt!Next
  BY <1>5, AgentActions DEF Agt!Next
<1>6. CASE Agent!Environment \/ Agent!Fail \/ Agent!Crash
  BY <1>6, AgentActions DEF Agt!Next
<1>7. QED
  BY <1>0, <1>1, <1>2, <1>3, <1>4, <1>5, <1>6
     DEF Next, vars, ServerStep, AgentStep, Move, Timeout, Crash, DropOrphan

LEMMA TypesStep ==
  ASSUME Types, DesktopInv, WaitInv, OfferInv, [Next]_vars
  PROVE  Types'
<1>1. Srv!TypeOK' BY ServerSide, ServerTypes, ServerAssumptions, Srv!TypeStep DEF Types
<1>2. Agt!TypeOK' BY AgentSide, AgentTypes, AgentAssumptions, Agt!NextType DEF Types
<1>3. QED BY <1>1, <1>2, ServerTypes, AgentTypes, PTL DEF Types
-----------------------------------------------------------------------------
(* What the actions of each part leave alone. *)

ServerTables == <<policyRev, quota, routines, control, command, kind, ledger, usage, device>>

\* A handler that runs on, or an exchange that ends, concerns no other exchange.
LEMMA HandlerEffect ==
  ASSUME Types, NEW s \in Slot, Server!Handle(s) \/ Server!Abandon(s)
  PROVE  /\ \A t \in Slot \ {s} :
              stage'[t] = stage[t] /\ request'[t] = request[t] /\ response'[t] = response[t]
         /\ Going(s)
         /\ stage'[s] # "sent"
         /\ stage'[s] # "idle" => request'[s] = request[s]
         /\ UNCHANGED <<policyRev, quota, routines, control, kind>>
<1>1. stage \in [Slot -> Server!Stage] /\ response \in [Slot -> Server!Response]
      /\ request \in [Slot -> Server!Request \cup {None}]
  BY DEF Types, Server!TypeOK
<1>2. CASE Server!Abandon(s) \/ Server!RejectRevisionAhead(s)
  BY <1>1, <1>2 DEF Server!Abandon, Server!RejectRevisionAhead, Server!Close, Server!config,
     Going
<1>3. CASE Server!ReceiveHeartbeat(s)
  BY <1>1, <1>3 DEF Server!ReceiveHeartbeat, Server!config, Going
<1>4. CASE Server!Answer(s)
  BY <1>1, <1>4 DEF Server!Answer, Server!LoadControl, Server!LoadPolicyRevision,
         Server!LoadPolicyQuota, Server!LoadPolicyRoutines, Server!LoadPolicyDays,
         Server!ConfirmRevision,
         Server!ConfirmQuota, Server!ConfirmBalance, Server!LoadPendingCommands,
         Server!OfferCommands, Server!Reading, Server!AfterControl, Server!AfterPolicy,
         Server!config, Going
<1>5. QED BY <1>2, <1>3, <1>4 DEF Server!Handle, Server!UnknownDay

\* The statements that build an answer change no table but the history.
LEMMA AnswerEffect ==
  ASSUME Types, NEW s \in Slot, Server!Answer(s)
  PROVE  /\ UNCHANGED <<ServerTables, request>>
         /\ stage[s] \notin {"idle", "sent"} /\ stage'[s] \notin {"idle", "sent", "control"}
         /\ \A t \in Slot \ {s} : stage'[t] = stage[t] /\ response'[t] = response[t]
<1>1. stage \in [Slot -> Server!Stage] /\ response \in [Slot -> Server!Response]
  BY DEF Types, Server!TypeOK
<1>2. QED
  BY <1>1 DEF Server!Answer, Server!LoadControl, Server!LoadPolicyRevision,
         Server!LoadPolicyQuota, Server!LoadPolicyRoutines, Server!LoadPolicyDays,
         Server!ConfirmRevision,
         Server!ConfirmQuota, Server!ConfirmBalance, Server!LoadPendingCommands,
         Server!OfferCommands, Server!Reading, Server!AfterControl, Server!AfterPolicy,
         Server!config, ServerTables

\* An exchange that ends leaves the tables and an empty slot.
LEMMA CloseEffect ==
  ASSUME Types, NEW s \in Slot, Server!Abandon(s) \/ Server!RejectRevisionAhead(s)
  PROVE  /\ UNCHANGED ServerTables
         /\ stage'[s] = "idle" /\ response'[s] = Server!NoResponse
<1>1. stage \in [Slot -> Server!Stage] /\ response \in [Slot -> Server!Response]
  BY DEF Types, Server!TypeOK
<1>2. QED
  BY <1>1 DEF Server!Abandon, Server!RejectRevisionAhead, Server!Close, Server!config,
     ServerTables

LEMMA SendEffect ==
  ASSUME Types, NEW s \in Slot, SendHeartbeat(s)
  PROVE  /\ UNCHANGED <<ServerTables, activity, response>>
         /\ stage[s] = "idle" /\ stage'[s] = "sent" /\ request'[s] = Agent!NextRequest
         /\ sent' = Agent!NextRequest /\ phase = "idle" /\ phase' = "waiting" /\ current' = s
         /\ \A t \in Slot \ {s} : stage'[t] = stage[t] /\ request'[t] = request[t]
         /\ UNCHANGED <<localPolicy, anchor, localUsage, event, localLedger, applied, effect,
              remote>>
<1>1. stage \in [Slot -> Server!Stage] /\ request \in [Slot -> Server!Request \cup {None}]
  BY DEF Types, Server!TypeOK
<1>2. QED
  BY <1>1 DEF SendHeartbeat, Agent!Send, Server!Arrive, Agent!tables, Server!config, ServerTables

\* The daemon and the desktop concern neither the client nor the ledger: of the
\* synchronized tables, a cycle only completes a control effect.
LEMMA DaemonEffect ==
  ASSUME Types, Agent!Cycle \/ Agent!AbortCycle \/ Agent!Environment
  PROVE  /\ UNCHANGED <<localPolicy, anchor, event, localLedger, remote, phase, sent, answer>>
         /\ \A b \in RemoteBonus : b \in applied' <=> b \in applied
         /\ effect' \in {effect, None}
<1>1. effect # None => effect.id \in ControlOp BY DEF Types, Agent!TypeOK, Agent!Effect
<1>2. ControlOp \cap RemoteBonus = {} BY SystemAssumption
<1>3. QED
  BY <1>1, <1>2
     DEF Agent!Cycle, Agent!AbortCycle, Agent!Environment, Agent!Observe,
         Agent!PendingControlEffect, Agent!CompleteControlEffect, Agent!ChangeDay, Agent!Decide,
         Agent!Enforce, Agent!Login, Agent!Logout, Agent!ToggleLock, Agent!Midnight,
         Agent!tables, Agent!client

LEMMA DesktopStep ==
  ASSUME Types, DesktopInv, [Next]_vars
  PROVE  DesktopInv'
<1>1. ASSUME UNCHANGED <<session, locked, seen>> PROVE DesktopInv'
  BY <1>1 DEF DesktopInv
<1>2. CASE Agent!Cycle
  <2>1. CASE Agent!Observe BY <2>1 DEF Agent!Observe, Agent!desktop, DesktopInv
  <2>2. CASE Agent!Enforce BY <2>2 DEF Agent!Enforce, Agent!tables, DesktopInv
  <2>3. QED
    BY <1>1, <1>2, <2>1, <2>2
       DEF Agent!Cycle, Agent!PendingControlEffect, Agent!CompleteControlEffect,
           Agent!ChangeDay, Agent!Decide, Agent!desktop
<1>3. CASE Agent!Environment
  <2>1. None \notin Session BY SystemAssumption
  <2>2. QED
    BY <1>3, <2>1 DEF Agent!Environment, Agent!Login, Agent!Logout, Agent!ToggleLock,
       Agent!Midnight,
           DesktopInv
<1>4. CASE Agent!Crash BY <1>4 DEF Agent!Crash, Agent!NoSession, Agent!desktop, DesktopInv
<1>5. QED
  BY <1>1, <1>2, <1>3, <1>4
     DEF Next, vars, agentVars, SendHeartbeat, DeliverAnswer, DropOrphan, ServerStep, AgentStep,
         ApplyAnswer, Move, Timeout, Crash, Agent!Send, Agent!Receive, Agent!Apply,
         Agent!AcknowledgeEvent, Agent!ForgetAppliedCommandIDs, Agent!ReplacePolicy,
         Agent!SaveConfirmedSessionState, Agent!ApplyRemoteBonus, Agent!Finish, Agent!Refuse,
         Agent!Fail, Agent!StageControlEffect, Agent!AddBonusWithEvent, Agent!AbortCycle,
         Agent!desktop

\* Applying an answer is the client's alone, and it never waits again meanwhile.
LEMMA ApplyEffect ==
  ASSUME ApplyAnswer
  PROVE  /\ UNCHANGED <<serverVars, current>>
         /\ Applying /\ phase' # "waiting"
         /\ phase' # "idle" => sent' = sent
  BY DEF ApplyAnswer, AgentStep, Applying, Agent!Apply, Agent!AcknowledgeEvent,
         Agent!ForgetAppliedCommandIDs, Agent!ReplacePolicy, Agent!SaveConfirmedSessionState,
         Agent!ApplyRemoteBonus, Agent!Finish, Agent!Refuse, Agent!Fail, Agent!EndHeartbeat,
         Agent!StageControlEffect, Agent!Taken, Agent!client

\* After a timeout or a crash the client is idle, the server has at most lost the
\* exchange that the agent was waiting for, and the tables of the agent are there.
LEMMA InterruptionEffect ==
  ASSUME Types, WaitInv, Timeout \/ Crash
  PROVE  /\ phase' = "idle" /\ current' = None
         /\ remote' = Agent!Offline
         /\ UNCHANGED <<localPolicy, anchor, event, localLedger, applied, effect>>
         /\ UNCHANGED serverVars \/ \E s \in Slot : Server!Abandon(s)
  BY DEF Timeout, Crash, Interrupted, WaitInv, Agent!Fail, Agent!Crash, Agent!EndHeartbeat,
         Agent!tables

LEMMA WaitStep ==
  ASSUME Types, WaitInv, [Next]_vars
  PROVE  WaitInv'
<1>0. None \notin Slot BY SystemAssumption
<1>1. ASSUME UNCHANGED <<current, phase, sent>>,
             \A t \in Slot : Going(t)' => Going(t) /\ request'[t] = request[t]
      PROVE  WaitInv'
  BY <1>0, <1>1 DEF WaitInv
<1>2. ASSUME UNCHANGED <<current, phase, sent, stage, request>> PROVE WaitInv'
  BY <1>2 DEF WaitInv, Going
<1>3. CASE ServerStep(Server!Administer)
  BY <1>2, <1>3 DEF ServerStep, agentVars, Server!Administer, Server!SaveQuotas,
     Server!SaveRoutine,
         Server!DeleteRoutine, Server!SetLocalPassword, Server!QueueRemoteBonus,
         Server!QueueControlOperation, Server!CleanupExpiredCompletedActivities, Server!exchange
<1>4. ASSUME NEW s \in Slot, SendHeartbeat(s) PROVE WaitInv'
  BY <1>0, <1>4, SendEffect DEF WaitInv
<1>5. ASSUME NEW s \in Slot, DeliverAnswer(s) PROVE WaitInv'
  BY <1>5 DEF DeliverAnswer, Agent!Receive, WaitInv
<1>6. ASSUME NEW s \in Slot, Server!Handle(s) \/ Server!Abandon(s),
             UNCHANGED <<agentVars, current>>
      PROVE  WaitInv'
  <2>1. \A t \in Slot : Going(t)' => Going(t) /\ request'[t] = request[t]
    BY <1>6, HandlerEffect DEF Going
  <2>2. QED BY <1>1, <1>6, <2>1 DEF agentVars
<1>7. CASE ApplyAnswer
  BY <1>7, ApplyEffect DEF WaitInv, Applying
<1>8. CASE (Agent!Cycle \/ Agent!AbortCycle \/ Agent!Environment)
             /\ UNCHANGED <<serverVars, current>>
  BY <1>2, <1>8, DaemonEffect DEF serverVars
<1>9. ASSUME NEW b \in LocalBonus, AgentStep(Agent!AddBonusWithEvent(b)) PROVE WaitInv'
  BY <1>2, <1>9 DEF AgentStep, Agent!AddBonusWithEvent, serverVars, Agent!client
<1>10. CASE Timeout \/ Crash
  BY <1>10, InterruptionEffect DEF WaitInv
<1>11. CASE UNCHANGED vars BY <1>2, <1>11 DEF vars, serverVars, agentVars
<1>12. QED
  BY <1>3, <1>4, <1>5, <1>6, <1>7, <1>8, <1>9, <1>10, <1>11
     DEF Next, ServerStep, AgentStep, DropOrphan, Move

\* The administrator's requests touch no exchange and no ledger; a command, once
\* queued, is never unused again, and every edit of the policy has its revision.
LEMMA AdministerEffect ==
  ASSUME Types, Server!Administer
  PROVE  /\ UNCHANGED <<ledger, usage, device, stage, request, response>>
         /\ \A c \in Op : command[c] # "unused" => command'[c] # "unused"
         /\ \A b \in RemoteBonus : command'[b] = "acked" => command[b] = "acked"
         /\ \A c \in ControlOp :
              \/ kind'[c] \in Server!ControlKind
              \/ kind'[c] = kind[c] /\ (command[c] = "unused" => command'[c] = "unused")
         /\ UNCHANGED control \/ control'.rev = control.rev + 1
         /\ UNCHANGED <<policyRev, quota, routines>> \/ policyRev' = policyRev + 1
         /\ quota' \in Quota \cup {quota}
<1>1. command \in [Op -> {"unused", "pending", "acked", "superseded"}]
      /\ kind \in [ControlOp -> Server!ControlKind \cup {None}]
  BY DEF Types, Server!TypeOK, Op, Server!Op
<1>2. RemoteBonus \cap ControlOp = {} /\ RemoteBonus \subseteq Op /\ ControlOp \subseteq Op
  BY SystemAssumption DEF Op
<1>3. CASE \/ \E q \in Quota : Server!SaveQuotas(q)
           \/ \E r \in Routines : Server!SaveRoutine(r)
           \/ Server!DeleteRoutine
           \/ Server!SetLocalPassword
           \/ \E old \in SUBSET (Server!Op \cup LocalBonus) :
                Server!CleanupExpiredCompletedActivities(old)
  BY <1>3
     DEF Server!SaveQuotas, Server!SaveRoutine, Server!DeleteRoutine, Server!SetLocalPassword,
         Server!CleanupExpiredCompletedActivities, Server!BumpPolicy, Server!config,
         Server!exchange
<1>4. ASSUME NEW b \in RemoteBonus, Server!QueueRemoteBonus(b)
      PROVE  /\ command' = [command EXCEPT ![b] = "pending"] /\ command[b] = "unused"
             /\ UNCHANGED <<kind, control, quota, routines, ledger, usage, device, stage,
                  request, response>>
             /\ policyRev' = policyRev + 1
  BY <1>4 DEF Server!QueueRemoteBonus, Server!BumpPolicy, Server!exchange
<1>5. ASSUME NEW k \in Server!ControlKind, Server!QueueControlOperation(k)
      PROVE  /\ UNCHANGED <<policyRev, quota, routines, ledger, usage, device, stage, request,
                  response>>
             /\ control'.rev = control.rev + 1
             /\ control.rev + 1 \in ControlOp
             /\ kind' = [kind EXCEPT ![control.rev + 1] = k]
             /\ \A o \in Op :
                  \/ o = control.rev + 1 /\ command'[o] = "pending"
                  \/ o # control.rev + 1 /\ command[o] = "pending" /\ command'[o] = "superseded"
                  \/ o # control.rev + 1 /\ command'[o] = command[o]
  BY <1>1, <1>5
     DEF Server!QueueControlOperation, Server!Superseded, Server!PendingControl, Server!config,
         Server!exchange, Op, Server!Op
<1>6. ASSUME NEW b \in RemoteBonus, Server!QueueRemoteBonus(b)
      PROVE  /\ \A c \in Op : command[c] # "unused" => command'[c] # "unused"
             /\ \A a \in RemoteBonus : command'[a] = "acked" => command[a] = "acked"
             /\ \A c \in ControlOp : kind'[c] = kind[c] /\ command'[c] = command[c]
  BY <1>1, <1>2, <1>4, <1>6
<1>7. ASSUME NEW k \in Server!ControlKind, Server!QueueControlOperation(k)
      PROVE  /\ \A c \in Op : command[c] # "unused" => command'[c] # "unused"
             /\ \A a \in RemoteBonus : command'[a] = "acked" => command[a] = "acked"
             /\ \A c \in ControlOp :
                  \/ kind'[c] \in Server!ControlKind
                  \/ kind'[c] = kind[c] /\ (command[c] = "unused" => command'[c] = "unused")
  BY <1>1, <1>2, <1>5, <1>7
<1>8. QED BY <1>3, <1>4, <1>5, <1>6, <1>7 DEF Server!Administer

\* A handler and an exchange that ends only close commands.
LEMMA HandlerCommands ==
  ASSUME Types, NEW s \in Slot, Server!Handle(s) \/ Server!Abandon(s)
  PROVE  \A c \in Op : \/ command'[c] = command[c]
                       \/ command[c] = "pending" /\ command'[c] = "acked"
                            /\ c \in request[s].acks
<1>1. CASE Server!ReceiveHeartbeat(s)
  BY <1>1 DEF Server!ReceiveHeartbeat, Server!CommandAfter, Server!HasRow, Op, Server!Op
<1>2. CASE Server!Answer(s) BY <1>2, AnswerEffect DEF ServerTables
<1>3. CASE Server!Abandon(s) \/ Server!RejectRevisionAhead(s)
  BY <1>3, CloseEffect DEF ServerTables
<1>4. QED BY <1>1, <1>2, <1>3 DEF Server!Handle, Server!UnknownDay

LEMMA OfferStep ==
  ASSUME Types, WaitInv, OfferInv, [Next]_vars
  PROVE  OfferInv'
<1>0. response \in [Slot -> Server!Response] BY DEF Types, Server!TypeOK
<1>1. ASSUME \A c \in Op : command[c] # "unused" => command'[c] # "unused",
             \A c \in ControlOp :
               \/ kind'[c] \in Server!ControlKind
               \/ kind'[c] = kind[c] /\ (command[c] = "unused" => command'[c] = "unused"),
             \A s \in Slot : \A c \in response'[s].commands :
               c \in response[s].commands \/ command[c] # "unused",
             Applying' => \A c \in answer'.commands \cap Op : command[c] # "unused"
      PROVE  OfferInv'
  BY <1>1 DEF OfferInv, Op
<1>2. Applying => \A c \in answer.commands \cap Op : command[c] # "unused" BY DEF OfferInv
<1>3. CASE Server!Administer /\ UNCHANGED agentVars
  <2>1. UNCHANGED <<phase, answer>> BY <1>3 DEF agentVars
  <2>2. QED BY <1>1, <1>2, <1>3, <2>1, AdministerEffect DEF Applying
<1>4. ASSUME NEW s \in Slot, SendHeartbeat(s) PROVE OfferInv'
  <2>1. UNCHANGED <<command, kind, response>> /\ ~ Applying'
    BY <1>4, SendEffect DEF ServerTables, Applying
  <2>2. QED BY <1>1, <2>1
<1>5. ASSUME NEW s \in Slot, Server!Handle(s) \/ Server!Abandon(s)
      PROVE  /\ \A c \in Op : command[c] # "unused" => command'[c] # "unused"
             /\ \A c \in ControlOp :
                  kind'[c] = kind[c] /\ (command[c] = "unused" => command'[c] = "unused")
             /\ \A t \in Slot : \A c \in response'[t].commands :
                  c \in response[t].commands \/ command[c] # "unused"
  <2>1. ASSUME NEW c \in response'[s].commands
        PROVE  c \in response[s].commands \/ command[c] # "unused"
    <3>1. CASE Server!Abandon(s) \/ Server!RejectRevisionAhead(s)
      BY <2>1, <3>1, CloseEffect DEF Server!NoResponse
    <3>2. CASE Server!ReceiveHeartbeat(s)
      BY <1>0, <2>1, <3>2 DEF Server!ReceiveHeartbeat
    <3>3. CASE Server!Answer(s)
      BY <1>0, <2>1, <3>3 DEF Server!Answer, Server!LoadControl, Server!LoadPolicyRevision,
         Server!LoadPolicyQuota, Server!LoadPolicyRoutines, Server!LoadPolicyDays,
         Server!ConfirmRevision,
         Server!ConfirmQuota, Server!ConfirmBalance, Server!LoadPendingCommands,
         Server!OfferCommands, Server!Response
    <3>4. QED BY <1>5, <3>1, <3>2, <3>3 DEF Server!Handle, Server!UnknownDay
  <2>2. QED BY <1>5, <2>1, HandlerEffect, HandlerCommands DEF Op
<1>6. ASSUME NEW s \in Slot, DeliverAnswer(s) PROVE OfferInv'
  <2>1. answer'.commands = response[s].commands
    BY <1>6 DEF DeliverAnswer, Agent!Receive, AnswerOf
  <2>2. QED BY <1>1, <1>5, <1>6, <2>1 DEF DeliverAnswer, OfferInv
<1>7. ASSUME NEW s \in Slot, Server!Handle(s) \/ Server!Abandon(s), UNCHANGED <<phase, answer>>
      PROVE  OfferInv'
  BY <1>1, <1>2, <1>5, <1>7 DEF Applying
<1>8. CASE ApplyAnswer
  <2>1. Applying' => answer'.commands \subseteq answer.commands
    <3>1. answer \in Agent!Answer BY <1>8, ApplyEffect DEF Applying, Types, Agent!TypeOK
    <3>2. QED
      BY <1>8, <3>1
         DEF ApplyAnswer, AgentStep, Applying, Agent!Apply, Agent!AcknowledgeEvent,
             Agent!ForgetAppliedCommandIDs, Agent!ReplacePolicy, Agent!SaveConfirmedSessionState,
             Agent!ApplyRemoteBonus, Agent!Finish, Agent!Refuse, Agent!Fail, Agent!EndHeartbeat,
             Agent!StageControlEffect, Agent!Taken, Agent!client, Agent!Answer
  <2>2. QED BY <1>1, <1>2, <1>8, <2>1, ApplyEffect DEF serverVars
<1>9. CASE (Agent!Cycle \/ Agent!AbortCycle \/ Agent!Environment) /\ UNCHANGED serverVars
  <2>1. UNCHANGED <<phase, answer>> BY <1>9, DaemonEffect
  <2>2. QED BY <1>1, <1>2, <1>9, <2>1 DEF serverVars, Applying
<1>10. ASSUME NEW b \in LocalBonus, AgentStep(Agent!AddBonusWithEvent(b)) PROVE OfferInv'
  BY <1>1, <1>2, <1>10 DEF AgentStep, Agent!AddBonusWithEvent, serverVars, Agent!client, Applying
<1>11. CASE Timeout \/ Crash
  <2>1. ~ Applying' BY <1>11, InterruptionEffect DEF Applying
  <2>2. CASE UNCHANGED serverVars BY <1>1, <2>1, <2>2 DEF serverVars
  <2>3. ASSUME NEW s \in Slot, Server!Abandon(s) PROVE OfferInv'
    BY <1>1, <1>5, <2>1, <2>3
  <2>4. QED BY <1>11, <2>2, <2>3, InterruptionEffect
<1>12. CASE UNCHANGED vars BY <1>1, <1>2, <1>12 DEF vars, serverVars, agentVars, Applying
<1>13. QED
  BY <1>3, <1>4, <1>6, <1>7, <1>8, <1>9, <1>10, <1>11, <1>12
     DEF Next, ServerStep, AgentStep, DropOrphan, Move, agentVars

-----------------------------------------------------------------------------
(* Acknowledgements and events. *)

\* An acknowledgement is only recorded, under way or booked for a bonus whose row
\* is on the computer.
AckInv ==
  \A b \in RemoteBonus :
    /\ command[b] = "acked" \/ b \in applied => localLedger[b] # None
    /\ \A s \in Slot : Going(s) /\ b \in request[s].acks => localLedger[b] # None

\* Every bonus of the computer has its event from the beginning, an event carries
\* the day of its row wherever it is, and when its exchange has passed the
\* transaction the server has it.
EventInv ==
  /\ \A b \in LocalBonus :
       /\ event[b] = "none" <=> localLedger[b] = None
       /\ event[b] = "sent" => ledger[b] # None
       /\ ledger[b] # None => ledger[b] = localLedger[b]
  /\ \A s \in Slot : Going(s) => \A e \in request[s].events :
       /\ localLedger[e.id] = e.day
       /\ stage[s] # "sent" => ledger[e.id] # None
  /\ phase # "idle" => \A e \in sent.events :
       /\ localLedger[e.id] = e.day
       /\ Applying => ledger[e.id] # None

\* Bonus b is in the request of the present heartbeat, or was acknowledged before.
Carried(b) == event[b] = "sent" \/ \E e \in sent.events : e.id = b

\* No late exchange brings the server a bonus that the present one does not carry.
CarriedInv ==
  phase # "idle" =>
    /\ \A s \in Slot : Going(s) => \A e \in request[s].events : Carried(e.id)
    /\ \A b \in LocalBonus : ledger[b] # None => Carried(b)

\* The events of a request are bonuses of the computer, each with a date.
LEMMA EventFields ==
  ASSUME Types
  PROVE  /\ \A s \in Slot : Going(s) =>
              /\ request[s].day \in Day /\ request[s].acks \subseteq Op
              /\ \A e \in request[s].events : e.id \in LocalBonus /\ e.day \in Day
         /\ phase # "idle" => \A e \in sent.events : e.id \in LocalBonus /\ e.day \in Day
         /\ None \notin Day
<1>1. \A s \in Slot : Going(s) => request[s] \in Server!Request
  BY DEF Types, Server!TypeOK, Going
<1>2. phase # "idle" => sent \in Agent!Request BY DEF Types, Agent!TypeOK
<1>3. None \notin Day BY SystemAssumption
<1>4. QED
  BY <1>1, <1>2, <1>3 DEF Server!Request, Server!Event, Agent!Request, Agent!Event, Op, Server!Op

\* The client writes bonus rows only for commands, and each row once.
LEMMA ApplyRows ==
  ASSUME Types, ApplyAnswer
  PROVE  /\ \A b \in LocalBonus : localLedger'[b] = localLedger[b]
         /\ \A b \in RemoteBonus :
              /\ localLedger[b] # None => localLedger'[b] = localLedger[b]
              /\ b \in applied' => b \in applied \/ localLedger'[b] # None
              /\ localLedger'[b] # localLedger[b] =>
                   /\ phase = "commands" /\ b \in answer.commands
                   /\ localLedger' = [localLedger EXCEPT ![b] = sent.day]
                   /\ UNCHANGED event
         /\ \/ event' = event
            \/ /\ localLedger' = localLedger
               /\ \E e \in sent.events :
                    event[e.id] = "pending" /\ event' = [event EXCEPT ![e.id] = "sent"]
<1>1. localLedger \in [Agent!Bonus -> Day \cup {None}] /\ (phase # "idle" => sent.day \in Day)
  BY DEF Types, Agent!TypeOK, Agent!Request
<1>2. RemoteBonus \cap LocalBonus = {} /\ RemoteBonus \cap ControlOp = {} /\ None \notin Day
  BY SystemAssumption
<1>3. ASSUME NEW b \in RemoteBonus, Agent!ApplyRemoteBonus(b)
      PROVE  /\ UNCHANGED event /\ phase = "commands" /\ b \in answer.commands
             /\ applied' = applied \cup {b}
             /\ \/ b \notin applied /\ localLedger[b] = None
                   /\ localLedger' = [localLedger EXCEPT ![b] = sent.day]
                \/ localLedger' = localLedger /\ (b \in applied \/ localLedger[b] # None)
  BY <1>3 DEF Agent!ApplyRemoteBonus, Agent!Taken
<1>4. ASSUME NEW b \in RemoteBonus, Agent!ApplyRemoteBonus(b)
      PROVE  /\ \A a \in LocalBonus : localLedger'[a] = localLedger[a]
             /\ \A a \in RemoteBonus :
                  /\ localLedger[a] # None => localLedger'[a] = localLedger[a]
                  /\ a \in applied' => a \in applied \/ localLedger'[a] # None
                  /\ localLedger'[a] # localLedger[a] =>
                       /\ phase = "commands" /\ a \in answer.commands
                       /\ localLedger' = [localLedger EXCEPT ![a] = sent.day]
                       /\ UNCHANGED event
             /\ UNCHANGED event
  BY <1>1, <1>2, <1>3, <1>4 DEF Agent!Bonus
<1>5. ASSUME NEW e \in Agent!PendingEvent, Agent!AcknowledgeEvent(e)
      PROVE  /\ localLedger' = localLedger /\ applied' = applied
             /\ \E d \in sent.events : event[d.id] = "pending"
                  /\ event' = [event EXCEPT ![d.id] = "sent"]
  BY <1>5 DEF Agent!AcknowledgeEvent
<1>6. CASE \/ Agent!ForgetAppliedCommandIDs \/ Agent!ReplacePolicy
           \/ Agent!SaveConfirmedSessionState \/ Agent!Finish \/ Agent!Refuse
           \/ \E c \in ControlOp : Agent!StageControlEffect(c, kind[c])
  <2>1. UNCHANGED <<event, localLedger>> /\ applied' \subseteq applied
    BY <1>6
       DEF Agent!ForgetAppliedCommandIDs, Agent!ReplacePolicy, Agent!SaveConfirmedSessionState,
         Agent!Finish, Agent!Refuse, Agent!Fail, Agent!StageControlEffect, Agent!tables
  <2>2. QED BY <2>1
<1>7. QED BY <1>4, <1>5, <1>6 DEF ApplyAnswer, AgentStep, Agent!Apply

\* A bonus granted at the computer gets its row and its event together.
LEMMA GrantRows ==
  ASSUME Types, NEW b \in LocalBonus, AgentStep(Agent!AddBonusWithEvent(b))
  PROVE  /\ localLedger[b] = None /\ day \in Day
         /\ localLedger' = [localLedger EXCEPT ![b] = day]
         /\ event' = [event EXCEPT ![b] = "pending"]
         /\ UNCHANGED <<serverVars, current, phase, sent, answer, localPolicy, applied, effect,
              remote>>
  BY DEF AgentStep, Agent!AddBonusWithEvent, Agent!client, Types, Agent!TypeOK

LEMMA AckStep ==
  ASSUME Types, WaitInv, AckInv, [Next]_vars
  PROVE  AckInv'
<1>0. /\ localLedger \in [Agent!Bonus -> Day \cup {None}]
      /\ RemoteBonus \cap LocalBonus = {} /\ RemoteBonus \subseteq Op
  BY SystemAssumption DEF Types, Agent!TypeOK, Op
<1>1. ASSUME \A b \in RemoteBonus :
               /\ localLedger[b] # None => localLedger'[b] # None
               /\ command'[b] = "acked" => command[b] = "acked" \/ localLedger[b] # None
               /\ b \in applied' => b \in applied \/ localLedger'[b] # None,
             \A s \in Slot : Going(s)' =>
               (Going(s) /\ request'[s] = request[s]) \/ request'[s].acks = applied
      PROVE  AckInv'
  BY <1>1 DEF AckInv
<1>2. CASE Server!Administer /\ UNCHANGED agentVars
  BY <1>1, <1>2, AdministerEffect DEF agentVars, Going
<1>3. ASSUME NEW s \in Slot, SendHeartbeat(s) PROVE AckInv'
  <2>1. request'[s].acks = applied BY <1>3, SendEffect DEF Agent!NextRequest
  <2>2. UNCHANGED <<localLedger, command, applied>> BY <1>3, SendEffect DEF ServerTables
  <2>3. \A t \in Slot \ {s} : stage'[t] = stage[t] /\ request'[t] = request[t]
    BY <1>3, SendEffect
  <2>4. QED BY <1>1, <2>1, <2>2, <2>3 DEF Going
<1>4. ASSUME NEW s \in Slot, Server!Handle(s) \/ Server!Abandon(s),
             UNCHANGED <<localLedger, applied>>
      PROVE  AckInv'
  <2>1. \A b \in RemoteBonus : command'[b] = "acked"
          => command[b] = "acked" \/ localLedger[b] # None
    BY <1>0, <1>4, HandlerCommands, HandlerEffect DEF AckInv
  <2>2. \A t \in Slot : Going(t)' => Going(t) /\ request'[t] = request[t]
    BY <1>4, HandlerEffect DEF Going
  <2>3. QED BY <1>1, <1>4, <2>1, <2>2
<1>5. ASSUME NEW s \in Slot, DeliverAnswer(s) PROVE AckInv'
  BY <1>4, <1>5 DEF DeliverAnswer, Agent!Receive, Agent!tables
<1>6. CASE ApplyAnswer
  BY <1>1, <1>6, ApplyRows, ApplyEffect DEF serverVars, Going
<1>7. CASE (Agent!Cycle \/ Agent!AbortCycle \/ Agent!Environment) /\ UNCHANGED serverVars
  BY <1>1, <1>7, DaemonEffect DEF serverVars, Going
<1>8. ASSUME NEW b \in LocalBonus, AgentStep(Agent!AddBonusWithEvent(b)) PROVE AckInv'
  <2>1. \A a \in RemoteBonus : localLedger'[a] = localLedger[a]
    BY <1>0, <1>8, GrantRows DEF Agent!Bonus
  <2>2. UNCHANGED <<command, applied, stage, request>> BY <1>8, GrantRows DEF serverVars
  <2>3. QED BY <1>1, <2>1, <2>2 DEF Going
<1>9. CASE Timeout \/ Crash
  <2>1. UNCHANGED <<localLedger, applied>> BY <1>9, InterruptionEffect
  <2>2. CASE UNCHANGED serverVars BY <1>1, <2>1, <2>2 DEF serverVars, Going
  <2>3. QED BY <1>4, <1>9, <2>1, <2>2, InterruptionEffect
<1>10. CASE UNCHANGED vars BY <1>1, <1>10 DEF vars, serverVars, agentVars, Going
<1>11. QED
  BY <1>2, <1>3, <1>4, <1>5, <1>6, <1>7, <1>8, <1>9, <1>10
     DEF Next, ServerStep, AgentStep, DropOrphan, Move, agentVars

\* What the transaction of a heartbeat books: the events of its request.
LEMMA ReceiveBooks ==
  ASSUME Types, EventInv, NEW s \in Slot, Server!ReceiveHeartbeat(s)
  PROVE  /\ \A b \in LocalBonus :
              \/ ledger'[b] = ledger[b]
              \/ /\ ledger[b] = None /\ ledger'[b] = localLedger[b]
                 /\ \E e \in request[s].events : e.id = b
         /\ \A e \in request[s].events : ledger'[e.id] # None
         /\ \A b \in Agent!Bonus : ledger[b] # None => ledger'[b] = ledger[b]
<1> DEFINE r == request[s]
           Of(b) == CHOOSE e \in r.events : e.id = b
<1>1. Going(s) /\ ledger' = Server!LedgerAfter(r) BY DEF Server!ReceiveHeartbeat, Going
<1>2. /\ \A e \in r.events : e.id \in LocalBonus /\ e.day \in Day /\ localLedger[e.id] = e.day
      /\ None \notin Day
  BY <1>1, EventFields DEF EventInv
<1>3. ASSUME NEW b \in LocalBonus, NEW e \in r.events, e.id = b
      PROVE  Of(b) \in r.events /\ Of(b).id = b
  BY <1>3
<1>4. ASSUME NEW b \in LocalBonus, \E e \in r.events : e.id = b
      PROVE  Of(b).day = localLedger[b] /\ Of(b).day \in Day
  BY <1>2, <1>3, <1>4
<1>5. RemoteBonus \cap LocalBonus = {} /\ LocalBonus \subseteq Server!Bonus
      /\ Server!Bonus = Agent!Bonus
  BY SystemAssumption DEF Server!Bonus, Agent!Bonus
<1>6. \A b \in LocalBonus :
        ledger'[b] = IF ledger[b] # None THEN ledger[b]
                     ELSE IF \E e \in r.events : e.id = b THEN Of(b).day ELSE None
  BY <1>1, <1>5 DEF Server!LedgerAfter
<1>7. \A b \in Agent!Bonus : ledger[b] # None => ledger'[b] = ledger[b]
  BY <1>1, <1>5 DEF Server!LedgerAfter
<1>8. QED BY <1>2, <1>4, <1>6, <1>7

LEMMA EventStep ==
  ASSUME Types, WaitInv, EventInv, [Next]_vars
  PROVE  EventInv'
<1>0. /\ localLedger \in [Agent!Bonus -> Day \cup {None}]
      /\ event \in [LocalBonus -> {"none", "pending", "sent"}]
      /\ RemoteBonus \cap LocalBonus = {} /\ LocalBonus \subseteq Agent!Bonus
  BY SystemAssumption DEF Types, Agent!TypeOK, Agent!Bonus
\* The messages, when they only go on and what they speak of stays.
<1>1. ASSUME \A b \in LocalBonus : localLedger'[b] = localLedger[b],
             \A b \in LocalBonus : event'[b] = event[b]
               \/ (event[b] = "pending" /\ event'[b] = "sent" /\ ledger[b] # None),
             \A b \in LocalBonus : ledger'[b] = ledger[b],
             \A s \in Slot : Going(s)' =>
               Going(s) /\ request'[s] = request[s] /\ (stage'[s] # "sent" => stage[s] # "sent"),
             phase' # "idle" => phase # "idle" /\ sent' = sent /\ (Applying' => Applying)
      PROVE  EventInv'
  <2>1. \A s \in Slot : Going(s)' => \A e \in request'[s].events :
          /\ localLedger'[e.id] = e.day
          /\ stage'[s] # "sent" => ledger'[e.id] # None
    BY <1>1, EventFields DEF EventInv
  <2>2. phase' # "idle" => \A e \in sent'.events :
          /\ localLedger'[e.id] = e.day
          /\ Applying' => ledger'[e.id] # None
    BY <1>1, EventFields DEF EventInv
  <2>3. \A b \in LocalBonus :
          /\ event'[b] = "none" <=> localLedger'[b] = None
          /\ event'[b] = "sent" => ledger'[b] # None
          /\ ledger'[b] # None => ledger'[b] = localLedger'[b]
    BY <1>1 DEF EventInv
  <2>4. QED BY <2>1, <2>2, <2>3 DEF EventInv
<1>2. CASE Server!Administer /\ UNCHANGED agentVars
  BY <1>1, <1>2, AdministerEffect DEF agentVars, Going, Applying
<1>3. ASSUME NEW s \in Slot, SendHeartbeat(s) PROVE EventInv'
  <2>1. \A e \in Agent!PendingEvent : localLedger[e.id] = e.day BY DEF Agent!PendingEvent
  <2>2. request'[s].events = Agent!PendingEvent /\ sent'.events = Agent!PendingEvent
    BY <1>3, SendEffect DEF Agent!NextRequest
  <2>3. UNCHANGED <<event, localLedger, ledger>> BY <1>3, SendEffect DEF ServerTables
  <2>4. QED BY <1>3, <2>1, <2>2, <2>3, SendEffect DEF EventInv, Going, Applying
<1>4. ASSUME NEW s \in Slot, Server!Handle(s) \/ Server!Abandon(s),
             UNCHANGED <<event, localLedger>>,
             phase' # "idle" => phase # "idle" /\ sent' = sent /\ (Applying' => Applying)
      PROVE  EventInv'
  <2>1. CASE Server!Abandon(s) \/ Server!RejectRevisionAhead(s)
    BY <1>1, <1>4, <2>1, CloseEffect, HandlerEffect DEF ServerTables, Going
  <2>2. CASE Server!Answer(s)
    <3>1. Going(s) /\ stage[s] # "sent" BY <2>2, AnswerEffect DEF Going
    <3>2. UNCHANGED <<ledger, request>> /\ \A t \in Slot \ {s} : stage'[t] = stage[t]
      BY <2>2, AnswerEffect DEF ServerTables
    <3>3. QED BY <1>1, <1>4, <3>1, <3>2 DEF Going
  <2>3. CASE Server!ReceiveHeartbeat(s)
    <3>1. /\ \A b \in LocalBonus :
               ledger'[b] = ledger[b] \/ (ledger[b] = None /\ ledger'[b] = localLedger[b])
          /\ \A b \in LocalBonus : ledger[b] # None => ledger'[b] = ledger[b]
          /\ \A e \in request[s].events : ledger'[e.id] # None
      BY <2>3, ReceiveBooks DEF Agent!Bonus
    <3>2. \A t \in Slot : Going(t)' =>
            Going(t) /\ request'[t] = request[t] /\ (t # s => stage'[t] = stage[t])
      BY <1>4, HandlerEffect DEF Going
    <3>3. \A t \in Slot : Going(t)' => \A e \in request'[t].events :
            /\ localLedger'[e.id] = e.day
            /\ stage'[t] # "sent" => ledger'[e.id] # None
      BY <1>4, <3>1, <3>2, EventFields DEF EventInv
    <3>4. phase' # "idle" => \A e \in sent'.events :
            /\ localLedger'[e.id] = e.day
            /\ Applying' => ledger'[e.id] # None
      BY <1>4, <3>1, EventFields DEF EventInv
    <3>5. \A b \in LocalBonus :
            /\ event'[b] = "none" <=> localLedger'[b] = None
            /\ event'[b] = "sent" => ledger'[b] # None
            /\ ledger'[b] # None => ledger'[b] = localLedger'[b]
      BY <1>4, <3>1 DEF EventInv
    <3>6. QED BY <3>3, <3>4, <3>5 DEF EventInv
  <2>4. QED BY <1>4, <2>1, <2>2, <2>3 DEF Server!Handle, Server!UnknownDay
<1>5. ASSUME NEW s \in Slot, DeliverAnswer(s) PROVE EventInv'
  <2>1. request[s] = sent /\ stage[s] = "answered" /\ phase = "waiting"
    BY <1>5 DEF DeliverAnswer, Agent!Receive, WaitInv, Going
  <2>2. \A e \in sent.events : ledger[e.id] # None /\ localLedger[e.id] = e.day
    BY <2>1 DEF EventInv, Going
  <2>3. UNCHANGED <<ledger, event, localLedger, sent>>
    BY <1>5, CloseEffect DEF DeliverAnswer, Agent!Receive, Agent!tables, ServerTables
  <2>4. \A t \in Slot : Going(t)' => Going(t) /\ request'[t] = request[t] /\ stage'[t] = stage[t]
    BY <1>5, HandlerEffect, CloseEffect DEF DeliverAnswer, Going
  <2>5. QED BY <2>2, <2>3, <2>4 DEF EventInv
<1>6. CASE ApplyAnswer
  <2>1. Applying /\ phase # "idle" BY <1>6, ApplyEffect DEF Applying
  <2>2. \A e \in sent.events : e.id \in LocalBonus /\ ledger[e.id] # None
    BY <2>1, EventFields DEF EventInv
  <2>3. \A b \in LocalBonus : localLedger'[b] = localLedger[b] BY <1>6, ApplyRows
  <2>4. \A b \in LocalBonus : event'[b] = event[b]
          \/ (event[b] = "pending" /\ event'[b] = "sent" /\ ledger[b] # None)
    BY <1>0, <1>6, <2>2, ApplyRows
  <2>5. QED BY <1>1, <1>6, <2>1, <2>3, <2>4, ApplyEffect DEF serverVars, Going
<1>7. CASE (Agent!Cycle \/ Agent!AbortCycle \/ Agent!Environment) /\ UNCHANGED serverVars
  BY <1>1, <1>7, DaemonEffect DEF serverVars, Going, Applying
<1>8. ASSUME NEW b \in LocalBonus, AgentStep(Agent!AddBonusWithEvent(b)) PROVE EventInv'
  <2>1. /\ localLedger[b] = None /\ localLedger'[b] = day /\ day \in Day /\ event'[b] = "pending"
        /\ \A a \in LocalBonus \ {b} : localLedger'[a] = localLedger[a] /\ event'[a] = event[a]
        /\ UNCHANGED <<ledger, stage, request, phase, sent>>
    BY <1>0, <1>8, GrantRows DEF serverVars
  <2>2. \A s \in Slot : Going(s) => \A e \in request[s].events : e.id # b
    BY <2>1, EventFields DEF EventInv
  <2>3. phase # "idle" => \A e \in sent.events : e.id # b BY <2>1, EventFields DEF EventInv
  <2>4. \A s \in Slot : Going(s)' => \A e \in request'[s].events :
          /\ localLedger'[e.id] = e.day
          /\ stage'[s] # "sent" => ledger'[e.id] # None
    BY <2>1, <2>2, EventFields DEF EventInv, Going
  <2>5. phase' # "idle" => \A e \in sent'.events :
          /\ localLedger'[e.id] = e.day
          /\ Applying' => ledger'[e.id] # None
    BY <2>1, <2>3, EventFields DEF EventInv, Applying
  <2>6. \A a \in LocalBonus :
          /\ event'[a] = "none" <=> localLedger'[a] = None
          /\ event'[a] = "sent" => ledger'[a] # None
          /\ ledger'[a] # None => ledger'[a] = localLedger'[a]
    BY <2>1, EventFields DEF EventInv
  <2>7. QED BY <2>4, <2>5, <2>6 DEF EventInv
<1>9. CASE Timeout \/ Crash
  <2>1. UNCHANGED <<localLedger, event>> /\ phase' = "idle" BY <1>9, InterruptionEffect
  <2>2. CASE UNCHANGED serverVars BY <1>1, <2>1, <2>2 DEF serverVars, Going
  <2>3. QED BY <1>4, <1>9, <2>1, <2>2, InterruptionEffect
<1>10. CASE UNCHANGED vars BY <1>1, <1>10 DEF vars, serverVars, agentVars, Going, Applying
<1>11. QED
  BY <1>2, <1>3, <1>4, <1>5, <1>6, <1>7, <1>8, <1>9, <1>10
     DEF Next, ServerStep, AgentStep, DropOrphan, Move, agentVars, Applying

LEMMA CarriedStep ==
  ASSUME Types, WaitInv, EventInv, CarriedInv, [Next]_vars
  PROVE  CarriedInv'
<1>0. /\ localLedger \in [Agent!Bonus -> Day \cup {None}]
      /\ event \in [LocalBonus -> {"none", "pending", "sent"}]
  BY DEF Types, Agent!TypeOK
<1>1. ASSUME phase' # "idle" => phase # "idle" /\ sent' = sent,
             \A b \in LocalBonus : event[b] = "sent" => event'[b] = "sent",
             \A s \in Slot : Going(s)' => Going(s) /\ request'[s] = request[s],
             \A b \in LocalBonus :
               \/ ledger'[b] = ledger[b]
               \/ \E s \in Slot : Going(s) /\ \E e \in request[s].events : e.id = b
      PROVE  CarriedInv'
  BY <1>1, EventFields DEF CarriedInv, Carried
<1>2. CASE Server!Administer /\ UNCHANGED agentVars
  BY <1>1, <1>2, AdministerEffect DEF agentVars, Going
<1>3. ASSUME NEW s \in Slot, SendHeartbeat(s) PROVE CarriedInv'
  <2>1. ASSUME NEW b \in LocalBonus, localLedger[b] # None PROVE Carried(b)'
    <3>1. sent'.events = Agent!PendingEvent /\ UNCHANGED event
      BY <1>3, SendEffect DEF Agent!NextRequest
    <3>2. CASE event[b] = "sent" BY <3>1, <3>2 DEF Carried
    <3>3. CASE event[b] = "pending"
      <4>1. localLedger[b] \in Day BY <1>0, <2>1 DEF Agent!Bonus
      <4>2. [id |-> b, day |-> localLedger[b]] \in Agent!PendingEvent
        BY <3>3, <4>1 DEF Agent!PendingEvent
      <4>3. QED BY <3>1, <4>2 DEF Carried
    <3>4. QED BY <1>0, <2>1, <3>2, <3>3 DEF EventInv
  <2>2. \A t \in Slot : Going(t)'
          => \A e \in request'[t].events : e.id \in LocalBonus /\ localLedger[e.id] # None
    <3>1. \A e \in Agent!PendingEvent : e.id \in LocalBonus /\ e.day \in Day
            /\ localLedger[e.id] = e.day
      BY DEF Agent!PendingEvent
    <3>2. \A e \in request'[s].events : e.id \in LocalBonus /\ localLedger[e.id] # None
      BY <1>3, <3>1, SendEffect, EventFields DEF Agent!NextRequest
    <3>3. \A t \in Slot \ {s} : stage'[t] = stage[t] /\ request'[t] = request[t]
      BY <1>3, SendEffect
    <3>4. QED BY <3>2, <3>3, EventFields DEF EventInv, Going
  <2>3. \A b \in LocalBonus : ledger'[b] # None => localLedger[b] # None
    BY <1>3, SendEffect DEF ServerTables, EventInv
  <2>4. QED BY <2>1, <2>2, <2>3 DEF CarriedInv
<1>4. ASSUME NEW s \in Slot, Server!Handle(s) \/ Server!Abandon(s), UNCHANGED event,
             phase' # "idle" => phase # "idle" /\ sent' = sent
      PROVE  CarriedInv'
  <2>1. \A t \in Slot : Going(t)' => Going(t) /\ request'[t] = request[t]
    BY <1>4, HandlerEffect DEF Going
  <2>2. \A b \in LocalBonus :
          \/ ledger'[b] = ledger[b]
          \/ Going(s) /\ \E e \in request[s].events : e.id = b
    <3>1. CASE Server!Abandon(s) \/ Server!RejectRevisionAhead(s)
      BY <3>1, CloseEffect DEF ServerTables
    <3>2. CASE Server!Answer(s) BY <3>2, AnswerEffect DEF ServerTables
    <3>3. CASE Server!ReceiveHeartbeat(s)
      BY <3>3, ReceiveBooks DEF Server!ReceiveHeartbeat, Going
    <3>4. QED BY <1>4, <3>1, <3>2, <3>3 DEF Server!Handle, Server!UnknownDay
  <2>3. QED BY <1>1, <1>4, <2>1, <2>2
<1>5. ASSUME NEW s \in Slot, DeliverAnswer(s) PROVE CarriedInv'
  BY <1>4, <1>5 DEF DeliverAnswer, Agent!Receive, Agent!tables
<1>6. CASE ApplyAnswer
  <2>1. phase # "idle" BY <1>6, ApplyEffect DEF Applying
  <2>2. \A b \in LocalBonus : event[b] = "sent" => event'[b] = "sent"
    BY <1>0, <1>6, <2>1, ApplyRows, EventFields
  <2>3. QED BY <1>1, <1>6, <2>1, <2>2, ApplyEffect DEF serverVars, Going
<1>7. CASE (Agent!Cycle \/ Agent!AbortCycle \/ Agent!Environment) /\ UNCHANGED serverVars
  BY <1>1, <1>7, DaemonEffect DEF serverVars, Going
<1>8. ASSUME NEW b \in LocalBonus, AgentStep(Agent!AddBonusWithEvent(b)) PROVE CarriedInv'
  <2>1. event[b] = "none" BY <1>8, GrantRows DEF EventInv
  <2>2. \A a \in LocalBonus : event[a] = "sent" => event'[a] = "sent"
    BY <1>0, <1>8, <2>1, GrantRows
  <2>3. QED BY <1>1, <1>8, <2>2, GrantRows DEF serverVars, Going
<1>9. CASE Timeout \/ Crash
  BY <1>9, InterruptionEffect DEF CarriedInv
<1>10. CASE UNCHANGED vars BY <1>1, <1>10 DEF vars, serverVars, agentVars, Going
<1>11. QED
  BY <1>2, <1>3, <1>4, <1>5, <1>6, <1>7, <1>8, <1>9, <1>10
     DEF Next, ServerStep, AgentStep, DropOrphan, Move, agentVars

-----------------------------------------------------------------------------
(* The refinement of Credit. *)

LEMMA CreditAdministers ==
  ASSUME Types, Server!Administer, UNCHANGED agentVars
  PROVE  [Ledgers!Next]_(Ledgers!vars)
<1>0. /\ command \in [Op -> {"unused", "pending", "acked", "superseded"}]
      /\ RemoteBonus \cap ControlOp = {} /\ RemoteBonus \subseteq Op
      /\ RemoteBonus \cap LocalBonus = {}
  BY SystemAssumption DEF Types, Server!TypeOK, Op, Server!Op
<1>1. UNCHANGED <<event, localLedger, ledger>> BY AdministerEffect DEF agentVars
<1>2. ASSUME \A b \in RemoteBonus : command'[b] = command[b] PROVE UNCHANGED Ledgers!vars
  BY <1>1, <1>2 DEF Ledgers!vars, Granted, Settled
<1>3. ASSUME NEW b \in RemoteBonus, Server!QueueRemoteBonus(b) PROVE Ledgers!Next
  <2>1. command[b] = "unused" /\ command' = [command EXCEPT ![b] = "pending"]
    BY <1>3 DEF Server!QueueRemoteBonus
  <2>2. /\ command'[b] = "pending"
        /\ \A a \in RemoteBonus \ {b} : command'[a] = command[a]
    BY <1>0, <2>1
  <2>3. b \notin Granted /\ Granted' = Granted \cup {b} /\ Settled' = Settled
    BY <1>0, <1>1, <2>1, <2>2 DEF Granted, Settled
  <2>4. Ledgers!GrantOnPage(b) BY <1>1, <2>3 DEF Ledgers!GrantOnPage
  <2>5. QED BY <2>4 DEF Ledgers!Next, Ledgers!Bonus
<1>4. ASSUME NEW k \in Server!ControlKind, Server!QueueControlOperation(k)
      PROVE  \A b \in RemoteBonus : command'[b] = command[b]
  BY <1>0, <1>4
     DEF Server!QueueControlOperation, Server!Superseded, Server!PendingControl, Op, Server!Op
<1>5. CASE \/ \E q \in Quota : Server!SaveQuotas(q)
           \/ \E r \in Routines : Server!SaveRoutine(r)
           \/ Server!DeleteRoutine
           \/ Server!SetLocalPassword
           \/ \E old \in SUBSET (Server!Op \cup LocalBonus) :
                Server!CleanupExpiredCompletedActivities(old)
  BY <1>2, <1>5
     DEF Server!SaveQuotas, Server!SaveRoutine, Server!DeleteRoutine, Server!SetLocalPassword,
         Server!CleanupExpiredCompletedActivities
<1>6. QED BY <1>2, <1>3, <1>4, <1>5 DEF Server!Administer

\* The transaction of a heartbeat books what its request names and settles the
\* acknowledged bonuses of the page, each of them on the computer and booked here
\* by the same transaction at the latest.
LEMMA CreditReceives ==
  ASSUME Types, AckInv, EventInv, Types', NEW s \in Slot, Server!ReceiveHeartbeat(s),
         UNCHANGED agentVars
  PROVE  Ledgers!Receive
<1> DEFINE r == request[s]
           known == { b \in RemoteBonus : command[b] = "pending" /\ b \in r.acks }
<1>0. /\ RemoteBonus \cap ControlOp = {} /\ RemoteBonus \subseteq Op
      /\ RemoteBonus \cap LocalBonus = {} /\ None \notin Day
      /\ Ledgers!Bonus = RemoteBonus \cup LocalBonus
           /\ Server!Bonus = RemoteBonus \cup LocalBonus
      /\ Agent!Bonus = RemoteBonus \cup LocalBonus
  BY SystemAssumption DEF Op, Ledgers!Bonus, Server!Bonus, Agent!Bonus
<1>1. Going(s) /\ ledger' = Server!LedgerAfter(r) /\ command' = Server!CommandAfter(r)
  BY DEF Server!ReceiveHeartbeat, Going
<1>2. r.day \in Day BY <1>1, EventFields
<1>3. UNCHANGED <<event, localLedger>> BY DEF agentVars
<1>4. \A b \in RemoteBonus :
        command'[b] = IF b \in r.acks /\ command[b] \in {"pending", "acked"}
                        THEN "acked" ELSE command[b]
  BY <1>0, <1>1 DEF Server!CommandAfter, Server!HasRow, Server!Op, Op
<1>5. Granted' = Granted
  BY <1>3, <1>4 DEF Granted
<1>6. Settled' = Settled \cup known /\ known \in SUBSET (RemoteBonus \ Settled)
  BY <1>0, <1>3, <1>4 DEF Settled
<1>7. ledger' \in [Ledgers!Bonus -> Day \cup {None}]
  BY <1>0 DEF Types, Server!TypeOK
<1>8. \A b \in RemoteBonus :
        ledger'[b] = IF ledger[b] # None THEN ledger[b]
                     ELSE IF command[b] = "pending" THEN r.day
                     ELSE IF \E e \in r.events : e.id = b
                       THEN (CHOOSE e \in r.events : e.id = b).day ELSE None
  BY <1>0, <1>1 DEF Server!LedgerAfter
<1>9. \A e \in r.events : e.id \in LocalBonus BY <1>1, EventFields
<1>10. \A b \in RemoteBonus : ledger'[b] # ledger[b]
         => command[b] = "pending" /\ ledger[b] = None
  BY <1>0, <1>8, <1>9
<1>11. \A b \in known : localLedger[b] # None /\ ledger'[b] # None
  BY <1>0, <1>1, <1>2, <1>8 DEF AckInv
<1>12. \A b \in LocalBonus : ledger'[b] # ledger[b] =>
         event[b] # "none" /\ ledger[b] = None /\ ledger'[b] = localLedger[b]
  <2>1. ASSUME NEW b \in LocalBonus, ledger'[b] # ledger[b]
        PROVE  ledger[b] = None /\ ledger'[b] = localLedger[b] /\ \E e \in r.events : e.id = b
    BY <2>1, ReceiveBooks
  <2>2. \A e \in r.events : ledger'[e.id] # None BY ReceiveBooks
  <2>3. QED BY <2>1, <2>2 DEF EventInv
<1>13. \A b \in Ledgers!Bonus : ledger'[b] # ledger[b] =>
         b \in Granted /\ ledger[b] = None /\ (b \in LocalBonus => ledger'[b] = localLedger[b])
  BY <1>0, <1>10, <1>12 DEF Granted
<1>14. QED BY <1>3, <1>5, <1>6, <1>7, <1>11, <1>13 DEF Ledgers!Receive

LEMMA CreditApplies ==
  ASSUME Types, OfferInv, EventInv, ApplyAnswer
  PROVE  [Ledgers!Next]_(Ledgers!vars)
<1>0. /\ localLedger \in [Agent!Bonus -> Day \cup {None}]
      /\ event \in [LocalBonus -> {"none", "pending", "sent"}]
      /\ RemoteBonus \cap LocalBonus = {} /\ RemoteBonus \subseteq Op
      /\ Agent!Bonus = RemoteBonus \cup LocalBonus /\ Ledgers!Bonus = RemoteBonus \cup LocalBonus
  BY SystemAssumption DEF Types, Agent!TypeOK, Op, Agent!Bonus, Ledgers!Bonus
<1>1. UNCHANGED <<command, ledger>> /\ Applying /\ phase # "idle"
  BY ApplyEffect DEF serverVars, Applying
<1>2. \A e \in sent.events : e.id \in LocalBonus /\ ledger[e.id] # None
  BY <1>1, EventFields DEF EventInv
<1>3. ASSUME NEW b \in RemoteBonus, localLedger'[b] # localLedger[b] PROVE Ledgers!Next
  <2>1. /\ localLedger[b] = None /\ localLedger' = [localLedger EXCEPT ![b] = sent.day]
        /\ UNCHANGED event /\ b \in answer.commands
    BY <1>3, ApplyRows
  <2>2. sent.day \in Day BY <1>1 DEF Types, Agent!TypeOK, Agent!Request
  <2>3. b \in Granted BY <1>0, <1>1, <2>1 DEF OfferInv, Granted
  <2>4. Ledgers!BookAtComputer(b)
    BY <1>1, <2>1, <2>2, <2>3 DEF Ledgers!BookAtComputer, Granted, Settled
  <2>5. QED BY <1>0, <2>4 DEF Ledgers!Next
<1>4. ASSUME NEW e \in sent.events, event[e.id] = "pending",
             event' = [event EXCEPT ![e.id] = "sent"],
             UNCHANGED localLedger
      PROVE  Ledgers!Next
  <2>1. e.id \in LocalBonus /\ ledger[e.id] # None BY <1>2
  <2>2. /\ event'[e.id] = "sent"
        /\ \A b \in LocalBonus \ {e.id} : event'[b] = event[b]
    BY <1>0, <1>4, <2>1
  <2>3. Granted' = Granted /\ Settled' = Settled \cup {e.id} /\ e.id \notin Settled
    BY <1>0, <1>1, <1>4, <2>1, <2>2 DEF Granted, Settled
  <2>4. Ledgers!Acknowledge(e.id) BY <1>1, <1>4, <2>1, <2>3 DEF Ledgers!Acknowledge
  <2>5. QED BY <1>0, <2>1, <2>4 DEF Ledgers!Next
<1>5. CASE UNCHANGED event /\ \A b \in RemoteBonus : localLedger'[b] = localLedger[b]
  <2>1. localLedger' = localLedger
    <3>1. localLedger' = localLedger
            \/ \E b \in RemoteBonus : localLedger' = [localLedger EXCEPT ![b] = sent.day]
      BY DEF ApplyAnswer, AgentStep, Agent!Apply, Agent!AcknowledgeEvent,
         Agent!ForgetAppliedCommandIDs,
             Agent!ReplacePolicy, Agent!SaveConfirmedSessionState, Agent!ApplyRemoteBonus,
             Agent!Finish, Agent!Refuse, Agent!Fail, Agent!StageControlEffect, Agent!tables
    <3>2. QED BY <1>0, <1>5, <3>1
  <2>2. QED BY <1>1, <1>5, <2>1 DEF Ledgers!vars, Granted, Settled
<1>6. QED BY <1>3, <1>4, <1>5, ApplyRows

LEMMA CreditGrants ==
  ASSUME Types, EventInv, NEW b \in LocalBonus, AgentStep(Agent!AddBonusWithEvent(b))
  PROVE  Ledgers!GrantAtComputer(b)
<1>1. /\ event \in [LocalBonus -> {"none", "pending", "sent"}]
           /\ RemoteBonus \cap LocalBonus = {}
  BY SystemAssumption DEF Types, Agent!TypeOK
<1>2. /\ localLedger[b] = None /\ event[b] = "none" /\ UNCHANGED <<command, ledger>>
      /\ localLedger' = [localLedger EXCEPT ![b] = day] /\ day \in Day
      /\ event' = [event EXCEPT ![b] = "pending"]
  BY GrantRows DEF EventInv, serverVars
<1>3. event'[b] = "pending" /\ \A a \in LocalBonus \ {b} : event'[a] = event[a]
  BY <1>1, <1>2
<1>4. b \notin Granted /\ Granted' = Granted \cup {b} /\ Settled' = Settled
  BY <1>1, <1>2, <1>3 DEF Granted, Settled
<1>5. QED BY <1>2, <1>4 DEF Ledgers!GrantAtComputer

LEMMA CreditStep ==
  ASSUME Types, WaitInv, OfferInv, AckInv, EventInv, Types', [Next]_vars
  PROVE  [Ledgers!Next]_(Ledgers!vars)
<1>1. ASSUME UNCHANGED <<command, ledger, event, localLedger>> PROVE UNCHANGED Ledgers!vars
  BY <1>1 DEF Ledgers!vars, Granted, Settled
<1>2. CASE Server!Administer /\ UNCHANGED agentVars BY <1>2, CreditAdministers
<1>3. ASSUME NEW s \in Slot, SendHeartbeat(s) PROVE UNCHANGED Ledgers!vars
  BY <1>1, <1>3, SendEffect DEF ServerTables
<1>4. ASSUME NEW s \in Slot, Server!Abandon(s) \/ Server!RejectRevisionAhead(s)
             \/ Server!Answer(s),
             UNCHANGED <<event, localLedger>>
      PROVE  UNCHANGED Ledgers!vars
  BY <1>1, <1>4, CloseEffect, AnswerEffect DEF ServerTables
<1>5. ASSUME NEW s \in Slot, ServerStep(Server!Handle(s)) PROVE [Ledgers!Next]_(Ledgers!vars)
  BY <1>4, <1>5, CreditReceives
     DEF ServerStep, Server!Handle, Server!UnknownDay, agentVars, Ledgers!Next
<1>6. ASSUME NEW s \in Slot, DeliverAnswer(s) \/ DropOrphan(s) PROVE UNCHANGED Ledgers!vars
  BY <1>4, <1>6 DEF DeliverAnswer, DropOrphan, Agent!Receive, Agent!tables, agentVars
<1>7. CASE ApplyAnswer BY <1>7, CreditApplies
<1>8. CASE (Agent!Cycle \/ Agent!AbortCycle \/ Agent!Environment) /\ UNCHANGED serverVars
  BY <1>1, <1>8, DaemonEffect DEF serverVars
<1>9. ASSUME NEW b \in LocalBonus, AgentStep(Agent!AddBonusWithEvent(b)) PROVE Ledgers!Next
  BY <1>9, CreditGrants DEF Ledgers!Next, Ledgers!Bonus
<1>10. CASE Timeout \/ Crash
  <2>1. UNCHANGED <<event, localLedger>> BY <1>10, InterruptionEffect
  <2>2. CASE UNCHANGED serverVars BY <1>1, <2>1, <2>2 DEF serverVars
  <2>3. QED BY <1>4, <1>10, <2>1, <2>2, InterruptionEffect
<1>11. CASE UNCHANGED vars BY <1>1, <1>11 DEF vars, serverVars, agentVars
<1>12. QED
  BY <1>2, <1>3, <1>5, <1>6, <1>7, <1>8, <1>9, <1>10, <1>11
     DEF Next, ServerStep, AgentStep, Move

-----------------------------------------------------------------------------
(* Documents and clicks. *)

\* Document p does not claim a revision that the server has not reached, and has
\* the newest content if it claims the newest revision.
DocumentOf(p) ==
  /\ p.rev <= policyRev
  /\ p.rev = policyRev => p.quota = quota /\ p.routines = routines /\ p.days = routines

\* Every document on its way, and the one stored, is a document of the server; no
\* request and no report claims more than what is stored on the computer.
PolicyInv ==
  /\ policyRev >= 1
  /\ DocumentOf(localPolicy)
  /\ anchor # None => anchor.rev <= policyRev
  /\ device.applied <= localPolicy.rev
  /\ \A s \in Slot : Going(s) => request[s].policyRev <= localPolicy.rev
  /\ Applying /\ answer.hasPolicy => DocumentOf(answer.policy)
  /\ Applying /\ answer.hasState => answer.state.rev <= policyRev
  /\ Srv!AnswerNotAheadOfPolicy /\ Srv!Reached

\* Control state c is not ahead of the clicks, and is the desired one if it claims
\* the revision of the last click.
ControlOf(c) ==
  /\ c.rev <= control.rev
  /\ c.rev = control.rev => c.paused = control.paused /\ c.blocked = control.blocked

\* The commands of an answer are not older than the control state it carries.
Follows(commands, c) ==
  \A o \in commands \cap ControlOp : c.rev <= o /\ o <= control.rev

ControlInv ==
  /\ control.rev >= 1
  /\ Srv!PendingControlIsDesired
  /\ \A s \in Slot :
       /\ ControlOf(response[s].control)
       /\ stage[s] \in {"idle", "sent", "control"} => response[s].commands = {}
       /\ Follows(response[s].commands, response[s].control)
  /\ Applying => ControlOf(answer.control) /\ Follows(answer.commands, answer.control)
  /\ remote.rev <= control.rev /\ (remote.online => ControlOf(remote))
  /\ effect # None => effect.rev <= effect.id /\ effect.id <= control.rev

\* What an answer leaves in the tables, and that the rest of it stays as it was.
LEMMA ApplyDocuments ==
  ASSUME Types, ApplyAnswer
  PROVE  /\ \/ localPolicy' = localPolicy
            \/ /\ answer.hasPolicy /\ localPolicy' = answer.policy
               /\ answer.policy.rev > localPolicy.rev
         /\ \/ anchor' = anchor
            \/ /\ phase = "state" /\ ~ Agent!InvalidState /\ answer.hasState
               /\ anchor' = Agent!Confirmed(answer.state)
         /\ Applying' =>
              /\ answer'.hasPolicy = answer.hasPolicy /\ answer'.policy = answer.policy
              /\ answer'.hasState = answer.hasState /\ answer'.state = answer.state
              /\ answer'.control = answer.control /\ answer'.commands \subseteq answer.commands
         /\ remote' = remote \/ remote' = Agent!Offline
         /\ \/ effect' = effect
            \/ \E c \in ControlOp \cap answer.commands :
                 effect'.id = c /\ effect'.rev = answer.control.rev
         /\ phase' \in {"events", "policy", "state"} => phase \in {"events", "policy", "state"}
<1>1. answer \in Agent!Answer BY ApplyEffect DEF Types, Agent!TypeOK, Applying
<1>2. CASE \/ \E e \in Agent!PendingEvent : Agent!AcknowledgeEvent(e)
           \/ Agent!ForgetAppliedCommandIDs \/ Agent!ReplacePolicy
           \/ Agent!SaveConfirmedSessionState \/ Agent!Finish \/ Agent!Refuse
  BY <1>2
     DEF Agent!AcknowledgeEvent, Agent!ForgetAppliedCommandIDs, Agent!ReplacePolicy,
         Agent!SaveConfirmedSessionState, Agent!Finish, Agent!Refuse, Agent!Fail,
         Agent!EndHeartbeat, Agent!tables, Agent!client, Applying
<1>3. ASSUME NEW c, Agent!Taken(c)
      PROVE  /\ answer'.hasPolicy = answer.hasPolicy /\ answer'.policy = answer.policy
             /\ answer'.hasState = answer.hasState /\ answer'.state = answer.state
             /\ answer'.control = answer.control /\ answer'.commands \subseteq answer.commands
  BY <1>1, <1>3 DEF Agent!Taken, Agent!Answer
<1>4. ASSUME NEW b \in RemoteBonus, Agent!ApplyRemoteBonus(b)
      PROVE  Agent!Taken(b) /\ phase = "commands"
               /\ UNCHANGED <<localPolicy, anchor, remote, effect, phase>>
  BY <1>4 DEF Agent!ApplyRemoteBonus, Agent!Taken
<1>5. ASSUME NEW c \in ControlOp, Agent!StageControlEffect(c, kind[c])
      PROVE  /\ Agent!Taken(c) /\ phase = "commands" /\ c \in answer.commands
             /\ UNCHANGED <<localPolicy, anchor, remote, phase>>
             /\ effect' = [id |-> c, rev |-> answer.control.rev, kind |-> kind[c]]
  BY <1>5 DEF Agent!StageControlEffect, Agent!Taken
<1>6. QED BY <1>2, <1>3, <1>4, <1>5 DEF ApplyAnswer, AgentStep, Agent!Apply

LEMMA PolicyStep ==
  ASSUME Types, DesktopInv, WaitInv, PolicyInv, Types', [Next]_vars
  PROVE  PolicyInv'
<1>0. /\ policyRev \in Nat /\ localPolicy.rev \in Nat /\ device.applied \in Nat
      /\ anchor # None => anchor.rev \in Nat
      /\ \A s \in Slot : Going(s) => request[s].policyRev \in Nat
      /\ \A s \in Slot : response[s].policy.rev \in Nat /\ response[s].state.rev \in Nat
      /\ Applying => answer.policy.rev \in Nat /\ answer.state.rev \in Nat
  <2>1. \A s \in Slot : response[s] \in Server!Response
          /\ (Going(s) => request[s] \in Server!Request)
    BY DEF Types, Server!TypeOK, Going
  <2>2. Applying => answer \in Agent!Answer BY DEF Types, Agent!TypeOK, Applying
  <2>3. QED
    BY <2>1, <2>2 DEF Types, Server!TypeOK, Agent!TypeOK, Server!Response, Server!Policy,
       Server!State,
           Server!Request, Agent!Policy, Agent!Anchor, Agent!Answer
<1>1. (Srv!AnswerNotAheadOfPolicy /\ Srv!Reached)'
  BY ServerSide, ServerTypes, ServerAssumptions, Srv!PolicyStep DEF Types, PolicyInv
\* The server's row and what is under way, when the agent's tables stay.
<1>2. ASSUME UNCHANGED <<policyRev, quota, routines>> \/ policyRev' = policyRev + 1,
             UNCHANGED <<localPolicy, anchor>>,
             device'.applied <= localPolicy.rev,
             \A s \in Slot : Going(s)' =>
               (Going(s) /\ request'[s] = request[s]) \/ request'[s].policyRev = localPolicy.rev,
             Applying' =>
               /\ Applying
               /\ answer'.hasPolicy = answer.hasPolicy /\ answer'.policy = answer.policy
               /\ answer'.hasState = answer.hasState /\ answer'.state = answer.state
      PROVE  PolicyInv'
  <2>1. policyRev' \in Nat /\ policyRev' >= 1 /\ policyRev' >= policyRev
    BY <1>0, <1>2 DEF PolicyInv
  <2>2. ASSUME NEW p, p.rev \in Nat, DocumentOf(p)
        PROVE  p.rev <= policyRev'
                 /\ (p.rev = policyRev' =>
                       p.quota = quota' /\ p.routines = routines' /\ p.days = routines')
    BY <1>0, <1>2, <2>2 DEF DocumentOf
  <2>3. DocumentOf(localPolicy)'
    BY <1>0, <1>2, <2>2 DEF PolicyInv, DocumentOf
  <2>4. (Applying /\ answer.hasPolicy => DocumentOf(answer.policy))'
    BY <1>0, <1>2, <2>2 DEF PolicyInv, DocumentOf
  <2>5. (Applying /\ answer.hasState => answer.state.rev <= policyRev)'
    <3>1. SUFFICES ASSUME Applying', answer'.hasState PROVE answer'.state.rev <= policyRev'
      OBVIOUS
    <3>2. Applying /\ answer.hasState /\ answer'.state = answer.state BY <1>2, <3>1
    <3>3. answer.state.rev <= policyRev BY <3>2 DEF PolicyInv
    <3>4. answer.state.rev \in Nat BY <1>0, <3>2
    <3>5. answer.state.rev <= policyRev' BY <1>0, <2>1, <3>3, <3>4
    <3>6. QED BY <3>2, <3>5
  <2>6. (anchor # None => anchor.rev <= policyRev)'
    BY <1>0, <1>2, <2>1 DEF PolicyInv
  <2>7. (\A s \in Slot : Going(s) => request[s].policyRev <= localPolicy.rev)'
    BY <1>0, <1>2 DEF PolicyInv
  <2>8. QED BY <1>1, <1>2, <2>1, <2>3, <2>4, <2>5, <2>6, <2>7 DEF PolicyInv
<1>3. CASE Server!Administer /\ UNCHANGED agentVars
  <2>1. device'.applied <= localPolicy.rev BY <1>3, AdministerEffect DEF PolicyInv
  <2>2. QED BY <1>2, <1>3, <2>1, AdministerEffect DEF agentVars, Going, Applying
<1>4. ASSUME NEW s \in Slot, SendHeartbeat(s) PROVE PolicyInv'
  <2>1. /\ UNCHANGED <<policyRev, quota, routines, device, localPolicy, anchor>> /\ ~ Applying'
        /\ request'[s].policyRev = localPolicy.rev
        /\ \A t \in Slot \ {s} : stage'[t] = stage[t] /\ request'[t] = request[t]
    BY <1>4, SendEffect DEF ServerTables, Applying, Agent!NextRequest
  <2>2. device'.applied <= localPolicy.rev BY <2>1 DEF PolicyInv
  <2>3. QED BY <1>2, <2>1, <2>2 DEF Going
<1>5. ASSUME NEW s \in Slot, Server!Handle(s) \/ Server!Abandon(s)
      PROVE  /\ UNCHANGED <<policyRev, quota, routines>>
             /\ device'.applied <= localPolicy.rev
             /\ \A t \in Slot : Going(t)' => Going(t) /\ request'[t] = request[t]
  <2>1. device' = device \/ (Going(s) /\ device'.applied = request[s].policyRev)
    <3>1. CASE Server!Abandon(s) \/ Server!RejectRevisionAhead(s)
      BY <3>1, CloseEffect DEF ServerTables
    <3>2. CASE Server!Answer(s) BY <3>2, AnswerEffect DEF ServerTables
    <3>3. CASE Server!ReceiveHeartbeat(s) BY <3>3 DEF Server!ReceiveHeartbeat, Going
    <3>4. QED BY <1>5, <3>1, <3>2, <3>3 DEF Server!Handle, Server!UnknownDay
  <2>2. device'.applied <= localPolicy.rev BY <2>1 DEF PolicyInv
  <2>3. QED BY <1>5, <2>2, HandlerEffect DEF Going
<1>6. ASSUME NEW s \in Slot, Server!Handle(s) \/ Server!Abandon(s),
             UNCHANGED <<localPolicy, anchor, phase, answer>>
      PROVE  PolicyInv'
  BY <1>2, <1>5, <1>6 DEF Applying
<1>7. ASSUME NEW s \in Slot, DeliverAnswer(s) PROVE PolicyInv'
  <2>1. /\ stage[s] = "answered" /\ answer' = AnswerOf(response[s]) /\ Server!Abandon(s)
        /\ UNCHANGED <<localPolicy, anchor>>
    BY <1>7 DEF DeliverAnswer, Agent!Receive, Agent!tables
  <2>2. answer'.hasPolicy => DocumentOf(answer'.policy)
    BY <2>1 DEF PolicyInv, Srv!AnswerNotAheadOfPolicy, Srv!Reached, DocumentOf, AnswerOf
  <2>3. answer'.hasState => answer'.state.rev <= policyRev
    BY <2>1 DEF PolicyInv, Srv!Reached, AnswerOf
  <2>4. (\A t \in Slot : Going(t) => request[t].policyRev <= localPolicy.rev)'
    BY <1>5, <2>1 DEF PolicyInv
  <2>5. QED BY <1>1, <1>5, <2>1, <2>2, <2>3, <2>4 DEF PolicyInv, DocumentOf
<1>8. CASE ApplyAnswer
  <2>1. UNCHANGED <<policyRev, quota, routines, device, stage, request>> /\ Applying
    BY <1>8, ApplyEffect DEF serverVars
  <2>2. DocumentOf(localPolicy') /\ localPolicy'.rev \in Nat
          /\ localPolicy'.rev >= localPolicy.rev
    BY <1>0, <1>8, <2>1, ApplyDocuments DEF PolicyInv
  <2>3. (anchor # None => anchor.rev <= policyRev)'
    BY <1>8, <2>1, ApplyDocuments DEF PolicyInv, Agent!Confirmed
  <2>4. Applying' => /\ answer'.hasPolicy => DocumentOf(answer'.policy)
                     /\ answer'.hasState => answer'.state.rev <= policyRev
    BY <1>8, <2>1, ApplyDocuments DEF PolicyInv
  <2>5. device.applied <= localPolicy'.rev BY <1>0, <2>2 DEF PolicyInv
  <2>6. \A s \in Slot : Going(s) => request[s].policyRev <= localPolicy'.rev
    BY <1>0, <2>2 DEF PolicyInv
  <2>7. QED BY <1>1, <2>1, <2>2, <2>3, <2>4, <2>5, <2>6 DEF PolicyInv, DocumentOf, Going
<1>9. CASE (Agent!Cycle \/ Agent!AbortCycle \/ Agent!Environment) /\ UNCHANGED serverVars
  <2>1. device'.applied <= localPolicy.rev BY <1>9 DEF PolicyInv, serverVars
  <2>2. QED BY <1>2, <1>9, <2>1, DaemonEffect DEF serverVars, Going, Applying
<1>10. ASSUME NEW b \in LocalBonus, AgentStep(Agent!AddBonusWithEvent(b)) PROVE PolicyInv'
  <2>1. UNCHANGED <<policyRev, quota, routines, device, stage, request, localPolicy, phase,
          answer>>
    BY <1>10, GrantRows DEF serverVars
  <2>2. anchor' # None => anchor # None /\ anchor'.rev = anchor.rev
    <3>1. anchor \in Agent!Anchor \cup {None} BY DEF Types, Agent!TypeOK
    <3>2. anchor' = IF anchor # None /\ anchor.day = day
                      THEN [anchor EXCEPT !.remaining = @ + 1] ELSE anchor
      BY <1>10 DEF AgentStep, Agent!AddBonusWithEvent
    <3>3. QED BY <3>1, <3>2 DEF Agent!Anchor
  <2>3. QED BY <1>1, <2>1, <2>2 DEF PolicyInv, DocumentOf, Going, Applying
<1>11. CASE Timeout \/ Crash
  <2>1. UNCHANGED <<localPolicy, anchor>> /\ ~ Applying'
    BY <1>11, InterruptionEffect DEF Applying
  <2>2. CASE UNCHANGED serverVars
    <3>1. device'.applied <= localPolicy.rev BY <2>2 DEF PolicyInv, serverVars
    <3>2. QED BY <1>2, <2>1, <2>2, <3>1 DEF serverVars, Going
  <2>3. ASSUME NEW s \in Slot, Server!Abandon(s) PROVE PolicyInv'
    BY <1>2, <1>5, <2>1, <2>3
  <2>4. QED BY <1>11, <2>2, <2>3, InterruptionEffect
<1>12. CASE UNCHANGED vars
  <2>1. device'.applied <= localPolicy.rev BY <1>12 DEF PolicyInv, vars, serverVars
  <2>2. QED BY <1>2, <1>12, <2>1 DEF vars, serverVars, agentVars, Going, Applying
<1>13. QED
  BY <1>3, <1>4, <1>6, <1>7, <1>8, <1>9, <1>10, <1>11, <1>12
     DEF Next, ServerStep, AgentStep, DropOrphan, Move, agentVars

LEMMA ControlStep ==
  ASSUME Types, DesktopInv, WaitInv, ControlInv, [Next]_vars
  PROVE  ControlInv'
<1>0. /\ control.rev \in Nat /\ remote.rev \in Nat
      /\ \A s \in Slot : response[s] \in Server!Response /\ response[s].control.rev \in Nat
      /\ Applying => answer.control.rev \in Nat
      /\ ControlOp \subseteq Nat
  <2>1. \A s \in Slot : response[s] \in Server!Response BY DEF Types, Server!TypeOK
  <2>2. Applying => answer \in Agent!Answer BY DEF Types, Agent!TypeOK, Applying
  <2>3. QED
    BY <2>1, <2>2, SystemAssumption DEF Types, Server!TypeOK, Agent!TypeOK, Server!Response,
       Server!Control,
           Agent!Control, Agent!Answer
<1>1. Srv!PendingControlIsDesired'
  BY ServerSide, ServerTypes, ServerAssumptions, Srv!ControlStep DEF Types, ControlInv
\* The control row, with what is held and under way.
<1>2. ASSUME UNCHANGED control \/ control'.rev = control.rev + 1,
             \A s \in Slot :
               /\ response'[s].control = response[s].control
                    /\ response'[s].commands = response[s].commands
               /\ stage'[s] \in {"idle", "sent", "control"}
                    => stage[s] \in {"idle", "sent", "control"},
             Applying' => /\ Applying /\ answer'.control = answer.control
                          /\ answer'.commands \subseteq answer.commands,
             remote' \in {remote, Agent!Offline},
             \/ effect' \in {effect, None}
             \/ Applying /\ \E c \in ControlOp \cap answer.commands :
                  effect'.id = c /\ effect'.rev = answer.control.rev
      PROVE  ControlInv'
  <2>1. control'.rev >= 1 /\ control'.rev \in Nat /\ control'.rev >= control.rev
    BY <1>0, <1>2 DEF ControlInv
  <2>2. ASSUME NEW c, c.rev \in Nat, ControlOf(c)
        PROVE  /\ c.rev <= control'.rev
               /\ c.rev = control'.rev
                    => c.paused = control'.paused /\ c.blocked = control'.blocked
    BY <1>0, <1>2, <2>2 DEF ControlOf
  <2>3. ASSUME NEW o \in ControlOp, o <= control.rev PROVE o <= control'.rev
    BY <1>0, <2>1, <2>3
  <2>4. ASSUME NEW s \in Slot
        PROVE  /\ ControlOf(response[s].control)'
               /\ (stage[s] \in {"idle", "sent", "control"} => response[s].commands = {})'
               /\ Follows(response[s].commands, response[s].control)'
    BY <1>0, <1>2, <2>2, <2>3 DEF ControlInv, ControlOf, Follows
  <2>5. (Applying => ControlOf(answer.control) /\ Follows(answer.commands, answer.control))'
    BY <1>0, <1>2, <2>2, <2>3 DEF ControlInv, ControlOf, Follows
  <2>6. (remote.rev <= control.rev /\ (remote.online => ControlOf(remote)))'
    <3>1. CASE remote' = remote BY <1>0, <2>1, <2>2, <3>1 DEF ControlInv, ControlOf
    <3>2. CASE remote' = Agent!Offline BY <2>1, <3>2 DEF Agent!Offline
    <3>3. QED BY <1>2, <3>1, <3>2
  <2>7. (effect # None => effect.rev <= effect.id /\ effect.id <= control.rev)'
    <3>1. CASE effect' \in {effect, None}
      <4>1. effect # None => effect.id \in ControlOp BY DEF Types, Agent!TypeOK, Agent!Effect
      <4>2. QED BY <2>3, <3>1, <4>1 DEF ControlInv
    <3>2. CASE Applying /\ \E c \in ControlOp \cap answer.commands :
                 effect'.id = c /\ effect'.rev = answer.control.rev
      BY <2>3, <3>2 DEF ControlInv, Follows
    <3>3. QED BY <1>2, <3>1, <3>2
  <2>8. QED BY <1>1, <2>1, <2>4, <2>5, <2>6, <2>7 DEF ControlInv
<1>3. CASE Server!Administer /\ UNCHANGED agentVars
  BY <1>2, <1>3, AdministerEffect DEF agentVars, Applying
<1>4. ASSUME NEW s \in Slot, SendHeartbeat(s) PROVE ControlInv'
  <2>1. UNCHANGED <<control, response, remote, effect>> /\ ~ Applying'
    BY <1>4, SendEffect DEF ServerTables, Applying
  <2>2. \A t \in Slot : stage'[t] \in {"idle", "sent", "control"}
          => stage[t] \in {"idle", "sent", "control"}
    BY <1>4, SendEffect
  <2>3. QED BY <1>2, <2>1, <2>2
\* The response of a handler, statement by statement.
<1>5. ASSUME NEW s \in Slot, Server!Handle(s) \/ Server!Abandon(s)
      PROVE  /\ UNCHANGED control
             /\ \A t \in Slot :
                  /\ ControlOf(response'[t].control)
                  /\ stage'[t] \in {"idle", "sent", "control"} => response'[t].commands = {}
                  /\ Follows(response'[t].commands, response'[t].control)
  <2>1. CASE Server!Abandon(s) \/ Server!RejectRevisionAhead(s)
    <3>1. response'[s].control.rev = 0 /\ response'[s].commands = {}
      BY <2>1, CloseEffect DEF Server!NoResponse, Server!NoControl
    <3>2. ControlOf(response'[s].control) /\ Follows(response'[s].commands, response'[s].control)
      BY <1>0, <3>1 DEF ControlOf, Follows, ControlInv
    <3>3. QED BY <1>5, <3>1, <3>2, HandlerEffect DEF ControlInv
  <2>2. CASE Server!ReceiveHeartbeat(s)
    <3>1. /\ response'[s].control = response[s].control
               /\ response'[s].commands = response[s].commands
          /\ stage[s] = "sent"
      BY <1>0, <2>2 DEF Server!ReceiveHeartbeat, Server!Response, Types, Server!TypeOK
    <3>2. QED BY <1>5, <3>1, HandlerEffect DEF ControlInv
  <2>3. CASE Server!LoadControl(s)
    <3>1. /\ response'[s].control = control /\ response'[s].commands = response[s].commands
          /\ stage[s] = "control"
      BY <1>0, <2>3 DEF Server!LoadControl, Server!Reading, Server!Response, Types, Server!TypeOK
    <3>2. ControlOf(response'[s].control) /\ response'[s].commands = {}
      BY <1>0, <3>1 DEF ControlOf, ControlInv
    <3>3. QED BY <1>5, <3>2, HandlerEffect DEF ControlInv, Follows
  <2>4. CASE Server!LoadPendingCommands(s)
    <3>1. /\ response'[s].control = response[s].control
          /\ response'[s].commands = { c \in Server!Op : command[c] = "pending" }
      BY <1>0, <2>4 DEF Server!LoadPendingCommands, Server!Response, Types, Server!TypeOK
    <3>2. \A c \in ControlOp : command[c] = "pending" => c = control.rev
      BY DEF ControlInv, Srv!PendingControlIsDesired, Srv!PendingControl
    <3>3. Follows(response'[s].commands, response'[s].control)
      <4>1. response[s].control.rev <= control.rev BY DEF ControlInv, ControlOf
      <4>2. ASSUME NEW o \in response'[s].commands \cap ControlOp PROVE o = control.rev
        BY <3>1, <3>2, <4>2
      <4>3. QED BY <1>0, <1>5, <3>1, <4>1, <4>2, HandlerEffect DEF Follows
    <3>4. stage'[s] \notin {"idle", "sent", "control"}
      BY <2>4, AnswerEffect DEF Server!Answer
    <3>5. QED BY <1>5, <3>1, <3>3, <3>4, HandlerEffect DEF ControlInv
  <2>5. CASE \/ Server!LoadPolicyRevision(s) \/ Server!LoadPolicyQuota(s)
             \/ Server!LoadPolicyRoutines(s) \/ Server!LoadPolicyDays(s)
             \/ Server!ConfirmRevision(s)
             \/ Server!ConfirmQuota(s) \/ Server!ConfirmBalance(s) \/ Server!OfferCommands(s)
    <3>1. response'[s].control = response[s].control
            /\ response'[s].commands = response[s].commands
      BY <1>0, <2>5
         DEF Server!LoadPolicyRevision, Server!LoadPolicyQuota, Server!LoadPolicyRoutines,
             Server!LoadPolicyDays, Server!ConfirmRevision, Server!ConfirmQuota,
               Server!ConfirmBalance,
             Server!OfferCommands, Server!Response, Types, Server!TypeOK
    <3>2. stage'[s] \notin {"idle", "sent", "control"}
      BY <2>5, AnswerEffect DEF Server!Answer
    <3>3. QED BY <1>5, <3>1, <3>2, HandlerEffect DEF ControlInv
  <2>6. QED BY <1>5, <2>1, <2>2, <2>3, <2>4, <2>5
            DEF Server!Handle, Server!UnknownDay, Server!Answer
<1>6. ASSUME NEW s \in Slot, Server!Handle(s) \/ Server!Abandon(s),
             UNCHANGED <<phase, answer, effect, remote>>
      PROVE  ControlInv'
  BY <1>1, <1>5, <1>6 DEF ControlInv, ControlOf, Follows, Applying
<1>7. ASSUME NEW s \in Slot, DeliverAnswer(s) PROVE ControlInv'
  <2>1. /\ answer' = AnswerOf(response[s]) /\ Server!Abandon(s) /\ UNCHANGED effect
        /\ remote' = [online |-> TRUE, paused |-> answer'.control.paused,
                      blocked |-> answer'.control.blocked, rev |-> answer'.control.rev]
    BY <1>7 DEF DeliverAnswer, Agent!Receive, Agent!tables
  <2>2. answer'.control = response[s].control /\ answer'.commands = response[s].commands
    BY <2>1 DEF AnswerOf
  <2>3. ControlOf(answer'.control) /\ Follows(answer'.commands, answer'.control)
    BY <2>2 DEF ControlInv
  <2>4. ControlOf(remote') /\ remote'.rev <= control.rev BY <2>1, <2>3 DEF ControlOf
  <2>5. QED BY <1>1, <1>5, <2>1, <2>3, <2>4 DEF ControlInv, ControlOf, Follows
<1>8. CASE ApplyAnswer
  <2>1. UNCHANGED <<control, stage, response>> /\ Applying
    BY <1>8, ApplyEffect DEF serverVars
  <2>2. QED BY <1>2, <1>8, <2>1, ApplyDocuments
<1>9. CASE (Agent!Cycle \/ Agent!AbortCycle \/ Agent!Environment) /\ UNCHANGED serverVars
  BY <1>2, <1>9, DaemonEffect DEF serverVars, Applying
<1>10. ASSUME NEW b \in LocalBonus, AgentStep(Agent!AddBonusWithEvent(b)) PROVE ControlInv'
  BY <1>2, <1>10, GrantRows DEF serverVars, Applying
<1>11. CASE Timeout \/ Crash
  <2>1. remote' = Agent!Offline /\ UNCHANGED effect /\ ~ Applying'
    BY <1>11, InterruptionEffect DEF Applying
  <2>2. CASE UNCHANGED serverVars BY <1>2, <2>1, <2>2 DEF serverVars
  <2>3. ASSUME NEW s \in Slot, Server!Abandon(s) PROVE ControlInv'
    <3>1. remote'.rev <= control.rev /\ remote'.online = FALSE
      BY <1>0, <2>1 DEF Agent!Offline, ControlInv
    <3>2. QED BY <1>1, <1>5, <2>1, <2>3, <3>1 DEF ControlInv, ControlOf, Follows
  <2>4. QED BY <1>11, <2>2, <2>3, InterruptionEffect
<1>12. CASE UNCHANGED vars BY <1>2, <1>12 DEF vars, serverVars, agentVars, Applying
<1>13. QED
  BY <1>3, <1>4, <1>6, <1>7, <1>8, <1>9, <1>10, <1>11, <1>12
     DEF Next, ServerStep, AgentStep, DropOrphan, Move, agentVars
-----------------------------------------------------------------------------
(* The balance. *)

LocalIn(rows, d)  == Cardinality({ b \in LocalBonus : rows[b] = d })
RemoteIn(rows, d) == Cardinality({ b \in RemoteBonus : rows[b] = d })

\* A balance of day d has every local bonus that rows has for that day, once, and
\* no more remote ones than the server has.
Balanced(state, d, server, rows) ==
  /\ state.remaining >= LocalIn(rows, d) - state.usage
  /\ state.remaining <= Server!MaxOf(0, MaxQuota + RemoteIn(server, d) - state.usage)
                        + LocalIn(rows, d)

\* Quotas are those of the administrator, and the balance is the last thing read
\* before the commands.
QuotaInv ==
  /\ quota \in Quota \cup {0}
  /\ \A s \in Slot :
       /\ response[s].state.quota \in Quota \cup {0}
       /\ response[s].hasState =>
            stage[s] \in {"confirmQuota", "summary", "commands", "offer", "answered"}

\* After the events of the request come the receipts: none of them is pending.
AckedInv ==
  phase \in {"policy", "state", "commands"} => \A e \in sent.events : event[e.id] # "pending"

\* The balance that travels to the agent has exactly the local bonuses that the
\* server knows, and the server learns of no other before it is stored.
FlightInv ==
  /\ \A s \in Slot :
       phase = "waiting" /\ current = s /\ stage[s] \in {"commands", "offer", "answered"}
         /\ response[s].hasState =>
           Balanced(response[s].state, request[s].day, ledger, ledger)
  /\ phase \in {"events", "policy", "state"} /\ answer.hasState =>
       Balanced(answer.state, sent.day, ledger, ledger)

BalanceInv ==
  /\ QuotaInv /\ AckedInv /\ FlightInv
  /\ anchor # None => Balanced(anchor, anchor.day, ledger, localLedger)

LEMMA Counts ==
  ASSUME NEW rows, NEW d
  PROVE  LocalIn(rows, d) \in Nat /\ RemoteIn(rows, d) \in Nat
<1>1. IsFiniteSet(LocalBonus) /\ IsFiniteSet(RemoteBonus)
  BY SystemAssumption, FS_Subset, LocalBonus \subseteq RemoteBonus \cup LocalBonus,
     RemoteBonus \subseteq RemoteBonus \cup LocalBonus
<1>2. /\ IsFiniteSet({ b \in LocalBonus : rows[b] = d })
      /\ IsFiniteSet({ b \in RemoteBonus : rows[b] = d })
  BY <1>1, FS_Subset, { b \in LocalBonus : rows[b] = d } \subseteq LocalBonus,
     { b \in RemoteBonus : rows[b] = d } \subseteq RemoteBonus
<1>3. QED BY <1>2, FS_CardinalityType DEF LocalIn, RemoteIn

LEMMA LargestQuota ==
  /\ MaxQuota \in Nat
  /\ \A q \in Quota \cup {0} : q \in Nat /\ q <= MaxQuota
<1>1. /\ Quota \subseteq Nat
      /\ \E q \in Quota \cup {0} : \A p \in Quota : p <= q
  BY SystemAssumption
<1>2. MaxQuota \in Quota \cup {0} /\ \A p \in Quota : p <= MaxQuota BY <1>1 DEF MaxQuota
<1>3. QED BY <1>1, <1>2

\* A balance stays right while the local bonuses stay and the remote ones grow.
LEMMA BalancedKept ==
  ASSUME NEW state, state.remaining \in Nat, state.usage \in Nat, NEW d,
         NEW server, NEW server2, NEW rows, NEW rows2,
         Balanced(state, d, server, rows),
         \A b \in LocalBonus : rows2[b] = rows[b],
         \A b \in RemoteBonus : server[b] = d => server2[b] = d
  PROVE  Balanced(state, d, server2, rows2)
<1>1. { b \in LocalBonus : rows2[b] = d } = { b \in LocalBonus : rows[b] = d } OBVIOUS
<1>2. LocalIn(rows2, d) = LocalIn(rows, d) BY <1>1 DEF LocalIn
<1>3. RemoteIn(server, d) <= RemoteIn(server2, d)
  <2> DEFINE S == { b \in RemoteBonus : server[b] = d }
             T == { b \in RemoteBonus : server2[b] = d }
  <2>1. IsFiniteSet(RemoteBonus)
    BY SystemAssumption, FS_Subset, RemoteBonus \subseteq RemoteBonus \cup LocalBonus
  <2>2. IsFiniteSet(T) BY <2>1, FS_Subset, T \subseteq RemoteBonus
  <2>3. S \subseteq T OBVIOUS
  <2>4. Cardinality(S) <= Cardinality(T) BY <2>2, <2>3, FS_Subset
  <2>5. QED BY <2>4 DEF RemoteIn
<1>4. LocalIn(rows, d) \in Nat /\ RemoteIn(server, d) \in Nat /\ RemoteIn(server2, d) \in Nat
      /\ MaxQuota \in Nat
  BY Counts, LargestQuota
<1>5. QED BY <1>2, <1>3, <1>4 DEF Balanced, Server!MaxOf

\* What the server confirms: its bonuses of the day, and a quota of the administrator.
LEMMA BalancedSum ==
  ASSUME Types, NEW q \in Quota \cup {0}, NEW d \in Day, NEW state,
         state.remaining = Server!Remaining(q, d), state.usage = usage[d]
  PROVE  Balanced(state, d, ledger, ledger)
<1> DEFINE L == { b \in LocalBonus : ledger[b] = d }
           R == { b \in RemoteBonus : ledger[b] = d }
           B == { b \in Server!Bonus : ledger[b] = d }
<1>1. IsFiniteSet(LocalBonus) /\ IsFiniteSet(RemoteBonus)
  BY SystemAssumption, FS_Subset, LocalBonus \subseteq RemoteBonus \cup LocalBonus,
     RemoteBonus \subseteq RemoteBonus \cup LocalBonus
<1>2. IsFiniteSet(L) /\ IsFiniteSet(R)
  BY <1>1, FS_Subset, L \subseteq LocalBonus, R \subseteq RemoteBonus
<1>3. B = R \cup L /\ R \cap L = {} BY SystemAssumption DEF Server!Bonus
<1>4. Cardinality(R \cap L) = 0 BY <1>3, FS_EmptySet
<1>5. Cardinality(B) = Cardinality(R) + Cardinality(L) - Cardinality(R \cap L)
  BY <1>2, <1>3, FS_Union
<1>6. Server!BonusSeconds(d) = Cardinality(B)
  BY DEF Server!BonusSeconds, Server!Cardinality, Cardinality
<1>7. LocalIn(ledger, d) = Cardinality(L) /\ RemoteIn(ledger, d) = Cardinality(R)
  BY DEF LocalIn, RemoteIn
<1>8. LocalIn(ledger, d) \in Nat /\ RemoteIn(ledger, d) \in Nat BY Counts
<1>9. Server!BonusSeconds(d) = RemoteIn(ledger, d) + LocalIn(ledger, d)
  BY <1>4, <1>5, <1>6, <1>7, <1>8
<1>10. usage[d] \in Nat BY DEF Types, Server!TypeOK
<1>11. q \in Nat /\ q <= MaxQuota /\ MaxQuota \in Nat BY LargestQuota
<1>12. state.remaining = IF 0 >= q + (RemoteIn(ledger, d) + LocalIn(ledger, d)) - usage[d] THEN 0
                         ELSE q + (RemoteIn(ledger, d) + LocalIn(ledger, d)) - usage[d]
  BY <1>9 DEF Server!Remaining, Server!MaxOf
<1>13. QED BY <1>8, <1>10, <1>11, <1>12 DEF Balanced, Server!MaxOf

\* When the events of the request are acknowledged, the local bonuses that the
\* server does not know of are those that are still pending.
LEMMA Unreported ==
  ASSUME Types, EventInv, CarriedInv, AckedInv, phase = "state", NEW d \in Day
  PROVE  /\ LocalIn(localLedger, d) = LocalIn(ledger, d) + Agent!UnreportedBonus(d)
         /\ Agent!UnreportedBonus(d) \in Nat
<1> DEFINE K == { b \in LocalBonus : ledger[b] = d }
           U == { b \in LocalBonus : event[b] = "pending" /\ localLedger[b] = d }
           A == { b \in LocalBonus : localLedger[b] = d }
<1>1. None \notin Day /\ event \in [LocalBonus -> {"none", "pending", "sent"}]
  BY SystemAssumption DEF Types, Agent!TypeOK
<1>2. \A b \in LocalBonus : ledger[b] # None => event[b] # "pending"
  BY DEF CarriedInv, Carried, AckedInv
<1>3. A = K \cup U /\ K \cap U = {}
  <2>1. K \subseteq A BY <1>1 DEF EventInv
  <2>2. A \subseteq K \cup U
    <3>1. SUFFICES ASSUME NEW b \in A PROVE b \in K \cup U OBVIOUS
    <3>2. event[b] # "none" BY <1>1 DEF EventInv
    <3>3. CASE event[b] = "sent" BY <3>3 DEF EventInv
    <3>4. QED BY <1>1, <3>2, <3>3
  <2>3. QED BY <1>1, <1>2, <2>1, <2>2
<1>4. IsFiniteSet(LocalBonus)
  BY SystemAssumption, FS_Subset, LocalBonus \subseteq RemoteBonus \cup LocalBonus
<1>5. IsFiniteSet(K) /\ IsFiniteSet(U)
  BY <1>4, FS_Subset, K \subseteq LocalBonus, U \subseteq LocalBonus
<1>6. Cardinality(A) = Cardinality(K) + Cardinality(U) - Cardinality(K \cap U)
  BY <1>3, <1>5, FS_Union
<1>7. Cardinality(K \cap U) = 0 BY <1>3, FS_EmptySet
<1>8. Cardinality(K) \in Nat /\ Cardinality(U) \in Nat BY <1>5, FS_CardinalityType
<1>9. Agent!UnreportedBonus(d) = Cardinality(U)
  BY DEF Agent!UnreportedBonus, Agent!Cardinality, Cardinality
<1>10. QED BY <1>6, <1>7, <1>8, <1>9 DEF LocalIn

\* A bonus granted at the computer on day d is one more.
LEMMA OneMore ==
  ASSUME NEW rows, NEW rows2, NEW b \in LocalBonus, NEW d, rows[b] # d, rows2[b] = d,
         \A a \in LocalBonus \ {b} : rows2[a] = rows[a]
  PROVE  LocalIn(rows2, d) = LocalIn(rows, d) + 1
<1> DEFINE S == { a \in LocalBonus : rows[a] = d }
<1>1. IsFiniteSet(LocalBonus)
  BY SystemAssumption, FS_Subset, LocalBonus \subseteq RemoteBonus \cup LocalBonus
<1>2. IsFiniteSet(S) BY <1>1, FS_Subset, S \subseteq LocalBonus
<1>3. { a \in LocalBonus : rows2[a] = d } = S \cup {b} /\ b \notin S OBVIOUS
<1>4. Cardinality(S \cup {b}) = Cardinality(S) + 1 BY <1>2, <1>3, FS_AddElement
<1>5. QED BY <1>3, <1>4 DEF LocalIn

\* Once its transaction is committed, no other exchange brings a local bonus that
\* the present one does not carry: the server learns of none before it ends.
LEMMA Settling ==
  ASSUME Types, WaitInv, EventInv, CarriedInv, NEW s \in Slot, Server!ReceiveHeartbeat(s),
         Applying \/ (phase = "waiting" /\ stage[current] \notin {"idle", "sent"})
  PROVE  \A b \in LocalBonus : ledger'[b] = ledger[b]
<1>1. SUFFICES ASSUME NEW b \in LocalBonus, ledger'[b] # ledger[b] PROVE FALSE OBVIOUS
<1>2. ledger[b] = None /\ \E e \in request[s].events : e.id = b BY <1>1, ReceiveBooks
<1>3. phase # "idle" /\ Going(s) BY DEF Applying, Going, Server!ReceiveHeartbeat
<1>4. Carried(b) BY <1>2, <1>3 DEF CarriedInv
<1>5. PICK e \in sent.events : e.id = b BY <1>2, <1>4 DEF Carried, EventInv
<1>6. CASE Applying BY <1>2, <1>3, <1>5, <1>6 DEF EventInv
<1>7. CASE phase = "waiting" /\ stage[current] \notin {"idle", "sent"}
  <2>1. current \in Slot /\ Going(current) /\ request[current] = sent
    BY <1>7 DEF WaitInv, Going
  <2>2. QED BY <1>2, <1>5, <1>7, <2>1 DEF EventInv
<1>8. QED BY <1>6, <1>7

LEMMA LedgerStep ==
  ASSUME Types, WaitInv, EventInv, CarriedInv, [Next]_vars
  PROVE  /\ \A b \in RemoteBonus : ledger[b] # None => ledger'[b] = ledger[b]
         /\ Applying \/ (phase = "waiting" /\ stage[current] \notin {"idle", "sent"}) =>
              \A b \in LocalBonus : ledger'[b] = ledger[b]
<1>1. ASSUME NEW s \in Slot, Server!Handle(s) \/ Server!Abandon(s)
      PROVE  ledger' = ledger \/ Server!ReceiveHeartbeat(s)
  BY <1>1, AnswerEffect, CloseEffect DEF ServerTables, Server!Handle, Server!UnknownDay
<1>2. CASE ledger' = ledger BY <1>2
<1>3. ASSUME NEW s \in Slot, Server!ReceiveHeartbeat(s)
      PROVE  /\ \A b \in RemoteBonus : ledger[b] # None => ledger'[b] = ledger[b]
             /\ Applying \/ (phase = "waiting" /\ stage[current] \notin {"idle", "sent"}) =>
                  \A b \in LocalBonus : ledger'[b] = ledger[b]
  BY <1>3, ReceiveBooks, Settling DEF Agent!Bonus
<1>4. CASE Server!Administer BY <1>2, <1>4, AdministerEffect
<1>5. ASSUME NEW s \in Slot, SendHeartbeat(s) PROVE ledger' = ledger
  BY <1>5, SendEffect DEF ServerTables
<1>6. CASE UNCHANGED serverVars BY <1>2, <1>6 DEF serverVars
<1>7. CASE Timeout \/ Crash BY <1>1, <1>2, <1>3, <1>6, <1>7, InterruptionEffect
<1>8. QED
  BY <1>1, <1>2, <1>3, <1>4, <1>5, <1>6, <1>7, ApplyEffect
     DEF Next, vars, ServerStep, AgentStep, DeliverAnswer, DropOrphan, Move

\* The statements that build the answer, one by one.
LEMMA AnswerState ==
  ASSUME Types, NEW s \in Slot, Server!Answer(s)
  PROVE  \/ /\ stage[s] \in {"control", "policy", "quota", "routines", "days", "commands",
                 "offer"}
            /\ stage[s] \in {"commands", "offer"}
                 \/ stage'[s] \in {"policy", "quota", "routines", "days", "confirm", "commands"}
            /\ stage[s] \in {"commands", "offer"} => stage'[s] \in {"offer", "answered"}
            /\ response'[s].hasState = response[s].hasState
            /\ response'[s].state = response[s].state
         \/ /\ stage[s] = "confirm" /\ stage'[s] = "confirmQuota"
            /\ response'[s].state.quota = response[s].state.quota
         \/ /\ stage[s] = "confirmQuota" /\ stage'[s] = "summary"
            /\ response'[s].state.quota = quota
         \/ /\ stage[s] = "summary" /\ stage'[s] = "commands"
            /\ response'[s].state.quota = response[s].state.quota
            /\ response'[s].state.remaining
                 = Server!Remaining(response[s].state.quota, request[s].day)
            /\ response'[s].state.usage = usage[request[s].day]
<1>1. /\ stage \in [Slot -> Server!Stage] /\ response \in [Slot -> Server!Response]
      /\ response[s].state \in Server!State
  BY DEF Types, Server!TypeOK, Server!Response
<1>2. CASE Server!LoadControl(s)
  BY <1>1, <1>2 DEF Server!LoadControl, Server!Reading, Server!AfterControl, Server!AfterPolicy
<1>3. CASE Server!LoadPolicyRevision(s) \/ Server!LoadPolicyQuota(s)
             \/ Server!LoadPolicyRoutines(s) \/ Server!LoadPolicyDays(s)
  <2>1. CASE Server!LoadPolicyRevision(s)
    BY <1>1, <2>1 DEF Server!LoadPolicyRevision, Server!Reading, Server!Response
  <2>2. CASE Server!LoadPolicyQuota(s)
    BY <1>1, <2>2 DEF Server!LoadPolicyQuota, Server!Reading, Server!Response
  <2>3. CASE Server!LoadPolicyRoutines(s)
    BY <1>1, <2>3 DEF Server!LoadPolicyRoutines, Server!Reading, Server!Response
  <2>4. CASE Server!LoadPolicyDays(s)
    BY <1>1, <2>4 DEF Server!LoadPolicyDays, Server!Reading, Server!AfterPolicy, Server!Response
  <2>5. QED BY <1>3, <2>1, <2>2, <2>3, <2>4
<1>4. CASE Server!ConfirmRevision(s)
  BY <1>1, <1>4 DEF Server!ConfirmRevision, Server!Reading, Server!Response, Server!State
<1>5. CASE Server!ConfirmQuota(s)
  BY <1>1, <1>5 DEF Server!ConfirmQuota, Server!Reading, Server!Response, Server!State
<1>6. CASE Server!ConfirmBalance(s)
  BY <1>1, <1>6 DEF Server!ConfirmBalance, Server!Reading, Server!Response, Server!State
<1>7. CASE Server!LoadPendingCommands(s) \/ Server!OfferCommands(s)
  <2>1. CASE Server!LoadPendingCommands(s)
    BY <1>1, <2>1 DEF Server!LoadPendingCommands, Server!Reading, Server!Response
  <2>2. CASE Server!OfferCommands(s) BY <1>1, <2>2 DEF Server!OfferCommands
  <2>3. QED BY <1>7, <2>1, <2>2
<1>8. QED BY <1>2, <1>3, <1>4, <1>5, <1>6, <1>7 DEF Server!Answer

LEMMA QuotaStep ==
  ASSUME Types, WaitInv, QuotaInv, [Next]_vars
  PROVE  QuotaInv'
<1> DEFINE Read == {"confirmQuota", "summary", "commands", "offer", "answered"}
<1>0. stage \in [Slot -> Server!Stage] /\ response \in [Slot -> Server!Response]
  BY DEF Types, Server!TypeOK
<1>1. ASSUME quota' \in Quota \cup {quota},
             \A s \in Slot :
               \/ response'[s].state.quota \in {response[s].state.quota, quota, 0}
                  /\ (response'[s].hasState => stage'[s] \in Read)
               \/ stage'[s] = stage[s] /\ response'[s] = response[s]
      PROVE  QuotaInv'
  BY <1>1 DEF QuotaInv
<1>2. CASE Server!Administer BY <1>1, <1>2, AdministerEffect
<1>3. ASSUME NEW s \in Slot, SendHeartbeat(s) PROVE QuotaInv'
  <2>1. stage[s] = "idle" /\ UNCHANGED <<quota, response>> BY <1>3, SendEffect DEF ServerTables
  <2>2. ~ response[s].hasState BY <2>1 DEF QuotaInv
  <2>3. QED BY <1>1, <1>3, <2>1, <2>2, SendEffect
<1>4. ASSUME NEW s \in Slot, Server!Handle(s) \/ Server!Abandon(s) PROVE QuotaInv'
  <2>1. quota' = quota
        /\ \A t \in Slot \ {s} : stage'[t] = stage[t] /\ response'[t] = response[t]
    BY <1>4, HandlerEffect
  <2>2. CASE Server!Abandon(s) \/ Server!RejectRevisionAhead(s)
    BY <1>1, <2>1, <2>2, CloseEffect DEF Server!NoResponse, Server!NoState
  <2>3. CASE Server!ReceiveHeartbeat(s)
    <3>1. stage[s] = "sent" /\ response'[s].hasState = response[s].hasState
          /\ response'[s].state = response[s].state
      BY <1>0, <2>3 DEF Server!ReceiveHeartbeat, Server!Response
    <3>2. ~ response[s].hasState BY <3>1 DEF QuotaInv
    <3>3. QED BY <1>1, <2>1, <3>1, <3>2
  <2>4. CASE Server!Answer(s)
    <3>1. response'[s].state.quota \in {response[s].state.quota, quota}
          /\ (response'[s].hasState => stage'[s] \in Read)
      BY <2>4, AnswerState DEF QuotaInv
    <3>2. QED BY <1>1, <2>1, <3>1
  <2>5. QED BY <1>4, <2>2, <2>3, <2>4 DEF Server!Handle, Server!UnknownDay
<1>5. CASE UNCHANGED serverVars BY <1>1, <1>5 DEF serverVars
<1>6. CASE Timeout \/ Crash
  BY <1>4, <1>5, <1>6, InterruptionEffect
<1>7. QED
  BY <1>2, <1>3, <1>4, <1>5, <1>6, ApplyEffect
     DEF Next, vars, ServerStep, AgentStep, DeliverAnswer, DropOrphan, Move

LEMMA AckedStep ==
  ASSUME Types, WaitInv, EventInv, AckedInv, [Next]_vars
  PROVE  AckedInv'
<1> DEFINE Late == {"policy", "state", "commands"}
<1>0. event \in [LocalBonus -> {"none", "pending", "sent"}] BY DEF Types, Agent!TypeOK
<1>1. ASSUME phase' \in Late => phase \in Late /\ sent' = sent,
             \A b \in LocalBonus : event[b] # "pending" /\ localLedger[b] # None
               => event'[b] # "pending"
      PROVE  AckedInv'
  BY <1>1, EventFields DEF AckedInv, EventInv
<1>2. ASSUME NEW s \in Slot, SendHeartbeat(s) \/ DeliverAnswer(s) PROVE phase' \notin Late
  BY <1>2, SendEffect DEF DeliverAnswer, Agent!Receive
<1>3. CASE UNCHANGED agentVars BY <1>1, <1>3 DEF agentVars
<1>4. CASE ApplyAnswer
  <2>1. Applying BY <1>4, ApplyEffect
  <2>2. CASE Agent!ForgetAppliedCommandIDs
    BY <2>2 DEF Agent!ForgetAppliedCommandIDs, AckedInv
  <2>3. CASE ~ Agent!ForgetAppliedCommandIDs
    <3>1. phase' \in Late => phase \in Late
      BY <1>4, <2>3
         DEF ApplyAnswer, AgentStep, Agent!Apply, Agent!AcknowledgeEvent, Agent!ReplacePolicy,
             Agent!SaveConfirmedSessionState, Agent!ApplyRemoteBonus, Agent!Finish, Agent!Refuse,
             Agent!Fail, Agent!EndHeartbeat, Agent!StageControlEffect, Agent!Taken, Agent!client
    <3>2. phase' \in Late => sent' = sent BY <1>4, ApplyEffect
    <3>3. \A b \in LocalBonus : event[b] # "pending" => event'[b] # "pending"
      BY <1>0, <1>4, ApplyRows
    <3>4. QED BY <1>1, <3>1, <3>2, <3>3
  <2>4. QED BY <2>2, <2>3
<1>5. CASE Agent!Cycle \/ Agent!AbortCycle \/ Agent!Environment
  BY <1>1, <1>5, DaemonEffect
<1>6. ASSUME NEW b \in LocalBonus, AgentStep(Agent!AddBonusWithEvent(b)) PROVE AckedInv'
  BY <1>0, <1>1, <1>6, GrantRows
<1>7. CASE Timeout \/ Crash BY <1>7, InterruptionEffect DEF AckedInv
<1>8. ASSUME phase' \notin Late PROVE AckedInv' BY <1>8 DEF AckedInv
<1>9. QED
  BY <1>2, <1>3, <1>4, <1>5, <1>6, <1>7, <1>8
     DEF Next, vars, ServerStep, AgentStep, DropOrphan, Move

\* Balanced speaks of its arguments only.
LEMMA BalancedPrime ==
  /\ \A s \in Slot :
       Balanced(response'[s].state, request'[s].day, ledger', ledger')
         => Balanced(response[s].state, request[s].day, ledger, ledger)'
  /\ Balanced(answer'.state, sent'.day, ledger', ledger')
       => Balanced(answer.state, sent.day, ledger, ledger)'
  /\ Balanced(anchor', anchor'.day, ledger', localLedger')
       => Balanced(anchor, anchor.day, ledger, localLedger)'
  BY DEF Balanced, LocalIn, RemoteIn, MaxQuota, Server!MaxOf

LEMMA FlightStep ==
  ASSUME Types, WaitInv, EventInv, CarriedInv, QuotaInv, FlightInv, [Next]_vars
  PROVE  FlightInv'
<1> DEFINE Late == {"commands", "offer", "answered"}
           Held == {"events", "policy", "state"}
<1>0. /\ \A b \in RemoteBonus : ledger[b] # None => ledger'[b] = ledger[b]
      /\ Applying \/ (phase = "waiting" /\ stage[current] \notin {"idle", "sent"}) =>
           \A b \in LocalBonus : ledger'[b] = ledger[b]
      /\ None \notin Day
  BY LedgerStep, SystemAssumption
<1>1. /\ \A s \in Slot : response[s].state.remaining \in Nat /\ response[s].state.usage \in Nat
      /\ Applying => /\ answer.state.remaining \in Nat /\ answer.state.usage \in Nat
                     /\ sent.day \in Day
      /\ \A s \in Slot : Going(s) => request[s].day \in Day
  <2>1. \A s \in Slot : response[s] \in Server!Response BY DEF Types, Server!TypeOK
  <2>2. Applying => answer \in Agent!Answer /\ sent \in Agent!Request
    BY DEF Types, Agent!TypeOK, Applying
  <2>3. QED
    BY <2>1, <2>2, EventFields DEF Server!Response, Server!State, Agent!Answer, Agent!Request
\* The answer while the server still has it.
<1>2. ASSUME NEW s \in Slot, phase = "waiting", current = s, stage[s] \in Late,
             response[s].hasState
      PROVE  Balanced(response[s].state, request[s].day, ledger', ledger')
  <2>1. Balanced(response[s].state, request[s].day, ledger, ledger) BY <1>2 DEF FlightInv
  <2>2. request[s].day \in Day BY <1>1, <1>2 DEF Going
  <2>3. QED BY <1>0, <1>1, <1>2, <2>1, <2>2, BalancedKept
<1>3. ASSUME phase \in Held, answer.hasState
      PROVE  Balanced(answer.state, sent.day, ledger', ledger')
  <2>1. Balanced(answer.state, sent.day, ledger, ledger) /\ Applying
    BY <1>3 DEF FlightInv, Applying
  <2>2. QED BY <1>0, <1>1, <2>1, BalancedKept
<1>4. ASSUME \A s \in Slot :
               phase' = "waiting" /\ current' = s /\ stage'[s] \in Late
                 /\ response'[s].hasState
               =>
                 \/ /\ phase = "waiting" /\ current = s
                    /\ stage[s] \in Late /\ response[s].hasState
                    /\ response'[s].state = response[s].state /\ request'[s] = request[s]
                 \/ Balanced(response'[s].state, request'[s].day, ledger', ledger'),
             phase' \in Held /\ answer'.hasState =>
               \/ /\ phase \in Held /\ answer.hasState /\ answer'.state = answer.state
                  /\ sent' = sent
               \/ Balanced(answer'.state, sent'.day, ledger', ledger')
      PROVE  FlightInv'
  <2>1. ASSUME NEW s \in Slot, phase' = "waiting", current' = s, stage'[s] \in Late,
               response'[s].hasState
        PROVE  Balanced(response'[s].state, request'[s].day, ledger', ledger')
    BY <1>2, <1>4, <2>1
  <2>2. ASSUME phase' \in Held, answer'.hasState
        PROVE  Balanced(answer'.state, sent'.day, ledger', ledger')
    BY <1>3, <1>4, <2>2
  <2>3. QED BY <2>1, <2>2, BalancedPrime DEF FlightInv
<1>5. CASE UNCHANGED <<stage, request, response, phase, sent, answer, current>>
  BY <1>4, <1>5
<1>6. CASE Server!Administer /\ UNCHANGED <<agentVars, current>>
  BY <1>5, <1>6, AdministerEffect DEF agentVars
<1>7. ASSUME NEW s \in Slot, SendHeartbeat(s) PROVE FlightInv'
  BY <1>4, <1>7, SendEffect
<1>8. ASSUME NEW s \in Slot, Server!Handle(s) \/ Server!Abandon(s),
             UNCHANGED <<agentVars, current>>
      PROVE  FlightInv'
  <2>1. /\ \A t \in Slot \ {s} :
             stage'[t] = stage[t] /\ request'[t] = request[t] /\ response'[t] = response[t]
        /\ UNCHANGED <<phase, sent, answer, current>>
        /\ stage'[s] # "idle" => request'[s] = request[s]
    BY <1>8, HandlerEffect DEF agentVars
  <2>2. CASE Server!Abandon(s) \/ Server!RejectRevisionAhead(s)
    BY <1>4, <2>1, <2>2, CloseEffect
  <2>3. CASE Server!ReceiveHeartbeat(s)
    <3>1. stage'[s] = "control" BY <2>3 DEF Server!ReceiveHeartbeat, Types, Server!TypeOK
    <3>2. QED BY <1>4, <2>1, <3>1
  <2>4. CASE Server!Answer(s)
    <3>1. CASE stage[s] = "summary" /\ stage'[s] = "commands"
      <4>1. /\ response'[s].state.remaining
                 = Server!Remaining(response[s].state.quota, request[s].day)
            /\ response'[s].state.usage = usage[request[s].day]
        BY <2>4, <3>1, AnswerState
      <4>2. ledger' = ledger /\ request' = request BY <2>4, AnswerEffect DEF ServerTables
      <4>3. request[s].day \in Day BY <1>1, <3>1 DEF Going
      <4>4. Balanced(response'[s].state, request[s].day, ledger, ledger)
        BY <4>1, <4>3, BalancedSum DEF QuotaInv
      <4>5. QED BY <1>4, <2>1, <4>2, <4>4
    <3>2. CASE stage[s] \in {"commands", "offer"}
      BY <1>4, <2>1, <2>4, <3>2, AnswerState
    <3>3. CASE stage'[s] \notin Late BY <1>4, <2>1, <3>3
    <3>4. CASE stage[s] \in {"control", "policy", "quota", "routines", "days"}
      BY <1>4, <2>1, <2>4, <3>4, AnswerState DEF QuotaInv
    <3>5. QED BY <2>4, <3>1, <3>2, <3>3, <3>4, AnswerState
  <2>5. QED BY <1>8, <2>2, <2>3, <2>4 DEF Server!Handle, Server!UnknownDay
<1>9. ASSUME NEW s \in Slot, DeliverAnswer(s) PROVE FlightInv'
  <2>1. /\ phase = "waiting" /\ current = s /\ stage[s] = "answered" /\ phase' = "events"
        /\ answer' = AnswerOf(response[s]) /\ sent' = sent
    BY <1>9 DEF DeliverAnswer, Agent!Receive
  <2>2. request[s] = sent BY <2>1 DEF WaitInv, Going
  <2>3. /\ answer'.hasState = response[s].hasState
        /\ answer'.state.remaining = response[s].state.remaining
        /\ answer'.state.usage = response[s].state.usage
    BY <2>1 DEF AnswerOf
  <2>4. ASSUME response[s].hasState
        PROVE  Balanced(answer'.state, sent'.day, ledger', ledger')
    <3>1. Balanced(response[s].state, request[s].day, ledger', ledger')
      BY <1>2, <2>1, <2>4
    <3>2. QED BY <2>1, <2>2, <2>3, <3>1 DEF Balanced
  <2>5. QED BY <1>4, <2>1, <2>3, <2>4
<1>10. CASE ApplyAnswer
  <2>1. UNCHANGED <<stage, request, response, current>> /\ Applying /\ phase' # "waiting"
        /\ (phase' # "idle" => sent' = sent)
    BY <1>10, ApplyEffect DEF serverVars
  <2>2. phase' \in Held =>
          phase \in Held /\ answer'.hasState = answer.hasState /\ answer'.state = answer.state
    BY <1>10, ApplyDocuments DEF Applying
  <2>3. QED BY <1>4, <2>1, <2>2
<1>11. CASE (Agent!Cycle \/ Agent!AbortCycle \/ Agent!Environment)
              /\ UNCHANGED <<serverVars, current>>
  BY <1>5, <1>11, DaemonEffect DEF serverVars
<1>12. ASSUME NEW b \in LocalBonus, AgentStep(Agent!AddBonusWithEvent(b)) PROVE FlightInv'
  BY <1>5, <1>12, GrantRows DEF serverVars
<1>13. CASE Timeout \/ Crash
  <2>1. phase' = "idle" BY <1>13, InterruptionEffect
  <2>2. QED BY <1>4, <2>1
<1>14. CASE UNCHANGED vars BY <1>5, <1>14 DEF vars, serverVars, agentVars
<1>15. QED
  BY <1>6, <1>7, <1>8, <1>9, <1>10, <1>11, <1>12, <1>13, <1>14
     DEF Next, ServerStep, AgentStep, DropOrphan, Move

LEMMA AnchorStep ==
  ASSUME Types, WaitInv, EventInv, CarriedInv, BalanceInv, [Next]_vars
  PROVE  (anchor # None => Balanced(anchor, anchor.day, ledger, localLedger))'
<1>0. /\ \A b \in RemoteBonus : ledger[b] # None => ledger'[b] = ledger[b]
      /\ None \notin Day
      /\ anchor # None =>
           anchor.day \in Day /\ anchor.remaining \in Nat /\ anchor.usage \in Nat
  BY LedgerStep, SystemAssumption DEF Types, Agent!TypeOK, Agent!Anchor
<1>1. ASSUME anchor' = anchor, \A b \in LocalBonus : localLedger'[b] = localLedger[b]
      PROVE  anchor' # None => Balanced(anchor', anchor'.day, ledger', localLedger')
  BY <1>0, <1>1, BalancedKept DEF BalanceInv
<1>2. CASE UNCHANGED <<anchor, localLedger>> BY <1>1, <1>2, BalancedPrime
<1>3. CASE UNCHANGED agentVars BY <1>2, <1>3 DEF agentVars
<1>4. ASSUME NEW s \in Slot, SendHeartbeat(s) \/ DeliverAnswer(s)
      PROVE  UNCHANGED <<anchor, localLedger>>
  BY <1>4, SendEffect DEF DeliverAnswer, Agent!Receive, Agent!tables
<1>5. CASE ApplyAnswer
  <2>1. CASE anchor' = anchor BY <1>1, <1>5, <2>1, ApplyRows, BalancedPrime
  <2>2. CASE phase = "state" /\ answer.hasState /\ anchor' = Agent!Confirmed(answer.state)
    <3>1. /\ answer.state.remaining \in Nat /\ answer.state.usage \in Nat /\ sent.day \in Day
      BY <2>2 DEF Types, Agent!TypeOK, Agent!Answer, Agent!Request
    <3>2. Balanced(answer.state, sent.day, ledger, ledger)
      BY <2>2 DEF BalanceInv, FlightInv
    <3>3. /\ LocalIn(localLedger, sent.day)
               = LocalIn(ledger, sent.day) + Agent!UnreportedBonus(sent.day)
          /\ Agent!UnreportedBonus(sent.day) \in Nat
      BY <2>2, <3>1, Unreported DEF BalanceInv
    <3>4. /\ anchor'.day = sent.day /\ anchor'.usage = answer.state.usage
          /\ anchor'.remaining = answer.state.remaining + Agent!UnreportedBonus(sent.day)
      BY <2>2 DEF Agent!Confirmed
    <3>5. LocalIn(ledger, sent.day) \in Nat /\ RemoteIn(ledger, sent.day) \in Nat
            /\ MaxQuota \in Nat
      BY Counts, LargestQuota
    <3>6. Balanced(anchor', anchor'.day, ledger, localLedger)
      BY <3>1, <3>2, <3>3, <3>4, <3>5 DEF Balanced, Server!MaxOf
    <3>7. ledger' = ledger /\ \A b \in LocalBonus : localLedger'[b] = localLedger[b]
      BY <1>5, ApplyEffect, ApplyRows DEF serverVars
    <3>8. anchor'.remaining \in Nat /\ anchor'.usage \in Nat BY <3>1, <3>3, <3>4
    <3>9. Balanced(anchor', anchor'.day, ledger', localLedger')
      BY <3>6, <3>7, <3>8, BalancedKept
    <3>10. QED BY <3>9, BalancedPrime
  <2>3. QED BY <1>5, <2>1, <2>2, ApplyDocuments
<1>6. CASE Agent!Cycle \/ Agent!AbortCycle \/ Agent!Environment
  BY <1>2, <1>6, DaemonEffect
<1>7. ASSUME NEW b \in LocalBonus, AgentStep(Agent!AddBonusWithEvent(b))
      PROVE  anchor' # None => Balanced(anchor', anchor'.day, ledger', localLedger')
  <2>1. /\ localLedger[b] = None /\ localLedger' = [localLedger EXCEPT ![b] = day] /\ day \in Day
        /\ ledger' = ledger
    BY <1>7, GrantRows DEF serverVars
  <2>2. localLedger \in [Agent!Bonus -> Day \cup {None}] /\ b \in Agent!Bonus
    BY DEF Types, Agent!TypeOK, Agent!Bonus
  <2>3. localLedger'[b] = day /\ \A a \in LocalBonus \ {b} : localLedger'[a] = localLedger[a]
    BY <2>1, <2>2 DEF Agent!Bonus
  <2>4. anchor' = IF anchor # None /\ anchor.day = day
                    THEN [anchor EXCEPT !.remaining = @ + 1] ELSE anchor
    BY <1>7 DEF AgentStep, Agent!AddBonusWithEvent
  <2>5. CASE anchor # None /\ anchor.day = day
    <3>1. anchor \in Agent!Anchor BY <2>5 DEF Types, Agent!TypeOK
    <3>2. /\ anchor'.day = day /\ anchor'.usage = anchor.usage
          /\ anchor'.remaining = anchor.remaining + 1
      BY <2>4, <2>5, <3>1 DEF Agent!Anchor
    <3>3. LocalIn(localLedger', day) = LocalIn(localLedger, day) + 1
      <4>1. localLedger[b] # day BY <1>0, <2>1
      <4>2. QED BY <2>3, <4>1, OneMore, Zenon
    <3>4. Balanced(anchor, day, ledger, localLedger) BY <2>5 DEF BalanceInv
    <3>5. LocalIn(localLedger, day) \in Nat /\ RemoteIn(ledger, day) \in Nat /\ MaxQuota \in Nat
      BY Counts, LargestQuota
    <3>6. QED BY <1>0, <2>1, <2>5, <3>2, <3>3, <3>4, <3>5 DEF Balanced, Server!MaxOf
  <2>6. CASE anchor # None /\ anchor.day # day
    <3>1. { a \in LocalBonus : localLedger'[a] = anchor.day }
            = { a \in LocalBonus : localLedger[a] = anchor.day }
      BY <1>0, <2>1, <2>3, <2>6
    <3>2. LocalIn(localLedger', anchor.day) = LocalIn(localLedger, anchor.day)
      BY <3>1 DEF LocalIn
    <3>3. QED BY <2>1, <2>4, <2>6, <3>2 DEF BalanceInv, Balanced
  <2>7. QED BY <2>4, <2>5, <2>6
<1>8. CASE Timeout \/ Crash BY <1>2, <1>8, InterruptionEffect
<1>9. QED
  BY <1>2, <1>3, <1>4, <1>5, <1>6, <1>7, <1>8, BalancedPrime
     DEF Next, vars, ServerStep, AgentStep, DropOrphan, Move

LEMMA BalanceStep ==
  ASSUME Types, WaitInv, EventInv, CarriedInv, BalanceInv, [Next]_vars
  PROVE  BalanceInv'
  BY QuotaStep, AckedStep, FlightStep, AnchorStep DEF BalanceInv

-----------------------------------------------------------------------------
(* The invariant of the system. *)

SysInv ==
  /\ Types /\ DesktopInv /\ WaitInv /\ OfferInv
  /\ AckInv /\ EventInv /\ CarriedInv /\ BalanceInv
  /\ PolicyInv /\ ControlInv

LEMMA SysInit == Init => SysInv
<1> SUFFICES ASSUME Init PROVE SysInv OBVIOUS
<1>1. Srv!Init /\ Agt!Init BY ServerActions, AgentActions DEF Init
<1>2. Types
  BY <1>1, ServerAssumptions, AgentAssumptions, Srv!InitType, Agt!InitType, ServerTypes,
     AgentTypes DEF Types
<1>3. /\ \A c \in Op : command[c] = "unused"
      /\ \A b \in RemoteBonus \cup LocalBonus : ledger[b] = None /\ localLedger[b] = None
      /\ \A b \in LocalBonus : event[b] = "none"
      /\ \A s \in Slot : stage[s] = "idle" /\ response[s] = Server!NoResponse
      /\ RemoteBonus \subseteq Op /\ ControlOp \subseteq Op
      /\ phase = "idle" /\ current = None /\ anchor = None /\ effect = None /\ applied = {}
      /\ session = None /\ ~ locked /\ seen = Agent!NoSession
      /\ policyRev = 1 /\ quota = 0 /\ device.applied = 0 /\ localPolicy = Agent!NoPolicy
      /\ control = [rev |-> 1, paused |-> FALSE, blocked |-> FALSE] /\ remote = Agent!Offline
  BY DEF Init, Server!Init, Agent!Init, Server!Op, Op, Server!Bonus, Agent!Bonus
<1>4. DesktopInv /\ WaitInv /\ OfferInv
  BY <1>3 DEF DesktopInv, WaitInv, OfferInv, Applying, Agent!NoSession, Server!NoResponse
<1>5. AckInv /\ EventInv /\ CarriedInv
  BY <1>3 DEF AckInv, EventInv, CarriedInv, Applying, Going
<1>6. BalanceInv
  BY <1>3 DEF BalanceInv, QuotaInv, AckedInv, FlightInv, Server!NoResponse, Server!NoState
<1>7. PolicyInv
  BY <1>3 DEF PolicyInv, DocumentOf, Applying, Going, Agent!NoPolicy, Srv!AnswerNotAheadOfPolicy,
              Srv!Reached, Server!NoResponse, Server!NoPolicy, Server!NoState
<1>8. ControlInv
  <2>1. Srv!PendingControlIsDesired
    BY <1>3 DEF Srv!PendingControlIsDesired, Srv!PendingControl
  <2>2. \A s \in Slot : response[s].commands = {} /\ response[s].control.rev = 0
    BY <1>3 DEF Server!NoResponse, Server!NoControl
  <2>3. control.rev = 1 /\ remote.rev = 0 /\ ~ remote.online /\ ~ Applying /\ effect = None
    BY <1>3 DEF Agent!Offline, Applying
  <2>4. QED BY <2>1, <2>2, <2>3 DEF ControlInv, ControlOf, Follows
<1>9. QED BY <1>2, <1>4, <1>5, <1>6, <1>7, <1>8 DEF SysInv

LEMMA SysStep == SysInv /\ [Next]_vars => SysInv'
<1> SUFFICES ASSUME SysInv, [Next]_vars PROVE SysInv' OBVIOUS
<1>1. Types /\ DesktopInv /\ WaitInv /\ OfferInv /\ AckInv /\ EventInv /\ CarriedInv
      /\ BalanceInv /\ PolicyInv /\ ControlInv
  BY DEF SysInv
<1>2. Types' BY <1>1, TypesStep
<1>3. DesktopInv' BY <1>1, DesktopStep
<1>4. WaitInv' BY <1>1, WaitStep
<1>5. OfferInv' BY <1>1, OfferStep
<1>6. AckInv' BY <1>1, AckStep
<1>7. EventInv' BY <1>1, EventStep
<1>8. CarriedInv' BY <1>1, CarriedStep
<1>9. BalanceInv' BY <1>1, BalanceStep
<1>10. PolicyInv' BY <1>1, <1>2, PolicyStep
<1>11. ControlInv' BY <1>1, ControlStep
<1>12. QED
  BY <1>2, <1>3, <1>4, <1>5, <1>6, <1>7, <1>8, <1>9, <1>10, <1>11 DEF SysInv

\* Tables, messages and memory of the two sides agree as SysInv says, for every number of
\* exchanges, days, bonuses and clicks, whatever is lost, late or restarted.
THEOREM SystemInvariant == Spec => []SysInv
  BY SysInit, SysStep, PTL DEF Spec

\* The heartbeat handler closes a bonus of the page only after the agent has its row in
\* its own store: the acknowledgements of a request come from applied_command.
THEOREM AckIsDurable == Spec => []AckedBonusIsDurable
<1>1. SysInv => AckedBonusIsDurable BY DEF SysInv, AckInv, AckedBonusIsDurable
<1>2. QED BY <1>1, SystemInvariant, PTL

\* AddBonusWithEvent writes row and event together, so that the server has a bonus granted
\* at the computer on its day, or an event is still there to bring it.
THEOREM LocalBonusReported == Spec => []LocalBonusIsReportedOnce
<1>1. SysInv => LocalBonusIsReportedOnce
  <2> SUFFICES ASSUME SysInv PROVE LocalBonusIsReportedOnce OBVIOUS
  <2>1. EventInv /\ event \in [LocalBonus -> {"none", "pending", "sent"}]
    BY DEF SysInv, Types, Agent!TypeOK
  <2>2. QED BY <2>1 DEF EventInv, LocalBonusIsReportedOnce
<1>2. QED BY <1>1, SystemInvariant, PTL

\* The confirmed balance has every bonus granted at the computer that day exactly once:
\* SaveConfirmedSessionState adds those that the answer cannot know, and no others.
THEOREM BonusCountedOnce == Spec => []BalanceCountsLocalBonusOnce
<1>1. SysInv => BalanceCountsLocalBonusOnce
  BY DEF SysInv, BalanceInv, Balanced, LocalIn, RemoteIn, BalanceCountsLocalBonusOnce,
         LocalBonusOf, RemoteBonusOf
<1>2. QED BY <1>1, SystemInvariant, PTL

\* ReplacePolicy stores what the handler read with separate statements: still, revisions
\* never run ahead of the server and the newest one has the newest content.
THEOREM PolicyAsReported == Spec => []PolicyIsWhatWasReported
<1>1. SysInv => PolicyIsWhatWasReported
  BY DEF SysInv, PolicyInv, DocumentOf, PolicyIsWhatWasReported
<1>2. QED BY <1>1, SystemInvariant, PTL

\* The control state that the agent holds, and the effect it staged, are clicks of the
\* administrator, the last one if their revision is that of the last one.
THEOREM ControlAsDesired == Spec => []HeldControlIsDesired
<1>1. SysInv => HeldControlIsDesired
  BY DEF SysInv, ControlInv, ControlOf, HeldControlIsDesired
<1>2. QED BY <1>1, SystemInvariant, PTL

-----------------------------------------------------------------------------
(* Refinement and composition. *)

\* Handlers, client and daemon together implement Credit: every bonus is granted once, each
\* side books it at most once, and it is settled when both sides have it.
THEOREM CreditRefinement == Spec => ImplementsCredit
<1>1. Init => Ledgers!Init
  <2> SUFFICES ASSUME Init PROVE Ledgers!Init OBVIOUS
  <2>1. RemoteBonus \subseteq Op BY DEF Op
  <2>2. Granted = {} /\ Settled = {}
    BY <2>1 DEF Init, Server!Init, Agent!Init, Server!Op, Op, Granted, Settled
  <2>3. QED BY <2>2 DEF Init, Server!Init, Agent!Init, Server!Bonus, Agent!Bonus, Ledgers!Init,
                        Ledgers!Bonus
<1>2. SysInv /\ SysInv' /\ [Next]_vars => [Ledgers!Next]_(Ledgers!vars)
  BY CreditStep DEF SysInv
<1>3. QED BY <1>1, <1>2, SystemInvariant, PTL DEF Spec, ImplementsCredit, Ledgers!Spec

\* Granted time, whatever is lost, late or restarted: a bonus is closed by its grantor only
\* when both stores have it, one of the computer counts for one date in both, and no row is
\* ever taken back or moved to another date (QueueRemoteBonus, AddBonusWithEvent).
THEOREM GrantedTimeIsKept ==
  Spec => [](Crd!SettledIsBooked /\ Crd!SameDate) /\ Crd!BookedForGood
<1>1. Ledgers!Init => Crd!Init
  BY DEF Ledgers!Init, Crd!Init, Ledgers!Bonus, Crd!Bonus
<1>2. [Ledgers!Next]_(Ledgers!vars) => [Crd!Next]_(Crd!vars)
  BY DEF Ledgers!Next, Ledgers!GrantOnPage, Ledgers!GrantAtComputer, Ledgers!BookAtComputer,
         Ledgers!Receive, Ledgers!Acknowledge, Ledgers!Bonus, Ledgers!vars,
         Crd!Next, Crd!GrantOnPage, Crd!GrantAtComputer, Crd!BookAtComputer, Crd!Receive,
         Crd!Acknowledge, Crd!Bonus, Crd!vars
<1>3. ImplementsCredit => Crd!Spec
  BY <1>1, <1>2, PTL DEF ImplementsCredit, Ledgers!Spec, Crd!Spec
<1>4. Crd!Spec => []Crd!CreditInv BY Crd!CreditInvariant
<1>5. Crd!Spec => Crd!BookedForGood BY Crd!BookingsStay
<1>6. Crd!CreditInv => Crd!SettledIsBooked /\ Crd!SameDate BY DEF Crd!CreditInv
<1>7. QED BY <1>3, <1>4, <1>5, <1>6, CreditRefinement, PTL

\* In the system the server's store meets no request other than those it was verified
\* against: every step is one of ServerStore, whose theorems hold here.
THEOREM ServerInSystem == Spec => Srv!Spec
<1>1. Init => Srv!Init BY ServerActions DEF Init
<1>2. SysInv /\ [Next]_vars => [Srv!Next]_(Srv!vars) BY ServerSide DEF SysInv
<1>3. QED BY <1>1, <1>2, SystemInvariant, PTL DEF Spec, Srv!Spec

\* And the agent meets no answer other than those it was verified against.
THEOREM AgentInSystem == Spec => Agt!Spec
<1>1. Init => Agt!Init BY AgentActions DEF Init
<1>2. SysInv /\ [Next]_vars => [Agt!Next]_(Agt!vars) BY AgentSide DEF SysInv
<1>3. QED BY <1>1, <1>2, SystemInvariant, PTL DEF Spec, Agt!Spec

\* What the parts promise holds when they work together: the history follows the commands,
\* an acknowledged bonus is in the ledger, nothing recorded is taken back, neither on the
\* server nor on the computer, and a crash loses no more than what was counted since
\* the last checkpoint that succeeded.
THEOREM PartsInSystem ==
  Spec => /\ [](Srv!AckedBonusIsInLedger /\ Srv!ActivityFollowsCommand)
          /\ [](Agt!AppliedBonusIsRecorded /\ Agt!CheckpointBoundsLoss)
          /\ Srv!NothingIsTakenBack /\ Agt!NothingGoesBack
<1>1. Srv!Spec => /\ []Srv!AckedBonusIsInLedger /\ []Srv!ActivityFollowsCommand
                  /\ Srv!NothingIsTakenBack
  BY ServerAssumptions, Srv!LedgerSafe, Srv!HistorySafe, Srv!RecordKept
<1>2. Agt!Spec => /\ []Agt!AppliedBonusIsRecorded /\ []Agt!CheckpointBoundsLoss
                  /\ Agt!NothingGoesBack
  BY AgentAssumptions, Agt!BonusRecorded, Agt!LossBounded, Agt!NothingLost
<1>3. QED BY <1>1, <1>2, ServerInSystem, AgentInSystem, PTL

=============================================================================
