------------------------- MODULE ServerStoreProofs -------------------------
(***************************************************************************)
(* What ServerStore guarantees for any number of exchanges, commands,      *)
(* bonuses and revisions, whatever well-formed requests devices send.      *)
(***************************************************************************)
EXTENDS ServerStore, FiniteSetTheorems, TLAPS

LEMMA BonusSecondsType == ASSUME NEW d PROVE BonusSeconds(d) \in Nat
  BY FS_Subset, FS_CardinalityType, ConstantsAssumption DEF BonusSeconds

LEMMA RemainingType ==
  ASSUME TypeOK, NEW q \in Nat, NEW d \in Day
  PROVE  Remaining(q, d) \in Nat
<1>1. usage[d] \in Nat BY DEF TypeOK
<1>2. QED BY <1>1, BonusSecondsType DEF Remaining, MaxOf

\* The fields of a request that the handlers use.
LEMMA RequestFields ==
  ASSUME NEW r \in Request
  PROVE  /\ r.policyRev \in Nat /\ r.controlRev \in Nat /\ r.stateRev \in Nat
         /\ r.day \in Day /\ r.used \in Nat /\ r.session \in Session \cup {None}
         /\ r.locked \in BOOLEAN /\ r.acks \subseteq Op /\ r.events \subseteq Event
  BY DEF Request

LEMMA InitType == Init => TypeOK
  BY ConstantsAssumption
     DEF Init, TypeOK, Control, Response, NoResponse, NoControl, NoPolicy, NoState, Control,
         Policy, State, Stage, ActivityStatus

\* The rows of a heartbeat's transaction.
LEMMA ReceiveHeartbeatType ==
  ASSUME TypeOK, NEW s \in Slot, ReceiveHeartbeat(s)
  PROVE  TypeOK'
<1> DEFINE r == request[s]
<1>1. r \in Request BY DEF TypeOK, ReceiveHeartbeat
<1>2. device' \in [applied : Nat, appliedControl : Nat, session : Session \cup {None},
                   locked : BOOLEAN, day : Day \cup {None}]
  BY <1>1, RequestFields DEF ReceiveHeartbeat
<1>3. usage' \in [Day -> Nat]
  BY <1>1, RequestFields DEF ReceiveHeartbeat, UsageAfter, MaxOf, TypeOK
<1>4. ledger' \in [Bonus -> Day \cup {None}]
  <2> SUFFICES ASSUME NEW b \in Bonus PROVE LedgerAfter(r)[b] \in Day \cup {None}
    BY DEF ReceiveHeartbeat, LedgerAfter
  <2>1. \A e \in r.events : e.day \in Day BY <1>1, RequestFields DEF Event
  <2>2. QED BY <1>1, <2>1, RequestFields DEF LedgerAfter, TypeOK
<1>5. command' \in [Op -> {"unused", "pending", "acked", "superseded"}]
  BY DEF ReceiveHeartbeat, CommandAfter, TypeOK
<1>6. activity' \in [Op \cup LocalBonus -> ActivityStatus]
  BY DEF ReceiveHeartbeat, ActivityAfter, TypeOK, ActivityStatus
<1>7. response' \in [Slot -> Response]
  BY DEF ReceiveHeartbeat, TypeOK, Response
<1>8. stage' \in [Slot -> Stage] BY DEF ReceiveHeartbeat, TypeOK, Stage
<1>9. QED BY <1>1, <1>2, <1>3, <1>4, <1>5, <1>6, <1>7, <1>8
             DEF ReceiveHeartbeat, TypeOK, config

\* Each statement of the answer fills in fields of its own response only.
LEMMA AnswerType ==
  ASSUME TypeOK, NEW s \in Slot, Answer(s)
  PROVE  TypeOK'
<1>1. request[s] \in Request
  BY DEF TypeOK, Answer, LoadControl, LoadPolicyRevision, LoadPolicyQuota, LoadPolicyRoutines, LoadPolicyDays,
         ConfirmRevision, ConfirmQuota, ConfirmBalance, LoadPendingCommands, OfferCommands, Reading
<1>2. ASSUME response' \in [Slot -> Response], stage' \in [Slot -> Stage],
             UNCHANGED <<config, control, command, kind, ledger, usage, activity, device, request>>
      PROVE  TypeOK'
  <2>1. \A t \in Slot : stage'[t] # "idle" => request'[t] \in Request
    BY <1>1, <1>2 DEF TypeOK, Answer, LoadControl, LoadPolicyRevision, LoadPolicyQuota,
       LoadPolicyRoutines, LoadPolicyDays, ConfirmRevision, ConfirmQuota, ConfirmBalance, LoadPendingCommands,
       OfferCommands, Reading
  <2>2. QED BY <1>2, <2>1 DEF TypeOK, config
<1>3. AfterControl(s) \in Stage /\ AfterPolicy(s) \in Stage
  BY DEF AfterControl, AfterPolicy, Stage
<1>4. response[s] \in Response BY DEF TypeOK
<1>5. CASE LoadControl(s)
  BY <1>2, <1>3, <1>4, <1>5 DEF LoadControl, Reading, TypeOK, Response
<1>6. CASE LoadPolicyRevision(s)
  BY <1>2, <1>4, <1>6 DEF LoadPolicyRevision, Reading, TypeOK, Response, Policy, Stage
<1>7. CASE LoadPolicyQuota(s)
  BY <1>2, <1>4, <1>7 DEF LoadPolicyQuota, Reading, TypeOK, Response, Policy, Stage
<1>8. CASE LoadPolicyRoutines(s)
  BY <1>2, <1>4, <1>8 DEF LoadPolicyRoutines, Reading, TypeOK, Response, Policy, Stage
<1>15. CASE LoadPolicyDays(s)
  BY <1>2, <1>3, <1>4, <1>15 DEF LoadPolicyDays, Reading, TypeOK, Response, Policy
<1>9. CASE ConfirmRevision(s)
  BY <1>2, <1>4, <1>9 DEF ConfirmRevision, Reading, TypeOK, Response, State, Stage
<1>10. CASE ConfirmQuota(s)
  BY <1>2, <1>4, <1>10 DEF ConfirmQuota, Reading, TypeOK, Response, State, Stage
<1>11. CASE ConfirmBalance(s)
  <2> DEFINE d == request[s].day
             left == Remaining(response[s].state.quota, d)
  <2>1. d \in Day BY <1>1, RequestFields
  <2>2. usage[d] \in Nat BY <2>1 DEF TypeOK
  <2>3. left \in Nat BY <1>4, <2>1, RemainingType DEF Response, State
  <2> HIDE DEF left
  <2>4. response' = [response EXCEPT ![s].state.remaining = left, ![s].state.usage = usage[d]]
    BY <1>11 DEF ConfirmBalance, left
  <2>5. response' \in [Slot -> Response]
    BY <1>4, <2>2, <2>3, <2>4 DEF TypeOK, Response, State
  <2>6. QED BY <1>2, <1>11, <2>5 DEF ConfirmBalance, Reading, TypeOK, Stage
<1>12. CASE LoadPendingCommands(s)
  BY <1>2, <1>4, <1>12 DEF LoadPendingCommands, Reading, TypeOK, Response, Stage
<1>13. CASE OfferCommands(s)
  BY <1>13 DEF OfferCommands, TypeOK, Stage, ActivityStatus, config
<1>14. QED BY <1>5, <1>6, <1>7, <1>8, <1>9, <1>10, <1>11, <1>12, <1>13, <1>15 DEF Answer

LEMMA AdministerType ==
  ASSUME TypeOK, Administer
  PROVE  TypeOK'
<1>1. ASSUME NEW q \in Quota, SaveQuotas(q) PROVE TypeOK'
  BY <1>1, ConstantsAssumption DEF SaveQuotas, BumpPolicy, TypeOK, exchange
<1>2. ASSUME NEW r \in Routines, SaveRoutine(r) PROVE TypeOK'
  BY <1>2 DEF SaveRoutine, BumpPolicy, TypeOK, exchange
<1>3. CASE DeleteRoutine
  BY <1>3 DEF DeleteRoutine, BumpPolicy, TypeOK, exchange
<1>4. CASE SetLocalPassword
  BY <1>4 DEF SetLocalPassword, BumpPolicy, TypeOK, exchange
<1>5. ASSUME NEW b \in RemoteBonus, QueueRemoteBonus(b) PROVE TypeOK'
  <2>1. command' \in [Op -> {"unused", "pending", "acked", "superseded"}]
    BY <1>5 DEF QueueRemoteBonus, TypeOK
  <2>2. activity' \in [Op \cup LocalBonus -> ActivityStatus]
    BY <1>5 DEF QueueRemoteBonus, TypeOK, ActivityStatus
  <2>3. policyRev' \in Nat BY <1>5 DEF QueueRemoteBonus, BumpPolicy, TypeOK
  <2>4. QED BY <1>5, <2>1, <2>2, <2>3 DEF QueueRemoteBonus, TypeOK, exchange
<1>6. ASSUME NEW k \in ControlKind, QueueControlOperation(k) PROVE TypeOK'
  <2>1. control' \in Control BY <1>6 DEF QueueControlOperation, TypeOK, Control
  <2>2. kind' \in [ControlOp -> ControlKind \cup {None}]
    BY <1>6 DEF QueueControlOperation, TypeOK
  <2>3. command' \in [Op -> {"unused", "pending", "acked", "superseded"}]
    BY <1>6 DEF QueueControlOperation, TypeOK
  <2>4. activity' \in [Op \cup LocalBonus -> ActivityStatus]
    BY <1>6 DEF QueueControlOperation, TypeOK, ActivityStatus
  <2>5. QED BY <1>6, <2>1, <2>2, <2>3, <2>4 DEF QueueControlOperation, TypeOK, config, exchange
<1>7. ASSUME NEW old, CleanupExpiredCompletedActivities(old) PROVE TypeOK'
  <2>1. activity' \in [Op \cup LocalBonus -> ActivityStatus]
    BY <1>7 DEF CleanupExpiredCompletedActivities, TypeOK, ActivityStatus
  <2>2. QED BY <1>7, <2>1 DEF CleanupExpiredCompletedActivities, TypeOK, config, exchange
<1>8. QED BY <1>1, <1>2, <1>3, <1>4, <1>5, <1>6, <1>7 DEF Administer

LEMMA ExchangeType ==
  ASSUME TypeOK, NEW s \in Slot,
         Abandon(s) \/ RejectRevisionAhead(s) \/ \E r \in Reports : Arrive(s, r)
  PROVE  TypeOK'
<1>1. NoResponse \in Response
  BY DEF NoResponse, Response, NoControl, NoPolicy, NoState, Control, Policy, State
<1>2. ASSUME Close(s), UNCHANGED <<config, control, command, kind, ledger, usage, activity, device>>
      PROVE  TypeOK'
  BY <1>1, <1>2 DEF Close, TypeOK, Stage, config
<1>3. ASSUME NEW r \in Reports, Arrive(s, r) PROVE TypeOK'
  BY <1>3, ReportsAssumption DEF Arrive, TypeOK, Stage, config
<1>4. QED BY <1>2, <1>3 DEF Abandon, RejectRevisionAhead

LEMMA TypeStep == TypeOK /\ [Next]_vars => TypeOK'
<1> SUFFICES ASSUME TypeOK, [Next]_vars PROVE TypeOK'
  OBVIOUS
<1>1. CASE UNCHANGED vars BY <1>1 DEF TypeOK, vars, config, exchange
<1>2. CASE Next
  BY <1>2, AdministerType, ExchangeType, ReceiveHeartbeatType, AnswerType
     DEF Next, Handle, UnknownDay
<1>3. QED BY <1>1, <1>2

\* Whatever devices report, every row keeps the shape of its table: usage and
\* balances never go below zero, and an exchange that has begun has a request.
THEOREM TypeCorrect == Spec => []TypeOK
<1>1. Init => TypeOK BY InitType
<1>2. TypeOK /\ [Next]_vars => TypeOK' BY TypeStep
<1>3. QED BY <1>1, <1>2, PTL DEF Spec

-----------------------------------------------------------------------------
(* The administrator's clicks. *)

\* Only QueueControlOperation and a heartbeat's acknowledgements touch the
\* control commands, and a heartbeat only closes them.
LEMMA ControlStep ==
  ASSUME TypeOK, PendingControlIsDesired, [Next]_vars
  PROVE  PendingControlIsDesired'
<1>1. ASSUME UNCHANGED <<control, kind>>,
             \A c \in ControlOp : command'[c] = "pending" => command[c] = "pending"
      PROVE  PendingControlIsDesired'
  BY <1>1 DEF PendingControlIsDesired, PendingControl
<1>2. ASSUME NEW k \in ControlKind, QueueControlOperation(k)
      PROVE  PendingControlIsDesired'
  <2> DEFINE c == control.rev + 1
  <2>1. c \in ControlOp /\ control'.rev = c BY <1>2 DEF QueueControlOperation
  <2>2. PendingControl' = {c}
    BY <1>2, <2>1 DEF QueueControlOperation, PendingControl, Superseded, TypeOK, Op
  <2>3. kind'[c] = k BY <1>2, <2>1 DEF QueueControlOperation, TypeOK
  <2>4. QED BY <1>2, <2>1, <2>2, <2>3 DEF PendingControlIsDesired, QueueControlOperation
<1>3. ASSUME NEW s \in Slot, ReceiveHeartbeat(s) PROVE PendingControlIsDesired'
  <2>1. \A c \in ControlOp : command'[c] = "pending" => command[c] = "pending"
    BY <1>3 DEF ReceiveHeartbeat, CommandAfter, Op
  <2>2. QED BY <1>1, <1>3, <2>1 DEF ReceiveHeartbeat
<1>4. ASSUME NEW b \in RemoteBonus, QueueRemoteBonus(b) PROVE PendingControlIsDesired'
  <2>1. \A c \in ControlOp : command'[c] = command[c]
    BY <1>4, ConstantsAssumption DEF QueueRemoteBonus, TypeOK, Op, Bonus
  <2>2. QED BY <1>1, <1>4, <2>1 DEF QueueRemoteBonus
<1>5. CASE UNCHANGED <<control, kind, command>> BY <1>1, <1>5
<1>6. QED BY <1>2, <1>3, <1>4, <1>5
          DEF Next, Administer, Handle, Answer, SaveQuotas, SaveRoutine, DeleteRoutine,
              SetLocalPassword, CleanupExpiredCompletedActivities, Arrive, Abandon,
              RejectRevisionAhead, UnknownDay, LoadControl, LoadPolicyRevision, LoadPolicyQuota,
              LoadPolicyRoutines, LoadPolicyDays, ConfirmRevision, ConfirmQuota, ConfirmBalance,
              LoadPendingCommands, OfferCommands, Reading, vars

\* At most one control command waits, and it is the one the current control row
\* was written with: what the device will be told to do and what it will be told
\* the state is never disagree for longer than one transaction.
THEOREM ControlSafe == Spec => []PendingControlIsDesired
<1>1. Init => PendingControlIsDesired
  BY DEF Init, PendingControlIsDesired, PendingControl, Op
<1>2. TypeOK /\ PendingControlIsDesired /\ [Next]_vars => PendingControlIsDesired'
  BY ControlStep
<1>3. QED BY <1>1, <1>2, TypeCorrect, PTL DEF Spec

-----------------------------------------------------------------------------
(* The ledger and the history. *)

\* Every step but a heartbeat's transaction leaves the ledger and the closed
\* bonus commands alone.
LEMMA LedgerStep ==
  ASSUME TypeOK, AckedBonusIsInLedger, [Next]_vars
  PROVE  AckedBonusIsInLedger'
<1>1. ASSUME UNCHANGED ledger, \A b \in RemoteBonus : command'[b] = "acked" => command[b] = "acked"
      PROVE  AckedBonusIsInLedger'
  BY <1>1 DEF AckedBonusIsInLedger
<1>2. ASSUME NEW s \in Slot, ReceiveHeartbeat(s) PROVE AckedBonusIsInLedger'
  <2> DEFINE r == request[s]
  <2> SUFFICES ASSUME NEW b \in RemoteBonus, command'[b] = "acked" PROVE ledger'[b] # None
    BY DEF AckedBonusIsInLedger
  <2>1. r.day # None
    BY <1>2, RequestFields, ConstantsAssumption DEF ReceiveHeartbeat, TypeOK
  <2>2. ledger'[b] = LedgerAfter(r)[b] /\ command' = CommandAfter(r)
    BY <1>2 DEF ReceiveHeartbeat
  <2>3. command[b] \in {"pending", "acked"}
    BY <2>2, ConstantsAssumption DEF CommandAfter, HasRow, Op
  <2>4. CASE command[b] = "acked" BY <2>2, <2>4 DEF AckedBonusIsInLedger, LedgerAfter, Bonus
  <2>5. CASE command[b] = "pending" BY <2>1, <2>2, <2>5 DEF LedgerAfter, Bonus
  <2>6. QED BY <2>3, <2>4, <2>5
<1>3. ASSUME NEW b \in RemoteBonus, QueueRemoteBonus(b) PROVE AckedBonusIsInLedger'
  BY <1>1, <1>3 DEF QueueRemoteBonus, TypeOK, Op
<1>4. ASSUME NEW k \in ControlKind, QueueControlOperation(k) PROVE AckedBonusIsInLedger'
  <2>1. \A b \in RemoteBonus : command'[b] = "acked" => command[b] = "acked"
    BY <1>4 DEF QueueControlOperation, Op
  <2>2. QED BY <1>1, <1>4, <2>1 DEF QueueControlOperation
<1>5. CASE UNCHANGED <<ledger, command>> BY <1>1, <1>5
<1>6. QED BY <1>2, <1>3, <1>4, <1>5
          DEF Next, Administer, Handle, Answer, SaveQuotas, SaveRoutine, DeleteRoutine,
              SetLocalPassword, CleanupExpiredCompletedActivities, Arrive, Abandon,
              RejectRevisionAhead, UnknownDay, LoadControl, LoadPolicyRevision, LoadPolicyQuota,
              LoadPolicyRoutines, LoadPolicyDays, ConfirmRevision, ConfirmQuota, ConfirmBalance,
              LoadPendingCommands, OfferCommands, Reading, vars

\* No acknowledgement, however early or late, closes a remote bonus that the
\* ledger does not hold: the time the administrator granted is counted.
THEOREM LedgerSafe == Spec => []AckedBonusIsInLedger
<1>1. Init => AckedBonusIsInLedger BY DEF Init, AckedBonusIsInLedger, Op
<1>2. TypeOK /\ AckedBonusIsInLedger /\ [Next]_vars => AckedBonusIsInLedger'
  BY LedgerStep
<1>3. QED BY <1>1, <1>2, TypeCorrect, PTL DEF Spec

LEMMA HistoryStep ==
  ASSUME TypeOK, ActivityFollowsCommand, [Next]_vars
  PROVE  ActivityFollowsCommand'
<1>1. \A e \in Event : e.id \notin Op BY ConstantsAssumption DEF Event, Op, Bonus
<1>2. \A old \in Expirable : old \subseteq Completed BY DEF Expirable
<1>3. DOMAIN activity = Op \cup LocalBonus /\ DOMAIN command = Op BY DEF TypeOK
<1>4. ASSUME UNCHANGED command,
             \A c \in Op : \/ activity'[c] = activity[c]
                           \/ activity[c] = "completed" /\ activity'[c] = "absent"
                           \/ activity[c] = "waiting_device" /\ activity'[c] = "offered"
      PROVE  ActivityFollowsCommand'
  BY <1>4 DEF ActivityFollowsCommand
<1>5. ASSUME NEW s \in Slot, ReceiveHeartbeat(s) PROVE ActivityFollowsCommand'
  <2> DEFINE r == request[s]
  <2>1. PICK old \in Expirable : activity' = ActivityAfter(r, old)
    BY <1>5 DEF ReceiveHeartbeat
  <2>2. r.events \subseteq Event
    BY <1>5, RequestFields DEF ReceiveHeartbeat, TypeOK
  <2>3. command' = CommandAfter(r) BY <1>5 DEF ReceiveHeartbeat
  <2> SUFFICES ASSUME NEW c \in Op
               PROVE  /\ command'[c] = "pending" => activity'[c] \in {"waiting_device", "offered"}
                      /\ command'[c] = "superseded" => activity'[c] = "absent"
                      /\ command'[c] = "acked" => activity'[c] \in {"completed", "absent"}
    BY DEF ActivityFollowsCommand
  <2>4. activity'[c] = IF c \in r.acks /\ HasRow(c) /\ activity[c] # "absent" /\ c \notin old
                         THEN "completed" ELSE IF c \in old THEN "absent" ELSE activity[c]
    BY <1>1, <1>3, <2>1, <2>2 DEF ActivityAfter
  <2>5. c \in old => activity[c] = "completed" BY <1>2 DEF Completed
  <2>6. command'[c] = IF c \in r.acks /\ HasRow(c) THEN "acked" ELSE command[c]
    BY <2>3 DEF CommandAfter
  <2>7. QED BY <2>4, <2>5, <2>6 DEF ActivityFollowsCommand, HasRow
<1>6. ASSUME NEW b \in RemoteBonus, QueueRemoteBonus(b) PROVE ActivityFollowsCommand'
  BY <1>3, <1>6 DEF QueueRemoteBonus, ActivityFollowsCommand, Op
<1>7. ASSUME NEW k \in ControlKind, QueueControlOperation(k) PROVE ActivityFollowsCommand'
  <2> DEFINE n == control.rev + 1
  <2>1. \A c \in Op :
          /\ command'[c] = IF c = n THEN "pending"
                           ELSE IF c \in Superseded THEN "superseded" ELSE command[c]
          /\ activity'[c] = IF c = n THEN "waiting_device"
                            ELSE IF c \in Superseded THEN "absent" ELSE activity[c]
    BY <1>3, <1>7 DEF QueueControlOperation
  <2>2. QED BY <2>1 DEF ActivityFollowsCommand
<1>8. ASSUME NEW old, CleanupExpiredCompletedActivities(old)
      PROVE  ActivityFollowsCommand'
  BY <1>2, <1>3, <1>4, <1>8 DEF CleanupExpiredCompletedActivities, Completed
<1>9. ASSUME NEW s \in Slot, OfferCommands(s) PROVE ActivityFollowsCommand'
  BY <1>3, <1>4, <1>9 DEF OfferCommands
<1>10. CASE UNCHANGED <<activity, command>> BY <1>4, <1>10
<1>11. QED BY <1>5, <1>6, <1>7, <1>8, <1>9, <1>10
           DEF Next, Administer, Handle, Answer, SaveQuotas, SaveRoutine, DeleteRoutine,
               SetLocalPassword, Arrive, Abandon,
               RejectRevisionAhead, UnknownDay, LoadControl, LoadPolicyRevision, LoadPolicyQuota,
               LoadPolicyRoutines, LoadPolicyDays, ConfirmRevision, ConfirmQuota, ConfirmBalance,
               LoadPendingCommands, Reading, vars

\* The history that the administrator sees agrees with the commands: waiting
\* commands are shown as open, superseded ones are not shown, and none is shown
\* as completed before the device said so.
THEOREM HistorySafe == Spec => []ActivityFollowsCommand
<1>1. Init => ActivityFollowsCommand BY DEF Init, ActivityFollowsCommand
<1>2. TypeOK /\ ActivityFollowsCommand /\ [Next]_vars => ActivityFollowsCommand'
  BY HistoryStep
<1>3. QED BY <1>1, <1>2, TypeCorrect, PTL DEF Spec

-----------------------------------------------------------------------------
(* Documents read statement by statement. *)

\* No document carries a revision that the store has not reached, so any later
\* edit leaves every document being built behind.
Reached ==
  \A s \in Slot :
    /\ response[s].hasPolicy => response[s].policy.rev <= policyRev
    /\ response[s].hasState => response[s].state.rev <= policyRev

\* AnswerNotAheadOfPolicy for the exchange s.
NotAhead(s) ==
  LET p == response[s].policy
      b == response[s].state
  IN
  /\ (response[s].hasPolicy /\ p.rev = policyRev) =>
       /\ stage[s] # "quota" => p.quota = quota
       /\ stage[s] \notin {"quota", "routines"} => p.routines = routines
       /\ stage[s] \notin {"quota", "routines", "days"} => p.days = routines
  /\ (response[s].hasState /\ b.rev = policyRev) =>
       (stage[s] # "confirmQuota" => b.quota = quota)
  /\ response[s].hasPolicy => p.rev <= policyRev
  /\ response[s].hasState => b.rev <= policyRev

LEMMA NotAheadEverywhere ==
  AnswerNotAheadOfPolicy /\ Reached <=> \A s \in Slot : NotAhead(s)
  BY DEF AnswerNotAheadOfPolicy, Reached, NotAhead

LEMMA BumpLeavesBehind ==
  ASSUME TypeOK, AnswerNotAheadOfPolicy, Reached, BumpPolicy, UNCHANGED exchange
  PROVE  AnswerNotAheadOfPolicy' /\ Reached'
<1>1. policyRev \in Nat /\ policyRev' = policyRev + 1 BY DEF TypeOK, BumpPolicy
<1>2. \A s \in Slot : response[s] \in Response BY DEF TypeOK
<1>3. QED BY <1>1, <1>2 DEF AnswerNotAheadOfPolicy, Reached, exchange, Response, Policy, State

LEMMA PolicyStep ==
  ASSUME TypeOK, AnswerNotAheadOfPolicy, Reached, [Next]_vars
  PROVE  AnswerNotAheadOfPolicy' /\ Reached'
<1>1. ASSUME NEW s \in Slot, UNCHANGED config, NotAhead(s)',
             \A t \in Slot \ {s} : response'[t] = response[t] /\ stage'[t] = stage[t]
      PROVE  AnswerNotAheadOfPolicy' /\ Reached'
  <2> SUFFICES ASSUME NEW t \in Slot PROVE NotAhead(t)'
    BY DEF AnswerNotAheadOfPolicy, Reached, NotAhead
  <2>1. CASE t = s BY <1>1, <2>1
  <2>2. CASE t # s
    <3>1. NotAhead(t) BY NotAheadEverywhere
    <3>2. response'[t] = response[t] /\ stage'[t] = stage[t] BY <1>1, <2>2
    <3>3. policyRev' = policyRev /\ quota' = quota /\ routines' = routines BY <1>1 DEF config
    <3>4. QED BY <3>1, <3>2, <3>3 DEF NotAhead
  <2>3. QED BY <2>1, <2>2
<1>2. ASSUME NEW s \in Slot,
             LoadControl(s) \/ LoadPolicyRevision(s) \/ LoadPolicyQuota(s) \/ LoadPolicyRoutines(s)
             \/ LoadPolicyDays(s) \/ ConfirmRevision(s) \/ ConfirmQuota(s) \/ ConfirmBalance(s)
             \/ LoadPendingCommands(s) \/ ReceiveHeartbeat(s)
      PROVE  AnswerNotAheadOfPolicy' /\ Reached'
  <2>1. NotAhead(s) BY NotAheadEverywhere
  <2>2. policyRev \in Nat /\ response[s] \in Response /\ DOMAIN response = Slot
        /\ DOMAIN stage = Slot
    BY DEF TypeOK
  <2>3. UNCHANGED config
    BY <1>2 DEF LoadControl, LoadPolicyRevision, LoadPolicyQuota, LoadPolicyRoutines, LoadPolicyDays,
           ConfirmRevision, ConfirmQuota, ConfirmBalance, LoadPendingCommands, ReceiveHeartbeat,
           Reading
  <2>4. \A t \in Slot \ {s} : response'[t] = response[t] /\ stage'[t] = stage[t]
    BY <1>2, <2>2 DEF LoadControl, LoadPolicyRevision, LoadPolicyQuota, LoadPolicyRoutines, LoadPolicyDays,
           ConfirmRevision, ConfirmQuota, ConfirmBalance, LoadPendingCommands, ReceiveHeartbeat,
           Reading
  <2>5. NotAhead(s)'
    <3>1. CASE LoadControl(s)
      BY <2>1, <2>2, <2>3, <3>1
         DEF LoadControl, Reading, NotAhead, config, Response, AfterControl, AfterPolicy
    <3>2. CASE LoadPolicyRevision(s)
      BY <2>1, <2>2, <2>3, <3>2 DEF LoadPolicyRevision, Reading, NotAhead, config, Response, Policy
    <3>3. CASE LoadPolicyQuota(s)
      BY <2>1, <2>2, <2>3, <3>3 DEF LoadPolicyQuota, Reading, NotAhead, config, Response, Policy
    <3>4. CASE LoadPolicyRoutines(s)
      BY <2>1, <2>2, <2>3, <3>4 DEF LoadPolicyRoutines, Reading, NotAhead, config, Response, Policy
    <3>11. CASE LoadPolicyDays(s)
      BY <2>1, <2>2, <2>3, <3>11 DEF LoadPolicyDays, Reading, NotAhead, config, Response, Policy
    <3>5. CASE ConfirmRevision(s)
      BY <2>1, <2>2, <2>3, <3>5 DEF ConfirmRevision, Reading, NotAhead, config, Response, State
    <3>6. CASE ConfirmQuota(s)
      BY <2>1, <2>2, <2>3, <3>6 DEF ConfirmQuota, Reading, NotAhead, config, Response, State
    <3>7. CASE ConfirmBalance(s)
      BY <2>1, <2>2, <2>3, <3>7 DEF ConfirmBalance, Reading, NotAhead, config, Response, State
    <3>8. CASE LoadPendingCommands(s)
      BY <2>1, <2>2, <2>3, <3>8 DEF LoadPendingCommands, Reading, NotAhead, config, Response
    <3>9. CASE ReceiveHeartbeat(s)
      BY <2>1, <2>2, <2>3, <3>9 DEF ReceiveHeartbeat, NotAhead, config, Response
    <3>10. QED BY <1>2, <3>1, <3>2, <3>3, <3>4, <3>5, <3>6, <3>7, <3>8, <3>9, <3>11
  <2>6. QED BY <1>1, <2>3, <2>4, <2>5
<1>3. ASSUME NEW s \in Slot, OfferCommands(s) \/ \E r \in Reports : Arrive(s, r)
      PROVE  AnswerNotAheadOfPolicy' /\ Reached'
  <2>1. NotAhead(s) /\ UNCHANGED <<config, response>>
    BY <1>3, NotAheadEverywhere DEF OfferCommands, Arrive
  <2>2. stage[s] \in {"idle", "offer"} /\ stage'[s] \in {"sent", "answered"}
    BY <1>3 DEF OfferCommands, Arrive, TypeOK
  <2>3. \A t \in Slot \ {s} : stage'[t] = stage[t] BY <1>3 DEF OfferCommands, Arrive, TypeOK
  <2>4. NotAhead(s)' BY <2>1, <2>2 DEF NotAhead, config
  <2>5. QED BY <1>1, <2>1, <2>3, <2>4
<1>4. ASSUME NEW s \in Slot, Abandon(s) \/ RejectRevisionAhead(s)
      PROVE  AnswerNotAheadOfPolicy' /\ Reached'
  <2>1. Close(s) /\ UNCHANGED config BY <1>4 DEF Abandon, RejectRevisionAhead
  <2>2. NotAhead(s)' BY <2>1 DEF Close, NotAhead, NoResponse, TypeOK
  <2>3. QED BY <1>1, <2>1, <2>2 DEF Close
<1>5. ASSUME BumpPolicy, UNCHANGED exchange PROVE AnswerNotAheadOfPolicy' /\ Reached'
  BY <1>5, BumpLeavesBehind
<1>6. CASE UNCHANGED <<config, exchange>>
  BY <1>6 DEF AnswerNotAheadOfPolicy, Reached, config, exchange
<1>7. QED BY <1>2, <1>3, <1>4, <1>5, <1>6
          DEF Next, Administer, Handle, Answer, SaveQuotas, SaveRoutine, DeleteRoutine,
              SetLocalPassword, QueueRemoteBonus, QueueControlOperation,
              CleanupExpiredCompletedActivities, UnknownDay, vars

\* A device never stores an old quota or old routines under the revision of the
\* newest ones, although the answer is read statement by statement while the
\* administrator edits: it would never ask for the difference again.
THEOREM PolicySafe == Spec => []AnswerNotAheadOfPolicy
<1>1. Init => AnswerNotAheadOfPolicy /\ Reached
  BY DEF Init, AnswerNotAheadOfPolicy, Reached, NoResponse
<1>2. TypeOK /\ AnswerNotAheadOfPolicy /\ Reached /\ [Next]_vars
        => AnswerNotAheadOfPolicy' /\ Reached'
  BY PolicyStep
<1>3. QED BY <1>1, <1>2, TypeCorrect, PTL DEF Spec

-----------------------------------------------------------------------------
(* Nothing is taken back. *)

\* An operation that was never queued has no row and no history, and control
\* revisions are used in order.
Untouched ==
  /\ \A c \in Op : command[c] = "unused" => activity[c] = "absent"
  /\ \A c \in ControlOp : c > control.rev => command[c] = "unused"

Kept ==
  /\ \A b \in Bonus : ledger[b] # None => ledger'[b] = ledger[b]
  /\ \A d \in Day : usage'[d] >= usage[d]
  /\ \A c \in Op : command[c] \in {"acked", "superseded"} => command'[c] = command[c]
  /\ \A a \in Op \cup LocalBonus :
       activity[a] = "completed" => activity'[a] \in {"completed", "absent"}

LEMMA KeptStep ==
  ASSUME TypeOK, Untouched, [Next]_vars
  PROVE  Untouched' /\ Kept
<1>1. \A e \in Event : e.id \notin Op BY ConstantsAssumption DEF Event, Op, Bonus
<1>2. \A old \in Expirable : old \subseteq Completed BY DEF Expirable
<1>3. DOMAIN activity = Op \cup LocalBonus /\ DOMAIN command = Op BY DEF TypeOK
<1>4. \A d \in Day : usage[d] \in Nat BY DEF TypeOK
<1>5. ControlOp \subseteq Op /\ RemoteBonus \subseteq Op /\ RemoteBonus \cap ControlOp = {}
      /\ \A c \in ControlOp : c \in Nat
  BY ConstantsAssumption DEF Op, Bonus
<1>6. control.rev \in Nat BY DEF TypeOK, Control
<1>7. ASSUME UNCHANGED <<control, command, ledger, usage>>,
             \A a \in Op \cup LocalBonus :
               \/ activity'[a] = activity[a]
               \/ activity[a] = "completed" /\ activity'[a] = "absent"
               \/ activity[a] = "waiting_device" /\ activity'[a] = "offered"
      PROVE  Untouched' /\ Kept
  BY <1>4, <1>7 DEF Untouched, Kept
<1>8. ASSUME NEW s \in Slot, ReceiveHeartbeat(s) PROVE Untouched' /\ Kept
  <2> DEFINE r == request[s]
  <2>1. PICK old \in Expirable : activity' = ActivityAfter(r, old)
    BY <1>8 DEF ReceiveHeartbeat
  <2>2. r \in Request BY <1>8 DEF ReceiveHeartbeat, TypeOK
  <2>3. r.events \subseteq Event /\ r.used \in Nat BY <2>2, RequestFields
  <2>4. \A c \in Op : command'[c] = IF c \in r.acks /\ HasRow(c) THEN "acked" ELSE command[c]
    BY <1>8 DEF ReceiveHeartbeat, CommandAfter
  <2>5. \A a \in Op \cup LocalBonus : activity[a] = "completed" => activity'[a] \in {"completed", "absent"}
    BY <1>3, <2>1 DEF ActivityAfter
  <2>6. \A c \in Op : activity[c] = "absent" => activity'[c] = "absent"
    BY <1>1, <1>3, <2>1, <2>3 DEF ActivityAfter
  <2>7. \A b \in Bonus : ledger[b] # None => ledger'[b] = ledger[b]
    BY <1>8 DEF ReceiveHeartbeat, LedgerAfter
  <2>8. \A d \in Day : usage'[d] >= usage[d]
    BY <1>4, <1>8, <2>3 DEF ReceiveHeartbeat, UsageAfter, MaxOf, TypeOK
  <2>9. Untouched'
    BY <1>5, <1>8, <2>4, <2>6 DEF Untouched, HasRow, ReceiveHeartbeat
  <2>10. QED BY <2>4, <2>5, <2>7, <2>8, <2>9 DEF Kept, HasRow
<1>9. ASSUME NEW b \in RemoteBonus, QueueRemoteBonus(b) PROVE Untouched' /\ Kept
  <2>1. \A c \in Op : c # b => command'[c] = command[c] /\ activity'[c] = activity[c]
    BY <1>9, <1>3 DEF QueueRemoteBonus
  <2>2. command[b] = "unused" /\ command'[b] = "pending" /\ activity[b] = "absent"
    BY <1>3, <1>5, <1>9 DEF QueueRemoteBonus, Untouched
  <2>3. UNCHANGED <<control, ledger, usage>> BY <1>9 DEF QueueRemoteBonus
  <2>4. \A a \in LocalBonus : a # b => activity'[a] = activity[a]
    BY <1>9, <1>3 DEF QueueRemoteBonus
  <2>5. QED BY <1>4, <1>5, <2>1, <2>2, <2>3, <2>4 DEF Untouched, Kept
<1>10. ASSUME NEW k \in ControlKind, QueueControlOperation(k) PROVE Untouched' /\ Kept
  <2> DEFINE n == control.rev + 1
  <2>1. n \in ControlOp /\ control'.rev = n /\ UNCHANGED <<ledger, usage>>
    BY <1>10 DEF QueueControlOperation
  <2>2. command[n] = "unused" /\ activity[n] = "absent" BY <1>5, <1>6, <2>1 DEF Untouched
  <2>3. \A c \in Op : command'[c] = IF c = n THEN "pending"
                                    ELSE IF c \in Superseded THEN "superseded" ELSE command[c]
    BY <1>10 DEF QueueControlOperation
  <2>4. \A a \in Op \cup LocalBonus :
          activity'[a] = IF a = n THEN "waiting_device"
                         ELSE IF a \in Superseded THEN "absent" ELSE activity[a]
    BY <1>3, <1>10 DEF QueueControlOperation
  <2>5. \A c \in Superseded : command[c] = "pending" BY DEF Superseded, PendingControl
  <2>6. Untouched' BY <1>5, <1>6, <2>1, <2>3, <2>4, <2>5 DEF Untouched
  <2>7. QED BY <1>4, <2>1, <2>2, <2>3, <2>4, <2>5, <2>6 DEF Kept
<1>11. ASSUME NEW old, CleanupExpiredCompletedActivities(old)
       PROVE  Untouched' /\ Kept
  BY <1>2, <1>3, <1>7, <1>11 DEF CleanupExpiredCompletedActivities, Completed
<1>12. ASSUME NEW s \in Slot, OfferCommands(s) PROVE Untouched' /\ Kept
  BY <1>3, <1>7, <1>12 DEF OfferCommands
<1>13. CASE UNCHANGED <<control, command, ledger, usage, activity>>
  BY <1>7, <1>13
<1>14. QED BY <1>8, <1>9, <1>10, <1>11, <1>12, <1>13
           DEF Next, Administer, Handle, Answer, SaveQuotas, SaveRoutine, DeleteRoutine,
               SetLocalPassword, Arrive, Abandon,
               RejectRevisionAhead, UnknownDay, LoadControl, LoadPolicyRevision, LoadPolicyQuota,
               LoadPolicyRoutines, LoadPolicyDays, ConfirmRevision, ConfirmQuota, ConfirmBalance,
               LoadPendingCommands, Reading, vars

\* Heartbeats that arrive late, twice or after their device gave up on them
\* never move a bonus to another day, shrink the recorded usage, reopen a closed
\* command or unmark a completed activity.
THEOREM RecordKept == Spec => NothingIsTakenBack
<1>1. Init => Untouched
  BY ConstantsAssumption DEF Init, Untouched, Op
<1>2. TypeOK /\ Untouched /\ [Next]_vars => Untouched' /\ Kept
  BY KeptStep
<1>3. TypeOK /\ Untouched /\ [Next]_vars => [Kept]_vars
  BY <1>2
<1>4. QED BY <1>1, <1>2, <1>3, TypeCorrect, PTL DEF Spec, NothingIsTakenBack, Kept
=============================================================================
