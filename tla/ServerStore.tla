---------------------------- MODULE ServerStore ----------------------------
(***************************************************************************)
(* The server's SQLite store for ONE device (every statement of            *)
(* src/server/storage filters by device_id), and the heartbeat handlers    *)
(* that run over it.                                                       *)
(*                                                                         *)
(* The store has one connection, so a transaction is one atomic step; what *)
(* is NOT atomic is a whole heartbeat.  ReceiveHeartbeat commits its       *)
(* transaction and then reads the control row, the policy, the session     *)
(* balance and the pending commands with separate statements, between      *)
(* which an administrator's request, or another heartbeat that the device  *)
(* has already given up on, may run.  Each of those statements is an       *)
(* action here, and stage[s] says which one handler s runs next.           *)
(*                                                                         *)
(* Abstractions.  A bonus is worth one unit of time, so SUM(seconds) is    *)
(* the number of rows.  The quota is the same on every weekday.  Routines  *)
(* are an opaque value.  A control command is named by the control         *)
(* revision it creates (the code draws a random id and orders by           *)
(* created_at).  Wall-clock stamps, audit rows, activity steps and         *)
(* delivery counters are left out: nothing below reads them.               *)
(***************************************************************************)
EXTENDS Integers, FiniteSets

CONSTANTS
  Slot,          \* concurrent heartbeat exchanges
  Day,           \* local calendar dates a device may report
  Session,       \* identifiers of graphical sessions
  RemoteBonus,   \* identifiers of bonuses granted on the web page
  LocalBonus,    \* identifiers of bonuses granted at the computer
  ControlOp,     \* control revisions that may be created, each names its command
  Quota,         \* values of the daily quota
  Routines,      \* non-empty sets of routines, as opaque values
  MaxRevision,   \* bound on the policy revision
  Reports,       \* requests that devices may send
  CleanupDue,    \* whether the retention cleanup may fall due
  None           \* absent row, SQL NULL, no routine at all

Bonus == RemoteBonus \cup LocalBonus
Op == RemoteBonus \cup ControlOp
ControlKind == {"pause_monitoring", "resume_monitoring", "block_now", "clear_manual_block"}

\* What the model needs of its constants: the three kinds of identifiers are
\* disjoint, the numbers are numbers and None is not one of the values.
ASSUME ConstantsAssumption ==
  /\ IsFiniteSet(Bonus)
  /\ ControlOp \subseteq Nat /\ Quota \subseteq Nat
  /\ RemoteBonus \cap LocalBonus = {} /\ ControlOp \cap Bonus = {}
  /\ MaxRevision \in Nat
  /\ CleanupDue \in BOOLEAN
  /\ None \notin Day \cup Session \cup Routines

VARIABLES
  policyRev,   \* policy.revision, kept equal to device.policy_revision
  quota,       \* weekly_quota
  routines,    \* routine and routine_day
  control,     \* device_control row
  command,     \* device_command rows, with why a deleted row is gone
  kind,        \* device_command.kind of control commands
  ledger,      \* bonus rows: the date a bonus counts for, or None
  usage,       \* daily_usage.seconds_used
  activity,    \* activity.status, or "absent"
  device,      \* what the last heartbeat reported (device row, latest usage date)
  stage,       \* where each exchange stands
  request,     \* its request
  response     \* its response so far

config   == <<policyRev, quota, routines>>
exchange == <<stage, request, response>>
vars     == <<config, control, command, kind, ledger, usage, activity, device, exchange>>

-----------------------------------------------------------------------------
(* Types *)

Control == [rev : Nat, paused : BOOLEAN, blocked : BOOLEAN]
\* The routines of a document and the weekdays in it are read apart.
Policy  == [rev : Nat, quota : Nat, routines : Routines \cup {None},
            days : Routines \cup {None}]
State   == [rev : Nat, quota : Nat, remaining : Nat, usage : Nat]
Event   == [id : LocalBonus, day : Day]

\* protocol.HeartbeatRequest; session = None is graphical_session_active = false.
Request ==
  { r \in [policyRev : Nat, controlRev : Nat, stateRev : Nat, wantState : BOOLEAN,
           day : Day, used : Nat, session : Session \cup {None}, locked : BOOLEAN,
           events : SUBSET Event, acks : SUBSET Op] :
      r.session = None => ~ r.wantState /\ ~ r.locked }

\* protocol.HeartbeatResponse; serverRev is the revision the transaction read.
Response ==
  [serverRev : Nat, control : Control,
   hasPolicy : BOOLEAN, policy : Policy, hasState : BOOLEAN, state : State,
   commands : SUBSET Op]

ASSUME ReportsAssumption == Reports \subseteq Request

NoControl  == [rev |-> 0, paused |-> FALSE, blocked |-> FALSE]
NoPolicy   == [rev |-> 0, quota |-> 0, routines |-> None, days |-> None]
NoState    == [rev |-> 0, quota |-> 0, remaining |-> 0, usage |-> 0]
NoResponse == [serverRev |-> 0, control |-> NoControl,
               hasPolicy |-> FALSE, policy |-> NoPolicy,
               hasState |-> FALSE, state |-> NoState, commands |-> {}]

Stage == {"idle", "sent", "control", "policy", "quota", "routines", "days",
          "confirm", "confirmQuota", "summary", "commands", "offer", "answered"}

-----------------------------------------------------------------------------
(* Reading the tables *)

MaxOf(a, b) == IF a >= b THEN a ELSE b

\* Unacknowledged control rows; the newest decides whether a click is a repeat.
PendingControl == { c \in ControlOp : command[c] = "pending" }
NewestPending(c) == c \in PendingControl /\ \A d \in PendingControl : d <= c

\* Acknowledged control rows are deleted, acknowledged bonus rows stay.
HasRow(c) == command[c] = "pending" \/ (c \in RemoteBonus /\ command[c] = "acked")

BonusSeconds(d) == Cardinality({b \in Bonus : ledger[b] = d})

\* Mutant: the balance without its clamp.
RemainingUnclamped(q, d) == q + BonusSeconds(d) - usage[d]

\* The balance of confirmedSessionState, from a quota and the day's summary.
Remaining(q, d) == MaxOf(0, q + BonusSeconds(d) - usage[d])

Completed == { a \in DOMAIN activity : activity[a] = "completed" }
\* Mutant: retention that does not look at the status.
ExpirableOpen == IF CleanupDue THEN SUBSET DOMAIN activity ELSE {{}}

Expirable == IF CleanupDue THEN SUBSET Completed ELSE {{}}

-----------------------------------------------------------------------------
(* A device as CreateDevice leaves it. *)

Init ==
  /\ policyRev = 1 /\ quota = 0 /\ routines = None
  /\ control = [rev |-> 1, paused |-> FALSE, blocked |-> FALSE]
  /\ command = [c \in Op |-> "unused"]
  /\ kind = [c \in ControlOp |-> None]
  /\ ledger = [b \in Bonus |-> None]
  /\ usage = [d \in Day |-> 0]
  /\ activity = [a \in Op \cup LocalBonus |-> "absent"]
  /\ device = [applied |-> 0, appliedControl |-> 0, session |-> None,
               locked |-> FALSE, day |-> None]
  /\ stage = [s \in Slot |-> "idle"]
  /\ request = [s \in Slot |-> None]
  /\ response = [s \in Slot |-> NoResponse]

-----------------------------------------------------------------------------
(* Requests of the administrator, one transaction each. *)

BumpPolicy ==
  /\ policyRev < MaxRevision
  /\ policyRev' = policyRev + 1

SaveQuotas(q) ==
  /\ BumpPolicy
  /\ quota' = q
  /\ UNCHANGED <<routines, control, command, kind, ledger, usage, activity, device, exchange>>

SaveRoutine(r) ==
  /\ BumpPolicy
  /\ routines' = r
  /\ UNCHANGED <<quota, control, command, kind, ledger, usage, activity, device, exchange>>

DeleteRoutine ==
  /\ routines # None
  /\ BumpPolicy
  /\ routines' = None
  /\ UNCHANGED <<quota, control, command, kind, ledger, usage, activity, device, exchange>>

SetLocalPassword ==
  /\ BumpPolicy
  /\ UNCHANGED <<quota, routines, control, command, kind, ledger, usage, activity, device,
                 exchange>>

\* A remote bonus changes no balance yet: it bumps the revision and waits as a
\* command for the device to say which day it is living.
QueueRemoteBonus(b) ==
  /\ command[b] = "unused"
  /\ BumpPolicy
  /\ command' = [command EXCEPT ![b] = "pending"]
  /\ activity' = [activity EXCEPT ![b] = "waiting_device"]
  /\ UNCHANGED <<quota, routines, control, kind, ledger, usage, device, exchange>>

\* Mutant: operations already offered to the device are kept.
SupersededUnoffered == { c \in PendingControl : activity[c] = "waiting_device" }

\* Unacknowledged control rows that a new operation discards.
Superseded == PendingControl

\* Repeating the pending kind returns the pending command and changes nothing.
\* Otherwise the older pending control rows and their activities are deleted
\* and the desired state, its revision and its command are written together.
QueueControlOperation(k) ==
  LET c == control.rev + 1 IN
  /\ c \in ControlOp
  /\ \A d \in ControlOp : NewestPending(d) => kind[d] # k
  /\ control' = [rev |-> c, paused |-> k = "pause_monitoring", blocked |-> k = "block_now"]
  /\ command' = [o \in Op |-> IF o = c THEN "pending"
                              ELSE IF o \in Superseded THEN "superseded" ELSE command[o]]
  /\ kind' = [kind EXCEPT ![c] = k]
  /\ activity' = [a \in DOMAIN activity |->
                    IF a = c THEN "waiting_device"
                    ELSE IF a \in Superseded THEN "absent" ELSE activity[a]]
  /\ UNCHANGED <<config, ledger, usage, device, exchange>>

\* Retention, or the administrator's "clear completed".
CleanupExpiredCompletedActivities(old) ==
  /\ old # {} /\ old \in Expirable
  /\ activity' = [a \in DOMAIN activity |-> IF a \in old THEN "absent" ELSE activity[a]]
  /\ UNCHANGED <<config, control, command, kind, ledger, usage, device, exchange>>

-----------------------------------------------------------------------------
(* One heartbeat exchange. *)

\* The request is on its way; the handler has not begun its transaction.
Arrive(s, r) ==
  /\ stage[s] = "idle"
  /\ stage' = [stage EXCEPT ![s] = "sent"]
  /\ request' = [request EXCEPT ![s] = r]
  /\ UNCHANGED <<config, control, command, kind, ledger, usage, activity, device, response>>

Close(s) ==
  /\ stage' = [stage EXCEPT ![s] = "idle"]
  /\ request' = [request EXCEPT ![s] = None]
  /\ response' = [response EXCEPT ![s] = NoResponse]

\* The request is lost, its handler is cancelled with its connection between
\* two statements, or its answer is lost: whatever was committed stays.
Abandon(s) ==
  /\ stage[s] # "idle"
  /\ Close(s)
  /\ UNCHANGED <<config, control, command, kind, ledger, usage, activity, device>>

RevisionAhead(r) == r.policyRev > policyRev \/ r.stateRev > policyRev

RejectRevisionAhead(s) ==
  /\ stage[s] = "sent"
  /\ RevisionAhead(request[s])
  /\ Close(s)
  /\ UNCHANGED <<config, control, command, kind, ledger, usage, activity, device>>

\* Mutant: a late report replaces a newer counter.
UsageReplaced(r) == [usage EXCEPT ![r.day] = r.used]

UsageAfter(r) == [usage EXCEPT ![r.day] = MaxOf(@, r.used)]

\* Mutant: acknowledgements are processed before bonuses are dated.
LedgerAfterAcks(r) ==
  [b \in Bonus |->
     IF ledger[b] # None THEN ledger[b]
     ELSE IF b \in RemoteBonus \ r.acks /\ command[b] = "pending" THEN r.day
     ELSE IF \E e \in r.events : e.id = b THEN (CHOOSE e \in r.events : e.id = b).day
     ELSE None]

\* Mutant: an event counts for the day of the request that carries it.
LedgerAfterToday(r) ==
  [b \in Bonus |->
     IF ledger[b] # None THEN ledger[b]
     ELSE IF b \in RemoteBonus /\ command[b] = "pending" THEN r.day
     ELSE IF \E e \in r.events : e.id = b THEN r.day
     ELSE None]

\* Remote bonuses without a ledger row are dated with the device's date before
\* events and acknowledgements are processed; both inserts keep an older row.
LedgerAfter(r) ==
  [b \in Bonus |->
     IF ledger[b] # None THEN ledger[b]
     ELSE IF b \in RemoteBonus /\ command[b] = "pending" THEN r.day
     ELSE IF \E e \in r.events : e.id = b THEN (CHOOSE e \in r.events : e.id = b).day
     ELSE None]

CommandAfter(r) == [c \in Op |-> IF c \in r.acks /\ HasRow(c) THEN "acked" ELSE command[c]]

\* Acknowledged operations and received local bonuses show as completed; a
\* trailing cleanup may delete rows that were already completed.
ActivityAfter(r, old) ==
  [a \in DOMAIN activity |->
     IF a \in r.acks /\ HasRow(a) /\ activity[a] # "absent" /\ a \notin old THEN "completed"
     ELSE IF activity[a] = "absent" /\ (\E e \in r.events : e.id = a) THEN "completed"
     ELSE IF a \in old THEN "absent" ELSE activity[a]]

\* The transaction of ReceiveHeartbeat.
ReceiveHeartbeat(s) ==
  LET r == request[s] IN
  /\ stage[s] = "sent"
  /\ ~ RevisionAhead(r)
  /\ device' = [applied |-> r.policyRev, appliedControl |-> r.controlRev,
                session |-> r.session, locked |-> r.locked, day |-> r.day]
  /\ usage' = UsageAfter(r)
  /\ ledger' = LedgerAfter(r)
  /\ command' = CommandAfter(r)
  /\ \E old \in Expirable : activity' = ActivityAfter(r, old)
  /\ response' = [response EXCEPT ![s].serverRev = policyRev]
  /\ stage' = [stage EXCEPT ![s] = "control"]
  /\ UNCHANGED <<config, control, kind, request>>

-----------------------------------------------------------------------------
(* The statements that build the answer, each on its own. *)

Reading(s, from, to) ==
  /\ stage[s] = from
  /\ stage' = [stage EXCEPT ![s] = to]
  /\ UNCHANGED <<config, control, command, kind, ledger, usage, activity, device, request>>

SendsPolicy(s) == request[s].policyRev < response[s].serverRev
SendsState(s) ==
  /\ request[s].session # None
  /\ request[s].wantState \/ request[s].stateRev < response[s].serverRev

AfterPolicy(s)  == IF SendsState(s) THEN "confirm" ELSE "commands"
AfterControl(s) == IF SendsPolicy(s) THEN "policy" ELSE AfterPolicy(s)

LoadControl(s) ==
  /\ Reading(s, "control", AfterControl(s))
  /\ response' = [response EXCEPT ![s].control = control]

\* loadPolicy: the revision first, then the quotas, the routines, and the days of
\* the routines that exist by then.
LoadPolicyRevision(s) ==
  /\ Reading(s, "policy", "quota")
  /\ response' = [response EXCEPT ![s].hasPolicy = TRUE, ![s].policy.rev = policyRev]

LoadPolicyQuota(s) ==
  /\ Reading(s, "quota", "routines")
  /\ response' = [response EXCEPT ![s].policy.quota = quota]

LoadPolicyRoutines(s) ==
  /\ Reading(s, "routines", "days")
  /\ response' = [response EXCEPT ![s].policy.routines = routines]

\* Days of routines, where no routine was read before.
OnlyDays(s) == response[s].policy.routines = None /\ routines # None

\* Mutant: the revision is read after the content.
LoadPolicyDaysThenRevision(s) ==
  /\ ~ OnlyDays(s)
  /\ Reading(s, "days", AfterPolicy(s))
  /\ response' = [response EXCEPT ![s].policy.days = routines, ![s].policy.rev = policyRev]

\* Days of a routine that was not read go to the first one that was.
LoadPolicyDays(s) ==
  /\ ~ OnlyDays(s)
  /\ Reading(s, "days", AfterPolicy(s))
  /\ response' = [response EXCEPT ![s].policy.days = routines]

\* Without any, the index is out of range, and the handler panics.
UnknownDay(s) ==
  /\ stage[s] = "days" /\ OnlyDays(s)
  /\ Abandon(s)

\* confirmedSessionState: loadPolicy again, then the usage and the bonuses of the
\* reported day in one statement.  Its routines are not used; that reading them
\* may panic is left to Abandon.
ConfirmRevision(s) ==
  /\ Reading(s, "confirm", "confirmQuota")
  /\ response' = [response EXCEPT ![s].hasState = TRUE, ![s].state.rev = policyRev]

ConfirmQuota(s) ==
  /\ Reading(s, "confirmQuota", "summary")
  /\ response' = [response EXCEPT ![s].state.quota = quota]

ConfirmBalance(s) ==
  LET d == request[s].day IN
  /\ Reading(s, "summary", "commands")
  /\ response' = [response EXCEPT ![s].state.remaining = Remaining(response[s].state.quota, d),
                                  ![s].state.usage = usage[d]]

\* Mutant: a command is offered once.
LoadUnofferedCommands(s) ==
  LET pending == { c \in Op : command[c] = "pending" /\ activity[c] = "waiting_device" } IN
  /\ Reading(s, "commands", IF pending = {} THEN "answered" ELSE "offer")
  /\ response' = [response EXCEPT ![s].commands = pending]

\* pendingCommands: the SELECT of the unacknowledged rows ...
LoadPendingCommands(s) ==
  LET pending == { c \in Op : command[c] = "pending" } IN
  /\ Reading(s, "commands", IF pending = {} THEN "answered" ELSE "offer")
  /\ response' = [response EXCEPT ![s].commands = pending]

\* Mutant: a delivery recorded without looking at the status.
OfferCommandsAlways(s) ==
  /\ stage[s] = "offer"
  /\ activity' = [a \in DOMAIN activity |->
                    IF a \in response[s].commands /\ activity[a] # "absent"
                      THEN "offered" ELSE activity[a]]
  /\ stage' = [stage EXCEPT ![s] = "answered"]
  /\ UNCHANGED <<config, control, command, kind, ledger, usage, device, request, response>>

\* ... and the transaction that records the delivery.  It never takes back a
\* completed activity, and a row deleted since the SELECT is simply not found.
OfferCommands(s) ==
  /\ stage[s] = "offer"
  /\ activity' = [a \in DOMAIN activity |->
                    IF a \in response[s].commands /\ activity[a] = "waiting_device"
                      THEN "offered" ELSE activity[a]]
  /\ stage' = [stage EXCEPT ![s] = "answered"]
  /\ UNCHANGED <<config, control, command, kind, ledger, usage, device, request, response>>

Answer(s) ==
  \/ LoadControl(s)
  \/ LoadPolicyRevision(s) \/ LoadPolicyQuota(s) \/ LoadPolicyRoutines(s) \/ LoadPolicyDays(s)
  \/ ConfirmRevision(s) \/ ConfirmQuota(s) \/ ConfirmBalance(s)
  \/ LoadPendingCommands(s) \/ OfferCommands(s)

Handle(s) == ReceiveHeartbeat(s) \/ RejectRevisionAhead(s) \/ Answer(s) \/ UnknownDay(s)

Administer ==
  \/ \E q \in Quota : SaveQuotas(q)
  \/ \E r \in Routines : SaveRoutine(r)
  \/ DeleteRoutine
  \/ SetLocalPassword
  \/ \E b \in RemoteBonus : QueueRemoteBonus(b)
  \/ \E k \in ControlKind : QueueControlOperation(k)
  \/ \E old \in SUBSET (Op \cup LocalBonus) : CleanupExpiredCompletedActivities(old)

\* The store against any device: whatever its well-formed requests say.
Next ==
  \/ Administer
  \/ \E s \in Slot : Handle(s) \/ Abandon(s) \/ \E r \in Reports : Arrive(s, r)

Spec == Init /\ [][Next]_vars

-----------------------------------------------------------------------------
(* Properties *)

ActivityStatus == {"absent", "waiting_device", "offered", "completed"}

\* Every row keeps the shape of its table, whatever a device reports.
TypeOK ==
  /\ policyRev \in Nat /\ quota \in Nat /\ routines \in Routines \cup {None}
  /\ control \in Control
  /\ command \in [Op -> {"unused", "pending", "acked", "superseded"}]
  /\ kind \in [ControlOp -> ControlKind \cup {None}]
  /\ ledger \in [Bonus -> Day \cup {None}]
  /\ usage \in [Day -> Nat]
  /\ activity \in [Op \cup LocalBonus -> ActivityStatus]
  /\ device \in [applied : Nat, appliedControl : Nat, session : Session \cup {None},
                 locked : BOOLEAN, day : Day \cup {None}]
  /\ stage \in [Slot -> Stage]
  /\ request \in [Slot -> Request \cup {None}]
  /\ response \in [Slot -> Response]
  /\ \A s \in Slot : stage[s] # "idle" => request[s] \in Request

\* The administrator's clicks are a desired state: at most one control command
\* waits for the device, and it is the one that produced the current control
\* row (QueueControlOperation discards the others in its transaction).
PendingControlIsDesired ==
  \A c \in PendingControl :
    /\ c = control.rev
    /\ control.paused = (kind[c] = "pause_monitoring")
    /\ control.blocked = (kind[c] = "block_now")

\* A bonus the device has acknowledged is in the ledger: an acknowledgement
\* that reaches the server before any heartbeat dated the bonus must not close
\* the command without crediting it (applyPendingRemoteBonuses runs first).
AckedBonusIsInLedger ==
  \A b \in RemoteBonus : command[b] = "acked" => ledger[b] # None

\* The history never calls an operation completed while its command still
\* waits, and a waiting command always has a visible open activity.
ActivityFollowsCommand ==
  \A c \in Op :
    /\ command[c] = "pending" => activity[c] \in {"waiting_device", "offered"}
    /\ command[c] = "superseded" => activity[c] = "absent"
    /\ command[c] = "acked" => activity[c] \in {"completed", "absent"}

\* An answer never carries an old content under a new revision: the revision is
\* read before the content, so a document that claims the current revision has
\* the current content, none of it mixed from two edits, and a device that stores
\* it will not miss the change it would no longer ask for.
AnswerNotAheadOfPolicy ==
  \A s \in Slot :
    LET p == response[s].policy
        b == response[s].state
    IN
    /\ (response[s].hasPolicy /\ p.rev = policyRev) =>
         /\ stage[s] # "quota" => p.quota = quota
         /\ stage[s] \notin {"quota", "routines"} => p.routines = routines
         /\ stage[s] \notin {"quota", "routines", "days"} => p.days = routines
    /\ (response[s].hasState /\ b.rev = policyRev) =>
         (stage[s] # "confirmQuota" => b.quota = quota)

\* Late and repeated heartbeats never take back what is recorded: a bonus keeps
\* the day it was dated with, usage never shrinks, a command that was closed is
\* never reopened and a completed activity stays completed until it expires.
NothingIsTakenBack ==
  [][ /\ \A b \in Bonus : ledger[b] # None => ledger'[b] = ledger[b]
      /\ \A d \in Day : usage'[d] >= usage[d]
      /\ \A c \in Op : command[c] \in {"acked", "superseded"} => command'[c] = command[c]
      /\ \A a \in Op \cup LocalBonus :
           activity[a] = "completed" => activity'[a] \in {"completed", "absent"} ]_vars

=============================================================================
