# A formal model of Compasso

Compasso limits a child's screen time. An *agent* (Go, root service) runs on the
controlled Linux computer, counts the time of the graphical session, decides
whether its use is allowed and locks the screen when it is not. A *server* (Go)
holds what the family configured, and a web page for the parents. Agent and server
each own a SQLite database; they only talk through the heartbeat, one HTTP POST by
the agent every few seconds, in which the agent reports and the server answers with
everything the agent should know.

This directory models that program in TLA+, checks the models with TLC and proves
theorems about them with TLAPS. Line numbers refer to the files under `src/`.

## 1. Inventory

| Component | State it keeps | Operations | Hard parts | Modules |
|---|---|---|---|---|
| Server store (`server/storage`) | per device: policy + revision, weekly quotas, routines, control row, commands, bonus ledger, daily usage, activities, device row | edits of the page, `QueueControlOperation`, `QueueRemoteBonus`, `ReceiveHeartbeat`, retention, `SaveRoutine` | a heartbeat is one transaction followed by reads in separate statements; late, repeated and overlapping heartbeats | `ServerStore`, `Compasso`, `Schedule` |
| Heartbeat handler, administration API, sessions (`server/web`) | sessions in memory, administrators, tokens | HTTP handlers | two first setups at once; cancelled connections; sessions that end under an open stream | `ServerStore`, `Panel` |
| Live events (`server/web/events.go`) | subscribers with bounded channels, marks of the offline detector | publish, subscribe, stream, detect | greeting before subscription, full channels, old snapshots published late | `Panel` |
| Administration page (`admin-ui`) | status and list of activities of one device | events, reloads | answers that arrive after newer events | `Panel` |
| Agent store (`agent/storage`) | policy, `daily_usage`, `bonus`, `pending_event`, `applied_command`, `pending_control_effect`, `confirmed_session_state`, `enrollment` | one transaction per method | crash between any two methods | `Agent`, `Setup` |
| Synchronization client (`agent/syncclient`) | remote control state in memory, session last observed, cadence | `Heartbeat`, `Run` | the answer is applied by several transactions, any of which may fail; retries and back-off | `Agent`, `HeartbeatLoop` |
| Daemon (`agent/daemon`) | usage tracker, last cycle, lock attempts | `Step`, `Flush` | captures policy, control and session, then acts on them; midnight, suspension, failures of the store | `Agent`, `Daemon` |
| Policy engine (`agent/policy`), alerts (`agent/alert`) | warnings given in this cycle | `Evaluate`, `Due` | routines across midnight; duplicates and losses when the deadline moves | `Schedule`, `Daemon` |
| Local authorization (`agent/localauth`, `localapi`) | failure counter | `Grant` | concurrent with heartbeats | `Agent` (the grant) |
| Session control (`agent/session`) | namespace file | `Sessions`, `Lock`, `Unlock` | the session changes under the daemon; a kill while the file is written | `Agent`, `Daemon`, `Setup` |
| Configuration helper, agent start, enrollment (`agent/cmd`, `agent/setup`) | `config.toml`, `setup-complete`, status file, service | `tempo-agent-configure`, start-up, `BindEnrollment` | a kill between any two files; another server's data; systemd restarts | `Setup` |
| Local window, packaging, server process, communication log | - | - | clients, logs and installation | not modelled |

How they interact. A parent's click is a transaction on the server. The next
heartbeat carries it: policy and balance as documents with a revision, a control
button as a *desired state* (the control row) plus a *command* that lets the agent
prove it, a remote bonus as a command. The client stores the answer in the agent's
tables; the daemon, another goroutine, reads those tables in its own cycles, acts
through logind, and marks control commands as applied. The next heartbeat reports the
usage, the local bonuses (`pending_event`) and the applied commands, and the server
acknowledges each of them. The handler of a heartbeat publishes what changed to the
streams of the pages that are open; a timer tells them of a silence. On the computer
the helper writes the configuration, restarts the agent, waits for the agent's status
file to say "online" and writes the marker that lets the agent enforce.

What makes each component correct:

- *Server store*: what was recorded is not taken back; one desired control state;
  a bonus is never closed without being in the ledger; an answer never carries an old
  content under a new revision.
- *Agent store and client*: a bonus is acknowledged only when it is durable; a local
  bonus is reported once and is in the balance once; the reported revision is that of
  what is stored; an older policy does not replace a newer one; heartbeats come back
  after failures and never in a burst.
- *Daemon*: a crash loses less than a checkpoint interval, unless checkpoints fail; usage
  never goes back; no instant is counted twice, in a routine, or past the balance; a
  block that was predicted is announced, and locks at once.
- *Policy engine and `SaveRoutine`*: both read the same routines.
- *Page and live events*: one administrator; a stream ends with its session; a
  silence, a revoked token and a click reach every open page.
- *Setup*: data of another server is never used; the marker means that the configured
  server answered; a confirmed computer comes to be controlled after any fault.
- *The whole*: what the parent grants reaches the child, once, through lost answers
  and restarts.

## 2. Modules

| Module | Models | Grain |
|---|---|---|
| `ServerStore` | the server's store for one device and the heartbeat handlers over it | one action per transaction or statement |
| `Agent` | the agent's store, client, daemon and desktop | one action per transaction |
| `Compasso` | one agent, the server's store and the network between them | joins actions of both |
| `Credit` | what the system promises about granted time, without messages | abstract |
| `Schedule` | weekly routines: the server's overlap test and the agent's engine | pure operators |
| `Daemon` | the daemon's cycle over time, with its clock, alerts and lock attempts | one action per cycle |
| `Panel` | setup, sessions, tokens, live events, offline detector, one page | one action per statement or publication |
| `HeartbeatLoop` | the cadence of `Client.Run` | one action per end of an attempt, and seconds |
| `Setup` | the helper, the start of the agent, systemd, the shared files | one action per file or unit |
| `MC*` | the finite inputs of the TLC runs | - |
| `ServerStoreProofs`, `AgentProofs`, `ScheduleProofs`, `DaemonProofs`, `PanelProofs`, `SetupProofs` (with `HeartbeatLoop`), `CreditProofs` | the theorems of one component | - |
| `CompassoProofs` | the theorems of the system; it instantiates those of `ServerStore`, `Agent` and `Credit` | - |

`ServerStore` and `Agent` are each specified against an arbitrary peer (any report of
`Reports`, any answer of `Answers`), which is what the proofs are about: nothing they
state depends on the other side behaving. `Compasso` instantiates both with empty
environments and identifies the agent's request with the server's. `CompassoProofs`
proves that the system is an instance of both (`ServerInSystem`, `AgentInSystem`).
`Daemon` extends `Schedule`, `Setup` extends `HeartbeatLoop`.

### ServerStore

| Variable | Table or value |
|---|---|
| `policyRev`, `quota`, `routines` | `policy.revision`, `weekly_quota`, `routine` + `routine_day` |
| `control` | `device_control` |
| `command`, `kind` | `device_command`; `acked` control rows and `superseded` rows are deleted rows |
| `ledger` | `bonus` rows, by the date each one counts for |
| `usage` | `daily_usage` |
| `activity` | `activity.status` |
| `device` | the device row that the page reads |
| `stage`, `request`, `response` | the local variables of each running `ReceiveHeartbeat` |

The store has a single connection (`store.go:39`), so each transaction is one action.
A heartbeat is a chain: `ReceiveHeartbeat` (the transaction of `sync.go:117-249`), then
`LoadControl`, the four statements of `loadPolicy` (revision, quotas, routine rows, routine
days), those of `confirmedSessionState`, the SELECT of `pendingCommands` and the
transaction that records the delivery. Any request of the page, and any step of another
heartbeat, may come between two of them. A document may thus have the rows of one edit and
the days of another; days for an empty list index out of range (`domain.go:752`), and the
handler dies without an answer (`UnknownDay`), which the agent sees as a lost exchange and
`Compasso` counts among its faults. `Abandon` ends a handler between any two statements.

### Agent

| Variable | Table or value |
|---|---|
| `localPolicy`, `anchor`, `localUsage`, `event`, `localLedger`, `applied`, `effect` | the tables of `agent/storage` |
| `remote`, `seen` | `RemoteControl` and `SetGraphicalSession` of the client, in memory |
| `phase`, `sent`, `answer` | the local variables of `Heartbeat` |
| `step`, `view` | the local variables of `Step` |
| `tracker`, `last` | `UsageTracker`, `lastShouldCount` and `lastHadSession` |
| `day`, `session`, `locked` | the calendar and logind |

`Heartbeat` is `Send`, `Receive`, `AcknowledgeEvent`..., `ForgetAppliedCommandIDs`,
`ReplacePolicy`, `SaveConfirmedSessionState`, one `StageControlEffect` or
`ApplyRemoteBonus` per command, `Finish`; `Fail` may fall in any phase (timeout, error
status, failed statement) and `Refuse` is the client rejecting an answer. `Step` is
`Observe`, `PendingControlEffect`, `CompleteControlEffect`, `ChangeDay`, `Decide`,
`Enforce`. `AbortCycle` is a cycle that ends at a failing call of the store, with what it
had already changed: a checkpoint that fails leaves the time in the counter and in its
tail (`AddFails`), a reconciliation that fails has raised the counter in memory
(`VerdictFails`), a change of day may fail at the flush, the loading or the verdict
(`ChangeFails`); the process goes on and the next cycle counts the same interval again.
The history variable `overdue` remembers that a checkpoint failed and none has succeeded
since. `AddBonusWithEvent` is a grant at the computer. `Crash` loses everything but the
tables.

### Compasso and Credit

`SendHeartbeat` joins `Agent!Send` with `Server!Arrive`, `DeliverAnswer` joins
`Agent!Receive` with the end of the exchange; `AnswerOf` is what goes over the wire. `Timeout` and `Crash` leave the exchange
to run on without its client (its handler may start long after a newer heartbeat), or
lose it; `DropOrphan` ends it.

`Credit` knows grants, two ledgers and what the grantor knows to be settled, and no
messages. `ImplementsCredit` maps the server's and the agent's tables onto it: a bonus
is booked once on each side, a bonus of the computer on the date it was granted, and is
settled (the command closed, the event deleted) only when both sides have it.

### Schedule and Daemon

`RoutineIntervals` and `RoutinesOverlap` are the server's (`domain.go:534-570`),
`Active` and `NextRoutineStart` the agent's (`policy.go:132-180`). `OverlapIsExact` and
`NextStartIsExact` compare them instant by instant over every pair of routines.

In `Daemon` a reading of the clock has a wall part and, unless it comes from the
calendar, a monotonic part, and `Minus` chooses between them as Go's `Time.Sub` does
(`Origin` keeps every monotonic reading positive, as -1 stands for its absence). A cycle is `Step`, which computes as the code does: `Account` (the interval since the last
cycle, cut at the block that the last one predicted, split at midnight),
`Reconcile`, `Decision`, `Due` (the warnings), `AttemptAfter` (the lock attempts). The
variants `CountFails`, `PrepareFails` and `DecideFails` are cycles that end at a failing
call of the store, with what they had already changed in memory; `UnlockFails` is one whose
`Unlock` fails, which returns before the lock attempts are cleared (`daemon.go:253-260`). `Tick` and `Suspend` may come any
number of times between two cycles, and so may logins, switches of user, policies,
bonuses, heartbeats that succeed or fail, and restarts.

### Panel

The handlers that publish do it in two steps, a snapshot (`LoadStatus`, `LoadTouched`,
`LoadActivity`, `LoadOffline`) and its publication, and anything may come in between.
The page's stream is `Open` (the greeting is read), `Subscribe`, `Deliver` for each
event, `Ping` (the keep-alive that looks the session up) and `Close`. A session that
ends is remembered by the stream it opened: a later login is another session. The page
is followed until it loses an event, by a full channel or by the mark that another
page's silence left (`missed`).

### HeartbeatLoop and Setup

`Attempt`, `Succeed`, `Fail` and `Second` are one turn of `Client.Run`; a wait counts
from the start of a failed attempt and from the end of a successful one, as in the code.
`Setup` puts that loop into an agent process which reads the configuration and
the marker, binds its database, opens the session namespace, removes the last status
and runs, next to a helper that clears the marker, writes the configuration, enables
and restarts the service, waits for the status file and writes the marker. An
enrollment stands for server, device and token; of the database only whose rows it
holds is kept. Every write may fail. One of the configuration may return its error before
or after the rename (`configuration.go:159-171`); the errors of the writes that undo a
configuration are ignored by the code (`tempo-agent-configure/main.go:66`, `93`), and that
of the status file is logged (`tempo-agent/main.go:141`). The history variable `torn` has
the configurations over which a failing write left a marker, `unreported` says that the
last transition could not be written. Failing `systemctl enable` and `restart` commands
are not told apart from a service that `is-active` finds inactive: all three lead to the
same recovery.

### Data that is abstracted

A bonus is one unit of time and, in `ServerStore`, `Agent` and `Compasso`, the quota is
the same every weekday and routines are an opaque value, whose being in force is a free
choice at every verdict (`Daemon` takes them seriously); a control command is named by
the control revision it creates; identifiers, timestamps, audit rows, activity steps
and texts are left out. One graphical session exists at a time. In `Daemon` one unit is
the time between two cycles, so no fractions of a second are carried.

## 3. What is checked

| Run | Question | Properties | Bounds |
|---|---|---|---|
| `server` | do bonuses, usage, history, commands and answers agree, whatever a device reports, late or repeated, while the administrator edits and clicks between the statements? | `TypeOK`, `AckedBonusIsInLedger`, `ActivityFollowsCommand`, `PendingControlIsDesired`, `AnswerNotAheadOfPolicy`, `NothingIsTakenBack` | 1 exchange, 2 days, 1 bonus, 2 control commands, 1 edit (2 without commands), reports of nothing or of the second revision, with at most one receipt |
| `agent` | usage through checkpoints that succeed or fail, crashes, midnight and reconciliation; older and newer documents and repeated offers | `TypeOK`, `CheckpointBoundsLoss`, `AppliedBonusIsRecorded`, `NothingGoesBack` | 2 days, usage up to 3 on the first and 1 on the second, checkpoint every 2, revisions 0..2, one bonus and one control command (see below) |
| `compasso_midnight` | a local bonus whose report, or its answer, crosses midnight | `LocalBonusIsReportedOnce`, `BalanceCountsLocalBonusOnce` | 2 days, usage up to 1, 2 faults, 2 moves |
| `compasso_policy` | does an agent report only what it stores, and is that the server's content? | `PolicyIsWhatWasReported` | 2 exchanges, 2 edits, 1 fault |
| `compasso_control` | does the agent only hold control states that were asked for? | `HeldControlIsDesired` | 2 clicks of any kind after the first document is stored, 1 fault or 1 move |
| `compasso_live` | do bonuses from both sides arrive, once, and do acknowledgements end? | `AckedBonusIsDurable`, `BalanceCountsLocalBonusOnce`, `ImplementsCredit`, `GrantedBonusIsSettled`, `LocalBonusIsReported` | a bonus of each side, 2 days, 1 lost exchange or crash, 1 login or midnight |
| `daemon_time` | what is counted, warned and locked when cycles are skipped, the computer sleeps, the store or an unlock fails or the process restarts? | `TypeOK`, `NoInstantCountedTwice`, `BalanceIsNotOverdrawn`, `OverlapTestIsExact`, `NextStartIsExactToday`, `RoutineTimeIsNotCounted`, `WarnedBeforeBlocked`, `BlockingLocksAtOnce` | 2 dates of 4 units, a week of 2 days, a night routine or none, locks retried after 3 units, 3 changes (see below) |
| `panel` | what must a page come to show? | `TypeOK`, `OneAdministrator`, `SessionEndClosesStream`, `SilenceReachesPage`, `RevokedDeviceGoesOffline`, `ClickReachesList` | 2 setups at once, timeout of 2 rounds, a channel of 1 event, one activity in 2 steps |
| `setup` | whose data is used, what does the marker mean, when does the agent synchronize, report and enforce? | `TypeOK`, `OnlyOwnStateIsUsed`, `MarkerConfirmsConfiguration`, `NoBusyLoop`, `ComesBackSoon`, `ReportIsLastResult`, `ConfirmedComputerIsControlled` | 2 enrollments, 2 runs of the helper, 2 crashes, reboots or kills, any failing writes, a default interval of 1 s, intervals of the server up to 2 s |
| `asleep`, `next_block`, `torn_bonus` | disagreements of code and documents (section 5) | one each | the smallest that shows it |

Why the bounds are enough to be interesting. Every hazard of the two stores needs at
most two exchanges (one that is late and one that overtakes it), one edit or click
between two statements, or one fault between two transactions; two days give one
midnight. In `compasso_*` an exchange that was abandoned takes the place of the second
exchange whenever it is given up by the agent and its handler runs on. In `daemon_time`
a day of four units has room for a routine that crosses midnight, for a quota that ends before it and for the warnings of the last units, and two dates make the
week wrap; three changes allow, for instance, a heartbeat, a suspension and a failing
checkpoint in one behaviour. The reference checks of `Schedule` take every pair of
routines of that week. In `panel` a channel of one event makes the loss of an event
common instead of rare. In `setup` two faults and two runs allow a kill inside the
recovery from another one; failing writes are not counted. The three intervals that the
server may send are an invalid one, one that is longer than the default and one above the
largest that is accepted. In `agent` usage up to 3 with a checkpoint every 2 lets a tail
grow past the interval while checkpoints fail. In `daemon_time` locks are retried after 3
units, so that a new block can begin within the retry interval of the last one.

`server` explores a second edit apart from commands (`EditsOrCommands`). `agent` explores
its two halves apart (`UsageOrOffers`): usage under the first policy on a screen that is
not locked, and offers and newer policies for a computer that nobody uses.
`compasso_control` has its clicks when the agent has stored its first document, and a
fault or a move but not both (`ClicksAfterPolicy`); the theorem `ControlAsDesired` needs
neither. Of the three changes of `daemon_time` at most one is a failing call of the
store, a new document or a bonus; such a change is explored apart from failing unlocks,
pauses and sessions that are switched away, and a pause apart from such a session
(`OneOfAKind`). The theorems about the daemon hold for every mixture. `panel` opens
no page while a first setup is under way (`PagesAfterSetup`): with an administrator, such
a request only fails, and no page can tell. `SYMMETRY` is used for
exchanges and for dates that nothing orders, only in runs of invariants and action
properties. Deadlock is not checked: the bounds let an instance run out of things to do.

*Fairness.*

- `compasso_live`: the client's `Run` loop starts another heartbeat after every one that
  ends, an answer that was received is applied, and every exchange goes on (`WF` on
  `SendHeartbeat`, `ApplyAnswer` and `ExchangeStep`): handlers run to their end,
  the network delivers what it has not lost, and it loses at most `MaxFaults`
  exchanges. Nothing is assumed of the parents, the person at the keyboard or the
  daemon. With unbounded losses nothing could be promised.
- `panel`: the server's timers and handlers go on, and an open page takes its events and
  sends its requests (`WF` on each). Nobody has to log in, click, open a page or report.
  It is assumed that a handler and a round of the detector end before the next unit, half
  of the online timeout, begins: they take milliseconds, the unit seconds.
- `setup`: systemd restarts a process that ended with a failure, and the process goes
  through its start and polls the marker (`WF` on `StartAgent`). Heartbeats need not
  succeed, and the helper may stop anywhere. systemd waits two seconds before it
  restarts (`RestartSec`), by which time a helper that found the service inactive has put
  its files back: `Launch` assumes it.

## 4. What is proved

Every invariant and every action property of the passing runs is a theorem, for every
value of the constants that satisfies the named assumption; so is the refinement of
`Credit`. What TLC alone checks is liveness (see the end of this section).

| Theorem | Property |
|---|---|
| `ServerStoreProofs`: `TypeCorrect`, `ControlSafe`, `LedgerSafe`, `HistorySafe`, `PolicySafe`, `RecordKept` | `TypeOK`, `PendingControlIsDesired`, `AckedBonusIsInLedger`, `ActivityFollowsCommand`, `AnswerNotAheadOfPolicy`, `NothingIsTakenBack` |
| `AgentProofs`: `AgentTypeCorrect`, `LossBounded`, `BonusRecorded`, `NothingLost` | `TypeOK`, `CheckpointBoundsLoss`, `AppliedBonusIsRecorded`, `NothingGoesBack` |
| `CompassoProofs`: `AckIsDurable`, `LocalBonusReported`, `BonusCountedOnce`, `PolicyAsReported`, `ControlAsDesired`, `CreditRefinement` | `AckedBonusIsDurable`, `LocalBonusIsReportedOnce`, `BalanceCountsLocalBonusOnce`, `PolicyIsWhatWasReported`, `HeldControlIsDesired`, `ImplementsCredit` |
| `CompassoProofs`: `ServerInSystem`, `AgentInSystem`, `PartsInSystem`, `GrantedTimeIsKept` | the system implements `ServerStore` and `Agent`; what they and `Credit` promise holds in it |
| `CreditProofs`: `CreditInvariant`, `BookingsStay` | what is settled is booked on both sides; one date; bookings stay |
| `ScheduleProofs`: `OverlapTest`, `NextStartToday` | `OverlapIsExact`, and `NextStartIsExact(t)` for every instant `t` |
| `DaemonProofs`: `DaemonTypes`, `CountsOnce`, `StaysWithinBalance`, `RoutineTimeIsFree`, `WarnsBeforeBlock`, `LocksAtOnce`, `OverlapAtEveryInstant`, `NextStartAtEveryInstant` | `TypeOK`, `NoInstantCountedTwice`, `BalanceIsNotOverdrawn`, `RoutineTimeIsNotCounted`, `WarnedBeforeBlocked`, `BlockingLocksAtOnce`, `OverlapTestIsExact`, `NextStartIsExactToday` |
| `PanelProofs`: `PanelTypes`, `OnlyOneAdministrator` | `TypeOK`, `OneAdministrator` |
| `SetupProofs`: `SetupTypes`, `LoopIsNotBusy`, `AgentComesBack`, `DatabaseIsOwn`, `MarkerConfirms`, `ReportIsRight` | `TypeOK`, `NoBusyLoop`, `ComesBackSoon`, `OnlyOwnStateIsUsed`, `MarkerConfirmsConfiguration`, `ReportIsLastResult` |

### ServerStore and Agent

For every set of exchanges, days, bonuses, commands, quotas and reports
(`ConstantsAssumption`, `ReportsAssumption`), and for every checkpoint interval and
whatever well-formed answers a server gives (`AgentAssumption`, `AnswersAssumption`).

*ServerStore.* `TypeOK` is inductive, and so are the next three with it: each disjunct of
`Next` that touches `command` touches `control`, `ledger` or `activity` in the same
transaction, which is what the code's transactions are for. `AnswerNotAheadOfPolicy`
is not: it speaks of an answer whose revision equals the present one, so an answer with
a larger revision would break it at the next edit. `Reached` says that no answer has
one; an edit, which bumps the revision, then leaves every answer under way behind.
`NothingIsTakenBack` needs `Untouched`: a command above `control.rev` is still unused,
and an unused command has no activity, or a new click could reopen a closed one.

*Agent.* `TypeOK` is inductive and so is each of the others with it, but for
`CheckpointBoundsLoss`, which also needs that the usage of a stored balance is in the
table (`AnchorIsSaved`). The tail of the tracker is reset in three ways: a full
interval, a reconciliation, a flush; each of them writes the counter in the same action
(`SavedType`), except for a reconciliation that fails, whose counter in memory is that of
the balance. A tail that is kept has grown by no more than the interval, or a checkpoint
failed (`FailsEffect`). `CountersElsewhere` covers the rest: no other
step touches the tracker (a crash drops it), and an answer only raises a counter.
`BonusRecorded` rests on the row and its receipt being one transaction, on rows never
being removed, and on the identifiers of control operations and bonuses being disjoint
(`AgentAssumption`).

### Compasso

For any number of exchanges, clicks and sessions and any finite sets of days and bonuses
(`SystemAssumption`, under which the assumptions of both parts are lemmas). First the
composition: `DesktopInv` and `RequestIsWellFormed` make every request of the agent one
that the server's theorems allow, `AnswerIsWellFormed` every answer one that the agent's
do, so that `ServerSide` and `AgentSide` map each step of the system to a step or a
stutter of each part. Types and the parts' own theorems then come for free. The inductive
invariant `SysInv` adds, about what the two sides know of each other:

- `WaitInv`, `OfferInv`: the exchange that the agent waits for carries its request; only
  what was queued is offered.
- `AckInv`: a receipt that is recorded, under way or booked has its row on the computer.
  A late request may carry it long after, which is why it speaks of every exchange.
- `EventInv`: an event has the date of its row wherever it is, and the server has it once
  its exchange has passed the transaction: the acknowledgement in the answer is true.
- `CarriedInv`: no late exchange brings the server a local bonus that the present request
  does not carry. Without it the balance of an answer could lack, or count twice, a bonus
  that another exchange delivered in the meantime. It holds because an event stays in
  every request until it is acknowledged.
- `BalanceInv`: the balance on its way has exactly the local bonuses in the ledger
  (`FlightInv`), and `SaveConfirmedSessionState` adds those that are still pending
  (`AckedInv`: those of its own request no longer are). With `CarriedInv` these are
  disjoint and complete, so the stored balance has each of them once (`Balanced`).
- `PolicyInv`: every document on its way, and the one stored, is a document the server
  had (`DocumentOf`); it uses the server's `AnswerNotAheadOfPolicy` and `Reached`.
- `ControlInv`: the same of control states, and a command in an answer is not older than
  the control state beside it, because the handler reads the state first.

`CreditRefinement` maps each step of the system: a grant, a booking, a receipt of events
and acknowledgements to the action of `Credit` of that name, every other to a stutter.
`CreditProofs` shows what `Credit` comes to; `GrantedTimeIsKept` carries it back to the
tables: a bonus that its grantor closed is in both stores, a bonus of the computer on one
date in both, and no row is moved or taken back, whatever is lost, late or restarted.

### Schedule and Daemon

For every length of a day and of a week (`ScheduleAssumption`), and any number of dates,
any quotas, thresholds, intervals and sets of routines that the server accepts together
(`DaemonAssumption`). `OverlapTest` rests on
`IntervalsAreActive`: the intervals of `RoutineIntervals` cover exactly the instants of the
week at which the engine finds the routine in force, the night after its last day being
that before its first (`ActiveNextWeek`); two of them overlap if and only if they have such an instant in common. `NextStartToday` rests
on `StartBeforeActive`: between a free instant and a blocked one of the same day lies the
start of a routine.

`DaemonInv` has, besides types, what an open interval stands for: `ClockInv` (earlier
readings lie behind the clock on both of their parts, and the monotonic one advanced
less; a predicted end lies ahead by the same distance on both), `CountInv` (only a failed
cycle leaves an interval that starts before the end of what was counted, and each failure
pays for one), `BalanceInv` (the counter plus the whole predicted interval fits into the
date's allowance) and `RoutineInv` (no routine was in force when the interval began and
none begins before its end). The lemmas from `PersistIs` to `ReconcileIsSound` prove of
each operator of a cycle that its result is `Sound`; complete and failed cycles share
them. `WarnsBeforeBlock` needs `WarningInv`: while the block of a period does not come
closer, the last minute either has been announced or had not begun at the last cycle;
blocks of one period are all from the calendar or all from the clock, so they compare.

Two properties were restated when their proofs failed, because they held in the run only
by its bounds. `RoutineTimeIsNotCounted` spoke of every day between two cycles; but with
three dates a computer that sleeps over a whole day is charged by the wall clock, and the
routines of the day in between were never evaluated: the property now claims the day the
interval opened and the present one (see `asleep`). `WarnedBeforeBlocked` compared the
present block with the first cycle of its period; but a block that moves away by less
than `Rearm` does not begin a new period, so a period that began within its last minute
stays unannounced: the history now remembers whether the block was that far ahead then.

### Panel and Setup

`PanelInv`, for any number of simultaneous setups, any timeout and capacity
(`PanelAssumption`): at most one administrator because the insertion is conditional and
one statement; the channel is empty once an event is lost and never over its capacity.

`SetupProofs`, for any enrollments, intervals, faults and runs of the helper
(`HeartbeatLoopAssumption`). `LoopInv`: `WaitsWithinInterval` bounds a wait by the normal
interval, and `OneFastFollowUp` says that the accelerated attempt is the only one that
follows at once, and that the flag is spent by it. `ComputerInv`: `HelperInv` relates
what the helper holds in memory to the disk at each of its places, which is what makes
its recoveries right; `MarkerInv` says that a marker, also one that the helper may still
put back, stands for an answered agent or for a configuration in `torn`; `DatabaseInv` that rows of another enrollment are
dropped before they are used, also for a database of the time before the table
`enrollment`, whose owner only a marker vouches for.

### Only model-checked

- Liveness, since the prover handles neither fairness nor `ENABLED`:
  `GrantedBonusIsSettled`, `LocalBonusIsReported`, `SessionEndClosesStream`,
  `SilenceReachesPage`, `RevokedDeviceGoesOffline`, `ClickReachesList`,
  `ConfirmedComputerIsControlled`.
- The three disagreements of section 5, which are traces of small instances.
- Bounds on faults, edits and changes (`MaxFaults`, `MaxEdits`, `MaxChanges`...) are part
  of the specifications, but no theorem depends on their values.

## 5. Findings and hazards

Three runs show the code doing what its documents exclude; each is a short trace.

- `torn_bonus` (`AckedBonusIsInBalance`, `server/storage/sync.go:268`). A bonus queued
  between the commit of a heartbeat and the reading of its balance bumps the revision
  and is delivered, but only the *next* heartbeat's transaction dates it. The agent
  stores an anchor of the newest revision without the bonus, acknowledges it, and asks
  for no other balance while the day, the session and the policy stay.
  `agent/README.md:59-62` says the acknowledgement means that the authorized balance is
  durable.
- `asleep` (`OnlyAwakeTimeIsCounted`, `agent/daemon/daemon.go:170`). The midnight that
  splits an interval has no monotonic reading, so a computer suspended before midnight
  and woken after it counts hours it slept. `agent/storage/state.go:238` and
  `docs/synchronization.md:15` speak of monotonic durations.
- `next_block` (`NoRoutineBeforePrediction`, `agent/policy/policy.go:169`). The start of
  a routine of the whole day is taken as it stands when the next block is predicted,
  while `policy.go:36-37` and the verdict apply it from midnight: the day before, a later
  block is announced and nobody is warned of the one at midnight.

Weaknesses that the models reach and that have no run of their own; the properties
name each exception instead of hiding it:

- `setup`, `slipped`: the helper removes the status file and then restarts the service,
  which keeps the runtime directory. An "online" report that the old agent writes in
  between is taken for the answer of the new server, and the marker is written.
- `setup`, `NamespaceLost`: a process killed between the creation and the writing of
  `session-namespace-id` leaves an empty file that every restart refuses
  (`loginctl.go:141-158`), until the service is stopped or the computer boots.
- `setup`, `enabled`: a restart that fails puts configuration and marker back but leaves
  the service disabled (`tempo-agent-configure/main.go:68`).
- `panel`, `missed`: a page whose channel was full loses the event and is not told; one
  that subscribes between the announcement of a silence and its own greeting's news does
  not hear of that silence while another page keeps the mark.
- `setup`, `torn`: a configuration that could not be put back, or whose write failed after
  its rename, stays on disk while the marker is put back over it
  (`tempo-agent-configure/main.go:61-67`): a server that never answered is confirmed, and a
  database of the time before the table `enrollment` is taken for that server's.
- `setup`, `unreported`: a report that could not be written is not repeated before the next
  transition, so the status file may say "online" during a whole outage.
- `agent`, `overdue`: while checkpoints fail the tail of the counter grows past the
  interval, and a crash loses all of it.
- `daemon_time`, `since.unlocked`: after an unlock that failed the lock attempts of the
  earlier block remain, and a block within the retry interval is not locked at once.
- `daemon_time`, `failures`: each failing call of the store after the counter grew lets
  one cycle count its interval again.

`PROJECT.json` lists every hazard with its line and the properties that cover it. Three
have no property: a control effect repeated after its completion (`client.go:301`), the
limit of a hundred items per request (the instances hold fewer), and a grant whose
answer fails after the bonus is durable (`localauth/service.go:100`).

## 6. Not modelled

- Several graphical sessions of the controlled user at once, fractions of a second, a
  change of the time zone's offset, the display of warnings.
- Password hashing and the back-off of the local window: `Grant` holds a mutex over the
  whole call, so they add no interleaving; its counter is in memory.
- The communication log (written after the answer, never read by the protocol),
  migrations (run before the server listens), JSON encoding, CSRF tokens, the
  administration of names, avatars and the device list, and the removal of a device.
- Parsing of settings and of `loginctl` output, the GTK window, packaging. systemd's
  behaviour is assumed as `packaging/systemd` configures it.

## 7. What to prove next

1. The safety half of what the page is promised: while no event was lost, what the
   channel still holds and the handlers still have to publish ends in the state of the
   store. It would leave only fairness to TLC in `SilenceReachesPage`,
   `RevokedDeviceGoesOffline` and `ClickReachesList`.
2. `Daemon` against `Agent`: both model the counter of the same cycle, one with time and
   one without. The counter of `Daemon` (tracker, table, checkpoint) should implement
   that of `Agent`, so that `CheckpointBoundsLoss` holds with the interval's real length.
3. The hazards without a property: the limit of a hundred events and receipts per request
   (oldest first, which keeps every one of them moving), and a control effect that is
   staged again after its completion.
