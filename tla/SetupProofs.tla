---------------------------- MODULE SetupProofs ----------------------------
(***************************************************************************)
(* What Setup guarantees for any set of enrollments, wherever the agent    *)
(* crashes, the helper is killed or the computer reboots, and whatever     *)
(* intervals the server sends.                                             *)
(***************************************************************************)
EXTENDS Setup, TLAPS

-----------------------------------------------------------------------------
(* The inductive invariant: the loop of heartbeats. *)

LoopType ==
  /\ delay \in 0..Slowest /\ took \in NotUnderWay..AttemptTimeout
  /\ normal \in 1..Slowest /\ backoff \in 1..normal
  /\ online \in BOOLEAN /\ first \in BOOLEAN /\ fast \in BOOLEAN
  /\ sinceLast \in 0..Longest /\ sincePrev \in sinceLast..Longest

\* What is waited for is within the normal interval of the last start, or of the
\* longest attempt's end.
WaitsWithinInterval ==
  /\ UnderWay => sinceLast = took
  /\ ~ UnderWay /\ ~ first => sinceLast + delay <= AttemptTimeout + normal

\* Only the accelerated attempt may start in the second of the one before it.
OneFastFollowUp ==
  /\ first => ~ fast /\ sincePrev = Longest /\ (~ UnderWay => sinceLast = Longest)
  /\ fast /\ ~ UnderWay => sincePrev >= 1
  /\ ~ fast /\ UnderWay => sincePrev >= 1
  /\ ~ fast /\ ~ UnderWay => sinceLast + delay >= 1

LoopInv == LoopType /\ WaitsWithinInterval /\ OneFastFollowUp

(* The inductive invariant: the computer. *)

MaybeEnrollment == Enrollment \cup {None}

BoundPlaces == {"bound", "naming", "named", "waiting", "enforcing"}
ReadPlaces == {"configured", "opened"} \cup BoundPlaces
AgentPlaces == {"stopped", "restarting", "launched"} \cup ReadPlaces

RestoringPlaces == {"failed", "restored", "disabling"}
WrittenPlaces == {"written", "enabled", "reset", "restarted", "confirming", "confirmed",
  "failed"}
HelperPlaces == {"idle", "ready", "cleared", "unwritten"} \cup WrittenPlaces \cup RestoringPlaces

Report == [by : MaybeEnrollment, online : BOOLEAN]
AgentProcess == [at : AgentPlaces, config : MaybeEnrollment, trusted : BOOLEAN]
HelperProcess ==
  [at : HelperPlaces, to : MaybeEnrollment, config : MaybeEnrollment, marker : BOOLEAN]

ComputerType ==
  /\ config \in MaybeEnrollment /\ marker \in BOOLEAN /\ enabled \in BOOLEAN
  /\ status \in Report
  /\ namespace \in {"none", "empty", "stored"}
  /\ agent.at \in {"named", "waiting", "enforcing"} => namespace = "stored"
  /\ bound \in MaybeEnrollment /\ state \subseteq Enrollment
  /\ agent \in AgentProcess /\ helper \in HelperProcess
  /\ agent.at \in ReadPlaces => agent.config # None
  /\ synced \subseteq Enrollment /\ slipped \in BOOLEAN
  /\ torn \subseteq Enrollment \cup {None} /\ unreported \in BOOLEAN

Vouched(e) == e \in synced \/ slipped \/ e \in torn

\* The helper knows what it found on disk and where it stands.
HelperInv ==
  /\ helper.at \in {"ready", "cleared"} => config = helper.config
  /\ helper.at \in WrittenPlaces => config = helper.to
  /\ helper.at = "ready" => marker = helper.marker
  /\ helper.at \in {"cleared", "unwritten", "restored"} \cup WrittenPlaces => ~ marker
  /\ helper.at \in RestoringPlaces => agent.at \in {"stopped", "restarting"}
  /\ helper.at = "confirmed" => Vouched(helper.to) /\ bound # None

\* A marker, also one that the helper may put back, stands for an answered agent.
MarkerInv ==
  /\ marker => Vouched(config)
  /\ helper.at # "idle" /\ helper.marker => Vouched(helper.config)
  /\ status.online => status.by \in synced /\ bound # None

\* What the agent trusts while its database does not name an owner: a marker of the
\* time before the table enrollment, as long as no configuration has replaced it.
Restorable == marker \/ (helper.at \in {"ready", "cleared"} /\ helper.marker)

\* The rows are of the enrollment, unless a failing write made it pass for theirs.
Owned(e) == state \subseteq {e} \/ e \in torn

DatabaseInv ==
  /\ bound # None => Owned(bound)
  /\ agent.at \in BoundPlaces => bound = agent.config
  /\ bound = None /\ marker => Owned(config)
  /\ bound = None /\ helper.at # "idle" /\ helper.marker => Owned(helper.config)
  /\ bound = None /\ agent.at = "configured" /\ Restorable => Owned(agent.config)
  /\ bound = None /\ agent.at = "configured" /\ helper.at = "unwritten" /\ helper.marker
       => agent.config = config \/ Owned(agent.config)
  /\ bound = None /\ agent.at = "opened" /\ agent.trusted => Owned(agent.config)

ComputerInv == ComputerType /\ HelperInv /\ MarkerInv /\ DatabaseInv

-----------------------------------------------------------------------------
(* The loop of heartbeats (Client.Run). *)

LoopNext ==
  \/ LoopReset \/ Attempt \/ Fail \/ Second
  \/ \E commands \in BOOLEAN, seconds \in ServerIntervals : Succeed(commands, seconds)
  \/ UNCHANGED loopVars

LEMMA LoopConstants ==
  /\ Interval \in Nat /\ Slowest \in Nat /\ AttemptTimeout \in Nat
  /\ 1 <= Interval /\ Interval <= Slowest /\ 1 <= AttemptTimeout
  /\ ServerIntervals \subseteq Int
<1>1. Interval \in Nat \ {0} /\ Slowest \in Nat \ {0} /\ AttemptTimeout \in Nat \ {0}
  BY HeartbeatLoopAssumption
<1>2. QED BY <1>1, HeartbeatLoopAssumption

\* Whatever the server sends, the interval is a second at least and ten minutes at most.
LEMMA IntervalType ==
  ASSUME NEW seconds \in ServerIntervals
  PROVE  NextInterval(seconds) \in 1..Slowest
  BY LoopConstants DEF NextInterval

LEMMA LoopStarts == ASSUME LoopInit PROVE LoopInv
<1>1. LoopType
  <2>1. /\ delay \in 0..Slowest /\ took \in NotUnderWay..AttemptTimeout
        /\ normal \in 1..Slowest /\ backoff \in 1..normal
        /\ sinceLast \in 0..Longest /\ sincePrev \in sinceLast..Longest
    BY LoopConstants DEF LoopInit, NotUnderWay, InitialBackoff, Longest
  <2>2. online \in BOOLEAN /\ first \in BOOLEAN /\ fast \in BOOLEAN
    BY DEF LoopInit
  <2>3. QED BY <2>1, <2>2 DEF LoopType
<1>2. WaitsWithinInterval
  BY LoopConstants DEF LoopInit, WaitsWithinInterval, UnderWay
<1>3. OneFastFollowUp
  BY LoopConstants DEF LoopInit, OneFastFollowUp, UnderWay, Longest
<1>4. QED BY <1>1, <1>2, <1>3 DEF LoopInv

LEMMA LoopRestarts == ASSUME LoopReset PROVE LoopInv'
<1>1. LoopType'
  <2>1. /\ delay' \in 0..Slowest /\ took' \in NotUnderWay..AttemptTimeout
        /\ normal' \in 1..Slowest /\ backoff' \in 1..normal'
        /\ sinceLast' \in 0..Longest /\ sincePrev' \in sinceLast'..Longest
    BY LoopConstants DEF LoopReset, NotUnderWay, InitialBackoff, Longest
  <2>2. online' \in BOOLEAN /\ first' \in BOOLEAN /\ fast' \in BOOLEAN
    BY DEF LoopReset
  <2>3. QED BY <2>1, <2>2 DEF LoopType
<1>2. WaitsWithinInterval'
  BY LoopConstants DEF LoopReset, WaitsWithinInterval, UnderWay
<1>3. OneFastFollowUp'
  BY LoopConstants DEF LoopReset, OneFastFollowUp, UnderWay, Longest
<1>4. QED BY <1>1, <1>2, <1>3 DEF LoopInv

LEMMA AttemptKeepsLoop == ASSUME LoopInv, Attempt PROVE LoopInv'
<1>1. LoopType'
  BY LoopConstants DEF Attempt, LoopInv, LoopType, NotUnderWay, Longest
<1>2. WaitsWithinInterval'
  BY DEF Attempt, WaitsWithinInterval, UnderWay, NotUnderWay
<1>3. OneFastFollowUp'
  BY LoopConstants
  DEF Attempt, LoopInv, LoopType, OneFastFollowUp, UnderWay, NotUnderWay, Longest
<1>4. QED BY <1>1, <1>2, <1>3 DEF LoopInv

LEMMA SuccessKeepsLoop ==
  ASSUME LoopInv, NEW commands \in BOOLEAN, NEW seconds \in ServerIntervals,
         Succeed(commands, seconds)
  PROVE  LoopInv'
<1>1. normal' \in 1..Slowest BY IntervalType DEF Succeed
<1>2. LoopType'
  <2>1. /\ delay' \in 0..Slowest /\ took' \in NotUnderWay..AttemptTimeout
        /\ normal' \in 1..Slowest /\ backoff' \in 1..normal'
        /\ sinceLast' \in 0..Longest /\ sincePrev' \in sinceLast'..Longest
    BY <1>1, LoopConstants DEF Succeed, LoopInv, LoopType, UnderWay, NotUnderWay,
       InitialBackoff, Longest
  <2>2. online' \in BOOLEAN /\ first' \in BOOLEAN /\ fast' \in BOOLEAN
    BY DEF Succeed, FollowsUp, LoopInv, LoopType
  <2>3. QED BY <2>1, <2>2 DEF LoopType
<1>3. WaitsWithinInterval'
  BY <1>1, LoopConstants
  DEF Succeed, LoopInv, LoopType, WaitsWithinInterval, UnderWay, NotUnderWay
<1>4. OneFastFollowUp'
  BY <1>1, LoopConstants
  DEF Succeed, FollowsUp, LoopInv, LoopType, OneFastFollowUp, UnderWay, NotUnderWay, Longest
<1>5. QED BY <1>2, <1>3, <1>4 DEF LoopInv

LEMMA FailureKeepsLoop == ASSUME LoopInv, Fail PROVE LoopInv'
<1>1. LoopType'
  <2>1. /\ delay' \in 0..Slowest /\ took' \in NotUnderWay..AttemptTimeout
        /\ normal' \in 1..Slowest /\ backoff' \in 1..normal'
        /\ sinceLast' \in 0..Longest /\ sincePrev' \in sinceLast'..Longest
    BY LoopConstants DEF Fail, Doubled, SmallerOf, GreaterOf, LoopInv, LoopType, UnderWay,
       NotUnderWay, Longest
  <2>2. online' \in BOOLEAN /\ first' \in BOOLEAN /\ fast' \in BOOLEAN
    BY DEF Fail
  <2>3. QED BY <2>1, <2>2 DEF LoopType
<1>2. WaitsWithinInterval'
  BY LoopConstants
  DEF Fail, GreaterOf, LoopInv, LoopType, WaitsWithinInterval, UnderWay, NotUnderWay
<1>3. OneFastFollowUp'
  BY LoopConstants
  DEF Fail, GreaterOf, LoopInv, LoopType, WaitsWithinInterval, OneFastFollowUp, UnderWay,
      NotUnderWay, Longest
<1>4. QED BY <1>1, <1>2, <1>3 DEF LoopInv

LEMMA TimeKeepsLoop == ASSUME LoopInv, Second PROVE LoopInv'
<1>1. LoopType'
  BY LoopConstants
  DEF Second, SmallerOf, LoopInv, LoopType, UnderWay, NotUnderWay, Longest
<1>2. WaitsWithinInterval'
  BY LoopConstants
  DEF Second, SmallerOf, LoopInv, LoopType, WaitsWithinInterval, UnderWay, NotUnderWay, Longest
<1>3. OneFastFollowUp'
  BY LoopConstants
  DEF Second, SmallerOf, LoopInv, LoopType, OneFastFollowUp, UnderWay, NotUnderWay, Longest
<1>4. QED BY <1>1, <1>2, <1>3 DEF LoopInv

LEMMA LoopStep == ASSUME LoopInv, LoopNext PROVE LoopInv'
<1>1. CASE UNCHANGED loopVars
  BY <1>1 DEF loopVars, LoopInv, LoopType, WaitsWithinInterval, OneFastFollowUp, UnderWay
<1>2. QED
  BY <1>1, LoopRestarts, AttemptKeepsLoop, SuccessKeepsLoop, FailureKeepsLoop, TimeKeepsLoop
  DEF LoopNext

\* Every step of the computer is one of the loop, or leaves it alone.
LEMMA StepOfLoop == [Next]_vars => LoopNext
<1> SUFFICES ASSUME [Next]_vars PROVE LoopNext
  OBVIOUS
<1>1. CASE StartAgent
  BY <1>1 DEF StartAgent, Launch, ReadConfig, ReadMarker, BindEnrollment, OpenNamespace,
              WriteNamespace, RefuseNamespace, StartSynchronizer, PollMarker, LoopNext
<1>2. CASE HeartbeatStarts \/ HeartbeatSucceeds \/ HeartbeatFails \/ Time
  BY <1>2 DEF HeartbeatStarts, HeartbeatSucceeds, HeartbeatFails, Time, LoopNext
<1>3. CASE Crash \/ Reboot \/ (\E e \in Enrollment : StartHelper(e)) \/ KillHelper
  BY <1>3 DEF Crash, Reboot, StartHelper, KillHelper, LoopNext
<1>4. CASE Helper
  BY <1>4 DEF Helper, ClearMarker, WriteConfig, WriteConfigFails, EnableService, RemoveStatus,
              RestartService, CheckActive, RestoreConfig, RestoreMarker, DisableService,
              Confirm, GiveUp, WriteMarker, Files, LoopNext
<1>5. CASE UNCHANGED vars BY <1>5 DEF vars, LoopNext
<1>6. QED BY <1>1, <1>2, <1>3, <1>4, <1>5 DEF Next

LEMMA LoopInvariant == Spec => []LoopInv
<1>1. Init => LoopInv BY LoopStarts DEF Init
<1>2. LoopInv /\ [Next]_vars => LoopInv' BY LoopStep, StepOfLoop
<1>3. QED BY <1>1, <1>2, PTL DEF Spec

\* Three attempts never start within a second, however often a command is repeated.
THEOREM LoopIsNotBusy == Spec => NoBusyLoop
<1>1. LoopInv /\ [Next]_vars => [UnderWay' /\ ~ UnderWay => sincePrev >= 1]_vars
  <2> SUFFICES ASSUME LoopInv, LoopNext, UnderWay', ~ UnderWay
      PROVE  sincePrev >= 1
    BY StepOfLoop
  <2>1. Attempt
    BY DEF LoopNext, LoopReset, Fail, Second, Succeed, loopVars, UnderWay, NotUnderWay
  <2>2. QED
    BY <2>1, LoopConstants
    DEF Attempt, LoopInv, LoopType, OneFastFollowUp, UnderWay, NotUnderWay, Longest
<1>2. QED BY <1>1, LoopInvariant, PTL DEF Spec, NoBusyLoop

\* After any number of failures the agent comes back within its normal interval.
THEOREM AgentComesBack == Spec => []ComesBackSoon
<1>1. LoopInv => ComesBackSoon
  <2> SUFFICES ASSUME LoopInv, UnderWay \/ ~ first PROVE sinceLast <= AttemptTimeout + normal
    BY DEF ComesBackSoon
  <2>1. QED
    BY LoopConstants DEF LoopInv, LoopType, WaitsWithinInterval, UnderWay, NotUnderWay
<1>2. QED BY <1>1, LoopInvariant, PTL

-----------------------------------------------------------------------------
(* The invariant of the computer. *)

LEMMA Constants ==
  /\ Stopped \in AgentProcess /\ Restarting \in AgentProcess /\ Launched \in AgentProcess
  /\ Unused \in HelperProcess /\ Absent \in Report
<1>1. Stopped \in AgentProcess BY DEF Stopped, AgentProcess, AgentPlaces, MaybeEnrollment
<1>2. Restarting \in AgentProcess /\ Launched \in AgentProcess
  BY <1>1 DEF Restarting, Launched, AgentProcess, AgentPlaces
<1>3. Unused \in HelperProcess BY DEF Unused, HelperProcess, HelperPlaces, MaybeEnrollment
<1>4. Absent \in Report BY DEF Absent, Report, MaybeEnrollment
<1>5. QED BY <1>1, <1>2, <1>3, <1>4

LEMMA Placed ==
  /\ Stopped.at = "stopped" /\ Restarting.at = "restarting" /\ Launched.at = "launched"
  /\ Unused.at = "idle" /\ Absent.online = FALSE
  BY DEF Stopped, Restarting, Launched, Unused, Absent

LEMMA ComputerStarts == Init => ComputerInv
<1> SUFFICES ASSUME Init PROVE ComputerInv
  OBVIOUS
<1>1. ComputerType
  <2>1. agent \in AgentProcess /\ agent.at \in {"launched", "stopped"}
    <3>1. CASE enabled BY <3>1, Constants, Placed DEF Init
    <3>2. CASE ~ enabled BY <3>2, Constants, Placed DEF Init
    <3>3. QED BY <3>1, <3>2
  <2>2. synced \subseteq Enrollment /\ config \in MaybeEnrollment /\ enabled \in BOOLEAN
    BY DEF Init, MaybeEnrollment
  <2>3. QED
    BY <2>1, <2>2, Constants DEF Init, ComputerType, MaybeEnrollment, ReadPlaces, BoundPlaces
<1>2. HelperInv
  BY Placed DEF Init, HelperInv, WrittenPlaces, RestoringPlaces
<1>3. MarkerInv
  BY Placed DEF Init, MarkerInv, Vouched
<1>4. DatabaseInv
  BY Placed DEF Init, DatabaseInv, Owned, Restorable, BoundPlaces
<1>5. QED BY <1>1, <1>2, <1>3, <1>4 DEF ComputerInv

\* The types; first, while the agent starts, ...
LEMMA AgentStartType ==
  ASSUME ComputerType, Launch \/ ReadConfig \/ ReadMarker \/ BindEnrollment \/
         OpenNamespace \/ WriteNamespace \/ RefuseNamespace \/ StartSynchronizer \/
         PollMarker
  PROVE  ComputerType'
<1> USE Constants, Placed
    DEF ComputerType, MaybeEnrollment, ReadPlaces, BoundPlaces, AgentPlaces, HelperPlaces,
        WrittenPlaces, RestoringPlaces, files, runtime, database, counters, history
<1>1. CASE Launch
  BY <1>1 DEF Launch, AgentStep, AgentProcess
<1>2. CASE ReadConfig
  <2>1. CASE config = None
    BY <1>2, <2>1 DEF ReadConfig, AgentStep, RuntimeDirectoryRemoved
  <2>2. CASE config # None
    <3>1. [at |-> "configured", config |-> config, trusted |-> FALSE] \in AgentProcess
      BY DEF AgentProcess
    <3>2. agent' = [at |-> "configured", config |-> config, trusted |-> FALSE]
      BY <1>2, <2>2 DEF ReadConfig
    <3>3. agent'.at = "configured" /\ agent'.config # None BY <2>2, <3>2
    <3>4. QED BY <1>2, <2>2, <3>1, <3>2, <3>3 DEF ReadConfig, AgentStep
  <2>3. QED BY <2>1, <2>2
<1>3. CASE ReadMarker
  BY <1>3 DEF ReadMarker, AgentStep, Goes, AgentProcess
<1>4. CASE BindEnrollment
  BY <1>4 DEF BindEnrollment, AgentStep, Goes, Foreign, AgentProcess
<1>5. CASE OpenNamespace
  BY <1>5 DEF OpenNamespace, AgentStep, Goes, AgentProcess
<1>6. CASE WriteNamespace
  BY <1>6 DEF WriteNamespace, AgentStep, Goes, AgentProcess
<1>7. CASE RefuseNamespace
  BY <1>7 DEF RefuseNamespace, AgentStep, Goes, AgentProcess
<1>8. CASE StartSynchronizer
  BY <1>8 DEF StartSynchronizer, AgentStep, Goes, AgentProcess
<1>9. CASE PollMarker
  BY <1>9 DEF PollMarker, AgentStep, Goes, AgentProcess
<1>10. QED BY <1>1, <1>2, <1>3, <1>4, <1>5, <1>6, <1>7, <1>8, <1>9

\* ... at its heartbeats, ...
LEMMA HeartbeatType ==
  ASSUME ComputerType, HeartbeatStarts \/ HeartbeatSucceeds \/ HeartbeatFails \/ Time
  PROVE  ComputerType'
<1> USE Constants, Placed
    DEF ComputerType, MaybeEnrollment, ReadPlaces, BoundPlaces, AgentPlaces, HelperPlaces,
        WrittenPlaces, RestoringPlaces, files, runtime, database, counters, history
<1>1. CASE HeartbeatStarts
  BY <1>1 DEF HeartbeatStarts, AgentStep
<1>2. CASE HeartbeatSucceeds
  <2>1. agent.config \in Enrollment BY <1>2 DEF HeartbeatSucceeds, Running, AgentProcess
  <2>2. [by |-> agent.config, online |-> TRUE] \in Report BY <2>1 DEF Report
  <2>3. QED BY <1>2, <2>1, <2>2 DEF HeartbeatSucceeds, ReportOnline, Write, NoReport, AgentStep
<1>3. CASE HeartbeatFails
  <2>1. agent.config \in MaybeEnrollment BY DEF AgentProcess
  <2>2. [by |-> agent.config, online |-> FALSE] \in Report BY <2>1 DEF Report
  <2>3. QED BY <1>3, <2>2 DEF HeartbeatFails, ReportOffline, Write, NoReport, AgentStep
<1>4. CASE Time
  BY <1>4 DEF Time, AgentStep
<1>5. QED BY <1>1, <1>2, <1>3, <1>4

\* ... when systemd or the administrator intervenes, ...
LEMMA SystemType ==
  ASSUME ComputerType, Crash \/ Reboot \/ KillHelper \/ (\E e \in Enrollment : StartHelper(e))
  PROVE  ComputerType'
<1> USE Constants, Placed
    DEF ComputerType, MaybeEnrollment, ReadPlaces, BoundPlaces, AgentPlaces, HelperPlaces,
        WrittenPlaces, RestoringPlaces, files, runtime, database, counters, history
<1>1. CASE Crash
  BY <1>1 DEF Crash, Fault
<1>2. CASE Reboot
  BY <1>2 DEF Reboot, Fault, RuntimeDirectoryRemoved
<1>3. CASE KillHelper
  BY <1>3 DEF KillHelper, Fault
<1>4. ASSUME NEW e \in Enrollment, StartHelper(e) PROVE ComputerType'
  BY <1>4 DEF StartHelper, HelperProcess
<1>5. QED BY <1>1, <1>2, <1>3, <1>4

\* ... and by the helper.
LEMMA HelperType ==
  ASSUME ComputerType, ClearMarker \/ WriteConfig \/ WriteConfigFails \/ EnableService \/
         RemoveStatus \/ RestartService \/ CheckActive \/ RestoreConfig \/ RestoreMarker
         \/ DisableService \/ Confirm \/ GiveUp \/ WriteMarker
  PROVE  ComputerType'
<1> USE Constants, Placed
    DEF ComputerType, MaybeEnrollment, ReadPlaces, BoundPlaces, AgentPlaces, HelperPlaces,
        WrittenPlaces, RestoringPlaces, files, runtime, database, counters, history
<1>1. CASE ClearMarker
  BY <1>1 DEF ClearMarker, Files, HelperGoes, HelperProcess
<1>2. CASE WriteConfig
  BY <1>2 DEF WriteConfig, Files, HelperGoes, HelperProcess
<1>3. CASE WriteConfigFails
  BY <1>3 DEF WriteConfigFails, Files, HelperGoes, HelperProcess
<1>4. CASE EnableService
  BY <1>4 DEF EnableService, Files, HelperGoes, HelperProcess
<1>5. CASE RemoveStatus
  BY <1>5 DEF RemoveStatus, HelperGoes, HelperProcess
<1>6. CASE RestartService
  BY <1>6 DEF RestartService, HelperGoes, HelperProcess
<1>7. CASE CheckActive
  BY <1>7 DEF CheckActive, Files, HelperGoes, Active, HelperProcess
<1>8. CASE RestoreConfig
  BY <1>8 DEF RestoreConfig, Files, HelperGoes, HelperProcess
<1>9. CASE RestoreMarker
  BY <1>9 DEF RestoreMarker, HelperProcess
<1>10. CASE DisableService
  BY <1>10 DEF DisableService, RuntimeDirectoryRemoved, HelperProcess
<1>11. CASE Confirm
  BY <1>11 DEF Confirm, HelperGoes, HelperProcess
<1>12. CASE GiveUp
  BY <1>12 DEF GiveUp, Files, HelperGoes, HelperProcess
<1>13. CASE WriteMarker
  BY <1>13 DEF WriteMarker, Files, HelperGoes, HelperProcess
<1>14. QED BY <1>1, <1>2, <1>3, <1>4, <1>5, <1>6, <1>7, <1>8, <1>9, <1>10, <1>11, <1>12,
    <1>13

\* What the helper knows is not touched by the agent ...
LEMMA AgentKeepsHelper ==
  ASSUME ComputerType, HelperInv, MarkerInv, DatabaseInv, Launch \/ ReadConfig \/
         ReadMarker \/ BindEnrollment \/ OpenNamespace \/ WriteNamespace \/
         RefuseNamespace \/ StartSynchronizer \/ PollMarker \/ HeartbeatStarts \/
         HeartbeatSucceeds \/ HeartbeatFails \/ Time
  PROVE  HelperInv'
<1> USE Placed DEF HelperInv, Vouched, WrittenPlaces, RestoringPlaces, BoundPlaces,
        ReadPlaces, ComputerType, files, runtime, database, counters, history
<1>1. CASE Launch
  BY <1>1 DEF Launch, AgentStep
<1>2. CASE ReadConfig
  BY <1>2 DEF ReadConfig, AgentStep, RuntimeDirectoryRemoved
<1>3. CASE ReadMarker
  BY <1>3 DEF ReadMarker, AgentStep, Goes
<1>4. CASE BindEnrollment
  BY <1>4 DEF BindEnrollment, AgentStep, Goes, Foreign
<1>5. CASE OpenNamespace
  BY <1>5 DEF OpenNamespace, AgentStep, Goes
<1>6. CASE WriteNamespace
  BY <1>6 DEF WriteNamespace, AgentStep, Goes
<1>7. CASE RefuseNamespace
  BY <1>7 DEF RefuseNamespace, AgentStep, Goes
<1>8. CASE StartSynchronizer
  BY <1>8 DEF StartSynchronizer, AgentStep, Goes
<1>9. CASE PollMarker
  BY <1>9 DEF PollMarker, AgentStep, Goes
<1>10. CASE HeartbeatStarts
  BY <1>10 DEF HeartbeatStarts, AgentStep
<1>11. CASE HeartbeatSucceeds
  BY <1>11 DEF HeartbeatSucceeds, AgentStep, ReportOnline, Write, NoReport, Running
<1>12. CASE HeartbeatFails
  BY <1>12 DEF HeartbeatFails, AgentStep, ReportOffline, Write, NoReport
<1>13. CASE Time
  BY <1>13 DEF Time, AgentStep
<1>14. QED BY <1>1, <1>2, <1>3, <1>4, <1>5, <1>6, <1>7, <1>8, <1>9, <1>10, <1>11, <1>12,
    <1>13

LEMMA SystemKeepsHelper ==
  ASSUME ComputerType, HelperInv, MarkerInv, Crash \/ Reboot \/ KillHelper
           \/ (\E e \in Enrollment : StartHelper(e))
  PROVE  HelperInv'
<1> USE Placed DEF HelperInv, Vouched, WrittenPlaces, RestoringPlaces, ComputerType,
        files, runtime, database, counters, history
<1>1. CASE Crash
  BY <1>1 DEF Crash, Fault
<1>2. CASE Reboot
  BY <1>2 DEF Reboot, Fault, RuntimeDirectoryRemoved
<1>3. CASE KillHelper
  BY <1>3 DEF KillHelper, Fault
<1>4. ASSUME NEW e \in Enrollment, StartHelper(e) PROVE HelperInv'
  BY <1>4 DEF StartHelper
<1>5. QED BY <1>1, <1>2, <1>3, <1>4

\* ... and is kept by its own steps.
LEMMA HelperKeepsHelper ==
  ASSUME ComputerType, HelperInv, MarkerInv, ClearMarker \/ WriteConfig \/
         WriteConfigFails \/ EnableService \/ RemoveStatus \/ RestartService \/
         CheckActive \/ RestoreConfig \/ RestoreMarker \/ DisableService \/ Confirm \/
         GiveUp \/ WriteMarker
  PROVE  HelperInv'
<1> USE Placed DEF HelperInv, Vouched, WrittenPlaces, RestoringPlaces, ComputerType,
        files, runtime, database, counters, history
<1>1. CASE ClearMarker
  BY <1>1 DEF ClearMarker, Files, HelperGoes
<1>2. CASE WriteConfig
  BY <1>2 DEF WriteConfig, Files, HelperGoes
<1>3. CASE WriteConfigFails
  BY <1>3 DEF WriteConfigFails, Files, HelperGoes
<1>4. CASE EnableService
  BY <1>4 DEF EnableService, Files, HelperGoes
<1>5. CASE RemoveStatus
  BY <1>5 DEF RemoveStatus, HelperGoes
<1>6. CASE RestartService
  BY <1>6 DEF RestartService, HelperGoes
<1>7. CASE CheckActive
  BY <1>7 DEF CheckActive, Files, HelperGoes, Active
<1>8. CASE RestoreConfig
  BY <1>8 DEF RestoreConfig, Files, HelperGoes
<1>9. CASE RestoreMarker
  BY <1>9 DEF RestoreMarker
<1>10. CASE DisableService
  BY <1>10 DEF DisableService, RuntimeDirectoryRemoved
<1>11. CASE Confirm
  <2>1. bound # None /\ (status.by \in synced) BY <1>11 DEF Confirm, MarkerInv
  <2>2. Vouched(helper.to)'
    <3>1. CASE status.by = helper.to BY <1>11, <2>1, <3>1 DEF Confirm, HelperGoes, HelperProcess
    <3>2. CASE status.by # helper.to BY <1>11, <3>2 DEF Confirm
    <3>3. QED BY <3>1, <3>2
  <2>3. helper' = [helper EXCEPT !.at = "confirmed"] /\ helper.at = "confirming"
    BY <1>11 DEF Confirm, HelperGoes
  <2>4. UNCHANGED <<files, agent, bound>> BY <1>11 DEF Confirm
  <2>5. QED BY <2>1, <2>2, <2>3, <2>4 DEF HelperProcess
<1>12. CASE GiveUp
  BY <1>12 DEF GiveUp, Files, HelperGoes
<1>13. CASE WriteMarker
  BY <1>13 DEF WriteMarker, Files, HelperGoes
<1>14. QED BY <1>1, <1>2, <1>3, <1>4, <1>5, <1>6, <1>7, <1>8, <1>9, <1>10, <1>11, <1>12,
    <1>13

\* A marker stands for an answered agent.
LEMMA AgentKeepsMarker ==
  ASSUME ComputerType, HelperInv, MarkerInv, DatabaseInv, Launch \/ ReadConfig \/
         ReadMarker \/ BindEnrollment \/ OpenNamespace \/ WriteNamespace \/
         RefuseNamespace \/ StartSynchronizer \/ PollMarker \/ HeartbeatStarts \/
         HeartbeatSucceeds \/ HeartbeatFails \/ Time
  PROVE  MarkerInv'
<1> USE Placed DEF MarkerInv, HelperInv, Vouched, WrittenPlaces, RestoringPlaces,
        BoundPlaces, ReadPlaces, DatabaseInv, Owned, ComputerType, files, runtime, database,
        counters, history
<1>1. CASE Launch
  BY <1>1 DEF Launch, AgentStep
<1>2. CASE ReadConfig
  BY <1>2 DEF ReadConfig, AgentStep, RuntimeDirectoryRemoved
<1>3. CASE ReadMarker
  BY <1>3 DEF ReadMarker, AgentStep, Goes
<1>4. CASE BindEnrollment
  BY <1>4 DEF BindEnrollment, AgentStep, Goes, Foreign
<1>5. CASE OpenNamespace
  BY <1>5 DEF OpenNamespace, AgentStep, Goes
<1>6. CASE WriteNamespace
  BY <1>6 DEF WriteNamespace, AgentStep, Goes
<1>7. CASE RefuseNamespace
  BY <1>7 DEF RefuseNamespace, AgentStep, Goes
<1>8. CASE StartSynchronizer
  BY <1>8 DEF StartSynchronizer, AgentStep, Goes
<1>9. CASE PollMarker
  BY <1>9 DEF PollMarker, AgentStep, Goes
<1>10. CASE HeartbeatStarts
  BY <1>10 DEF HeartbeatStarts, AgentStep
<1>11. CASE HeartbeatSucceeds
  BY <1>11 DEF HeartbeatSucceeds, AgentStep, ReportOnline, Write, NoReport, Running
<1>12. CASE HeartbeatFails
  BY <1>12 DEF HeartbeatFails, AgentStep, ReportOffline, Write, NoReport
<1>13. CASE Time
  BY <1>13 DEF Time, AgentStep
<1>14. QED BY <1>1, <1>2, <1>3, <1>4, <1>5, <1>6, <1>7, <1>8, <1>9, <1>10, <1>11, <1>12,
    <1>13

LEMMA SystemKeepsMarker ==
  ASSUME ComputerType, HelperInv, MarkerInv, Crash \/ Reboot \/ KillHelper
           \/ (\E e \in Enrollment : StartHelper(e))
  PROVE  MarkerInv'
<1> USE Placed DEF MarkerInv, HelperInv, Vouched, WrittenPlaces, RestoringPlaces,
        BoundPlaces, ReadPlaces, ComputerType, files, runtime, database, counters, history
<1>1. CASE Crash
  BY <1>1 DEF Crash, Fault
<1>2. CASE Reboot
  BY <1>2 DEF Reboot, Fault, RuntimeDirectoryRemoved
<1>3. CASE KillHelper
  BY <1>3 DEF KillHelper, Fault
<1>4. ASSUME NEW e \in Enrollment, StartHelper(e) PROVE MarkerInv'
  BY <1>4 DEF StartHelper
<1>5. QED BY <1>1, <1>2, <1>3, <1>4

LEMMA HelperKeepsMarker ==
  ASSUME ComputerType, HelperInv, MarkerInv, ClearMarker \/ WriteConfig \/
         WriteConfigFails \/ EnableService \/ RemoveStatus \/ RestartService \/
         CheckActive \/ RestoreConfig \/ RestoreMarker \/ DisableService \/ Confirm \/
         GiveUp \/ WriteMarker
  PROVE  MarkerInv'
<1> USE Placed DEF MarkerInv, HelperInv, Vouched, WrittenPlaces, RestoringPlaces,
        BoundPlaces, ReadPlaces, ComputerType, files, runtime, database, counters, history
<1>1. CASE ClearMarker
  BY <1>1 DEF ClearMarker, Files, HelperGoes
<1>2. CASE WriteConfig
  BY <1>2 DEF WriteConfig, Files, HelperGoes
<1>3. CASE WriteConfigFails
  BY <1>3 DEF WriteConfigFails, Files, HelperGoes
<1>4. CASE EnableService
  BY <1>4 DEF EnableService, Files, HelperGoes
<1>5. CASE RemoveStatus
  BY <1>5 DEF RemoveStatus, HelperGoes
<1>6. CASE RestartService
  BY <1>6 DEF RestartService, HelperGoes
<1>7. CASE CheckActive
  BY <1>7 DEF CheckActive, Files, HelperGoes, Active
<1>8. CASE RestoreConfig
  BY <1>8 DEF RestoreConfig, Files, HelperGoes
<1>9. CASE RestoreMarker
  BY <1>9 DEF RestoreMarker
<1>10. CASE DisableService
  BY <1>10 DEF DisableService, RuntimeDirectoryRemoved
<1>11. CASE Confirm
  BY <1>11 DEF Confirm, HelperGoes
<1>12. CASE GiveUp
  BY <1>12 DEF GiveUp, Files, HelperGoes
<1>13. CASE WriteMarker
  BY <1>13 DEF WriteMarker, Files, HelperGoes
<1>14. QED BY <1>1, <1>2, <1>3, <1>4, <1>5, <1>6, <1>7, <1>8, <1>9, <1>10, <1>11, <1>12,
    <1>13

\* The database is of the enrollment that it names.
LEMMA AgentKeepsDatabase ==
  ASSUME ComputerType, HelperInv, MarkerInv, DatabaseInv, Launch \/ ReadConfig \/
         ReadMarker \/ BindEnrollment \/ OpenNamespace \/ WriteNamespace \/
         RefuseNamespace \/ StartSynchronizer \/ PollMarker \/ HeartbeatStarts \/
         HeartbeatSucceeds \/ HeartbeatFails \/ Time
  PROVE  DatabaseInv'
<1> USE Placed DEF HelperInv, DatabaseInv, Owned, Restorable, WrittenPlaces, RestoringPlaces,
        BoundPlaces, ReadPlaces, ComputerType, files, runtime, database, counters, history
<1>1. CASE Launch
  BY <1>1 DEF Launch, AgentStep
<1>2. CASE ReadConfig
  BY <1>2 DEF ReadConfig, AgentStep, RuntimeDirectoryRemoved
<1>3. CASE ReadMarker
  BY <1>3 DEF ReadMarker, AgentStep, Goes
<1>4. CASE BindEnrollment
  BY <1>4 DEF BindEnrollment, AgentStep, Goes, Foreign
<1>5. CASE OpenNamespace
  BY <1>5 DEF OpenNamespace, AgentStep, Goes
<1>6. CASE WriteNamespace
  BY <1>6 DEF WriteNamespace, AgentStep, Goes
<1>7. CASE RefuseNamespace
  BY <1>7 DEF RefuseNamespace, AgentStep, Goes
<1>8. CASE StartSynchronizer
  BY <1>8 DEF StartSynchronizer, AgentStep, Goes
<1>9. CASE PollMarker
  BY <1>9 DEF PollMarker, AgentStep, Goes
<1>10. CASE HeartbeatStarts
  BY <1>10 DEF HeartbeatStarts, AgentStep
<1>11. CASE HeartbeatSucceeds
  BY <1>11 DEF HeartbeatSucceeds, AgentStep, ReportOnline, Write, NoReport, Running
<1>12. CASE HeartbeatFails
  BY <1>12 DEF HeartbeatFails, AgentStep, ReportOffline, Write, NoReport
<1>13. CASE Time
  BY <1>13 DEF Time, AgentStep
<1>14. QED BY <1>1, <1>2, <1>3, <1>4, <1>5, <1>6, <1>7, <1>8, <1>9, <1>10, <1>11, <1>12,
    <1>13

LEMMA SystemKeepsDatabase ==
  ASSUME ComputerType, HelperInv, MarkerInv, DatabaseInv, Crash \/ Reboot \/ KillHelper
           \/ (\E e \in Enrollment : StartHelper(e))
  PROVE  DatabaseInv'
<1> USE Placed DEF HelperInv, DatabaseInv, Owned, Restorable, WrittenPlaces, RestoringPlaces,
        BoundPlaces, ReadPlaces, ComputerType, files, runtime, database, counters, history
<1>1. CASE Crash
  BY <1>1 DEF Crash, Fault
<1>2. CASE Reboot
  BY <1>2 DEF Reboot, Fault, RuntimeDirectoryRemoved
<1>3. CASE KillHelper
  BY <1>3 DEF KillHelper, Fault
<1>4. ASSUME NEW e \in Enrollment, StartHelper(e) PROVE DatabaseInv'
  BY <1>4 DEF StartHelper
<1>5. QED BY <1>1, <1>2, <1>3, <1>4

LEMMA HelperKeepsDatabase ==
  ASSUME ComputerType, HelperInv, MarkerInv, DatabaseInv, ClearMarker \/ WriteConfig \/
         WriteConfigFails \/ EnableService \/ RemoveStatus \/ RestartService \/
         CheckActive \/ RestoreConfig \/ RestoreMarker \/ DisableService \/ Confirm \/
         GiveUp \/ WriteMarker
  PROVE  DatabaseInv'
<1> USE Placed DEF HelperInv, DatabaseInv, Owned, Restorable, WrittenPlaces, RestoringPlaces,
        BoundPlaces, ReadPlaces, ComputerType, files, runtime, database, counters, history
<1>1. CASE ClearMarker
  BY <1>1 DEF ClearMarker, Files, HelperGoes
<1>2. CASE WriteConfig
  BY <1>2 DEF WriteConfig, Files, HelperGoes
<1>3. CASE WriteConfigFails
  BY <1>3 DEF WriteConfigFails, Files, HelperGoes
<1>4. CASE EnableService
  BY <1>4 DEF EnableService, Files, HelperGoes
<1>5. CASE RemoveStatus
  BY <1>5 DEF RemoveStatus, HelperGoes
<1>6. CASE RestartService
  BY <1>6 DEF RestartService, HelperGoes
<1>7. CASE CheckActive
  BY <1>7 DEF CheckActive, Files, HelperGoes, Active
<1>8. CASE RestoreConfig
  BY <1>8 DEF RestoreConfig, Files, HelperGoes
<1>9. CASE RestoreMarker
  BY <1>9 DEF RestoreMarker
<1>10. CASE DisableService
  BY <1>10 DEF DisableService, RuntimeDirectoryRemoved
<1>11. CASE Confirm
  BY <1>11 DEF Confirm, HelperGoes
<1>12. CASE GiveUp
  BY <1>12 DEF GiveUp, Files, HelperGoes
<1>13. CASE WriteMarker
  BY <1>13 DEF WriteMarker, Files, HelperGoes
<1>14. QED BY <1>1, <1>2, <1>3, <1>4, <1>5, <1>6, <1>7, <1>8, <1>9, <1>10, <1>11, <1>12,
    <1>13

LEMMA ComputerStep == ComputerInv /\ [Next]_vars => ComputerInv'
<1> SUFFICES ASSUME ComputerInv, [Next]_vars PROVE ComputerInv'
  OBVIOUS
<1>1. CASE StartAgent
  BY <1>1, AgentStartType, AgentKeepsHelper, AgentKeepsMarker, AgentKeepsDatabase
  DEF StartAgent, ComputerInv
<1>2. CASE HeartbeatStarts \/ HeartbeatSucceeds \/ HeartbeatFails \/ Time
  BY <1>2, HeartbeatType, AgentKeepsHelper, AgentKeepsMarker, AgentKeepsDatabase
  DEF ComputerInv
<1>3. CASE Crash \/ Reboot \/ KillHelper \/ (\E e \in Enrollment : StartHelper(e))
  BY <1>3, SystemType, SystemKeepsHelper, SystemKeepsMarker, SystemKeepsDatabase
  DEF ComputerInv
<1>4. CASE Helper
  BY <1>4, HelperType, HelperKeepsHelper, HelperKeepsMarker, HelperKeepsDatabase
  DEF Helper, ComputerInv
<1>5. CASE UNCHANGED vars
  BY <1>5
  DEF vars, files, runtime, database, history, ComputerInv, ComputerType, HelperInv,
      MarkerInv, DatabaseInv, Owned, Restorable, Vouched
<1>6. QED BY <1>1, <1>2, <1>3, <1>4, <1>5 DEF Next

LEMMA ComputerInvariant == Spec => []ComputerInv
  BY ComputerStarts, ComputerStep, PTL DEF Spec

\* The variables keep their types.
THEOREM SetupTypes == Spec => []TypeOK
<1>1. LoopInv /\ ComputerInv => TypeOK
  BY DEF LoopInv, LoopType, ComputerInv, ComputerType, MaybeEnrollment, Report, AgentProcess,
         AgentPlaces, ReadPlaces, BoundPlaces, TypeOK
<1>2. QED BY <1>1, LoopInvariant, ComputerInvariant, PTL

\* No rows of another server or device are enforced or reported (BindEnrollment), unless
\* a failing write put the marker over this one's configuration.
THEOREM DatabaseIsOwn == Spec => []OnlyOwnStateIsUsed
<1>1. ComputerInv => OnlyOwnStateIsUsed
  BY DEF ComputerInv, ComputerType, DatabaseInv, Owned, BoundPlaces, ReadPlaces, Running,
         OnlyOwnStateIsUsed
<1>2. QED BY <1>1, ComputerInvariant, PTL

\* A marker on disk confirms the configuration on disk, at whatever step the helper was
\* killed; the exceptions are a former process's report and a marker put back after a
\* failing write of the configuration.
THEOREM MarkerConfirms == Spec => []MarkerConfirmsConfiguration
<1>1. ComputerInv => MarkerConfirmsConfiguration
  BY DEF ComputerInv, MarkerInv, Vouched, MarkerConfirmsConfiguration
<1>2. QED BY <1>1, ComputerInvariant, PTL

-----------------------------------------------------------------------------
(* The report on disk (reportStatus); only transitions are written. *)

LEMMA ReportStep ==
  ASSUME LoopInv, ComputerInv, ReportIsLastResult, [Next]_vars
  PROVE  ReportIsLastResult'
<1> USE DEF ReportIsLastResult, Running
<1>1. agent \in AgentProcess BY DEF ComputerInv, ComputerType
<1>2. CASE StartAgent
  <2>1. CASE StartSynchronizer BY <2>1 DEF StartSynchronizer
  <2>2. CASE PollMarker
    BY <1>1, <2>2 DEF PollMarker, Goes, AgentProcess, runtime, history, loopVars
  <2>3. CASE Launch \/ ReadConfig \/ RefuseNamespace
    <3>1. agent' \in {Launched, Stopped, Restarting} \/ agent'.at = "configured"
      BY <2>3 DEF Launch, ReadConfig, RefuseNamespace
    <3>2. QED BY <3>1, Placed
  <2>4. CASE ReadMarker \/ BindEnrollment \/ OpenNamespace \/ WriteNamespace
    <3>1. agent'.at \in {"opened", "bound", "naming", "named"}
      BY <1>1, <2>4
      DEF ReadMarker, BindEnrollment, OpenNamespace, WriteNamespace, Goes, AgentProcess
    <3>2. QED BY <3>1
  <2>5. QED BY <1>2, <2>1, <2>2, <2>3, <2>4 DEF StartAgent
<1>3. CASE HeartbeatSucceeds
  <2>1. Running /\ agent' = agent /\ online' = TRUE /\ first' = FALSE /\ ReportOnline
    BY <1>3 DEF HeartbeatSucceeds, Succeed
  <2>2. CASE online
    <3>1. online = TRUE BY <2>2 DEF LoopInv, LoopType
    <3>2. UNCHANGED <<status, unreported>> BY <2>1, <2>2 DEF ReportOnline, NoReport
    <3>3. QED BY <2>1, <3>1, <3>2
  <2>3. CASE ~ online BY <2>1, <2>3 DEF ReportOnline, Write
  <2>4. QED BY <2>2, <2>3
<1>4. CASE HeartbeatFails
  <2>1. Running /\ agent' = agent /\ online' = FALSE /\ first' = FALSE /\ ReportOffline
    BY <1>4 DEF HeartbeatFails, Fail
  <2>2. CASE ~ online /\ ~ first
    <3>1. online = FALSE BY <2>2 DEF LoopInv, LoopType
    <3>2. UNCHANGED <<status, unreported>> BY <2>1, <2>2 DEF ReportOffline, NoReport
    <3>3. QED BY <2>1, <3>1, <3>2
  <2>3. CASE online \/ first BY <2>1, <2>3 DEF ReportOffline, Write
  <2>4. QED BY <2>2, <2>3
<1>5. CASE HeartbeatStarts \/ Time
  BY <1>5 DEF HeartbeatStarts, Attempt, Time, Second, runtime, history
<1>6. CASE Crash \/ Reboot \/ KillHelper \/ (\E e \in Enrollment : StartHelper(e))
  BY <1>6, Placed DEF Crash, Reboot, KillHelper, StartHelper, runtime, history, loopVars
<1>7. CASE Helper
  BY <1>7, Placed
  DEF Helper, ClearMarker, WriteConfig, WriteConfigFails, EnableService, RemoveStatus,
      RestartService, CheckActive, RestoreConfig, RestoreMarker, DisableService, Confirm,
      GiveUp, WriteMarker, Files, runtime, history, loopVars
<1>8. CASE UNCHANGED vars BY <1>8 DEF vars, runtime, history, loopVars
<1>9. QED BY <1>2, <1>3, <1>4, <1>5, <1>6, <1>7, <1>8 DEF Next

\* A report on disk is the last result, unless that one could not be written.
THEOREM ReportIsRight == Spec => []ReportIsLastResult
<1>1. Init => ReportIsLastResult BY DEF Init, ReportIsLastResult
<1>2. LoopInv /\ ComputerInv /\ ReportIsLastResult /\ [Next]_vars => ReportIsLastResult'
  BY ReportStep
<1>3. QED BY <1>1, <1>2, LoopInvariant, ComputerInvariant, PTL DEF Spec

=============================================================================
