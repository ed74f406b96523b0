------------------------------- MODULE Setup -------------------------------
(***************************************************************************)
(* One computer from its first configuration on: the privileged helper     *)
(* tempo-agent-configure, the agent process that systemd starts, stops and *)
(* restarts, the files they share and the owner of the agent's database.   *)
(*                                                                         *)
(* An enrollment stands for the address of a server with the identifier    *)
(* and token of a device.  Of the database only the enrollments its rows   *)
(* come from are kept.  One helper runs at a time.  A write of a file may  *)
(* fail, before or after the file was replaced (WriteFileAtomically).  A   *)
(* systemctl command that fails is one whose service is then not active.   *)
(***************************************************************************)
EXTENDS HeartbeatLoop, FiniteSets

CONSTANTS
  Enrollment, None,
  MaxRuns,    \* bound on runs of the helper
  MaxFaults   \* bound on crashes, reboots and killed helpers

VARIABLES
  config,  \* enrollment in config.toml, or None
  marker,  \* whether setup-complete says "configured"
  enabled, \* whether systemd starts the agent at boot
  status,  \* synchronization-status.json: absent, or who wrote it and what
  namespace, \* session-namespace-id, beside it: none, empty or stored
  bound,   \* row of the table enrollment, or None
  state,   \* enrollments whose data the database holds
  agent,   \* where the agent process stands, with the configuration it read
  helper,  \* where the helper stands, with what it read
  runs, faults,
  synced,  \* history: enrollments whose server has answered this computer
  slipped, \* history: the helper took a former process's report for an answer
  torn,    \* history: enrollments in whose configuration a failing write put the marker
           \* of another one
  unreported \* history: the last report could not be written

files == <<config, marker, enabled>>
runtime == <<status, namespace>>
database == <<bound, state>>
counters == <<runs, faults>>
history == <<synced, slipped, torn, unreported>>
vars == <<files, runtime, database, agent, helper, counters, history, loopVars>>

-----------------------------------------------------------------------------
Absent == [by |-> None, online |-> FALSE]
Stopped == [at |-> "stopped", config |-> None, trusted |-> FALSE]
Launched == [Stopped EXCEPT !.at = "launched"]
Restarting == [Stopped EXCEPT !.at = "restarting"]
Unused == [at |-> "idle", to |-> None, config |-> None, marker |-> FALSE]

\* systemd removes the runtime directory when the service stops (and so does a
\* reboot), not when it restarts.
RuntimeDirectoryRemoved == status' = Absent /\ namespace' = "none"

Running == agent.at \in {"waiting", "enforcing"}
Active == agent.at \notin {"stopped", "restarting"}

\* Not configured, configured, or confirmed; a database may be left over, and that of
\* a confirmed computer may be older than the table enrollment.
Init ==
  /\ config \in Enrollment \cup {None}
  /\ marker \in BOOLEAN /\ (marker => config # None)
  /\ enabled = (config # None)
  /\ bound \in Enrollment \cup {None}
  /\ state \in { {} } \cup { {e} : e \in Enrollment }
  /\ (bound # None => state \subseteq {bound})
  /\ (marker => bound \in {None, config} /\ state \subseteq {config})
  /\ status = Absent /\ namespace = "none"
  /\ agent = IF enabled THEN Launched ELSE Stopped
  /\ helper = Unused
  /\ runs = 0 /\ faults = 0
  /\ synced = IF marker THEN {config} ELSE {}
  /\ slipped = FALSE /\ torn = {} /\ unreported = FALSE
  /\ LoopInit

-----------------------------------------------------------------------------
(* The agent process. *)

AgentStep == UNCHANGED <<files, helper, counters>>
Goes(place) == agent' = [agent EXCEPT !.at = place]

\* Without credentials the process ends, and systemd leaves it so.
ReadConfig ==
  /\ agent.at = "launched"
  /\ IF config = None
       THEN agent' = Stopped /\ RuntimeDirectoryRemoved
       ELSE agent' = [at |-> "configured", config |-> config, trusted |-> FALSE]
         /\ UNCHANGED runtime
  /\ AgentStep /\ UNCHANGED <<database, history, loopVars>>

\* setupConfirmedAtStartup
ReadMarker ==
  /\ agent.at = "configured"
  /\ agent' = [agent EXCEPT !.at = "opened", !.trusted = marker]
  /\ AgentStep /\ UNCHANGED <<runtime, database, history, loopVars>>

\* Mutant: a database that names no owner is the configured server's.
ForeignIfNamed == bound \notin {None, agent.config}

\* Whether the rows may belong to another enrollment.
Foreign == IF bound = None THEN ~ agent.trusted ELSE bound # agent.config

BindEnrollment ==
  /\ agent.at = "opened"
  /\ bound' = agent.config
  /\ state' = IF Foreign THEN {} ELSE state
  /\ Goes("bound")
  /\ AgentStep /\ UNCHANGED <<runtime, history, loopVars>>

\* NewLogind: the identifier of the boot's sessions is read, or its file is created ...
OpenNamespace ==
  /\ agent.at = "bound" /\ namespace # "empty"
  /\ namespace' = IF namespace = "none" THEN "empty" ELSE namespace
  /\ Goes(IF namespace = "none" THEN "naming" ELSE "named")
  /\ AgentStep /\ UNCHANGED <<status, database, history, loopVars>>

\* ... and written.
WriteNamespace ==
  /\ agent.at = "naming"
  /\ namespace' = "stored"
  /\ Goes("named")
  /\ AgentStep /\ UNCHANGED <<status, database, history, loopVars>>

\* A file without an identifier is an error: the process ends, and systemd repeats it.
RefuseNamespace ==
  /\ agent.at = "bound" /\ namespace = "empty"
  /\ agent' = Restarting
  /\ AgentStep /\ UNCHANGED <<runtime, database, history, loopVars>>

\* The last report is removed, if it can be, and the loop of heartbeats starts.
StartSynchronizer ==
  /\ agent.at = "named"
  /\ status' \in {status, Absent} /\ unreported' = (status' # Absent)
  /\ LoopReset
  /\ Goes(IF agent.trusted THEN "enforcing" ELSE "waiting")
  /\ AgentStep /\ UNCHANGED <<namespace, database, synced, slipped, torn>>

\* Mutant: the agent itself must be online when it sees the marker.
PollMarkerOnline ==
  /\ agent.at = "waiting" /\ marker /\ online
  /\ Goes("enforcing")
  /\ AgentStep /\ UNCHANGED <<runtime, database, history, loopVars>>

\* waitForSetupConfirmation
PollMarker ==
  /\ agent.at = "waiting" /\ marker
  /\ Goes("enforcing")
  /\ AgentStep /\ UNCHANGED <<runtime, database, history, loopVars>>

\* The reporter: a failing write is only logged, and the former report stays.
Write(report) ==
  \/ status' = report /\ unreported' = FALSE
  \/ status' = status /\ unreported' = TRUE
NoReport == UNCHANGED <<status, unreported>>

\* Mutant: a recovery is not reported.
ReportFirstOnline ==
  IF first THEN Write([by |-> agent.config, online |-> TRUE]) ELSE NoReport

\* reportStatus, on transitions only: to online ...
ReportOnline == IF online THEN NoReport ELSE Write([by |-> agent.config, online |-> TRUE])
\* ... and to offline.
ReportOffline ==
  IF online \/ first THEN Write([by |-> agent.config, online |-> FALSE]) ELSE NoReport

\* What the answer brings is stored before the loop sees it.
HeartbeatSucceeds ==
  /\ Running
  /\ \E commands \in BOOLEAN, seconds \in ServerIntervals : Succeed(commands, seconds)
  /\ state' = state \cup {agent.config} /\ synced' = synced \cup {agent.config}
  /\ ReportOnline
  /\ AgentStep /\ UNCHANGED <<namespace, bound, agent, slipped, torn>>

HeartbeatFails ==
  /\ Running /\ Fail /\ ReportOffline
  /\ AgentStep /\ UNCHANGED <<namespace, database, agent, synced, slipped, torn>>

HeartbeatStarts ==
  /\ Running /\ Attempt
  /\ AgentStep /\ UNCHANGED <<runtime, database, agent, history>>

Time ==
  /\ Running /\ Second
  /\ AgentStep /\ UNCHANGED <<runtime, database, agent, history>>

-----------------------------------------------------------------------------
(* systemd: Restart=on-failure, RuntimeDirectoryPreserve=restart. *)

Fault == faults < MaxFaults /\ faults' = faults + 1

Crash ==
  /\ Fault /\ Active
  /\ agent' = Restarting
  /\ LoopReset
  /\ UNCHANGED <<files, runtime, database, helper, runs, history>>

\* RestartSec: two seconds later, when a helper that found the service inactive has
\* put its files back and disabled it.
Launch ==
  /\ agent.at = "restarting" /\ helper.at \notin {"failed", "restored", "disabling"}
  /\ agent' = Launched
  /\ AgentStep /\ UNCHANGED <<runtime, database, history, loopVars>>

Reboot ==
  /\ Fault
  /\ agent' = IF enabled THEN Launched ELSE Stopped
  /\ helper' = Unused /\ RuntimeDirectoryRemoved
  /\ LoopReset
  /\ UNCHANGED <<files, database, runs, history>>

-----------------------------------------------------------------------------
(* tempo-agent-configure, one step for each file or unit that it changes. *)

HelperGoes(place) == helper' = [helper EXCEPT !.at = place]
Files == UNCHANGED <<runtime, database, agent, counters, history, loopVars>>

\* Reads the configuration and the marker; the request may repeat the enrollment.
StartHelper(e) ==
  /\ helper.at = "idle" /\ runs < MaxRuns
  /\ runs' = runs + 1
  /\ helper' = [at |-> "ready", to |-> e, config |-> config, marker |-> marker]
  /\ UNCHANGED <<files, runtime, database, agent, faults, history, loopVars>>

\* Mutant: the marker of the former enrollment is only replaced at the end.
KeepMarker ==
  /\ helper.at = "ready"
  /\ HelperGoes("cleared")
  /\ Files /\ UNCHANGED files

ClearMarker ==
  /\ helper.at = "ready"
  /\ marker' = FALSE
  /\ HelperGoes("cleared")
  /\ Files /\ UNCHANGED <<config, enabled>>

WriteConfig ==
  /\ helper.at = "cleared"
  /\ config' = helper.to
  /\ HelperGoes("written")
  /\ Files /\ UNCHANGED <<marker, enabled>>

\* An error of the write, also when the file has been replaced.
WriteConfigFails ==
  /\ helper.at = "cleared"
  /\ config' \in {config, helper.to}
  /\ HelperGoes("unwritten")
  /\ Files /\ UNCHANGED <<marker, enabled>>

\* startAgentService: enable, ...
EnableService ==
  /\ helper.at = "written"
  /\ enabled' = TRUE
  /\ HelperGoes("enabled")
  /\ Files /\ UNCHANGED <<config, marker>>

\* ... remove the last report, ...
RemoveStatus ==
  /\ helper.at = "enabled"
  /\ status' = Absent
  /\ HelperGoes("reset")
  /\ UNCHANGED <<files, namespace, database, agent, counters, history, loopVars>>

\* ... restart, which leaves the runtime directory as it is (an agent that is told to
\* end completes the identifier that it writes), ...
RestartService ==
  /\ helper.at = "reset"
  /\ agent' = Launched
  /\ namespace' = IF agent.at = "naming" THEN "stored" ELSE namespace
  /\ LoopReset
  /\ HelperGoes("restarted")
  /\ UNCHANGED <<files, status, database, counters, history>>

\* ... and see whether the service is active.
CheckActive ==
  /\ helper.at = "restarted"
  /\ HelperGoes(IF Active THEN "confirming" ELSE "failed")
  /\ Files /\ UNCHANGED files

\* The service did not start: the configuration is put back, if it can be written, ...
RestoreConfig ==
  /\ helper.at = "failed"
  /\ config' \in {config, helper.config}
  /\ HelperGoes("restored")
  /\ Files /\ UNCHANGED <<marker, enabled>>

\* ... then the marker (restoreSetupMarker), whatever the configuration is; this is also
\* what follows a configuration that could not be written.
RestoreMarker ==
  /\ helper.at \in {"unwritten", "restored"}
  /\ marker' \in {marker, marker \/ helper.marker}
  /\ torn' = IF marker' /\ config # helper.config THEN torn \cup {config} ELSE torn
  /\ helper' = IF helper.at = "unwritten" THEN Unused ELSE [helper EXCEPT !.at = "disabling"]
  /\ UNCHANGED <<config, enabled, runtime, database, agent, counters, synced, slipped,
                 unreported, loopVars>>

DisableService ==
  /\ helper.at = "disabling"
  /\ enabled' = FALSE /\ agent' = Stopped /\ LoopReset
  /\ RuntimeDirectoryRemoved
  /\ helper' = Unused
  /\ UNCHANGED <<config, marker, database, counters, history>>

\* waitForSuccessfulSynchronization sees an online report.
Confirm ==
  /\ helper.at = "confirming" /\ status.online
  /\ slipped' = (slipped \/ status.by # helper.to)
  /\ HelperGoes("confirmed")
  /\ UNCHANGED <<files, runtime, database, agent, counters, synced, torn, unreported,
                 loopVars>>

\* The marker could not be removed; or nothing for 30 seconds, or the server refused the
\* credentials: nothing is put back.
GiveUp ==
  /\ helper.at = "ready" \/ (helper.at = "confirming" /\ ~ status.online)
  /\ helper' = Unused
  /\ Files /\ UNCHANGED files

WriteMarker ==
  /\ helper.at = "confirmed"
  /\ marker' \in {marker, TRUE}
  /\ helper' = Unused
  /\ Files /\ UNCHANGED <<config, enabled>>

KillHelper ==
  /\ Fault /\ helper.at # "idle"
  /\ helper' = Unused
  /\ UNCHANGED <<files, runtime, database, agent, runs, history, loopVars>>

Helper ==
  \/ ClearMarker \/ WriteConfig \/ WriteConfigFails
  \/ EnableService \/ RemoveStatus \/ RestartService \/ CheckActive
  \/ RestoreConfig \/ RestoreMarker \/ DisableService
  \/ Confirm \/ GiveUp \/ WriteMarker

StartAgent ==
  \/ Launch \/ ReadConfig \/ ReadMarker \/ BindEnrollment
  \/ OpenNamespace \/ WriteNamespace \/ RefuseNamespace
  \/ StartSynchronizer \/ PollMarker

Next ==
  \/ StartAgent
  \/ HeartbeatStarts \/ HeartbeatSucceeds \/ HeartbeatFails \/ Time
  \/ Crash \/ Reboot
  \/ \E e \in Enrollment : StartHelper(e)
  \/ Helper \/ KillHelper

\* The agent starts, and keeps looking for the marker.
Spec == Init /\ [][Next]_vars /\ WF_vars(StartAgent)

-----------------------------------------------------------------------------
(* Properties *)

\* Types of the variables.
TypeOK ==
  /\ config \in Enrollment \cup {None} /\ marker \in BOOLEAN /\ enabled \in BOOLEAN
  /\ status \in [by : Enrollment \cup {None}, online : BOOLEAN]
  /\ namespace \in {"none", "empty", "stored"}
  /\ agent.at \in {"named", "waiting", "enforcing"} => namespace = "stored"
  /\ bound \in Enrollment \cup {None} /\ state \subseteq Enrollment
  /\ agent.at \in {"stopped", "restarting", "launched", "configured", "opened", "bound",
                   "naming", "named", "waiting", "enforcing"}
  /\ delay \in 0..Slowest /\ took \in NotUnderWay..AttemptTimeout
  /\ normal \in 1..Slowest /\ backoff \in 1..normal
  /\ synced \subseteq Enrollment /\ slipped \in BOOLEAN
  /\ torn \subseteq Enrollment \cup {None} /\ unreported \in BOOLEAN

\* A database that survived a removal, a failed or a killed configuration is never
\* enforced for, nor reported to, another server or device (BindEnrollment), unless a
\* failing write has put the marker over this one's configuration.
OnlyOwnStateIsUsed ==
  Running =>
    /\ bound = agent.config
    /\ state \subseteq {agent.config} \/ agent.config \in torn

\* Whatever step the helper was killed at, a marker on disk confirms the configuration
\* on disk: its server has answered this computer.  The exceptions: the answer was a
\* former process's report, or the configuration could not be put back, or written, and
\* the marker was put back all the same.
MarkerConfirmsConfiguration ==
  marker /\ helper.at = "idle" => config \in synced \/ slipped \/ config \in torn

\* Three attempts never start within a second, whatever the server answers or how
\* often it repeats a command (Run).
NoBusyLoop == [][UnderWay' /\ ~ UnderWay => sincePrev >= 1]_vars

\* After failures, too, the agent comes back within its normal interval and the time
\* that an attempt may take.
ComesBackSoon == Running /\ (UnderWay \/ ~ first) => sinceLast <= AttemptTimeout + normal

\* A report on disk is the last result, although only transitions are written; but a
\* report that could not be written is not tried again before the next transition.
ReportIsLastResult ==
  Running =>
    \/ status = Absent \/ unreported
    \/ ~ first /\ status = [by |-> agent.config, online |-> online]

\* A process killed between the creation and the writing of the identifier leaves a
\* file that every later one refuses, until the service is stopped or the computer boots.
NamespaceLost == namespace = "empty" /\ agent.at # "naming"

\* A confirmed computer comes to be controlled, also after crashes and reboots and without
\* the server; but see NamespaceLost.  It is controlled under the configuration on disk,
\* unless an error of its write kept the helper from starting the service anew.
ConfirmedComputerIsControlled ==
  marker /\ enabled /\ helper.at = "idle" ~>
    \/ ~ marker \/ helper.at # "idle" \/ NamespaceLost
    \/ agent.at = "enforcing" /\ (agent.config = config \/ config \in torn)
=============================================================================
