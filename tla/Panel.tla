------------------------------- MODULE Panel -------------------------------
(***************************************************************************)
(* What the administrator sees: the first setup, the session, and one page *)
(* that follows one device through the event stream of server/web, while   *)
(* the device reports, falls silent or loses its token.                    *)
(*                                                                         *)
(* Time passes in units of half the online timeout, the interval of the    *)
(* offline detector.  It is assumed that a handler and a round of the      *)
(* detector end before the next unit begins (Tick); the page and the       *)
(* browser's requests may take any time.                                   *)
(*                                                                         *)
(* Abstractions.  Of a snapshot only `online` is kept, and it is read at   *)
(* once; one click creates one activity, which heartbeats carry on.  The   *)
(* communication log and its events, audit rows, CSRF tokens and errors of *)
(* reading the store are left out.                                         *)
(***************************************************************************)
EXTENDS Integers, Sequences

CONSTANTS
  MaxSetups,   \* requests for the first setup that may be under way at once
  Timeout,     \* online timeout, in units
  Buffer,      \* capacity of a subscriber's channel (8 in the code)
  Completed    \* progress of a completed activity; 1: requested

ASSUME PanelAssumption ==
  {MaxSetups, Timeout, Buffer, Completed} \subseteq Nat \ {0}

VARIABLES
  setups,     \* requests for the first setup that found no administrator
  admins,     \* number of administrators
  login,      \* whether the browser has a session that the server knows
  credential, \* whether the agent holds the token of the device
  age,        \* units since last_seen_at; Timeout + 1: offline
  activity,   \* progress of the activity in the store
  heartbeat,  \* handler of the device's heartbeat, and the snapshot it read
  click,      \* handler of the click
  detector,   \* round of the offline detector, and the snapshot it read
  marked,     \* publishedOffline
  others,     \* whether other pages are subscribed to the device
  stream,     \* the page's stream on the server: closed, greeting (with the snapshot it
              \* read) or live; `session` says whether the session that opened it lasts
  channel,    \* events of the subscriber
  shown,      \* whether the page shows the device online
  fetch,      \* the page's request for the list of activities
  list,       \* progress of the activity on the page
  missed      \* history: an event was lost to the page (see Publish and Subscribe)

access == <<setups, admins, login, credential>>
device == <<age, activity>>
server == <<heartbeat, click, detector, marked, others>>
page   == <<stream, channel, shown, fetch, list, missed>>
vars   == <<access, device, server, page>>

-----------------------------------------------------------------------------
Absent == 0   \* no activity yet
Progress == Absent..Completed

Online == age <= Timeout

Status(online) == [name |-> "status", online |-> online]
Updated(p)     == [name |-> "activity_updated", progress |-> p]
Changed        == [name |-> "activities_changed"]

Live == stream.at = "live"
HasSubscribers == Live \/ others

\* A page is followed until it loses an event.
Followed == Live /\ ~ missed

\* Mutant: a slow subscriber is queued without bound.
PublishUnbounded(event) ==
  IF Followed THEN channel' = Append(channel, event) /\ UNCHANGED missed
              ELSE UNCHANGED <<channel, missed>>

\* publish: what does not fit into the channel is dropped.
Publish(event) ==
  IF ~ Followed THEN UNCHANGED <<channel, missed>>
  ELSE IF Len(channel) < Buffer
       THEN channel' = Append(channel, event) /\ UNCHANGED missed
       ELSE channel' = <<>> /\ missed' = TRUE

Idle == [at |-> "idle"]
Closed == [at |-> "closed", session |-> FALSE]

Init ==
  /\ setups = 0 /\ admins = 0 /\ login = FALSE
  /\ credential = FALSE
  /\ age = Timeout + 1 /\ activity = Absent
  /\ heartbeat = Idle /\ click = Idle /\ detector = Idle /\ marked = FALSE /\ others = FALSE
  /\ stream = Closed /\ channel = <<>>
  /\ shown = FALSE /\ fetch = Idle /\ list = Absent
  /\ missed = FALSE

-----------------------------------------------------------------------------
(* The first setup, and the administrator's session. *)

\* adminSetupAPI looks for an administrator, hashes the password and only then
\* calls BootstrapAdmin.
CheckSetup ==
  /\ admins = 0 /\ setups < MaxSetups
  /\ setups' = setups + 1
  /\ UNCHANGED <<admins, login, credential, device, server, page>>

\* Mutant: the count of the first check is trusted.
BootstrapAdminUnchecked ==
  /\ setups > 0
  /\ setups' = setups - 1
  /\ admins' = admins + 1 /\ login' = TRUE
  /\ UNCHANGED <<credential, device, server, page>>

\* Counts again inside the transaction; only the winner is logged in.
BootstrapAdmin ==
  /\ setups > 0
  /\ setups' = setups - 1
  /\ admins' = IF admins = 0 THEN 1 ELSE admins
  /\ login' = (login \/ admins = 0)
  /\ UNCHANGED <<credential, device, server, page>>

Login ==
  /\ admins > 0 /\ ~ login
  /\ login' = TRUE
  /\ UNCHANGED <<setups, admins, credential, device, server, page>>

\* A new login does not revive the streams of the session that ended.
SessionOver == stream' = [stream EXCEPT !.session = FALSE]

\* By logout, perhaps in another tab of the browser, or by age.
EndSession ==
  /\ login
  /\ login' = FALSE /\ SessionOver
  /\ UNCHANGED <<setups, admins, credential, device, server, channel, shown, fetch, list, missed>>

-----------------------------------------------------------------------------
(* The device: its token and its heartbeats. *)

\* RevokeDeviceToken; IssueDeviceToken also takes away the token the agent uses ...
WithdrawToken ==
  /\ login /\ credential
  /\ credential' = FALSE
  /\ UNCHANGED <<setups, admins, login, device, server, page>>

\* ... until somebody configures the agent with the new one.
InstallToken ==
  /\ admins > 0 /\ ~ credential
  /\ credential' = TRUE
  /\ UNCHANGED <<setups, admins, login, device, server, page>>

\* What a heartbeat does to the activity: it may be offered, or completed.
Progressed == IF activity \in 1..(Completed - 1) THEN {activity, activity + 1} ELSE {activity}

\* Mutant: the token is not looked up.
ReceiveAnyHeartbeat ==
  /\ heartbeat = Idle
  /\ age' = 0 /\ activity' \in Progressed
  /\ heartbeat' = [at |-> "committed", touched |-> activity' # activity]
  /\ UNCHANGED <<access, click, detector, marked, others, page>>

\* AuthenticateDevice and the transaction of ReceiveHeartbeat.
ReceiveHeartbeat ==
  /\ heartbeat = Idle /\ credential
  /\ age' = 0 /\ activity' \in Progressed
  /\ heartbeat' = [at |-> "committed", touched |-> activity' # activity]
  /\ UNCHANGED <<access, click, detector, marked, others, page>>

\* An operation that was offered or acknowledged is published last.
AfterStatus(touched) == IF touched THEN [at |-> "activity"] ELSE Idle

\* publishDeviceStatus reads the snapshot, if there is anybody to tell ...
LoadStatus ==
  /\ heartbeat.at = "committed"
  /\ heartbeat' = IF HasSubscribers
                  THEN [at |-> "loaded", touched |-> heartbeat.touched, online |-> Online]
                  ELSE AfterStatus(heartbeat.touched)
  /\ UNCHANGED <<access, device, click, detector, marked, others, page>>

\* ... and publishes it.
PublishStatus ==
  /\ heartbeat.at = "loaded"
  /\ Publish(Status(heartbeat.online))
  /\ heartbeat' = AfterStatus(heartbeat.touched)
  /\ UNCHANGED <<access, device, click, detector, marked, others, stream, shown, fetch, list>>

\* publishDeviceActivity, likewise.
LoadTouched ==
  /\ heartbeat.at = "activity"
  /\ heartbeat' = IF HasSubscribers THEN [at |-> "read", progress |-> activity] ELSE Idle
  /\ UNCHANGED <<access, device, click, detector, marked, others, page>>

PublishTouched ==
  /\ heartbeat.at = "read"
  /\ Publish(Updated(heartbeat.progress))
  /\ heartbeat' = Idle
  /\ UNCHANGED <<access, device, click, detector, marked, others, stream, shown, fetch, list>>

AfterHeartbeat == LoadStatus \/ PublishStatus \/ LoadTouched \/ PublishTouched

-----------------------------------------------------------------------------
(* A click of the administrator. *)

Click ==
  /\ login /\ click = Idle /\ activity = Absent
  /\ activity' = 1
  /\ click' = [at |-> "stored"]
  /\ UNCHANGED <<access, age, heartbeat, detector, marked, others, page>>

LoadActivity ==
  /\ click.at = "stored"
  /\ click' = IF HasSubscribers THEN [at |-> "read", progress |-> activity] ELSE [at |-> "published"]
  /\ UNCHANGED <<access, device, heartbeat, detector, marked, others, page>>

PublishActivity ==
  /\ click.at = "read"
  /\ Publish(Updated(click.progress))
  /\ click' = [at |-> "published"]
  /\ UNCHANGED <<access, device, heartbeat, detector, marked, others, stream, shown, fetch, list>>

\* Mutant: only the activity itself is published.
PublishNoChange ==
  /\ click.at = "published"
  /\ click' = Idle
  /\ UNCHANGED <<access, device, heartbeat, detector, marked, others, page>>

\* logAdministrativeCommunication, after a successful mutation.
PublishActivitiesChanged ==
  /\ click.at = "published"
  /\ Publish(Changed)
  /\ click' = Idle
  /\ UNCHANGED <<access, device, heartbeat, detector, marked, others, stream, shown, fetch, list>>

AfterClick == LoadActivity \/ PublishActivity \/ PublishActivitiesChanged

-----------------------------------------------------------------------------
(* The offline detector. *)

\* Mutant: the mark survives the device's return.
RoundKeepingMark ==
  /\ detector.at = "due"
  /\ LET silent == HasSubscribers /\ ~ Online IN
     /\ marked' = (marked \/ silent)
     /\ detector' = IF silent /\ ~ marked THEN [at |-> "marked"] ELSE Idle
  /\ UNCHANGED <<access, device, heartbeat, click, others, page>>

\* One round: the mark is set by the first round that finds the device silent
\* and cleared by one that does not, or that finds nobody to tell.
Round ==
  /\ detector.at = "due"
  /\ LET silent == HasSubscribers /\ ~ Online IN
     /\ marked' = silent
     /\ detector' = IF silent /\ ~ marked THEN [at |-> "marked"] ELSE Idle
  /\ UNCHANGED <<access, device, heartbeat, click, others, page>>

LoadOffline ==
  /\ detector.at = "marked"
  /\ detector' = IF HasSubscribers THEN [at |-> "loaded", online |-> Online] ELSE Idle
  /\ UNCHANGED <<access, device, heartbeat, click, marked, others, page>>

PublishOffline ==
  /\ detector.at = "loaded"
  /\ Publish(Status(detector.online))
  /\ detector' = Idle
  /\ UNCHANGED <<access, device, heartbeat, click, marked, others, stream, shown, fetch, list>>

Detector == Round \/ LoadOffline \/ PublishOffline

-----------------------------------------------------------------------------
(* The page and its stream. *)

\* adminDeviceStreamAPI, for a valid session, reads the greeting ...
Open ==
  /\ stream.at = "closed" /\ login
  /\ stream' = [at |-> "greeting", session |-> TRUE, online |-> Online]
  /\ UNCHANGED <<access, device, server, channel, shown, fetch, list, missed>>

\* ... subscribes and sends it; the browser then asks for the list.  The mark that
\* another page's round left may keep silent what the greeting did not show.
Subscribe ==
  /\ stream.at = "greeting"
  /\ stream' = [at |-> "live", session |-> stream.session]
  /\ shown' = stream.online
  /\ channel' = <<>> /\ missed' = (marked /\ stream.online)
  /\ fetch' = [at |-> "sent"] /\ list' = Absent
  /\ UNCHANGED <<access, device, server>>

MergeOf(p) == IF p >= list THEN p ELSE list

\* The handler writes the oldest event, and the page reacts.
Deliver ==
  /\ Followed /\ channel # <<>>
  /\ LET event == Head(channel) IN
     /\ shown' = IF event.name = "status" THEN event.online ELSE shown
     /\ list' = IF event.name = "activity_updated" THEN MergeOf(event.progress)
                ELSE IF event.name = "activities_changed" THEN Absent ELSE list
     /\ fetch' = IF event.name = "activities_changed" THEN [at |-> "sent"] ELSE fetch
  /\ channel' = Tail(channel)
  /\ UNCHANGED <<access, device, server, stream, missed>>

\* The server reads the list, later the answer replaces the page's.
ReadList ==
  /\ Followed /\ fetch.at = "sent" /\ login
  /\ fetch' = [at |-> "read", progress |-> activity]
  /\ UNCHANGED <<access, device, server, stream, channel, shown, list, missed>>

ShowList ==
  /\ Followed /\ fetch.at = "read"
  /\ list' = fetch.progress
  /\ fetch' = Idle
  /\ UNCHANGED <<access, device, server, stream, channel, shown, missed>>

\* The subscriber is gone with what its channel held, and nobody looks at the page.
Ended ==
  /\ stream' = Closed
  /\ channel' = <<>> /\ fetch' = Idle /\ missed' = FALSE
  /\ shown' = FALSE /\ list' = Absent

Close == stream.at # "closed" /\ Ended /\ UNCHANGED <<access, device, server>>

\* Mutant: the keep-alive does not look at the session.
PingUnchecked == FALSE /\ UNCHANGED vars

\* The keep-alive looks the session up again, and goes on while it lasts.
Ping ==
  /\ Live /\ ~ stream.session
  /\ Ended
  /\ UNCHANGED <<access, device, server>>

OtherPage ==
  /\ others' = ~ others
  /\ UNCHANGED <<access, device, heartbeat, click, detector, marked, page>>

\* Sessions, subscribers and the mark are in memory.
ServerRestart ==
  /\ setups' = 0 /\ login' = FALSE
  /\ heartbeat' = Idle /\ click' = Idle /\ detector' = Idle
  /\ marked' = FALSE /\ others' = FALSE
  /\ Ended
  /\ UNCHANGED <<admins, credential, device>>

-----------------------------------------------------------------------------
Tick ==
  /\ heartbeat = Idle /\ click = Idle /\ detector = Idle
  /\ age' = IF Online THEN age + 1 ELSE age
  /\ detector' = [at |-> "due"]
  /\ UNCHANGED <<access, activity, heartbeat, click, marked, others, page>>

Next ==
  \/ CheckSetup \/ BootstrapAdmin \/ Login \/ EndSession
  \/ WithdrawToken \/ InstallToken
  \/ ReceiveHeartbeat \/ AfterHeartbeat
  \/ Click \/ AfterClick
  \/ Detector
  \/ Open \/ Subscribe \/ Deliver \/ ReadList \/ ShowList \/ Close \/ Ping \/ OtherPage \/ ServerRestart
  \/ Tick

\* Handlers, timers and the requests of an open page go on; nobody has to log in,
\* click, open a page or report.
Fairness ==
  /\ WF_vars(Tick) /\ WF_vars(Detector) /\ WF_vars(AfterHeartbeat) /\ WF_vars(AfterClick)
  /\ WF_vars(Subscribe) /\ WF_vars(Deliver) /\ WF_vars(Ping)
  /\ WF_vars(ReadList) /\ WF_vars(ShowList)

Spec == Init /\ [][Next]_vars /\ Fairness

-----------------------------------------------------------------------------
(* Properties *)

\* Types of the variables; the channel exists only for a live stream.
TypeOK ==
  /\ setups \in 0..MaxSetups /\ admins \in Nat /\ login \in BOOLEAN
  /\ credential \in BOOLEAN
  /\ age \in 0..(Timeout + 1) /\ activity \in Progress
  /\ heartbeat.at \in {"idle", "committed", "loaded", "activity", "read"}
  /\ click.at \in {"idle", "stored", "read", "published"}
  /\ detector.at \in {"idle", "due", "marked", "loaded"}
  /\ marked \in BOOLEAN /\ others \in BOOLEAN
  /\ stream.at \in {"closed", "greeting", "live"} /\ stream.session \in BOOLEAN
  /\ Len(channel) <= Buffer /\ (channel # <<>> => Followed)
  /\ shown \in BOOLEAN /\ fetch.at \in {"idle", "sent", "read"} /\ list \in Progress
  /\ missed \in BOOLEAN

\* However many browsers answer the first setup at once, one of them becomes the
\* administrator (BootstrapAdmin counts again in its transaction).
OneAdministrator == admins <= 1

\* A page whose session ended, by logout, by age or by a restart, stops receiving
\* the device's data, although nobody tells its stream (adminDeviceStreamAPI).
SessionEndClosesStream == Live /\ ~ stream.session ~> ~ Live \/ stream.session

\* What a page that stays open misses of its device ends: it is told, unless one of
\* its events was lost.
Told(P) == P \/ ~ Live \/ missed

\* A device that falls silent is shown offline, and the news is not taken back by a
\* status read before (runOfflineDetector).
SilenceReachesPage == Live /\ ~ Online ~> Told(Online \/ ~ shown)

\* A computer whose token was revoked or replaced is shown offline, however it
\* insists.
RevokedDeviceGoesOffline ==
  Live /\ ~ credential ~> Told(credential \/ ~ shown)

\* A change made by a click is in the list of every open page, although the list may
\* have been read before the click and arrive after the news (publishActivitiesChanged).
ClickReachesList == Live /\ activity # Absent ~> Told(list # Absent)
=============================================================================
