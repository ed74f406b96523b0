----------------------------- MODULE PanelProofs -----------------------------
(***************************************************************************)
(* What Panel guarantees for any number of simultaneous first setups, any  *)
(* online timeout and any capacity of a subscriber's channel.              *)
(***************************************************************************)
EXTENDS Panel, SequenceTheorems, TLAPS

-----------------------------------------------------------------------------
(* The inductive invariant: what each handler holds between two of its     *)
(* steps, and what may wait in the channel of the page.                    *)

HeartbeatState ==
  {Idle} \cup [at : {"committed"}, touched : BOOLEAN]
    \cup [at : {"loaded"}, touched : BOOLEAN, online : BOOLEAN]
    \cup [at : {"activity"}] \cup [at : {"read"}, progress : Progress]
ClickState ==
  {Idle} \cup [at : {"stored", "published"}] \cup [at : {"read"}, progress : Progress]
DetectorState ==
  {Idle} \cup [at : {"due", "marked"}] \cup [at : {"loaded"}, online : BOOLEAN]
StreamState ==
  [at : {"closed"}, session : {FALSE}] \cup [at : {"live"}, session : BOOLEAN]
    \cup [at : {"greeting"}, session : BOOLEAN, online : BOOLEAN]
FetchState == {Idle} \cup [at : {"sent"}] \cup [at : {"read"}, progress : Progress]
Event ==
  [name : {"status"}, online : BOOLEAN] \cup [name : {"activity_updated"}, progress : Progress]
    \cup [name : {"activities_changed"}]

AccessInv ==
  /\ setups \in 0..MaxSetups /\ admins \in 0..1 /\ login \in BOOLEAN /\ credential \in BOOLEAN
  /\ stream.session => login

ServerInv ==
  /\ age \in 0..(Timeout + 1) /\ activity \in Progress
  /\ heartbeat \in HeartbeatState /\ click \in ClickState /\ detector \in DetectorState
  /\ marked \in BOOLEAN /\ others \in BOOLEAN

ChannelInv ==
  /\ stream \in StreamState /\ missed \in BOOLEAN
  /\ channel \in Seq(Event) /\ Len(channel) <= Buffer
  /\ channel # <<>> => Live /\ ~ missed

PageInv == shown \in BOOLEAN /\ fetch \in FetchState /\ list \in Progress

PanelInv == AccessInv /\ ServerInv /\ ChannelInv /\ PageInv

-----------------------------------------------------------------------------
LEMMA Bounds ==
  /\ MaxSetups \in Nat /\ Timeout \in Nat /\ Buffer \in Nat /\ Buffer > 0
  /\ Completed \in Nat /\ Completed > 0
  /\ Absent \in Progress /\ 1 \in Progress /\ Progress \subseteq Nat
  BY PanelAssumption DEF Absent, Progress

\* What a handler carries from one step to the next.
LEMMA HeartbeatFields ==
  ASSUME heartbeat \in HeartbeatState
  PROVE  /\ heartbeat.at = "committed" => heartbeat.touched \in BOOLEAN
         /\ heartbeat.at = "loaded"
              => heartbeat.touched \in BOOLEAN /\ heartbeat.online \in BOOLEAN
         /\ heartbeat.at = "read" => heartbeat.progress \in Progress
         /\ heartbeat.at \in {"idle", "committed", "loaded", "activity", "read"}
  BY DEF HeartbeatState, Idle

LEMMA OtherFields ==
  ASSUME ServerInv, ChannelInv, PageInv
  PROVE  /\ click.at \in {"idle", "stored", "read", "published"}
         /\ click.at = "read" => click.progress \in Progress
         /\ detector.at \in {"idle", "due", "marked", "loaded"}
         /\ detector.at = "loaded" => detector.online \in BOOLEAN
         /\ stream.at \in {"closed", "greeting", "live"} /\ stream.session \in BOOLEAN
         /\ stream.at = "greeting" => stream.online \in BOOLEAN
         /\ fetch.at \in {"idle", "sent", "read"}
         /\ fetch.at = "read" => fetch.progress \in Progress
<1>1. /\ click.at \in {"idle", "stored", "read", "published"}
      /\ click.at = "read" => click.progress \in Progress
  BY DEF ServerInv, ClickState, Idle
<1>2. /\ detector.at \in {"idle", "due", "marked", "loaded"}
      /\ detector.at = "loaded" => detector.online \in BOOLEAN
  BY DEF ServerInv, DetectorState, Idle
<1>3. /\ stream.at \in {"closed", "greeting", "live"} /\ stream.session \in BOOLEAN
      /\ stream.at = "greeting" => stream.online \in BOOLEAN
  BY DEF ChannelInv, StreamState
<1>4. /\ fetch.at \in {"idle", "sent", "read"}
      /\ fetch.at = "read" => fetch.progress \in Progress
  BY DEF PageInv, FetchState, Idle
<1>5. QED BY <1>1, <1>2, <1>3, <1>4

\* The states that the handlers enter.
LEMMA NextStates ==
  /\ Idle \in HeartbeatState /\ Idle \in ClickState /\ Idle \in DetectorState
  /\ Idle \in FetchState /\ Closed \in StreamState
  /\ \A t \in BOOLEAN : /\ [at |-> "committed", touched |-> t] \in HeartbeatState
                        /\ AfterStatus(t) \in HeartbeatState
  /\ \A t, o \in BOOLEAN : [at |-> "loaded", touched |-> t, online |-> o] \in HeartbeatState
  /\ \A p \in Progress : /\ [at |-> "read", progress |-> p] \in HeartbeatState
                         /\ [at |-> "read", progress |-> p] \in ClickState
                         /\ [at |-> "read", progress |-> p] \in FetchState
                         /\ Updated(p) \in Event
  /\ \A x \in {"stored", "published"} : [at |-> x] \in ClickState
  /\ \A x \in {"due", "marked"} : [at |-> x] \in DetectorState
  /\ \A o \in BOOLEAN : /\ [at |-> "loaded", online |-> o] \in DetectorState
                        /\ Status(o) \in Event
  /\ [at |-> "sent"] \in FetchState /\ Changed \in Event
<1>1. \A t \in BOOLEAN : AfterStatus(t) \in HeartbeatState
  BY DEF AfterStatus, HeartbeatState
<1>2. /\ \A t \in BOOLEAN : [at |-> "committed", touched |-> t] \in HeartbeatState
      /\ \A t, o \in BOOLEAN : [at |-> "loaded", touched |-> t, online |-> o] \in HeartbeatState
      /\ \A p \in Progress : [at |-> "read", progress |-> p] \in HeartbeatState
      /\ Idle \in HeartbeatState
  BY DEF HeartbeatState
<1>3. /\ \A p \in Progress : [at |-> "read", progress |-> p] \in ClickState
      /\ \A x \in {"stored", "published"} : [at |-> x] \in ClickState
      /\ Idle \in ClickState
  BY DEF ClickState
<1>4. /\ \A x \in {"due", "marked"} : [at |-> x] \in DetectorState
      /\ \A o \in BOOLEAN : [at |-> "loaded", online |-> o] \in DetectorState
      /\ Idle \in DetectorState
  BY DEF DetectorState
<1>5. /\ \A p \in Progress : [at |-> "read", progress |-> p] \in FetchState
      /\ [at |-> "sent"] \in FetchState /\ Idle \in FetchState
  BY DEF FetchState
<1>6. /\ \A p \in Progress : Updated(p) \in Event
      /\ \A o \in BOOLEAN : Status(o) \in Event
      /\ Changed \in Event
  BY DEF Event, Updated, Status, Changed
<1>7. Closed \in StreamState BY DEF Closed, StreamState
<1>8. QED BY <1>1, <1>2, <1>3, <1>4, <1>5, <1>6, <1>7

\* publish never exceeds the capacity, and an event that does not fit is the end of what
\* the page is told.
LEMMA PublishKeepsChannel ==
  ASSUME ChannelInv, NEW event \in Event, Publish(event), UNCHANGED stream
  PROVE  ChannelInv'
<1>1. CASE ~ Followed BY <1>1 DEF Publish, ChannelInv, Live
<1>2. CASE Followed /\ Len(channel) < Buffer
  <2>1. channel' = Append(channel, event) /\ missed' = missed BY <1>2 DEF Publish
  <2>2. channel' \in Seq(Event) /\ Len(channel') = Len(channel) + 1
    BY <2>1 DEF ChannelInv
  <2>3. Len(channel') <= Buffer
    <3>1. Len(channel) \in Nat BY DEF ChannelInv
    <3>2. QED BY <1>2, <2>2, <3>1, Bounds
  <2>4. Live' /\ ~ missed' BY <1>2, <2>1 DEF Followed, Live
  <2>5. QED BY <2>1, <2>2, <2>3, <2>4 DEF ChannelInv
<1>3. CASE Followed /\ ~ (Len(channel) < Buffer)
  <2>1. channel' = <<>> /\ missed' = TRUE BY <1>3 DEF Publish
  <2>2. channel' \in Seq(Event) /\ Len(channel') <= Buffer BY <2>1, Bounds
  <2>3. QED BY <2>1, <2>2 DEF ChannelInv
<1>4. QED BY <1>1, <1>2, <1>3

\* The page is left, and with it what its channel held.
LEMMA EndedKeepsPage ==
  ASSUME Ended
  PROVE  ChannelInv' /\ PageInv' /\ stream'.session = FALSE
<1>1. /\ stream' = Closed /\ channel' = <<>> /\ fetch' = Idle /\ missed' = FALSE
      /\ shown' = FALSE /\ list' = Absent
  BY DEF Ended
<1>2. channel' \in Seq(Event) /\ Len(channel') <= Buffer BY <1>1, Bounds
<1>3. QED BY <1>1, <1>2, Bounds, NextStates DEF ChannelInv, PageInv, Closed

-----------------------------------------------------------------------------
(* The steps. *)

LEMMA SetupKeepsInv ==
  ASSUME PanelInv, CheckSetup \/ BootstrapAdmin \/ Login
  PROVE  PanelInv'
<1> USE DEF PanelInv
<1>1. UNCHANGED <<credential, device, server, page>>
  BY DEF CheckSetup, BootstrapAdmin, Login
<1>2. ServerInv' BY <1>1 DEF ServerInv, device, server
<1>3. ChannelInv' BY <1>1 DEF ChannelInv, Live, page
<1>4. PageInv' BY <1>1 DEF PageInv, page
<1>5. AccessInv'
  <2>1. stream' = stream /\ credential' = credential BY <1>1 DEF page
  <2>2. CASE CheckSetup BY <2>1, <2>2, Bounds DEF AccessInv, CheckSetup
  <2>3. CASE BootstrapAdmin
    <3>1. setups' \in 0..MaxSetups /\ admins' \in 0..1
      BY <2>3, Bounds DEF AccessInv, BootstrapAdmin
    <3>2. login' \in BOOLEAN /\ (login => login') BY <2>3 DEF AccessInv, BootstrapAdmin
    <3>3. QED BY <2>1, <3>1, <3>2 DEF AccessInv
  <2>4. CASE Login BY <2>1, <2>4 DEF AccessInv, Login
  <2>5. QED BY <2>2, <2>3, <2>4
<1>6. QED BY <1>2, <1>3, <1>4, <1>5

LEMMA EndSessionKeepsInv == ASSUME PanelInv, EndSession PROVE PanelInv'
<1> USE DEF PanelInv
<1>1. /\ login' = FALSE /\ stream' = [stream EXCEPT !.session = FALSE]
      /\ UNCHANGED <<setups, admins, credential, device, server, channel, shown, fetch, list,
                     missed>>
  BY DEF EndSession, SessionOver
<1>2. stream' \in StreamState /\ stream'.at = stream.at /\ stream'.session = FALSE
  BY <1>1 DEF ChannelInv, StreamState
<1>3. ServerInv' BY <1>1 DEF ServerInv, device, server
<1>4. ChannelInv' BY <1>1, <1>2 DEF ChannelInv, Live
<1>5. PageInv' BY <1>1 DEF PageInv
<1>6. AccessInv' BY <1>1, <1>2 DEF AccessInv
<1>7. QED BY <1>3, <1>4, <1>5, <1>6

LEMMA TokenKeepsInv == ASSUME PanelInv, WithdrawToken \/ InstallToken PROVE PanelInv'
<1> USE DEF PanelInv
<1>1. /\ credential' \in BOOLEAN /\ UNCHANGED <<setups, admins, login, device, server, page>>
  BY DEF WithdrawToken, InstallToken
<1>2. ServerInv' BY <1>1 DEF ServerInv, device, server
<1>3. ChannelInv' BY <1>1 DEF ChannelInv, Live, page
<1>4. PageInv' BY <1>1 DEF PageInv, page
<1>5. AccessInv' BY <1>1 DEF AccessInv, page
<1>6. QED BY <1>2, <1>3, <1>4, <1>5

\* A step of the handlers that publishes nothing.
LEMMA QuietKeepsInv ==
  ASSUME PanelInv, UNCHANGED <<access, page>>, ServerInv'
  PROVE  PanelInv'
<1>1. ChannelInv' BY DEF PanelInv, ChannelInv, Live, page
<1>2. PageInv' BY DEF PanelInv, PageInv, page
<1>3. AccessInv' BY DEF PanelInv, AccessInv, access, page
<1>4. QED BY <1>1, <1>2, <1>3 DEF PanelInv

\* A step of the handlers that publishes.
LEMMA PublishKeepsInv ==
  ASSUME PanelInv, NEW event \in Event, Publish(event),
         UNCHANGED <<access, stream, shown, fetch, list>>, ServerInv'
  PROVE  PanelInv'
<1>1. ChannelInv' BY PublishKeepsChannel DEF PanelInv
<1>2. PageInv' BY DEF PanelInv, PageInv
<1>3. AccessInv' BY DEF PanelInv, AccessInv, access
<1>4. QED BY <1>1, <1>2, <1>3 DEF PanelInv

LEMMA HeartbeatKeepsInv ==
  ASSUME PanelInv, ReceiveHeartbeat \/ AfterHeartbeat
  PROVE  PanelInv'
<1>1. ServerInv /\ heartbeat \in HeartbeatState BY DEF PanelInv, ServerInv
<1>2. CASE ReceiveHeartbeat
  <2>1. activity' \in Progress
    <3>1. activity \in Progress /\ activity' \in Progressed
      BY <1>1, <1>2 DEF ServerInv, ReceiveHeartbeat
    <3>2. CASE activity' = activity BY <3>1, <3>2
    <3>3. CASE activity \in 1..(Completed - 1) /\ activity' = activity + 1
      BY <3>3, Bounds DEF Progress, Absent
    <3>4. QED BY <3>1, <3>2, <3>3 DEF Progressed
  <2>2. age' \in 0..(Timeout + 1) BY <1>2, Bounds DEF ReceiveHeartbeat
  <2>3. heartbeat' \in HeartbeatState
    <3>1. (activity' # activity) \in BOOLEAN OBVIOUS
    <3>2. QED BY <1>2, <3>1, NextStates DEF ReceiveHeartbeat
  <2>4. ServerInv' BY <1>1, <1>2, <2>1, <2>2, <2>3 DEF ServerInv, ReceiveHeartbeat
  <2>5. QED BY <1>2, <2>4, QuietKeepsInv DEF ReceiveHeartbeat
<1>3. CASE LoadStatus
  <2>1. heartbeat' \in HeartbeatState
    <3>1. heartbeat.touched \in BOOLEAN /\ Online \in BOOLEAN
      BY <1>1, <1>3, HeartbeatFields DEF LoadStatus, Online
    <3>2. QED BY <1>3, <3>1, NextStates DEF LoadStatus
  <2>2. ServerInv' BY <1>1, <1>3, <2>1 DEF ServerInv, LoadStatus, device
  <2>3. QED BY <1>3, <2>2, QuietKeepsInv DEF LoadStatus
<1>4. CASE PublishStatus
  <2>1. heartbeat.touched \in BOOLEAN /\ heartbeat.online \in BOOLEAN
    BY <1>1, <1>4, HeartbeatFields DEF PublishStatus
  <2>2. heartbeat' \in HeartbeatState BY <1>4, <2>1, NextStates DEF PublishStatus
  <2>3. ServerInv' BY <1>1, <1>4, <2>2 DEF ServerInv, PublishStatus, device
  <2>4. Status(heartbeat.online) \in Event BY <2>1, NextStates
  <2>5. QED BY <1>4, <2>3, <2>4, PublishKeepsInv DEF PublishStatus
<1>5. CASE LoadTouched
  <2>1. heartbeat' \in HeartbeatState BY <1>1, <1>5, NextStates DEF LoadTouched, ServerInv
  <2>2. ServerInv' BY <1>1, <1>5, <2>1 DEF ServerInv, LoadTouched, device
  <2>3. QED BY <1>5, <2>2, QuietKeepsInv DEF LoadTouched
<1>6. CASE PublishTouched
  <2>1. Updated(heartbeat.progress) \in Event
    BY <1>1, <1>6, HeartbeatFields, NextStates DEF PublishTouched
  <2>2. ServerInv' BY <1>1, <1>6, NextStates DEF ServerInv, PublishTouched, device
  <2>3. QED BY <1>6, <2>1, <2>2, PublishKeepsInv DEF PublishTouched
<1>7. QED BY <1>2, <1>3, <1>4, <1>5, <1>6 DEF AfterHeartbeat

LEMMA ClickKeepsInv ==
  ASSUME PanelInv, Click \/ AfterClick
  PROVE  PanelInv'
<1>1. ServerInv /\ ChannelInv /\ PageInv BY DEF PanelInv
<1>2. CASE Click
  <2>1. ServerInv' BY <1>1, <1>2, Bounds, NextStates DEF ServerInv, Click
  <2>2. QED BY <1>2, <2>1, QuietKeepsInv DEF Click
<1>3. CASE LoadActivity
  <2>1. click' \in ClickState BY <1>1, <1>3, NextStates DEF LoadActivity, ServerInv
  <2>2. ServerInv' BY <1>1, <1>3, <2>1 DEF ServerInv, LoadActivity, device
  <2>3. QED BY <1>3, <2>2, QuietKeepsInv DEF LoadActivity
<1>4. CASE PublishActivity
  <2>1. Updated(click.progress) \in Event
    BY <1>1, <1>4, OtherFields, NextStates DEF PublishActivity
  <2>2. ServerInv' BY <1>1, <1>4, NextStates DEF ServerInv, PublishActivity, device
  <2>3. QED BY <1>4, <2>1, <2>2, PublishKeepsInv DEF PublishActivity
<1>5. CASE PublishActivitiesChanged
  <2>1. Changed \in Event BY NextStates
  <2>2. ServerInv' BY <1>1, <1>5, NextStates DEF ServerInv, PublishActivitiesChanged, device
  <2>3. QED BY <1>5, <2>1, <2>2, PublishKeepsInv DEF PublishActivitiesChanged
<1>6. QED BY <1>2, <1>3, <1>4, <1>5 DEF AfterClick

LEMMA DetectorKeepsInv ==
  ASSUME PanelInv, Detector \/ Tick \/ OtherPage
  PROVE  PanelInv'
<1>1. ServerInv /\ ChannelInv /\ PageInv BY DEF PanelInv
<1>2. CASE Round
  <2>1. marked' \in BOOLEAN /\ detector' \in DetectorState
    BY <1>2, NextStates DEF Round
  <2>2. ServerInv' BY <1>1, <1>2, <2>1 DEF ServerInv, Round, device
  <2>3. QED BY <1>2, <2>2, QuietKeepsInv DEF Round
<1>3. CASE LoadOffline
  <2>1. Online \in BOOLEAN BY DEF Online
  <2>2. detector' \in DetectorState BY <1>3, <2>1, NextStates DEF LoadOffline
  <2>3. ServerInv' BY <1>1, <1>3, <2>2 DEF ServerInv, LoadOffline, device
  <2>4. QED BY <1>3, <2>3, QuietKeepsInv DEF LoadOffline
<1>4. CASE PublishOffline
  <2>1. Status(detector.online) \in Event
    BY <1>1, <1>4, OtherFields, NextStates DEF PublishOffline
  <2>2. ServerInv' BY <1>1, <1>4, NextStates DEF ServerInv, PublishOffline, device
  <2>3. QED BY <1>4, <2>1, <2>2, PublishKeepsInv DEF PublishOffline
<1>5. CASE Tick
  <2>1. age' \in 0..(Timeout + 1)
    BY <1>1, <1>5, Bounds DEF Tick, Online, ServerInv
  <2>2. ServerInv' BY <1>1, <1>5, <2>1, NextStates DEF ServerInv, Tick
  <2>3. QED BY <1>5, <2>2, QuietKeepsInv DEF Tick
<1>6. CASE OtherPage
  <2>1. ServerInv' BY <1>1, <1>6 DEF ServerInv, OtherPage, device
  <2>2. QED BY <1>6, <2>1, QuietKeepsInv DEF OtherPage
<1>7. QED BY <1>2, <1>3, <1>4, <1>5, <1>6 DEF Detector

\* The steps of the page leave the server alone.
LEMMA PageKeepsInv ==
  ASSUME PanelInv, Open \/ Subscribe \/ Deliver \/ ReadList \/ ShowList
  PROVE  PanelInv'
<1>1. ServerInv /\ ChannelInv /\ PageInv /\ AccessInv BY DEF PanelInv
<1>2. UNCHANGED <<access, device, server>>
  BY DEF Open, Subscribe, Deliver, ReadList, ShowList
<1>3. ServerInv' BY <1>1, <1>2 DEF ServerInv, device, server
<1>4. AccessInv' /\ ChannelInv' /\ PageInv'
  <2>1. CASE Open
    <3>1. Online \in BOOLEAN BY DEF Online
    <3>2. stream' \in StreamState /\ stream'.session = TRUE /\ login
      BY <2>1, <3>1 DEF Open, StreamState
    <3>3. channel = <<>> BY <1>1, <2>1 DEF Open, ChannelInv, Live
    <3>4. ChannelInv' BY <1>1, <2>1, <3>2, <3>3 DEF Open, ChannelInv
    <3>5. QED BY <1>1, <1>2, <2>1, <3>2, <3>4 DEF Open, AccessInv, PageInv, access
  <2>2. CASE Subscribe
    <3>1. stream.session \in BOOLEAN /\ stream.online \in BOOLEAN
      BY <1>1, <2>2, OtherFields DEF Subscribe
    <3>2. stream' \in StreamState /\ stream'.session = stream.session
      BY <2>2, <3>1 DEF Subscribe, StreamState
    <3>3. channel' \in Seq(Event) /\ channel' = <<>> /\ Len(channel') <= Buffer
      BY <2>2, Bounds DEF Subscribe
    <3>4. missed' \in BOOLEAN BY <2>2 DEF Subscribe
    <3>5. ChannelInv' BY <3>2, <3>3, <3>4 DEF ChannelInv
    <3>6. PageInv' BY <2>2, <3>1, Bounds, NextStates DEF Subscribe, PageInv
    <3>7. QED BY <1>1, <1>2, <3>2, <3>5, <3>6 DEF AccessInv, access
  <2>3. CASE Deliver
    <3> DEFINE event == Head(channel)
    <3>1. /\ channel # <<>> /\ channel' = Tail(channel) /\ stream' = stream /\ missed' = missed
          /\ shown' = IF event.name = "status" THEN event.online ELSE shown
          /\ list' = IF event.name = "activity_updated" THEN MergeOf(event.progress)
                     ELSE IF event.name = "activities_changed" THEN Absent ELSE list
          /\ fetch' = IF event.name = "activities_changed" THEN [at |-> "sent"] ELSE fetch
      BY <2>3 DEF Deliver
    <3>2. /\ event \in Event /\ channel' \in Seq(Event) /\ Len(channel') = Len(channel) - 1
      BY <1>1, <3>1 DEF ChannelInv
    <3> HIDE DEF event
    <3>3. /\ event.name = "status" => event.online \in BOOLEAN
          /\ event.name = "activity_updated" => event.progress \in Progress
      BY <3>2 DEF Event
    <3>4. Len(channel') <= Buffer
      <4>1. Len(channel) \in Nat BY <1>1 DEF ChannelInv
      <4>2. QED BY <1>1, <3>2, <4>1, Bounds DEF ChannelInv
    <3>5. ChannelInv' BY <1>1, <3>1, <3>2, <3>4 DEF ChannelInv, Live
    <3>6. list' \in Progress
      BY <1>1, <3>1, <3>3, Bounds DEF MergeOf, PageInv
    <3>7. PageInv' BY <1>1, <3>1, <3>3, <3>6, NextStates DEF PageInv
    <3>8. QED BY <1>1, <1>2, <3>1, <3>5, <3>7 DEF AccessInv, access
  <2>4. CASE ReadList \/ ShowList
    <3>1. UNCHANGED <<stream, channel, shown, missed>> BY <2>4 DEF ReadList, ShowList
    <3>2. fetch' \in FetchState /\ list' \in Progress
      BY <1>1, <2>4, OtherFields, NextStates DEF ReadList, ShowList, ServerInv, PageInv
    <3>3. ChannelInv' BY <1>1, <3>1 DEF ChannelInv, Live
    <3>4. QED BY <1>1, <1>2, <3>1, <3>2, <3>3 DEF AccessInv, PageInv, access
  <2>5. QED BY <2>1, <2>2, <2>3, <2>4
<1>5. QED BY <1>3, <1>4 DEF PanelInv

LEMMA EndKeepsInv ==
  ASSUME PanelInv, Close \/ Ping \/ ServerRestart
  PROVE  PanelInv'
<1>1. ServerInv /\ AccessInv BY DEF PanelInv
<1>2. Ended BY DEF Close, Ping, ServerRestart
<1>3. ChannelInv' /\ PageInv' /\ stream'.session = FALSE BY <1>2, EndedKeepsPage
<1>4. CASE Close \/ Ping
  <2>1. UNCHANGED <<access, device, server>> BY <1>4 DEF Close, Ping
  <2>2. ServerInv' BY <1>1, <2>1 DEF ServerInv, device, server
  <2>3. AccessInv' BY <1>1, <1>3, <2>1 DEF AccessInv, access
  <2>4. QED BY <1>3, <2>2, <2>3 DEF PanelInv
<1>5. CASE ServerRestart
  <2>1. ServerInv' BY <1>1, <1>5, NextStates DEF ServerInv, ServerRestart, device
  <2>2. AccessInv'
    <3>1. setups' \in 0..MaxSetups /\ login' = FALSE BY <1>5, Bounds DEF ServerRestart
    <3>2. admins' = admins /\ credential' = credential BY <1>5 DEF ServerRestart
    <3>3. QED BY <1>1, <1>3, <3>1, <3>2 DEF AccessInv
  <2>3. QED BY <1>3, <2>1, <2>2 DEF PanelInv
<1>6. QED BY <1>4, <1>5

THEOREM PanelInvariant == Spec => []PanelInv
<1>1. Init => PanelInv
  <2> SUFFICES ASSUME Init PROVE PanelInv OBVIOUS
  <2>1. stream \in StreamState /\ stream.session = FALSE /\ channel = <<>> /\ missed = FALSE
    BY NextStates DEF Init, Closed
  <2>2. channel \in Seq(Event) /\ Len(channel) <= Buffer BY <2>1, Bounds
  <2>3. ChannelInv BY <2>1, <2>2 DEF ChannelInv
  <2>4. AccessInv
    <3>1. setups \in 0..MaxSetups /\ admins \in 0..1 BY Bounds DEF Init
    <3>2. login = FALSE /\ credential = FALSE BY DEF Init
    <3>3. QED BY <2>1, <3>1, <3>2 DEF AccessInv
  <2>5. ServerInv
    <3>1. age \in 0..(Timeout + 1) /\ activity \in Progress BY Bounds DEF Init
    <3>2. /\ heartbeat = Idle /\ click = Idle /\ detector = Idle
          /\ marked = FALSE /\ others = FALSE
      BY DEF Init
    <3>3. QED BY <3>1, <3>2, NextStates DEF ServerInv
  <2>6. PageInv BY Bounds, NextStates DEF Init, PageInv
  <2>7. QED BY <2>3, <2>4, <2>5, <2>6 DEF PanelInv
<1>2. PanelInv /\ [Next]_vars => PanelInv'
  <2> SUFFICES ASSUME PanelInv, [Next]_vars PROVE PanelInv' OBVIOUS
  <2>1. CASE UNCHANGED vars
    BY <2>1 DEF vars, access, device, server, page, PanelInv, AccessInv, ServerInv, ChannelInv,
                PageInv, Live
  <2>2. CASE Next
    BY <2>2, SetupKeepsInv, EndSessionKeepsInv, TokenKeepsInv, HeartbeatKeepsInv, ClickKeepsInv,
       DetectorKeepsInv, PageKeepsInv, EndKeepsInv DEF Next
  <2>3. QED BY <2>1, <2>2
<1>3. QED BY <1>1, <1>2, PTL DEF Spec

\* Types of the variables: what a handler read before is there when it publishes, and the
\* channel of a page never holds more than its capacity, and nothing once an event is lost.
THEOREM PanelTypes == Spec => []TypeOK
<1>1. PanelInv => TypeOK
  <2> SUFFICES ASSUME PanelInv PROVE TypeOK OBVIOUS
  <2>1. ServerInv /\ ChannelInv /\ PageInv /\ AccessInv BY DEF PanelInv
  <2>2. heartbeat.at \in {"idle", "committed", "loaded", "activity", "read"}
    BY <2>1, HeartbeatFields DEF ServerInv
  <2>3. admins \in Nat BY <2>1 DEF AccessInv
  <2>4. channel # <<>> => Followed BY <2>1 DEF ChannelInv, Followed
  <2>5. QED BY <2>1, <2>2, <2>3, <2>4, OtherFields
               DEF TypeOK, AccessInv, ServerInv, ChannelInv, PageInv
<1>2. QED BY <1>1, PanelInvariant, PTL

\* However many requests for the first setup found no administrator, one of them makes one.
THEOREM OnlyOneAdministrator == Spec => []OneAdministrator
<1>1. PanelInv => OneAdministrator BY DEF PanelInv, AccessInv, OneAdministrator
<1>2. QED BY <1>1, PanelInvariant, PTL
=============================================================================
