-------------------------------- MODULE NetNode --------------------------------
(***************************************************************************)
(* A network node as LiveNetworkNode builds it: one task ticks the Wi-Fi   *)
(* maintainer, one the MQTT pump, and one hands telemetry to the pump.     *)
(* The tasks run to completion, one at a time.  The maintainer's probe and *)
(* the pump's transport probe are the same WiFi.status(), and the          *)
(* maintainer's disconnect step also ends the broker session.              *)
(*                                                                         *)
(* site says whether access point and broker are there and work.  While    *)
(* they are not, a link may or may not come up, links and sessions may be  *)
(* lost, and connections may fail.  A broker session may outlive its link, *)
(* half open, until the client notices.  The Wi-Fi driver does not         *)
(* reconnect by itself (setAutoReconnect(false)): a link comes up only     *)
(* after WiFi.begin(), which only the maintainer's connect step calls.     *)
(***************************************************************************)
EXTENDS MqttPumpProps

CONSTANTS
  WiFiPoll, StableMultiplier, StableThreshold, StableMax,
  WiFiRetryBase, WiFiRetryMax, WiFiRetryJitter,
  WiFiMaxIdle    \* bound: time between two polls of the link

VARIABLES
  online, wifiObserved, stable, polled, lastPoll, nextRetry, wifiRetryMs,
  capable, wifiPc, told, forgot, triedAt, tries,
  joining,    \* WiFi.begin() was called and the link has not come up since
  site,       \* access point and broker are there and work
  halfOpen,   \* the session has outlived its link
  unseen      \* history: the link came up, or begin() was called, after the
              \*          maintainer last saw the link up

wifiVars == <<online, wifiObserved, stable, polled, lastPoll, nextRetry, wifiRetryMs,
              capable, wifiPc, told, forgot, triedAt, tries>>
pumpVars == <<session, queue, link, backoff, lastLoop, ticked, now, pc>>
world == <<joining, site, halfOpen, unseen>>
nodeVars == <<vars, wifiVars, world>>

WiFi == INSTANCE WiFiMaintainerProps WITH
  Poll <- WiFiPoll, RetryBase <- WiFiRetryBase, RetryMax <- WiFiRetryMax,
  RetryJitter <- WiFiRetryJitter,
  EmitChangesOnly <- TRUE, Manages <- TRUE, HasConnect <- TRUE, HasDisconnect <- TRUE,
  link <- transport, observed <- wifiObserved, retryMs <- wifiRetryMs, pc <- wifiPc

ASSUME NetNodeAssumption ==
  /\ WiFi!Parameters
  /\ HasTransportProbe /\ WiFiPoll > 0 /\ Poll > 0
  /\ WiFiMaxIdle >= WiFiPoll /\ WiFiMaxIdle >= WiFiPoll * StableMultiplier

-------------------------------------------------------------------------------
(* The environment.                                                        *)

SiteChanges ==
  /\ site' = ~site
  /\ UNCHANGED <<vars, wifiVars, joining, halfOpen, unseen>>

\* The driver has joined the network.
LinkComesUp ==
  /\ joining /\ ~transport
  /\ transport' = TRUE /\ joining' = FALSE /\ unseen' = TRUE
  /\ UNCHANGED <<clock, pumpVars, wifiVars, site, halfOpen>>

LinkLost ==
  /\ ~site /\ transport
  /\ transport' = FALSE
  /\ session' \in {session, FALSE} /\ halfOpen' = session'
  /\ UNCHANGED <<queue, link, backoff, lastLoop, timing, pc, wifiVars, joining, site, unseen>>

\* A half-open session ends when the client notices.
SessionLost ==
  /\ session /\ (site => halfOpen)
  /\ session' = FALSE /\ halfOpen' = FALSE
  /\ UNCHANGED <<transport, queue, link, backoff, lastLoop, timing, pc,
                 wifiVars, joining, site, unseen>>

-------------------------------------------------------------------------------
(* The tasks.                                                              *)

Idle == pc = "user" /\ wifiPc = "user"

TimePasses ==
  /\ Idle /\ Minus(clock, lastPoll) < WiFiMaxIdle
  /\ Elapse
  /\ UNCHANGED <<wifiVars, world>>

\* The MQTT part of dispatchTask: telemetry is enqueued where there is room.
Dispatch ==
  /\ Idle /\ Len(queue) < Capacity
  /\ \E m \in Messages : \E g \in Grants : Enqueue(m, g)
  /\ UNCHANGED <<wifiVars, world>>

\* wifiMaintainerTask.
WiFiTaskBegins ==
  /\ Idle
  /\ WiFi!PollUp \/ WiFi!PollDown
  /\ unseen' = (unseen /\ ~transport)
  /\ UNCHANGED <<pumpVars, joining, site, halfOpen>>

\* Mutant: the broker session is left open when the link is lost.
DisconnectWiFiOnly ==
  /\ WiFi!DisconnectReturns
  /\ transport' = FALSE /\ halfOpen' = session
  /\ UNCHANGED <<pumpVars, joining, site, unseen>>

\* disconnectWiFi(): a link that came back meanwhile is taken down again.
DisconnectWiFi ==
  /\ WiFi!DisconnectReturns
  /\ transport' = FALSE /\ session' = FALSE /\ halfOpen' = FALSE
  /\ UNCHANGED <<queue, link, backoff, lastLoop, ticked, now, pc, joining, site, unseen>>

\* Mutant: the status is not looked at first.
ConnectWiFiAnyway ==
  /\ WiFi!ConnectReturns
  /\ joining' = TRUE
  /\ UNCHANGED <<pumpVars, site, halfOpen, unseen>>

\* connectWiFi().  A status may keep it from calling WiFi.begin() on a link that
\* is down: an idle one on the ESP32, an unlisted one on the ESP8266.
ConnectWiFi ==
  /\ WiFi!ConnectReturns
  /\ \/ ~transport /\ joining' = TRUE
     \/ UNCHANGED joining
  /\ UNCHANGED <<pumpVars, site, halfOpen, unseen>>

WiFiTaskSteps ==
  \/ DisconnectWiFi \/ ConnectWiFi
  \/ /\ WiFi!NotifyReturns \/ WiFi!NoConnect \/ WiFi!CallConnectStep
     /\ UNCHANGED <<pumpVars, world>>

\* mqttPumpTask.
MqttTaskBegins == Idle /\ TickBegins /\ UNCHANGED <<wifiVars, world>>

MqttTaskSteps ==
  /\ Body \/ NotifyReturns \/ AnnounceReturns \/ LoopReturns
     \/ PublishSucceeds \/ PublishGivesUp \/ PublishFails
     \/ ConnectSucceeds
     \/ (ConnectFails /\ ~(site /\ transport))
  /\ UNCHANGED <<wifiVars, world>>

\* User code may begin() the maintainer again, not twice at the same time.
RestartWiFi ==
  /\ Idle /\ polled /\ lastPoll # clock
  /\ WiFi!Begin
  /\ unseen' = TRUE
  /\ UNCHANGED <<pumpVars, joining, site, halfOpen>>

-------------------------------------------------------------------------------
NodeInit ==
  /\ Init /\ WiFi!Init
  /\ joining = FALSE /\ site = FALSE /\ halfOpen = FALSE /\ unseen = TRUE

NodeNext ==
  \/ SiteChanges \/ LinkComesUp \/ LinkLost \/ SessionLost
  \/ TimePasses \/ Dispatch \/ RestartWiFi
  \/ WiFiTaskBegins \/ WiFiTaskSteps
  \/ MqttTaskBegins \/ MqttTaskSteps

NodeSpec == NodeInit /\ [][NodeNext]_nodeVars

\* The kernel runs every task that is due, its callbacks return, and time
\* passes.  A network that stays is joined in the end, and the driver does not
\* for ever answer connectWiFi() with a status that keeps it from trying.
FairNodeSpec ==
  /\ NodeSpec
  /\ WF_nodeVars(TimePasses)
  /\ WF_nodeVars(WiFiTaskBegins) /\ WF_nodeVars(WiFiTaskSteps)
  /\ WF_nodeVars(MqttTaskBegins) /\ WF_nodeVars(MqttTaskSteps)
  /\ WF_nodeVars(LinkComesUp) /\ SF_nodeVars(ConnectWiFi /\ joining')
===============================================================================
