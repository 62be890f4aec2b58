---------------------------- MODULE NetNode_proofs ----------------------------
(***************************************************************************)
(* Proofs about the network node: what the Wi-Fi maintainer tells, and     *)
(* what becomes of links and sessions, for every configuration.            *)
(***************************************************************************)
EXTENDS NetNodeProps, MqttPump_proofs

-------------------------------------------------------------------------------
(* The maintainer.                                                         *)

\* Except in the middle of a disconnection, the observers know of the link, and
\* the kernel's capability follows it.
Told ==
  /\ ~forgot => told = wifiObserved
  /\ wifiPc # "disconnect" => told = online \/ forgot
  /\ (polled /\ wifiPc # "disconnect") => capable = online
Maintained == WiFi!TypeOK /\ Told

LEMMA WiFiConstants ==
  /\ WiFiRetryBase \in Nat /\ WiFiRetryMax \in Nat /\ WiFiRetryJitter \in Nat
  /\ StableMax \in Nat
BY NetNodeAssumption DEF WiFi!Parameters

LEMMA WiFiTimesAdd ==
  ASSUME NEW s \in Int, NEW d \in Int
  PROVE  WiFi!Plus(s, d) \in Time
BY TimesAdd DEF WiFi!Plus, Plus

LEMMA WiFiInitSound == Init /\ WiFi!Init => Maintained
<1> SUFFICES ASSUME Init, WiFi!Init PROVE Maintained
  OBVIOUS
<1>1. 0 \in Time /\ Time = WiFi!Time
  BY Constants DEF Time, WiFi!Time
<1>2. {lastPoll, nextRetry, clock} \subseteq WiFi!Time
  BY <1>1 DEF WiFi!Init
<1>3. wifiRetryMs \in Nat /\ triedAt \in WiFi!Time \cup {-1} /\ tries \in 0 .. WiFiRetryMax
      /\ stable \in 0 .. StableMax
  BY WiFiConstants DEF WiFi!Init
<1>4. {transport, online, wifiObserved, polled, capable, told, forgot} \subseteq BOOLEAN
  BY DEF WiFi!Init
<1> QED
  BY <1>2, <1>3, <1>4 DEF WiFi!Init, WiFi!TypeOK, Maintained, Told

LEMMA PollUpKeeps ==
  ASSUME Maintained, WiFi!PollUp
  PROVE  Maintained'
<1> USE DEF Maintained, WiFi!TypeOK
<1>1. /\ stable' \in 0 .. StableMax /\ online' = TRUE /\ transport' = transport
      /\ lastPoll' = clock /\ clock' = clock /\ polled' = TRUE /\ capable' = TRUE
      /\ nextRetry' = 0 /\ wifiRetryMs' = WiFiRetryBase /\ triedAt' = -1 /\ tries' = 0
  BY WiFiConstants DEF WiFi!PollUp, WiFi!ApplyNetworkCapabilities
<1>2. \/ wifiPc' = "user" /\ wifiObserved = TRUE /\ UNCHANGED <<wifiObserved, told, forgot>>
      \/ wifiPc' = "notify" /\ wifiObserved' = TRUE /\ told' = TRUE /\ forgot' = FALSE
  BY DEF WiFi!PollUp, WiFi!Notify, WiFi!notices
<1>3. WiFi!TypeOK'
  <2>1. 0 \in WiFi!Time
    BY Constants DEF Time, WiFi!Time
  <2>2. {transport', online', wifiObserved', polled', capable', told', forgot'} \subseteq BOOLEAN
    BY <1>1, <1>2
  <2>3. {lastPoll', nextRetry', clock'} \subseteq WiFi!Time
    BY <1>1, <2>1
  <2>4. wifiRetryMs' \in Nat /\ triedAt' \in WiFi!Time \cup {-1} /\ tries' \in 0 .. WiFiRetryMax
    BY <1>1, WiFiConstants
  <2> QED
    BY <1>1, <1>2, <2>2, <2>3, <2>4
<1> QED
  BY <1>1, <1>2, <1>3 DEF Told

\* What telling the observers that the link is down leaves behind.
LEMMA ReportDownKeeps ==
  ASSUME Maintained, ~online', WiFi!ReportDown
  PROVE  /\ wifiPc' \in {"notify", "retry"} /\ capable' = FALSE
         /\ wifiObserved' \in BOOLEAN /\ told' \in BOOLEAN /\ forgot' \in BOOLEAN
         /\ ~forgot' => told' = wifiObserved'
         /\ told' = FALSE \/ forgot'
<1>1. capable' = FALSE
  BY DEF WiFi!ReportDown, WiFi!ApplyNetworkCapabilities
<1>2. /\ {wifiObserved, told, forgot} \subseteq BOOLEAN
      /\ ~forgot => told = wifiObserved
  BY DEF Maintained, WiFi!TypeOK, Told
<1>3. \/ wifiPc' = "retry" /\ wifiObserved = FALSE /\ UNCHANGED <<wifiObserved, told, forgot>>
      \/ wifiPc' = "notify" /\ wifiObserved' = FALSE /\ told' = FALSE /\ forgot' = FALSE
  BY DEF WiFi!ReportDown, WiFi!Notify, WiFi!notices
<1>4. CASE wifiPc' = "retry" /\ wifiObserved = FALSE /\ UNCHANGED <<wifiObserved, told, forgot>>
  BY <1>1, <1>2, <1>4
<1>5. CASE wifiPc' = "notify" /\ wifiObserved' = FALSE /\ told' = FALSE /\ forgot' = FALSE
  BY <1>1, <1>5
<1> QED
  BY <1>3, <1>4, <1>5

LEMMA PollDownKeeps ==
  ASSUME Maintained, WiFi!PollDown
  PROVE  Maintained'
<1>1. /\ transport' = transport /\ polled' = TRUE /\ lastPoll' = clock /\ clock' = clock
      /\ online' = FALSE /\ stable' = IF online THEN 0 ELSE stable
      /\ nextRetry' = nextRetry /\ wifiRetryMs' = wifiRetryMs
      /\ triedAt' = triedAt /\ tries' = tries
      /\ \/ wifiPc' = "disconnect" /\ UNCHANGED <<wifiObserved, capable, told, forgot>>
         \/ WiFi!ReportDown
  BY DEF WiFi!PollDown, WiFi!retry, WiFi!notices
<1>2. WiFi!TypeOK /\ Told
  BY DEF Maintained
<1>3. stable' = 0
  BY <1>1, <1>2 DEF WiFi!TypeOK
<1>4. /\ {lastPoll', nextRetry', clock'} \subseteq WiFi!Time /\ wifiRetryMs' \in Nat
      /\ triedAt' \in WiFi!Time \cup {-1} /\ tries' \in 0 .. WiFiRetryMax
      /\ stable' \in 0 .. StableMax
  BY <1>1, <1>2, <1>3, WiFiConstants DEF WiFi!TypeOK
<1>5. CASE wifiPc' = "disconnect" /\ UNCHANGED <<wifiObserved, capable, told, forgot>>
  <2>1. {transport', online', wifiObserved', polled', capable', told', forgot'} \subseteq BOOLEAN
    BY <1>1, <1>2, <1>5 DEF WiFi!TypeOK
  <2>2. WiFi!TypeOK'
    BY <1>1, <1>2, <1>3, <1>5, <1>4, <2>1 DEF WiFi!TypeOK
  <2> QED
    BY <1>2, <1>5, <2>2 DEF Maintained, Told
<1>6. CASE WiFi!ReportDown
  <2>1. /\ wifiPc' \in {"notify", "retry"} /\ capable' = FALSE
        /\ wifiObserved' \in BOOLEAN /\ told' \in BOOLEAN /\ forgot' \in BOOLEAN
        /\ ~forgot' => told' = wifiObserved'
        /\ told' = FALSE \/ forgot'
    BY <1>1, <1>6, ReportDownKeeps
  <2>2. {transport', online', wifiObserved', polled', capable', told', forgot'} \subseteq BOOLEAN
    BY <1>1, <1>2, <2>1 DEF WiFi!TypeOK
  <2>3. WiFi!TypeOK'
    BY <1>1, <1>3, <1>4, <2>1, <2>2 DEF WiFi!TypeOK
  <2>4. Told'
    BY <1>1, <2>1 DEF Told
  <2> QED
    BY <2>3, <2>4 DEF Maintained
<1> QED
  BY <1>1, <1>5, <1>6

LEMMA DisconnectReturnsKeeps ==
  ASSUME Maintained, WiFi!DisconnectReturns
  PROVE  Maintained'
<1>1. /\ transport' \in {transport, FALSE} /\ wifiPc = "disconnect" /\ WiFi!ReportDown
      /\ UNCHANGED <<online, stable, polled, lastPoll, nextRetry, wifiRetryMs, triedAt, tries, clock>>
  BY DEF WiFi!DisconnectReturns, WiFi!retry
<1>2. WiFi!TypeOK /\ ~online
  BY <1>1 DEF Maintained, WiFi!TypeOK
<1>3. online' = FALSE
  BY <1>1, <1>2 DEF WiFi!TypeOK
<1>4. /\ wifiPc' \in {"notify", "retry"} /\ capable' = FALSE
      /\ wifiObserved' \in BOOLEAN /\ told' \in BOOLEAN /\ forgot' \in BOOLEAN
      /\ ~forgot' => told' = wifiObserved'
      /\ told' = FALSE \/ forgot'
  BY <1>1, <1>3, ReportDownKeeps
<1>5. WiFi!TypeOK'
  BY <1>1, <1>2, <1>3, <1>4 DEF WiFi!TypeOK
<1>6. Told'
  BY <1>3, <1>4 DEF Told
<1> QED
  BY <1>5, <1>6 DEF Maintained

LEMMA QuietReturnsKeep ==
  ASSUME Maintained, WiFi!NotifyReturns \/ WiFi!NoConnect \/ WiFi!CallConnectStep
  PROVE  Maintained'
<1>1. /\ wifiPc # "disconnect" /\ wifiPc' \in {"user", "retry", "connect"}
      /\ (wifiPc' \in {"retry", "connect"} => ~online)
      /\ UNCHANGED <<transport, online, wifiObserved, stable, polled, lastPoll, nextRetry,
                     wifiRetryMs, triedAt, tries, capable, clock, told, forgot>>
  BY DEF WiFi!NotifyReturns, WiFi!NoConnect, WiFi!CallConnectStep, WiFi!view, WiFi!retry,
     WiFi!notices, Maintained, WiFi!TypeOK
<1>2. WiFi!TypeOK'
  BY <1>1 DEF Maintained, WiFi!TypeOK
<1> QED
  BY <1>1, <1>2 DEF Maintained, Told

LEMMA ConnectReturnsKeeps ==
  ASSUME Maintained, WiFi!ConnectReturns
  PROVE  Maintained'
<1>1. /\ wifiPc = "connect" /\ wifiPc' = "user"
      /\ wifiRetryMs' = WiFi!Doubled(WiFi!Wait) /\ triedAt' = lastPoll
      /\ tries' = IF tries < WiFiRetryMax THEN tries + 1 ELSE tries
      /\ UNCHANGED <<transport, online, wifiObserved, stable, polled, lastPoll,
                     capable, clock, told, forgot>>
  BY DEF WiFi!ConnectReturns, WiFi!view, WiFi!notices
<1>2. PICK jitter \in 0 .. WiFiRetryJitter : nextRetry' = WiFi!Plus(lastPoll, WiFi!Wait + jitter)
  BY DEF WiFi!ConnectReturns
<1>3. WiFi!TypeOK
  BY DEF Maintained
<1>4. WiFi!Wait \in Nat
  BY <1>3, WiFiConstants DEF WiFi!Wait, WiFi!TypeOK
<1>5. wifiRetryMs' \in Nat
  BY <1>1, <1>4, WiFiConstants DEF WiFi!Doubled
<1>6. nextRetry' \in WiFi!Time
  <2>1. lastPoll \in Int /\ WiFi!Wait + jitter \in Int
    BY <1>3, <1>4, WiFiConstants DEF WiFi!TypeOK, WiFi!Time
  <2>2. Time = WiFi!Time
    BY DEF Time, WiFi!Time
  <2> QED
    BY <1>2, <2>1, <2>2, WiFiTimesAdd
<1>7. tries' \in 0 .. WiFiRetryMax
  BY <1>1, <1>3, WiFiConstants DEF WiFi!TypeOK
<1>8. WiFi!TypeOK'
  BY <1>1, <1>3, <1>5, <1>6, <1>7 DEF WiFi!TypeOK
<1> QED
  BY <1>1, <1>8 DEF Maintained, Told

LEMMA BeginKeeps ==
  ASSUME Maintained, WiFi!Begin
  PROVE  Maintained'
<1>1. /\ online' = FALSE /\ wifiObserved' = FALSE /\ stable' = 0 /\ polled' = FALSE
      /\ lastPoll' = 0 /\ nextRetry' = 0 /\ wifiRetryMs' = WiFiRetryBase
      /\ triedAt' = -1 /\ tries' = 0
      /\ forgot' = (forgot \/ told) /\ told' = told
      /\ wifiPc = "user" /\ UNCHANGED <<transport, capable, clock, wifiPc>>
  BY DEF WiFi!Begin
<1>2. WiFi!TypeOK /\ Told
  BY DEF Maintained
<1>3. forgot' \in BOOLEAN /\ (~forgot' => told' = FALSE)
  BY <1>1, <1>2 DEF WiFi!TypeOK
<1>4. WiFi!TypeOK'
  <2>1. 0 \in WiFi!Time
    BY Constants DEF Time, WiFi!Time
  <2>2. {transport', online', wifiObserved', polled', capable', told', forgot'} \subseteq BOOLEAN
    BY <1>1, <1>2, <1>3 DEF WiFi!TypeOK
  <2>3. {lastPoll', nextRetry', clock'} \subseteq WiFi!Time
    BY <1>1, <1>2, <2>1 DEF WiFi!TypeOK
  <2>4. /\ wifiRetryMs' \in Nat /\ triedAt' \in WiFi!Time \cup {-1}
        /\ tries' \in 0 .. WiFiRetryMax /\ stable' \in 0 .. StableMax
    BY <1>1, WiFiConstants
  <2> QED
    BY <1>1, <1>2, <2>2, <2>3, <2>4 DEF WiFi!TypeOK
<1>5. Told'
  <2>1. told' = FALSE \/ forgot'
    BY <1>2, <1>3 DEF WiFi!TypeOK
  <2> QED
    BY <1>1, <1>3, <2>1 DEF Told
<1> QED
  BY <1>4, <1>5 DEF Maintained

\* The maintainer does not see what changes behind its back.
LEMMA ElsewhereKeeps ==
  ASSUME Maintained, UNCHANGED wifiVars, transport' \in BOOLEAN, clock' \in Time
  PROVE  Maintained'
<1>1. Time = WiFi!Time
  BY DEF Time, WiFi!Time
<1> QED
  BY <1>1 DEF wifiVars, Maintained, WiFi!TypeOK, Told

-------------------------------------------------------------------------------
(* The node.                                                               *)

\* A driver that joins has no link and has not been seen with one; a link that
\* is up is on the maintainer's record or has not been seen yet.
Links ==
  /\ {joining, site, halfOpen, unseen} \subseteq BOOLEAN
  /\ joining => ~transport /\ ~online
  /\ transport => online \/ wifiPc = "disconnect" \/ unseen
  /\ HalfOpenClosed
PumpInv == TypeOK /\ LoopConnected
NodeInv == PumpInv /\ Maintained /\ Links

LEMMA NodeInitSound == NodeInit => NodeInv
BY TypeInit, WiFiInitSound
DEF NodeInit, NodeInv, PumpInv, Links, HalfOpenClosed, Init, LoopConnected, WiFi!Init

\* The pump does not see what the other tasks do, but for link and clock.
LEMMA PumpElsewhere ==
  ASSUME PumpInv, UNCHANGED <<queue, link, backoff, lastLoop, ticked, now, pc>>,
         session' \in BOOLEAN, transport' \in BOOLEAN, clock' \in Time
  PROVE  PumpInv'
BY DEF PumpInv, TypeOK, LoopConnected, link, backoff

LEMMA WorldSteps ==
  ASSUME NodeInv, SiteChanges \/ LinkComesUp \/ LinkLost \/ SessionLost
  PROVE  NodeInv'
<1>1. /\ UNCHANGED <<queue, link, backoff, lastLoop, ticked, now, pc, clock, wifiVars>>
      /\ session' \in BOOLEAN /\ transport' \in BOOLEAN /\ clock \in Time
  BY DEF SiteChanges, LinkComesUp, LinkLost, SessionLost, vars, network, timing, pumpVars,
     NodeInv, PumpInv, TypeOK
<1>2. PumpInv'
  BY <1>1, PumpElsewhere DEF NodeInv
<1>3. Maintained'
  BY <1>1, ElsewhereKeeps DEF NodeInv
<1>4. online' = online /\ wifiPc' = wifiPc
  BY <1>1 DEF wifiVars
<1>5. Links'
  <2> USE <1>4 DEF NodeInv, Links, HalfOpenClosed
  <2>1. CASE SiteChanges
    BY <2>1 DEF SiteChanges, vars, network, PumpInv, TypeOK
  <2>2. CASE LinkComesUp
    BY <2>2 DEF LinkComesUp, pumpVars
  <2>3. CASE LinkLost
    <3>1. /\ transport = TRUE /\ transport' = FALSE /\ halfOpen' \in BOOLEAN
          /\ UNCHANGED <<joining, site, unseen>>
      BY <2>3, <1>1 DEF LinkLost, PumpInv, TypeOK
    <3> QED
      BY <3>1
  <2>4. CASE SessionLost
    BY <2>4 DEF SessionLost
  <2> QED
    BY <2>1, <2>2, <2>3, <2>4
<1> QED
  BY <1>2, <1>3, <1>5 DEF NodeInv

\* Steps of the pump's task, of the dispatch task, and of the clock.
LEMMA PumpSteps ==
  ASSUME NodeInv, TimePasses \/ Dispatch \/ MqttTaskBegins \/ MqttTaskSteps
  PROVE  NodeInv'
<1>1. UNCHANGED <<wifiVars, world>> /\ Next
  BY DEF TimePasses, Dispatch, MqttTaskBegins, MqttTaskSteps, Next, User, Returns
<1>2. PumpInv'
  BY <1>1, TypeStep DEF NodeInv, PumpInv
<1>3. transport' = transport /\ (session' # session => transport)
  BY DEF TimePasses, Dispatch, MqttTaskBegins, MqttTaskSteps, Elapse, Enqueue, TickBegins, Body,
     CannotConnect, CallConnectStep, CallLoopStep, SkipLoopStep, Return, NotifyReturns,
     AnnounceReturns, LoopReturns, PublishSucceeds, PublishGivesUp, PublishFails,
     ConnectSucceeds, ConnectFails, network
<1>4. Maintained'
  <2>1. transport' \in BOOLEAN /\ clock' \in Time
    BY <1>2 DEF PumpInv, TypeOK
  <2> QED
    BY <1>1, <2>1, ElsewhereKeeps DEF NodeInv
<1>5. Links'
  BY <1>1, <1>3 DEF NodeInv, Links, HalfOpenClosed, wifiVars, world
<1> QED
  BY <1>2, <1>4, <1>5 DEF NodeInv

\* Steps of the maintainer's task.
LEMMA WiFiSteps ==
  ASSUME NodeInv, WiFiTaskBegins \/ WiFiTaskSteps \/ RestartWiFi
  PROVE  NodeInv'
<1>1. NodeInv /\ WiFi!TypeOK /\ HalfOpenClosed /\ session \in BOOLEAN /\ clock \in Time
  BY DEF NodeInv, Maintained, Links, PumpInv, TypeOK
<1>2. Maintained'
  BY <1>1, PollUpKeeps, PollDownKeeps, DisconnectReturnsKeeps, ConnectReturnsKeeps,
     QuietReturnsKeep, BeginKeeps
  DEF WiFiTaskBegins, WiFiTaskSteps, RestartWiFi, DisconnectWiFi, ConnectWiFi, NodeInv
<1>3. clock' = clock
  BY DEF WiFiTaskBegins, WiFiTaskSteps, RestartWiFi, DisconnectWiFi, ConnectWiFi, pumpVars,
     WiFi!PollUp, WiFi!PollDown, WiFi!DisconnectReturns, WiFi!ConnectReturns, WiFi!NotifyReturns,
     WiFi!NoConnect, WiFi!CallConnectStep, WiFi!Begin
<1>4. PumpInv'
  <2>1. UNCHANGED <<queue, link, backoff, lastLoop, ticked, now, pc>> /\ session' \in {session, FALSE}
    BY DEF WiFiTaskBegins, WiFiTaskSteps, RestartWiFi, DisconnectWiFi, ConnectWiFi, pumpVars
  <2>2. transport' \in BOOLEAN
    BY <1>2 DEF Maintained, WiFi!TypeOK
  <2> QED
    BY <1>1, <1>3, <2>1, <2>2, PumpElsewhere DEF NodeInv
<1>5. Links'
  <2> USE <1>1 DEF NodeInv, Links, HalfOpenClosed
  <2>1. CASE WiFi!PollUp /\ WiFiTaskBegins
    BY <2>1 DEF WiFi!PollUp, WiFi!Due, WiFi!Notify, WiFiTaskBegins, pumpVars
  <2>2. CASE WiFi!PollDown /\ WiFiTaskBegins
    <3>1. /\ transport = FALSE /\ transport' = FALSE /\ wifiPc = "user" /\ online' = FALSE
          /\ online => wifiPc' = "disconnect"
      BY <2>2 DEF WiFi!PollDown, WiFi!Due, WiFi!TypeOK
    <3>2. unseen' = unseen /\ UNCHANGED <<session, joining, site, halfOpen>>
      BY <2>2, <3>1 DEF WiFiTaskBegins, pumpVars
    <3> QED
      BY <3>1, <3>2
  <2>3. CASE DisconnectWiFi
    <3>1. ~online /\ online' = online
      BY <2>3 DEF DisconnectWiFi, WiFi!DisconnectReturns, WiFi!TypeOK
    <3> QED
      BY <2>3, <3>1 DEF DisconnectWiFi
  <2>4. CASE ConnectWiFi
    <3>1. wifiPc = "connect" /\ ~online /\ online' = online /\ transport' = transport
      BY <2>4 DEF ConnectWiFi, WiFi!ConnectReturns, WiFi!view, WiFi!TypeOK
    <3>2. joining' = joining \/ (joining' = TRUE /\ ~transport)
      BY <2>4 DEF ConnectWiFi
    <3>3. UNCHANGED <<session, site, halfOpen, unseen>>
      BY <2>4 DEF ConnectWiFi, pumpVars
    <3>4. /\ {joining', site', halfOpen', unseen'} \subseteq BOOLEAN
          /\ joining' => ~transport' /\ ~online'
      <4>1. CASE joining' = joining
        BY <3>1, <3>3, <4>1
      <4>2. CASE joining' = TRUE /\ ~transport
        BY <3>1, <3>3, <4>2
      <4> QED
        BY <3>2, <4>1, <4>2
    <3>5. /\ transport' => unseen'
          /\ (session' /\ ~transport') => unseen'
      BY <3>1, <3>3
    <3> QED
      BY <3>4, <3>5, Zenon
  <2>5. CASE (WiFi!NotifyReturns \/ WiFi!NoConnect \/ WiFi!CallConnectStep)
             /\ UNCHANGED <<pumpVars, world>>
    BY <2>5 DEF WiFi!NotifyReturns, WiFi!NoConnect, WiFi!CallConnectStep, WiFi!view, pumpVars, world
  <2>6. CASE RestartWiFi
    BY <2>6 DEF RestartWiFi, WiFi!Begin, pumpVars
  <2> QED
    BY <2>1, <2>2, <2>3, <2>4, <2>5, <2>6 DEF WiFiTaskBegins, WiFiTaskSteps
<1> QED
  BY <1>2, <1>4, <1>5 DEF NodeInv

LEMMA NodeStep ==
  ASSUME NodeInv, [NodeNext]_nodeVars
  PROVE  NodeInv'
<1>1. CASE UNCHANGED nodeVars
  <2>1. UNCHANGED <<vars, wifiVars, world>>
    BY <1>1 DEF nodeVars
  <2>2. PumpInv'
    BY <2>1, TypeStep DEF NodeInv, PumpInv
  <2>3. Maintained'
    BY <2>1, ElsewhereKeeps DEF NodeInv, PumpInv, TypeOK, vars, network, timing
  <2>4. Links'
    BY <2>1 DEF NodeInv, Links, HalfOpenClosed, vars, network, wifiVars, world
  <2> QED
    BY <2>2, <2>3, <2>4 DEF NodeInv
<1> QED
  BY <1>1, WorldSteps, PumpSteps, WiFiSteps DEF NodeNext

LEMMA NodeInvariant == NodeSpec => []NodeInv
BY NodeInitSound, NodeStep, PTL DEF NodeSpec

\* Maintainer and pump keep their types, for every configuration of both.
THEOREM NodeTyped == NodeSpec => []NodeTypeOK
<1>1. NodeInv => NodeTypeOK
  BY DEF NodeInv, PumpInv, Maintained, Links, NodeTypeOK
<1> QED
  BY <1>1, NodeInvariant, PTL

\* Between the tasks the observers of the Wi-Fi state know what the maintainer
\* knows, and the capability follows it, whatever the link did between polls.
THEOREM ObserversAlwaysKnow == NodeSpec => []ObserversKnow
<1>1. NodeInv => ObserversKnow
  BY DEF NodeInv, Maintained, Told, ObserversKnow, WiFi!ObserversKnow
<1> QED
  BY <1>1, NodeInvariant, PTL

\* A link comes up only when the maintainer knows that there was none: no loss
\* goes without its disconnect step and its notice.
THEOREM NoLossUnnoticed == NodeSpec => LossNoticed
<1>1. NodeInv /\ [NodeNext]_nodeVars => [ (~transport /\ transport') => ~online ]_nodeVars
  <2> SUFFICES ASSUME NodeInv, [NodeNext]_nodeVars, ~transport, transport'
               PROVE  ~online
    OBVIOUS
  <2>1. joining => ~online
    BY DEF NodeInv, Links
  <2>2. LinkComesUp
    BY DEF NodeNext, nodeVars, vars, network, SiteChanges, LinkLost, SessionLost, TimePasses, Elapse,
       Dispatch, Enqueue, RestartWiFi, WiFi!Begin, WiFiTaskBegins, WiFi!PollUp, WiFi!PollDown,
       WiFiTaskSteps, DisconnectWiFi, ConnectWiFi, WiFi!ConnectReturns, WiFi!NotifyReturns,
       WiFi!NoConnect, WiFi!CallConnectStep, MqttTaskBegins, TickBegins, MqttTaskSteps, Body,
       CannotConnect, CallConnectStep, CallLoopStep, SkipLoopStep, Return, NotifyReturns,
       AnnounceReturns, LoopReturns, PublishSucceeds, PublishGivesUp, PublishFails,
       ConnectSucceeds, ConnectFails
  <2> QED
    BY <2>1, <2>2 DEF LinkComesUp
<1> QED
  BY <1>1, NodeInvariant, PTL DEF NodeSpec, LossNoticed

\* A half-open session is closed with the maintainer's next look at the link,
\* unless the maintainer never saw the link it has lost.
THEOREM HalfOpenAlwaysClosed == NodeSpec => []HalfOpenClosed
<1>1. NodeInv => HalfOpenClosed
  BY DEF NodeInv, Links
<1> QED
  BY <1>1, NodeInvariant, PTL

-------------------------------------------------------------------------------
(* The maintainer's backoff.                                               *)

\* The next wait is the one the number of attempts stands for, and the next
\* attempt is planned that long, and a jitter, after the last.
WiFiPlanned ==
  \E jitter \in 0 .. WiFiRetryJitter :
    nextRetry = WiFi!Plus(triedAt, DoubledWait(WiFiRetryBase, WiFiRetryMax, tries) + jitter)
WiFiSpaced ==
  /\ wifiRetryMs = DoubledWait(WiFiRetryBase, WiFiRetryMax, tries + 1)
  /\ triedAt # -1 => (tries > 0 \/ WiFiRetryMax = 0) /\ WiFiPlanned

LEMMA SameWaits ==
  ASSUME NEW k
  PROVE  WiFi!Backoff(k) = DoubledWait(WiFiRetryBase, WiFiRetryMax, k)
<1>1. WiFi!PowerOfTwo = PowerOfTwo
  BY DEF WiFi!PowerOfTwo, PowerOfTwo
<1> QED
  BY <1>1 DEF WiFi!Backoff, WiFi!DoubledWait, DoubledWait

LEMMA FreshSpaced ==
  ASSUME wifiRetryMs' = WiFiRetryBase, triedAt' = -1, tries' = 0
  PROVE  WiFiSpaced'
<1>1. 1 \in Nat \ {0}
  OBVIOUS
<1>2. DoubledWait(WiFiRetryBase, WiFiRetryMax, 1) = WiFiRetryBase
  BY <1>1, WaitsDouble, WiFiConstants
<1> QED
  BY <1>2 DEF WiFiSpaced

LEMMA ConnectReturnsSpaced ==
  ASSUME Maintained, WiFiSpaced, WiFi!ConnectReturns
  PROVE  WiFiSpaced'
<1>1. tries \in 0 .. WiFiRetryMax /\ WiFiRetryBase \in Nat /\ WiFiRetryMax \in Nat
  BY WiFiConstants DEF Maintained, WiFi!TypeOK
<1>2. wifiRetryMs = DoubledWait(WiFiRetryBase, WiFiRetryMax, tries + 1)
  BY DEF WiFiSpaced
<1>3. tries' = UpTo(tries, WiFiRetryMax) /\ triedAt' = lastPoll
  BY DEF WiFi!ConnectReturns, UpTo
<1>4. /\ tries' > 0 \/ WiFiRetryMax = 0
      /\ wifiRetryMs = 0 => WiFiRetryBase = 0
      /\ DoubledWait(WiFiRetryBase, WiFiRetryMax, tries') = wifiRetryMs
      /\ DoubledWait(WiFiRetryBase, WiFiRetryMax, tries' + 1) = OnceMore(wifiRetryMs, WiFiRetryMax)
  BY <1>1, <1>2, <1>3, NextWait
<1>5. WiFi!Wait = wifiRetryMs /\ WiFi!Doubled(wifiRetryMs) = OnceMore(wifiRetryMs, WiFiRetryMax)
  BY <1>4 DEF WiFi!Wait, WiFi!Doubled, OnceMore
<1>6. wifiRetryMs' = DoubledWait(WiFiRetryBase, WiFiRetryMax, tries' + 1)
  BY <1>4, <1>5 DEF WiFi!ConnectReturns
<1>7. PICK jitter \in 0 .. WiFiRetryJitter : nextRetry' = WiFi!Plus(lastPoll, wifiRetryMs + jitter)
  BY <1>5 DEF WiFi!ConnectReturns
<1>8. WiFiPlanned'
  BY <1>3, <1>4, <1>7 DEF WiFiPlanned
<1> QED
  BY <1>4, <1>6, <1>8 DEF WiFiSpaced

LEMMA WiFiSpacedStep ==
  ASSUME NodeInv, WiFiSpaced, [NodeNext]_nodeVars
  PROVE  WiFiSpaced'
<1>1. CASE UNCHANGED <<nextRetry, wifiRetryMs, triedAt, tries>>
  BY <1>1 DEF WiFiSpaced, WiFiPlanned
<1>2. CASE WiFi!PollUp \/ WiFi!Begin
  BY <1>2, FreshSpaced DEF WiFi!PollUp, WiFi!Begin
<1>3. CASE WiFi!ConnectReturns
  BY <1>3, ConnectReturnsSpaced DEF NodeInv
<1>4. CASE WiFi!PollDown \/ WiFi!DisconnectReturns \/ WiFi!NotifyReturns \/ WiFi!NoConnect
           \/ WiFi!CallConnectStep
  BY <1>1, <1>4
  DEF WiFi!PollDown, WiFi!DisconnectReturns, WiFi!NotifyReturns, WiFi!NoConnect,
      WiFi!CallConnectStep, WiFi!retry
<1>5. CASE UNCHANGED wifiVars
  BY <1>1, <1>5 DEF wifiVars
<1>6. CASE WiFiTaskBegins \/ WiFiTaskSteps \/ RestartWiFi
  BY <1>2, <1>3, <1>4, <1>6 DEF WiFiTaskBegins, WiFiTaskSteps, RestartWiFi, DisconnectWiFi, ConnectWiFi
<1>7. CASE SiteChanges \/ LinkComesUp \/ LinkLost \/ SessionLost \/ TimePasses \/ Dispatch
           \/ MqttTaskBegins \/ MqttTaskSteps \/ UNCHANGED nodeVars
  BY <1>5, <1>7
  DEF SiteChanges, LinkComesUp, LinkLost, SessionLost, TimePasses, Dispatch, MqttTaskBegins,
      MqttTaskSteps, nodeVars
<1> QED
  BY <1>6, <1>7 DEF NodeNext

\* Attempts to join the network are never closer than their backoff, for every
\* base, maximum and jitter: it doubles while the link stays down, except where
\* the uptime wraps meanwhile.
THEOREM AttemptsStaySpaced == NodeSpec => AttemptsSpaced
<1>1. NodeInit => NodeInv /\ WiFiSpaced
  <2> SUFFICES ASSUME NodeInit PROVE WiFiSpaced
    BY NodeInitSound
  <2>1. 1 \in Nat \ {0}
    OBVIOUS
  <2>2. DoubledWait(WiFiRetryBase, WiFiRetryMax, 1) = WiFiRetryBase
    BY <2>1, WaitsDouble, WiFiConstants
  <2> QED
    BY <2>2 DEF NodeInit, WiFi!Init, WiFiSpaced
<1>2. NodeInv /\ WiFiSpaced /\ [NodeNext]_nodeVars =>
        [ (wifiPc = "retry" /\ wifiPc' = "connect" /\ triedAt # -1
           /\ triedAt + WiFi!Backoff(tries) + WiFiRetryJitter < Wrap)
          => WiFi!Minus(lastPoll, triedAt) >= WiFi!Backoff(tries) ]_(WiFi!vars)
  <2> SUFFICES ASSUME NodeInv, WiFiSpaced, [NodeNext]_nodeVars,
                      wifiPc = "retry", wifiPc' = "connect", triedAt # -1,
                      triedAt + WiFi!Backoff(tries) + WiFiRetryJitter < Wrap
               PROVE  WiFi!Minus(lastPoll, triedAt) >= WiFi!Backoff(tries)
    OBVIOUS
  <2>1. WiFi!CallConnectStep
    BY DEF NodeNext, nodeVars, wifiVars, SiteChanges, LinkComesUp, LinkLost, SessionLost, TimePasses,
       Dispatch, RestartWiFi, WiFi!Begin, WiFiTaskBegins, WiFi!PollUp, WiFi!PollDown, WiFi!Due,
       WiFiTaskSteps, DisconnectWiFi, WiFi!DisconnectReturns, ConnectWiFi, WiFi!ConnectReturns,
       WiFi!NotifyReturns, WiFi!NoConnect, MqttTaskBegins, MqttTaskSteps
  <2>2. nextRetry = 0 \/ ~(lastPoll < nextRetry)
    BY <2>1 DEF WiFi!CallConnectStep, WiFi!Deferred
  <2>3. tries \in 0 .. WiFiRetryMax /\ lastPoll \in WiFi!Time /\ triedAt \in WiFi!Time
    BY DEF NodeInv, Maintained, WiFi!TypeOK
  <2>4. PICK b \in Nat : b = WiFi!Backoff(tries)
                         /\ b = DoubledWait(WiFiRetryBase, WiFiRetryMax, tries)
    <3>1. CASE WiFiRetryMax = 0
      BY <3>1, SameWaits, WiFiConstants DEF DoubledWait
    <3>2. CASE WiFiRetryMax # 0
      <4>1. tries \in Nat \ {0}
        BY <2>3, <3>2, WiFiConstants DEF WiFiSpaced
      <4> QED
        BY <4>1, SameWaits, WaitsDouble, WiFiConstants
    <3> QED
      BY <3>1, <3>2
  <2>5. PICK jitter \in 0 .. WiFiRetryJitter : nextRetry = WiFi!Plus(triedAt, b + jitter)
    BY <2>4 DEF WiFiSpaced, WiFiPlanned
  <2> QED
    BY <2>2, <2>3, <2>4, <2>5, KeptApart, Constants, WiFiConstants
    DEF WiFi!Plus, WiFi!Minus, WiFi!Time
<1> QED
  BY <1>1, <1>2, NodeStep, WiFiSpacedStep, PTL DEF NodeSpec, AttemptsSpaced, WiFi!AttemptsSpaced

-------------------------------------------------------------------------------
(* The pump in the node.                                                   *)

\* What the pump's own module excludes, a session that outlives the network
\* below it, leaves its queue, its backoff and its control alone; what else the
\* node does is a step of the pump, which enqueues between its ticks.
LEMMA PumpOrElsewhere ==
  ASSUME NodeInv, [NodeNext]_nodeVars
  PROVE  \/ UNCHANGED <<queue, link, backoff, lastLoop, ticked, now, pc>>
         \/ /\ [Next]_vars
            /\ \A m \in Messages, g \in Grants : Enqueue(m, g) => pc # "publish"
<1>1. CASE SiteChanges \/ LinkComesUp \/ LinkLost \/ SessionLost \/ UNCHANGED nodeVars
  BY <1>1 DEF SiteChanges, LinkComesUp, LinkLost, SessionLost, vars, timing, pumpVars, nodeVars
<1>2. CASE WiFiTaskBegins \/ WiFiTaskSteps \/ RestartWiFi
  BY <1>2 DEF WiFiTaskBegins, WiFiTaskSteps, RestartWiFi, DisconnectWiFi, ConnectWiFi, pumpVars
<1>3. CASE Dispatch
  BY <1>3 DEF Dispatch, Idle, Next, User
<1>4. CASE TimePasses \/ MqttTaskBegins
  BY <1>4 DEF TimePasses, MqttTaskBegins, Idle, Next
<1>5. CASE MqttTaskSteps
  <2>1. Next
    BY <1>5 DEF MqttTaskSteps, Next, Returns
  <2>2. ASSUME NEW m \in Messages, NEW g \in Grants, Enqueue(m, g), pc = "publish"
        PROVE  FALSE
    <3>1. pc' = pc
      BY <2>2 DEF Enqueue
    <3>2. pc' # pc
      BY <1>5, <2>2
      DEF MqttTaskSteps, Body, CannotConnect, CallConnectStep, CallLoopStep, SkipLoopStep,
          NotifyReturns, AnnounceReturns, LoopReturns, PublishSucceeds, PublishGivesUp,
          PublishFails, ConnectSucceeds, ConnectFails, Return
    <3> QED
      BY <3>1, <3>2
  <2> QED
    BY <2>1, <2>2
<1> QED
  BY <1>1, <1>2, <1>3, <1>4, <1>5 DEF NodeNext

\* In the node, too, the pump keeps its promises: telemetry leaves in order and
\* only sent, used up or displaced, and attempts keep the backoff of a failure that
\* schedules one, although a session may outlive its link there.
THEOREM PumpKeepsItsPromises == NodeSpec => ImplementsOutbox /\ BackoffKept
<1> DEFINE Attempt == (/\ Attempting /\ failedAt # -1 /\ ~gaveUp
                       /\ failedAt + Backoff(failures) + RetryJitter < Wrap)
                      => Minus(now, failedAt) >= Backoff(failures)
<1>1. NodeInit => NodeInv /\ Spaced /\ Box!Init
  <2> SUFFICES ASSUME NodeInit PROVE Spaced /\ Box!Init
    BY NodeInitSound
  <2> QED
    BY BoxInit, BackoffStarts DEF NodeInit, Init, Spaced
<1>2. ASSUME NodeInv, Spaced, [NodeNext]_nodeVars
      PROVE  Spaced' /\ [Box!Next]_Box!vars /\ [Attempt]_vars
  <2>1. TypeOK /\ LoopConnected
    BY <1>2 DEF NodeInv, PumpInv
  <2>2. CASE UNCHANGED <<queue, link, backoff, lastLoop, ticked, now, pc>>
    <3>1. Spaced'
      BY <1>2, <2>2, QuietSpaced DEF backoff
    <3>2. Attempt
      BY <2>2 DEF Attempting
    <3> QED
      BY <2>2, <3>1, <3>2 DEF Box!vars
  <2>3. CASE /\ [Next]_vars
             /\ \A m \in Messages, g \in Grants : Enqueue(m, g) => pc # "publish"
    <3>1. Attempt
      BY <1>2, <2>1, <2>3, AttemptedInTime
    <3> QED
      BY <1>2, <2>1, <2>3, <3>1, SpacedStep, BoxStep
  <2> QED
    BY <1>2, <2>2, <2>3, PumpOrElsewhere
<1> QED
  BY <1>1, <1>2, NodeStep, PTL DEF NodeSpec, ImplementsOutbox, Box!Spec, BackoffKept
===============================================================================
