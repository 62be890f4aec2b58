------------------------------- MODULE MqttPump -------------------------------
(***************************************************************************)
(* The cooperative MQTT pump: a bounded queue of messages, a connection it *)
(* establishes and watches, one publication per tick, and one backoff that *)
(* serves failed connections and failed publications alike.  tick() runs   *)
(* in steps that end where user code runs: the connect, loop and publish   *)
(* steps and the subscribers of the state topic.                           *)
(*                                                                         *)
(* session is what linkProbe_ answers and transport what transportProbe_   *)
(* answers; both change behind the pump's back.  Times are counted modulo  *)
(* Wrap.  User code does not restart the pump from its own callbacks.      *)
(***************************************************************************)
EXTENDS Integers, Sequences

CONSTANTS
  Messages,          \* what user code publishes
  Capacity,          \* kQueueCapacity
  Wrap,              \* the modulus of times
  HasTransportProbe, \* transportProbe_ is not NULL
  HasLoopStep,       \* loopStep_ is not NULL
  HasStateTopic,     \* Config: stateTopicKey is not 0
  Poll,              \* Config: pollIntervalMs
  RetryBase, RetryMax, RetryJitter,   \* Config: retryBaseMs, ...
  IdleLoop,          \* Config: idleLoopIntervalMs
  Grants,            \* the retries an accepted message starts with
  DropOldest,        \* Config: dropOldestOnFull
  QueueWhenDown,     \* Config: queueWhenTransportDown
  EnqueueFrom,       \* where user code enqueues: values of pc
  MaxIdle            \* bound: time between two ticks

Time == 0 .. Wrap - 1
Callbacks == {"notify", "connect", "announce", "loop", "publish"}

ASSUME MqttPumpAssumption ==
  /\ Capacity \in 1 .. 255
  /\ Wrap \in Nat \ {0}
  /\ {HasTransportProbe, HasLoopStep, HasStateTopic, DropOldest, QueueWhenDown} \subseteq BOOLEAN
  /\ {Poll, RetryBase, RetryMax, RetryJitter, IdleLoop, MaxIdle} \subseteq Nat
  /\ Grants \subseteq 0 .. 255
  /\ EnqueueFrom \subseteq Callbacks \cup {"user"}

VARIABLES
  session,      \* linkProbe_(): the broker connection is up
  transport,    \* transportProbe_(): the network below it is up
  queue,        \* queue_[0 .. queueCount_ - 1]
  connected,    \* connected_
  observed,     \* lastObservedConnected_
  pendingRetry, \* pendingRetryAtMs_; 0 stands for none
  retryMs,      \* currentRetryMs_
  lastLoop,     \* lastLoopAtMs_
  ticked,       \* hasTicked_
  clock,        \* the kernel's uptime
  now,          \* nowMs of the tick in progress, and lastTickAtMs_
  pc,           \* where tick() is; "user" outside
  failedAt,     \* history: when the last attempt failed, -1 if it did not
  gaveUp,       \* history: it was the last try of a message, and nothing was scheduled
  failures      \* history: the backoffs since the pump last connected, up to RetryMax

network == <<session, transport>>
link == <<connected, observed>>
backoff == <<pendingRetry, retryMs, failedAt, gaveUp, failures>>
timing == <<ticked, clock, now>>
vars == <<network, queue, link, backoff, lastLoop, timing, pc>>

Plus(s, t) == (s + t) % Wrap
Minus(s, t) == (s - t) % Wrap
Entry == [id : Messages, retries : 0 .. 255]

-------------------------------------------------------------------------------
(* The network.                                                            *)

\* A session may also open without the pump: the node's Wi-Fi code may do it.
SessionChanges ==
  /\ session' = ~session
  /\ session' => transport
  /\ UNCHANGED <<transport, queue, link, backoff, lastLoop, timing, pc>>

\* A broker connection does not outlive the network below it.
TransportChanges ==
  /\ transport' = ~transport
  /\ session' = (session /\ transport')
  /\ UNCHANGED <<queue, link, backoff, lastLoop, timing, pc>>

-------------------------------------------------------------------------------
(* User code.                                                              *)

Waiting(m) == \E k \in 1 .. Len(queue) : queue[k].id = m

Accepting ==
  QueueWhenDown \/ (IF HasTransportProbe THEN transport ELSE connected \/ session)

\* Mutants: the test of the capacity is off by one; a full queue drops the
\* message that came last.
EnqueuePastCapacity(m, grant) ==
  /\ pc \in EnqueueFrom /\ ~Waiting(m) /\ Accepting
  /\ LET e == [id |-> m, retries |-> grant]
     IN  \/ Len(queue) <= Capacity /\ queue' = Append(queue, e)
         \/ Len(queue) > Capacity /\ DropOldest /\ queue' = Append(Tail(queue), e)
  /\ UNCHANGED <<network, link, backoff, lastLoop, timing, pc>>
EnqueueDroppingNewest(m, grant) ==
  /\ pc \in EnqueueFrom /\ ~Waiting(m) /\ Accepting
  /\ LET e == [id |-> m, retries |-> grant]
     IN  \/ /\ Len(queue) < Capacity
            /\ queue' = Append(queue, e)
         \/ /\ Len(queue) = Capacity /\ DropOldest
            /\ queue' = Append(SubSeq(queue, 1, Len(queue) - 1), e)
  /\ UNCHANGED <<network, link, backoff, lastLoop, timing, pc>>

\* A full queue drops its oldest message, or the call is refused and changes
\* nothing.  User code hands over a message that is not in the queue already.
Enqueue(m, grant) ==
  /\ pc \in EnqueueFrom /\ ~Waiting(m) /\ Accepting
  /\ LET e == [id |-> m, retries |-> grant]
     IN  \/ /\ Len(queue) < Capacity
            /\ queue' = Append(queue, e)
         \/ /\ Len(queue) = Capacity /\ DropOldest
            /\ queue' = Append(Tail(queue), e)
  /\ UNCHANGED <<network, link, backoff, lastLoop, timing, pc>>

\* begin() again.
Restart ==
  /\ pc = "user"
  /\ queue' = <<>>
  /\ connected' = FALSE /\ observed' = FALSE
  /\ pendingRetry' = 0 /\ retryMs' = RetryBase
  /\ failedAt' = -1 /\ gaveUp' = FALSE /\ failures' = 0
  /\ lastLoop' = 0 /\ ticked' = FALSE
  /\ UNCHANGED <<network, clock, now, pc>>

Elapse ==
  /\ pc = "user" /\ Minus(clock, now) < MaxIdle
  /\ clock' = Plus(clock, 1)
  /\ UNCHANGED <<network, queue, link, backoff, lastLoop, ticked, now, pc>>

-------------------------------------------------------------------------------
(* tick().                                                                 *)

\* Mutant: a lost connection is noticed, and not announced.
AnnounceOnlyUp(up, after, calling) ==
  /\ connected' = up
  /\ observed' = (observed \/ up)
  /\ pc' = IF up /\ ~observed /\ HasStateTopic THEN calling ELSE after

\* connected_ = up; notifyStateIfChanged_().
Announce(up, after, calling) ==
  /\ connected' = up /\ observed' = up
  /\ pc' = IF up # observed /\ HasStateTopic THEN calling ELSE after

TickBegins ==
  /\ pc = "user"
  /\ ticked => Minus(clock, now) >= Poll
  /\ ticked' = TRUE /\ now' = clock
  /\ Announce(session, "body", "notify")
  /\ UNCHANGED <<network, queue, backoff, lastLoop, clock>>

NotifyReturns ==
  /\ pc = "notify" /\ pc' = "body"
  /\ UNCHANGED <<network, queue, link, backoff, lastLoop, timing>>

Return == pc' = "user" /\ UNCHANGED <<network, queue, link, backoff, lastLoop, timing>>

\* Mutant: a retry time is never reached.
DeferredForGood == pendingRetry # 0

Deferred == pendingRetry # 0 /\ now < pendingRetry

CannotConnect ==
  /\ pc = "body" /\ ~connected
  /\ (HasTransportProbe /\ ~transport) \/ Deferred
  /\ Return

CallConnectStep ==
  /\ pc = "body" /\ ~connected
  /\ HasTransportProbe => transport
  /\ ~Deferred
  /\ pc' = "connect"
  /\ UNCHANGED <<network, queue, link, backoff, lastLoop, timing>>

\* A connect step that succeeds has opened the session, which may be lost again.
ConnectSucceeds ==
  /\ pc = "connect" /\ transport
  /\ session' = TRUE
  /\ pendingRetry' = 0 /\ retryMs' = RetryBase
  /\ failedAt' = -1 /\ gaveUp' = FALSE /\ failures' = 0
  /\ Announce(TRUE, "user", "announce")
  /\ UNCHANGED <<transport, queue, lastLoop, timing>>

Wait == IF retryMs = 0 THEN RetryBase ELSE retryMs
Doubled(ms) ==
  IF ms >= RetryMax THEN ms ELSE IF ms * 2 > RetryMax THEN RetryMax ELSE ms * 2

\* Mutant: the wait counts from the start of the uptime.
BackoffFromZero(jitter) ==
  /\ pendingRetry' = Wait + jitter
  /\ retryMs' = Doubled(Wait)
  /\ failedAt' = now /\ gaveUp' = FALSE
  /\ failures' = IF failures < RetryMax THEN failures + 1 ELSE failures

\* scheduleBackoff_.
ScheduleBackoff(jitter) ==
  /\ pendingRetry' = Plus(now, Wait + jitter)
  /\ retryMs' = Doubled(Wait)
  /\ failedAt' = now /\ gaveUp' = FALSE
  /\ failures' = IF failures < RetryMax THEN failures + 1 ELSE failures

ConnectFails ==
  /\ pc = "connect" /\ pc' = "user"
  /\ \E jitter \in 0 .. RetryJitter : ScheduleBackoff(jitter)
  /\ UNCHANGED <<network, queue, link, lastLoop, timing>>

AnnounceReturns == pc = "announce" /\ Return

IdleThrottled ==
  queue = <<>> /\ IdleLoop > 0 /\ lastLoop # 0 /\ Minus(now, lastLoop) < IdleLoop

CallLoopStep ==
  /\ pc = "body" /\ connected /\ HasLoopStep /\ ~IdleThrottled
  /\ pc' = "loop"
  /\ UNCHANGED <<network, queue, link, backoff, lastLoop, timing>>

\* The end of the tick: the head of the queue is handed to the publish step.
Send ==
  IF Deferred \/ queue = <<>>
    THEN pc' = "user" /\ UNCHANGED backoff
    ELSE /\ pc' = "publish"
         /\ pendingRetry' = 0
         /\ UNCHANGED <<retryMs, failedAt, gaveUp, failures>>

SkipLoopStep ==
  /\ pc = "body" /\ connected /\ (HasLoopStep => IdleThrottled)
  /\ Send
  /\ UNCHANGED <<network, queue, link, lastLoop, timing>>

\* loopStep_ has returned.
LoopReturns ==
  /\ pc = "loop"
  /\ lastLoop' = now
  /\ Send
  /\ UNCHANGED <<network, queue, link, timing>>

PublishSucceeds ==
  /\ pc = "publish" /\ pc' = "user"
  /\ queue' = Tail(queue)
  /\ failedAt' = -1 /\ gaveUp' = FALSE
  /\ UNCHANGED <<network, link, pendingRetry, retryMs, failures, lastLoop, timing>>

\* A message whose retries are used up is dropped.  Its failure schedules no
\* backoff: the next message may be tried with the next tick.
PublishGivesUp ==
  /\ pc = "publish" /\ pc' = "user"
  /\ Head(queue).retries = 0
  /\ queue' = Tail(queue)
  /\ failedAt' = now /\ gaveUp' = TRUE
  /\ UNCHANGED <<network, link, pendingRetry, retryMs, failures, lastLoop, timing>>

\* Mutant: a failed publication costs no retry.
PublishFailsForFree ==
  /\ pc = "publish" /\ pc' = "user"
  /\ Head(queue).retries > 0
  /\ \E jitter \in 0 .. RetryJitter : ScheduleBackoff(jitter)
  /\ UNCHANGED <<network, queue, link, lastLoop, timing>>

PublishFails ==
  /\ pc = "publish" /\ pc' = "user"
  /\ Head(queue).retries > 0
  /\ queue' = [queue EXCEPT ![1].retries = @ - 1]
  /\ \E jitter \in 0 .. RetryJitter : ScheduleBackoff(jitter)
  /\ UNCHANGED <<network, link, lastLoop, timing>>

Body == CannotConnect \/ CallConnectStep \/ CallLoopStep \/ SkipLoopStep
Returns ==
  \/ NotifyReturns \/ AnnounceReturns \/ LoopReturns
  \/ ConnectSucceeds \/ ConnectFails
  \/ PublishSucceeds \/ PublishGivesUp \/ PublishFails

-------------------------------------------------------------------------------
Init ==
  /\ session = FALSE /\ transport = FALSE
  /\ queue = <<>>
  /\ connected = FALSE /\ observed = FALSE
  /\ pendingRetry = 0 /\ retryMs = RetryBase
  /\ failedAt = -1 /\ gaveUp = FALSE /\ failures = 0
  /\ lastLoop = 0 /\ ticked = FALSE
  /\ clock = 0 /\ now = 0
  /\ pc = "user"

User ==
  \/ \E m \in Messages : \E g \in Grants : Enqueue(m, g)
  \/ Restart

Next == SessionChanges \/ TransportChanges \/ User \/ Elapse \/ TickBegins \/ Body \/ Returns

Spec == Init /\ [][Next]_vars

\* loop() calls tick(), callbacks return, and time passes.
FairSpec ==
  Spec /\ WF_vars(TickBegins) /\ WF_vars(Body) /\ WF_vars(Returns) /\ WF_vars(Elapse)
===============================================================================
