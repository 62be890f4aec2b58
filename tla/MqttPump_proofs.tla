---------------------------- MODULE MqttPump_proofs ----------------------------
(***************************************************************************)
(* Proofs about the MQTT pump: its types, and that it implements Outbox,   *)
(* for every configuration and whatever network and handlers do.           *)
(***************************************************************************)
EXTENDS MqttPumpProps, Doubling_proofs, SequenceTheorems, TLAPS

\* User code does not enqueue from the publish step.
PublishStepQuiet == "publish" \notin EnqueueFrom

-------------------------------------------------------------------------------
(* Times and queues.                                                       *)

LEMMA TimesAdd ==
  ASSUME NEW s \in Int, NEW d \in Int
  PROVE  Plus(s, d) \in Time
<1>1. Wrap \in Nat /\ Wrap > 0
  BY MqttPumpAssumption
<1> DEFINE x == s + d
<1>2. x \in Int
  OBVIOUS
<1> HIDE DEF x
<1>3. x % Wrap \in 0 .. Wrap - 1
  BY <1>1, <1>2
<1> QED
  BY <1>3 DEF Plus, Time, x

LEMMA Constants ==
  /\ Wrap \in Nat \ {0} /\ Capacity \in 1 .. 255
  /\ RetryBase \in Nat /\ RetryMax \in Nat /\ RetryJitter \in Nat
  /\ Grants \subseteq 0 .. 255
  /\ 0 \in Time
BY MqttPumpAssumption DEF Time

\* The next wait is a natural number, like the last one.
LEMMA BackoffTyped ==
  ASSUME TypeOK, NEW jitter \in 0 .. RetryJitter, ScheduleBackoff(jitter)
  PROVE  pendingRetry' \in Time /\ retryMs' \in Nat /\ failedAt' \in Time \cup {-1}
         /\ failures' \in 0 .. RetryMax
<1>1. now \in Time /\ retryMs \in Nat /\ failures \in 0 .. RetryMax
  BY DEF TypeOK
<1>2. Wait \in Nat
  BY <1>1, Constants DEF Wait
<1>3. Plus(now, Wait + jitter) \in Time
  <2>1. now \in Int /\ Wait + jitter \in Int
    BY <1>1, <1>2, Constants DEF Time
  <2> QED
    BY <2>1, TimesAdd
<1>4. Doubled(Wait) \in Nat
  BY <1>2, Constants DEF Doubled
<1>5. failures' \in 0 .. RetryMax
  BY <1>1, Constants DEF ScheduleBackoff
<1> QED
  BY <1>1, <1>3, <1>4, <1>5 DEF ScheduleBackoff

\* What the two ways of accepting a message make of the queue.
LEMMA Accepted ==
  ASSUME NEW q \in Seq(Entry), Len(q) <= Capacity, NEW e \in Entry
  PROVE  /\ Len(q) < Capacity =>
              Append(q, e) \in Seq(Entry) /\ Len(Append(q, e)) <= Capacity /\ Append(q, e) # <<>>
         /\ Len(q) = Capacity =>
              /\ Append(Tail(q), e) \in Seq(Entry) /\ Len(Append(Tail(q), e)) <= Capacity
              /\ Append(Tail(q), e) # <<>>
<1>1. Len(q) \in Nat /\ Capacity \in Nat /\ Capacity > 0
  BY LenProperties, Constants
<1>2. /\ Append(q, e) \in Seq(Entry) /\ Len(Append(q, e)) = Len(q) + 1
      /\ Append(q, e) # <<>>
  BY AppendProperties
<1>3. ASSUME Len(q) = Capacity
      PROVE  /\ Append(Tail(q), e) \in Seq(Entry) /\ Len(Append(Tail(q), e)) = Capacity
             /\ Append(Tail(q), e) # <<>>
  <2>1. q # <<>>
    BY <1>1, <1>3, EmptySeq
  <2>2. Tail(q) \in Seq(Entry) /\ Len(Tail(q)) = Len(q) - 1
    BY <2>1, HeadTailProperties
  <2>3. /\ Append(Tail(q), e) \in Seq(Entry) /\ Len(Append(Tail(q), e)) = Len(Tail(q)) + 1
        /\ Append(Tail(q), e) # <<>>
    BY <2>2, AppendProperties
  <2> QED
    BY <1>1, <1>3, <2>2, <2>3
<1> QED
  BY <1>1, <1>2, <1>3

\* The queue without its first message, or with one retry less for it.
LEMMA Served ==
  ASSUME NEW q \in Seq(Entry), Len(q) <= Capacity, q # <<>>
  PROVE  /\ Tail(q) \in Seq(Entry) /\ Len(Tail(q)) <= Capacity
         /\ Head(q) \in Entry /\ Head(q) = q[1]
         /\ Head(q).retries > 0 =>
              /\ [q EXCEPT ![1].retries = @ - 1] \in Seq(Entry)
              /\ Len([q EXCEPT ![1].retries = @ - 1]) <= Capacity
<1>1. Len(q) \in Nat /\ Len(q) > 0 /\ q \in [1 .. Len(q) -> Entry] /\ Capacity \in Nat
  BY LenProperties, EmptySeq, Constants
<1>2. /\ Tail(q) \in Seq(Entry) /\ Len(Tail(q)) = Len(q) - 1
      /\ Head(q) \in Entry /\ Head(q) = q[1]
  BY HeadTailProperties
<1>3. ASSUME Head(q).retries > 0
      PROVE  /\ [q EXCEPT ![1].retries = @ - 1] \in Seq(Entry)
             /\ Len([q EXCEPT ![1].retries = @ - 1]) <= Capacity
  <2> DEFINE e == [q[1] EXCEPT !.retries = @ - 1]
  <2>1. q[1] \in Entry /\ q[1].retries > 0
    BY <1>2, <1>3
  <2>2. q[1].retries - 1 \in 0 .. 255
    BY <2>1 DEF Entry
  <2>3. e \in Entry
    BY <2>1, <2>2 DEF Entry
  <2>4. [q EXCEPT ![1].retries = @ - 1] = [q EXCEPT ![1] = e]
    OBVIOUS
  <2> HIDE DEF e
  <2>5. [q EXCEPT ![1] = e] \in [1 .. Len(q) -> Entry]
    BY <1>1, <2>3
  <2>6. [q EXCEPT ![1] = e] \in Seq(Entry) /\ Len([q EXCEPT ![1] = e]) = Len(q)
    BY <1>1, <2>5
  <2> QED
    BY <2>4, <2>6
<1> QED
  BY <1>1, <1>2, <1>3

-------------------------------------------------------------------------------
(* Types.                                                                  *)

LEMMA TypeInit == Init => TypeOK
<1> SUFFICES ASSUME Init PROVE TypeOK
  OBVIOUS
<1>1. queue \in Seq(Entry) /\ Len(queue) <= Capacity
  BY EmptySeq, Constants DEF Init
<1>2. retryMs \in Nat /\ failures \in 0 .. RetryMax /\ failedAt \in Time \cup {-1}
  BY Constants DEF Init
<1>3. {session, transport, connected, observed, ticked} \subseteq BOOLEAN /\ observed = connected
  BY DEF Init
<1>4. {pendingRetry, lastLoop, clock, now} \subseteq Time
  BY Constants DEF Init
<1> QED
  BY <1>1, <1>2, <1>3, <1>4 DEF Init, TypeOK

\* The steps that leave queue and backoff alone.
QuietStep ==
  \/ SessionChanges \/ TransportChanges \/ Elapse \/ TickBegins \/ NotifyReturns
  \/ CannotConnect \/ CallConnectStep \/ CallLoopStep \/ AnnounceReturns

LEMMA AnnounceTyped ==
  ASSUME NEW up \in BOOLEAN, NEW after \in {"user", "body"}, NEW calling \in {"notify", "announce"},
         Announce(up, after, calling)
  PROVE  /\ connected' = up /\ observed' = up
         /\ pc' \in {"user", "body", "notify", "announce"}
BY DEF Announce

LEMMA QuietTyped ==
  ASSUME TypeOK, QuietStep
  PROVE  TypeOK'
<1> USE DEF TypeOK
<1>1. CASE SessionChanges
  BY <1>1 DEF SessionChanges, link, backoff, timing
<1>2. CASE TransportChanges
  BY <1>2 DEF TransportChanges, link, backoff, timing
<1>3. CASE Elapse
  <2>1. clock' \in Time
    BY <1>3, TimesAdd DEF Elapse, Time
  <2> QED
    BY <1>3, <2>1 DEF Elapse, network, link, backoff
<1>4. CASE TickBegins
  <2>1. /\ connected' = session /\ observed' = session
        /\ pc' \in {"user", "body", "notify", "announce"}
    BY <1>4, AnnounceTyped DEF TickBegins
  <2> QED
    BY <1>4, <2>1 DEF TickBegins, network, backoff, Callbacks
<1>5. CASE NotifyReturns
  BY <1>5 DEF NotifyReturns, network, link, backoff, timing
<1>6. CASE CannotConnect
  BY <1>6 DEF CannotConnect, Return, network, link, backoff, timing
<1>7. CASE CallConnectStep
  BY <1>7 DEF CallConnectStep, network, link, backoff, timing, Callbacks
<1>8. CASE CallLoopStep
  BY <1>8 DEF CallLoopStep, network, link, backoff, timing, Callbacks
<1>9. CASE AnnounceReturns
  BY <1>9 DEF AnnounceReturns, Return, network, link, backoff, timing
<1> QED
  BY <1>1, <1>2, <1>3, <1>4, <1>5, <1>6, <1>7, <1>8, <1>9 DEF QuietStep

LEMMA EnqueueTyped ==
  ASSUME TypeOK, NEW m \in Messages, NEW g \in Grants, Enqueue(m, g)
  PROVE  TypeOK'
<1>1. [id |-> m, retries |-> g] \in Entry
  BY Constants DEF Entry
<1>2. queue' \in Seq(Entry) /\ Len(queue') <= Capacity /\ queue' # <<>>
  BY <1>1, Accepted DEF Enqueue, TypeOK
<1> QED
  BY <1>2 DEF Enqueue, TypeOK, network, link, backoff, timing

LEMMA SendTyped ==
  ASSUME TypeOK, Send, connected, UNCHANGED <<network, queue, link, timing>>, lastLoop' \in Time
  PROVE  TypeOK' /\ (pc' = "publish" => queue # <<>>)
<1>1. CASE Deferred \/ queue = <<>>
  BY <1>1 DEF Send, TypeOK, network, link, backoff, timing
<1>2. CASE ~(Deferred \/ queue = <<>>)
  BY <1>2, Constants DEF Send, TypeOK, network, link, timing, Callbacks
<1> QED
  BY <1>1, <1>2

\* A pump whose loop step runs is connected.
LoopConnected == pc = "loop" => connected

LEMMA TypeStep ==
  ASSUME TypeOK, LoopConnected, [Next]_vars
  PROVE  TypeOK' /\ LoopConnected'
<1>1. ASSUME NEW m \in Messages, NEW g \in Grants, Enqueue(m, g)
      PROVE  TypeOK' /\ LoopConnected'
  BY <1>1, EnqueueTyped DEF Enqueue, LoopConnected, link
<1>2. CASE Restart
  <2>1. queue' \in Seq(Entry) /\ Len(queue') <= Capacity
    BY <1>2, EmptySeq, Constants DEF Restart
  <2>2. retryMs' \in Nat /\ failures' \in 0 .. RetryMax /\ failedAt' \in Time \cup {-1}
    BY <1>2, Constants DEF Restart
  <2> QED
    BY <1>2, <2>1, <2>2, Constants DEF Restart, TypeOK, LoopConnected, network
<1>3. CASE QuietStep
  <2>1. TypeOK'
    BY <1>3, QuietTyped
  <2>2. LoopConnected'
    BY <1>3 DEF QuietStep, LoopConnected, SessionChanges, TransportChanges, Elapse, TickBegins,
       Announce, NotifyReturns, CannotConnect, CallConnectStep, CallLoopStep, AnnounceReturns,
       Return, link
  <2> QED
    BY <2>1, <2>2
<1>4. CASE ConnectSucceeds
  <2>1. connected' = TRUE /\ observed' = TRUE /\ pc' \in {"user", "body", "notify", "announce"}
    BY <1>4, AnnounceTyped DEF ConnectSucceeds
  <2>2. /\ queue' \in Seq(Entry) /\ Len(queue') <= Capacity
        /\ {pendingRetry', lastLoop', clock', now'} \subseteq Time
        /\ retryMs' \in Nat /\ failedAt' \in Time \cup {-1} /\ failures' \in 0 .. RetryMax
    BY <1>4, Constants DEF ConnectSucceeds, TypeOK, timing
  <2>3. session' = TRUE /\ transport' = transport /\ ticked' = ticked /\ gaveUp' = FALSE
    BY <1>4 DEF ConnectSucceeds, timing
  <2>4. TypeOK'
    BY <2>1, <2>2, <2>3 DEF TypeOK, Callbacks
  <2> QED
    BY <2>1, <2>4 DEF LoopConnected
<1>5. CASE ConnectFails
  <2>1. /\ pendingRetry' \in Time /\ retryMs' \in Nat /\ failedAt' \in Time \cup {-1}
        /\ failures' \in 0 .. RetryMax
    BY <1>5, BackoffTyped DEF ConnectFails
  <2>2. UNCHANGED <<session, transport, queue, connected, observed, lastLoop, ticked, clock, now>>
        /\ pc' = "user" /\ gaveUp' = FALSE
    BY <1>5 DEF ConnectFails, ScheduleBackoff, network, link, timing
  <2> QED
    BY <2>1, <2>2 DEF TypeOK, LoopConnected
<1>6. CASE SkipLoopStep
  <2>1. TypeOK'
    BY <1>6, SendTyped DEF SkipLoopStep, TypeOK
  <2> QED
    BY <1>6, <2>1 DEF SkipLoopStep, LoopConnected, Send
<1>7. CASE LoopReturns
  <2>1. TypeOK'
    BY <1>7, SendTyped DEF LoopReturns, LoopConnected, TypeOK
  <2> QED
    BY <1>7, <2>1 DEF LoopReturns, LoopConnected, Send
<1>8. CASE PublishSucceeds \/ PublishGivesUp
  <2>1. queue' \in Seq(Entry) /\ Len(queue') <= Capacity
    BY <1>8, Served DEF PublishSucceeds, PublishGivesUp, TypeOK
  <2> QED
    BY <1>8, <2>1 DEF PublishSucceeds, PublishGivesUp, TypeOK, LoopConnected, network, link, timing
<1>9. CASE PublishFails
  <2>1. queue' \in Seq(Entry) /\ Len(queue') <= Capacity
    BY <1>9, Served DEF PublishFails, TypeOK
  <2>2. /\ pendingRetry' \in Time /\ retryMs' \in Nat /\ failedAt' \in Time \cup {-1}
        /\ failures' \in 0 .. RetryMax
    BY <1>9, BackoffTyped DEF PublishFails
  <2>3. UNCHANGED <<session, transport, connected, observed, lastLoop, ticked, clock, now>>
        /\ pc' = "user" /\ gaveUp' = FALSE
    BY <1>9 DEF PublishFails, ScheduleBackoff, network, link, timing
  <2> QED
    BY <2>1, <2>2, <2>3 DEF TypeOK, LoopConnected
<1>10. CASE UNCHANGED vars
  BY <1>10 DEF vars, TypeOK, LoopConnected, network, link, backoff, timing
<1> QED
  BY <1>1, <1>2, <1>3, <1>4, <1>5, <1>6, <1>7, <1>8, <1>9, <1>10
  DEF Next, User, Body, Returns, QuietStep

\* The queue stays within its capacity, and only a pump that has seen a
\* connection offers a message to the transport, for every configuration.
THEOREM TypeCorrect == Spec => []TypeOK
<1>1. Init => TypeOK /\ LoopConnected
  BY TypeInit DEF Init, LoopConnected
<1> QED
  BY <1>1, TypeStep, PTL DEF Spec

LEMMA AnnouncedStep ==
  ASSUME TypeOK, [Next]_vars, connected' # connected, HasStateTopic, ~Restart
  PROVE  pc' \in {"notify", "announce"}
<1>1. observed = connected
  BY DEF TypeOK
<1>2. TickBegins \/ ConnectSucceeds
  BY DEF Next, User, Body, Returns, vars, link, SessionChanges, TransportChanges, Enqueue, Elapse,
     CannotConnect, CallConnectStep, CallLoopStep, SkipLoopStep, NotifyReturns, AnnounceReturns,
     LoopReturns, ConnectFails, PublishSucceeds, PublishGivesUp, PublishFails, Return
<1>3. ASSUME NEW up, NEW after, Announce(up, after, "notify") \/ Announce(up, after, "announce")
      PROVE  pc' \in {"notify", "announce"}
  <2>1. up # observed
    BY <1>1, <1>3 DEF Announce
  <2> QED
    BY <1>3, <2>1 DEF Announce
<1> QED
  BY <1>2, <1>3 DEF TickBegins, ConnectSucceeds

\* Every change of the connection the pump acts on is announced at once, unless
\* the pump is restarted.
THEOREM EachChangeAnnounced == Spec => ChangesAnnounced
<1>1. TypeOK /\ [Next]_vars =>
        [ (connected' # connected /\ HasStateTopic)
            => pc' \in {"notify", "announce"} \/ Restart ]_vars
  BY AnnouncedStep
<1> QED
  BY <1>1, TypeCorrect, PTL DEF Spec, ChangesAnnounced

-------------------------------------------------------------------------------
(* The refinement.                                                         *)

LEMMA BoxInit == Init => Box!Init
BY DEF Init, Box!Init

\* Every step of the pump is one of the outbox, or none, if it enqueues nothing
\* while a message is being sent.
LEMMA BoxStep ==
  ASSUME TypeOK, LoopConnected, [Next]_vars,
         \A m \in Messages, g \in Grants : Enqueue(m, g) => pc # "publish"
  PROVE  [Box!Next]_Box!vars
<1>1. ASSUME NEW m \in Messages, NEW g \in Grants, Enqueue(m, g)
      PROVE  Box!Accept(m, g)
  <2>1. pc # "publish" /\ pc' = pc
    BY <1>1 DEF Enqueue
  <2>2. ~Box!Boxed(m)
    BY <1>1 DEF Enqueue, Waiting, Box!Boxed
  <2> QED
    BY <1>1, <2>1, <2>2 DEF Enqueue, Box!Accept
<1>2. CASE Restart
  BY <1>2 DEF Restart, Box!Next, Box!Empty
<1>3. CASE QuietStep
  <2>1. /\ queue' = queue
        /\ (pc' = "publish") = (pc = "publish")
    BY <1>3 DEF QuietStep, SessionChanges, TransportChanges, Elapse, TickBegins, Announce,
       NotifyReturns, CannotConnect, CallConnectStep, CallLoopStep, AnnounceReturns, Return
  <2> QED
    BY <2>1 DEF Box!vars
<1>4. CASE ConnectSucceeds \/ ConnectFails
  <2>1. queue' = queue /\ pc # "publish" /\ pc' # "publish"
    BY <1>4 DEF ConnectSucceeds, ConnectFails, Announce
  <2> QED
    BY <2>1 DEF Box!vars
<1>5. CASE SkipLoopStep \/ LoopReturns
  <2>1. queue' = queue /\ pc # "publish" /\ (pc' = "publish" => queue # <<>>)
    BY <1>5 DEF SkipLoopStep, LoopReturns, Send
  <2> QED
    BY <2>1 DEF Box!vars, Box!Next, Box!Try
<1>6. CASE PublishSucceeds \/ PublishGivesUp
  <2>1. queue' = Tail(queue) /\ pc = "publish" /\ pc' # "publish"
    BY <1>6 DEF PublishSucceeds, PublishGivesUp
  <2> QED
    BY <2>1 DEF Box!Next, Box!Sent
<1>7. CASE PublishFails
  <2>1. /\ pc = "publish" /\ pc' # "publish" /\ Head(queue).retries > 0
        /\ queue' = [queue EXCEPT ![1].retries = @ - 1]
    BY <1>7 DEF PublishFails
  <2>2. Head(queue).retries # 0
    BY <2>1
  <2> QED
    BY <2>1, <2>2 DEF Box!Next, Box!Failed
<1>8. CASE UNCHANGED vars
  BY <1>8 DEF vars, Box!vars
<1> QED
  BY <1>1, <1>2, <1>3, <1>4, <1>5, <1>6, <1>7, <1>8
  DEF Next, User, Body, Returns, QuietStep, Box!Next

\* Accepted messages are tried in order, one at a time, and leave sent, used up
\* or displaced while they wait, whatever the network, the callbacks and the
\* handlers do, unless the publish step itself enqueues.
THEOREM PumpImplementsOutbox ==
  ASSUME PublishStepQuiet
  PROVE  Spec => ImplementsOutbox
<1>1. Init => TypeOK /\ LoopConnected
  BY TypeInit DEF Init, LoopConnected
<1>2. TypeOK /\ LoopConnected /\ [Next]_vars => [Box!Next]_Box!vars
  <2>1. \A m \in Messages, g \in Grants : Enqueue(m, g) => pc # "publish"
    BY DEF Enqueue, PublishStepQuiet
  <2> QED
    BY <2>1, BoxStep
<1> QED
  BY <1>1, <1>2, BoxInit, TypeStep, PTL DEF Spec, ImplementsOutbox, Box!Spec

-------------------------------------------------------------------------------
(* The backoff.                                                            *)

\* The next wait is the one the number of failures stands for, and the next
\* attempt is planned that long, and a jitter, after the last failure, unless that
\* one gave a message up.  While a publication is tried nothing is planned: its
\* end plans, gives up, or succeeds.
Planned ==
  \E jitter \in 0 .. RetryJitter : pendingRetry = Plus(failedAt, Backoff(failures) + jitter)
Spaced ==
  /\ retryMs = Backoff(failures + 1)
  /\ (failedAt # -1 /\ ~gaveUp) => failures > 0 \/ RetryMax = 0
  /\ (failedAt # -1 /\ ~gaveUp /\ pc # "publish") => Planned

LEMMA BackoffStarts == Backoff(1) = RetryBase
<1>1. 1 \in Nat \ {0}
  OBVIOUS
<1> QED
  BY <1>1, WaitsDouble, Constants DEF Backoff

LEMMA ScheduleSpaced ==
  ASSUME TypeOK, Spaced, NEW jitter \in 0 .. RetryJitter, ScheduleBackoff(jitter)
  PROVE  Spaced'
<1>1. failures \in 0 .. RetryMax /\ RetryBase \in Nat /\ RetryMax \in Nat
  BY Constants DEF TypeOK
<1>2. retryMs = DoubledWait(RetryBase, RetryMax, failures + 1)
  BY DEF Spaced, Backoff
<1>3. failures' = UpTo(failures, RetryMax)
  BY DEF ScheduleBackoff, UpTo
<1>4. /\ failures' > 0 \/ RetryMax = 0
      /\ retryMs = 0 => RetryBase = 0
      /\ DoubledWait(RetryBase, RetryMax, failures') = retryMs
      /\ DoubledWait(RetryBase, RetryMax, failures' + 1) = OnceMore(retryMs, RetryMax)
  BY <1>1, <1>2, <1>3, NextWait
<1>5. Wait = retryMs /\ Doubled(retryMs) = OnceMore(retryMs, RetryMax)
  BY <1>4 DEF Wait, Doubled, OnceMore
<1>6. retryMs' = Backoff(failures' + 1)
  BY <1>4, <1>5 DEF ScheduleBackoff, Backoff
<1>7. pendingRetry' = Plus(failedAt', Backoff(failures') + jitter)
  BY <1>4, <1>5 DEF ScheduleBackoff, Backoff
<1> QED
  BY <1>4, <1>6, <1>7 DEF Spaced, Planned

\* Steps that plan nothing.
LEMMA QuietSpaced ==
  ASSUME Spaced, UNCHANGED <<retryMs, failures>>,
         \/ failedAt' = -1 \/ gaveUp'
         \/ UNCHANGED <<failedAt, gaveUp>> /\ pc' = "publish"
         \/ UNCHANGED <<failedAt, gaveUp, pendingRetry>> /\ pc # "publish"
         \/ UNCHANGED <<failedAt, gaveUp, pendingRetry, pc>>
  PROVE  Spaced'
BY DEF Spaced, Planned

LEMMA SendSpaced ==
  ASSUME Spaced, Send, pc # "publish"
  PROVE  Spaced'
<1>1. CASE Deferred \/ queue = <<>>
  BY <1>1, QuietSpaced DEF Send, backoff
<1>2. CASE ~(Deferred \/ queue = <<>>)
  BY <1>2, QuietSpaced DEF Send
<1> QED
  BY <1>1, <1>2

LEMMA SpacedStep ==
  ASSUME TypeOK, Spaced, [Next]_vars
  PROVE  Spaced'
<1>1. ASSUME NEW m \in Messages, NEW g \in Grants, Enqueue(m, g) PROVE Spaced'
  BY <1>1, QuietSpaced DEF Enqueue, backoff
<1>2. CASE Restart \/ ConnectSucceeds
  <2>1. retryMs' = RetryBase /\ failedAt' = -1 /\ failures' = 0
    BY <1>2 DEF Restart, ConnectSucceeds
  <2> QED
    BY <2>1, BackoffStarts DEF Spaced
<1>3. CASE SessionChanges \/ TransportChanges \/ Elapse \/ UNCHANGED vars
  BY <1>3, QuietSpaced DEF SessionChanges, TransportChanges, Elapse, vars, backoff
<1>4. CASE TickBegins \/ NotifyReturns \/ AnnounceReturns \/ CannotConnect
           \/ CallConnectStep \/ CallLoopStep
  BY <1>4, QuietSpaced
  DEF TickBegins, NotifyReturns, AnnounceReturns, CannotConnect, CallConnectStep, CallLoopStep,
      Return, backoff
<1>5. CASE SkipLoopStep \/ LoopReturns
  BY <1>5, SendSpaced DEF SkipLoopStep, LoopReturns
<1>6. CASE ConnectFails \/ PublishFails
  BY <1>6, ScheduleSpaced DEF ConnectFails, PublishFails
<1>7. CASE PublishSucceeds \/ PublishGivesUp
  BY <1>7, QuietSpaced DEF PublishSucceeds, PublishGivesUp
<1> QED
  BY <1>1, <1>2, <1>3, <1>4, <1>5, <1>6, <1>7 DEF Next, User, Body, Returns

\* A connection is tried, or a publication, only when nothing defers it.
LEMMA AttemptedInTime ==
  ASSUME TypeOK, Spaced, [Next]_vars, Attempting, failedAt # -1,
         ~gaveUp, failedAt + Backoff(failures) + RetryJitter < Wrap
  PROVE  Minus(now, failedAt) >= Backoff(failures)
<1>1. CallConnectStep \/ SkipLoopStep \/ LoopReturns
  BY DEF Attempting, Next, vars, User, Enqueue, Restart, SessionChanges, TransportChanges, Elapse,
     TickBegins, Announce, NotifyReturns, AnnounceReturns, Body, CannotConnect, CallLoopStep,
     Return, Returns, ConnectSucceeds, ConnectFails, PublishSucceeds, PublishGivesUp, PublishFails
<1>2. ~Deferred /\ pc # "publish"
  BY <1>1 DEF CallConnectStep, SkipLoopStep, LoopReturns, Send, Attempting
<1>3. pendingRetry = 0 \/ ~(now < pendingRetry)
  BY <1>2 DEF Deferred
<1>4. failures + 1 \in Nat \ {0} /\ failures \in 0 .. RetryMax
  BY Constants DEF TypeOK
<1>5. PICK b \in Nat : b = Backoff(failures)
  <2>1. CASE RetryMax = 0
    BY <1>4, <2>1, Constants DEF Backoff, DoubledWait
  <2>2. CASE RetryMax # 0
    <3>1. failures \in Nat \ {0}
      BY <1>4, <2>2, Constants DEF Spaced
    <3> QED
      BY <3>1, WaitsDouble, Constants DEF Backoff
  <2> QED
    BY <2>1, <2>2
<1>6. PICK jitter \in 0 .. RetryJitter : pendingRetry = Plus(failedAt, b + jitter)
  BY <1>2, <1>5 DEF Spaced, Planned
<1>7. now \in Time /\ failedAt \in Time
  BY DEF TypeOK
<1> QED
  BY <1>3, <1>5, <1>6, <1>7, KeptApart, Constants DEF Plus, Minus, Time

\* After a failed connection, or a failed publication that is to be retried,
\* neither is tried before the backoff of that failure, for every base, maximum
\* and jitter: the waits double until the pump connects, except where the uptime
\* wraps meanwhile.  A failure on a message's last try has no backoff in the code,
\* and none is claimed for it.
THEOREM BackoffAlwaysKept == Spec => BackoffKept
<1>1. Init => TypeOK /\ LoopConnected /\ Spaced
  <2>1. Init => Spaced
    BY BackoffStarts DEF Init, Spaced
  <2> QED
    BY <2>1, TypeInit DEF Init, LoopConnected
<1>2. TypeOK /\ Spaced /\ [Next]_vars =>
        [ (/\ Attempting /\ failedAt # -1 /\ ~gaveUp
           /\ failedAt + Backoff(failures) + RetryJitter < Wrap)
          => Minus(now, failedAt) >= Backoff(failures) ]_vars
  BY AttemptedInTime
<1> QED
  BY <1>1, <1>2, TypeStep, SpacedStep, PTL DEF Spec, BackoffKept
===============================================================================
