----------------------------- MODULE MqttPumpProps -----------------------------
(***************************************************************************)
(* Properties of the MQTT pump, and its refinement of Outbox.              *)
(***************************************************************************)
EXTENDS MqttPump, Doubling

\* Every variable keeps its type and the queue its capacity, a message is only
\* offered to the transport by a pump that has seen a connection, and what it
\* announced last is what it acts on.
TypeOK ==
  /\ {session, transport, connected, observed, ticked, gaveUp} \subseteq BOOLEAN
  /\ queue \in Seq(Entry) /\ Len(queue) <= Capacity
  /\ {pendingRetry, lastLoop, clock, now} \subseteq Time
  /\ retryMs \in Nat
  /\ failedAt \in Time \cup {-1}
  /\ pc \in Callbacks \cup {"user", "body"}
  /\ failures \in 0 .. RetryMax
  /\ observed = connected
  /\ pc = "publish" => queue # <<>> /\ connected

Box == INSTANCE Outbox WITH
  Room <- Capacity, Displacing <- DropOldest, box <- queue, trying <- (pc = "publish")

\* Whatever the network and the handlers do, messages are tried in order, one
\* at a time, and leave only sent, after 1 + retries failed tries, or displaced
\* while they wait.  It needs a publish step that does not enqueue: see README.
ImplementsOutbox == Box!Spec

\* The k-th wait since the pump last connected, without its jitter.
Backoff(k) == DoubledWait(RetryBase, RetryMax, k)

\* A failed connection, and a failed publication that is to be retried, hold back
\* publications and connection attempts alike, for waits that double until the
\* pump connects: a publication that succeeds in between does not shorten the next
\* wait.  Except across a wrap of the uptime, where the code compares times as
\* numbers.  A failure on a message's last try is not held to this: the code drops
\* the message and schedules nothing, so a queue of such messages is offered to a
\* broker that refuses them one tick after the other.
Attempting == pc' \in {"connect", "publish"} /\ pc' # pc
BackoffKept ==
  [][ (/\ Attempting /\ failedAt # -1 /\ ~gaveUp
         /\ failedAt + Backoff(failures) + RetryJitter < Wrap)
      => Minus(now, failedAt) >= Backoff(failures) ]_vars

\* Every change of the connection the pump acts on is announced to the
\* subscribers of the state topic before anything else happens, also when the
\* session is lost and opened again between two ticks.  Restarting the pump
\* forgets the connection without an announcement.
ChangesAnnounced ==
  [][ (connected' # connected /\ HasStateTopic)
      => pc' \in {"notify", "announce"} \/ Restart ]_vars

\* The retry time is further away than any backoff: the uptime wrapped.
Overlong == Deferred /\ pendingRetry - now > RetryBase + RetryMax + RetryJitter

\* A message that waits leaves, unless the session or the uptime's monotony is
\* lost meanwhile: publications that fail use up their retries, and the idle
\* throttle and the backoff end.
MessagesLeave ==
  \A m \in Messages : Waiting(m) ~> (~Waiting(m) \/ ~session \/ Overlong)
===============================================================================
