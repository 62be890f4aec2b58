---------------------------- MODULE HttpPumpProps ----------------------------
(***************************************************************************)
(* Properties of the HTTP pump, and its refinement of RequestService.      *)
(***************************************************************************)
EXTENDS HttpPump, Doubling

\* Every variable keeps its type, the queue its capacity, and an active
\* request is in a phase.  The last part needs that no callback restarts.
TypeOK ==
  /\ queue \in Seq(Entry) /\ Len(queue) <= Capacity
  /\ active \in BOOLEAN /\ ticked \in BOOLEAN /\ stepped \in BOOLEAN /\ reported \in BOOLEAN
  /\ request \in [id : Requests \cup {NoRequest}, retries : 0 .. 255]
  /\ phase \in Phases \cup {"Idle"}
  /\ retries \in 0 .. 255
  /\ {phaseStarted, nextRetry, clock, now} \subseteq Time
  /\ retryMs \in Nat
  /\ budget \in 0 .. 255
  /\ pc \in {"user", "body", "step", "abort", "complete"}
  /\ active = (phase # "Idle")
  /\ InCallback => active

\* The requests of a queue, and the request being served.
Ids(q) == [k \in 1 .. Len(q) |-> q[k].id]
Serving == IF active THEN request.id ELSE NoRequest

Service ==
  INSTANCE RequestService WITH
    Room <- Capacity,
    Displacing <- DropOldest,
    waiting <- Ids(queue),
    serving <- Serving,
    reported <- reported,
    fresh <- ~ticked

\* Whatever the link, the step callbacks and the completion handlers do,
\* accepted requests are served in order, one at a time, and each served
\* request is reported exactly once, before the next one starts: failures,
\* timeouts and retries neither lose a completion nor repeat one.
ImplementsService == Service!Spec

\* The wait before the k-th retry, without its jitter.
Backoff(k) == DoubledWait(RetryBase, RetryMax, k)

\* The connect step of the k-th retry is called only after the k-th backoff:
\* the waits double up to their maximum, whatever phase failed.  Except across
\* a wrap of the uptime, where the code compares times as numbers.
BackoffKept ==
  [][ (/\ pc = "body" /\ pc' = "step" /\ Connecting /\ retries < request.retries
       /\ phaseStarted + Backoff(request.retries - retries) + RetryJitter < Wrap)
      => Minus(now, phaseStarted) >= Backoff(request.retries - retries) ]_vars

\* The uptime wrapped before a tick saw the time of the next attempt.
RetryMissed == Deferred /\ now < phaseStarted

\* A request in progress ends, although its steps may stay pending for ever
\* and the link may come and go: every phase has a timeout and retries run
\* out.  The code knows two exceptions: a phase that starts at uptime 0 has no
\* timeout, and a retry whose time is just before the wrap may be missed.
ActiveEnds == active ~> (~active \/ phaseStarted = 0 \/ RetryMissed)

\* A retry that is counted as an attempt has its connect step called before
\* it can time out.
AttemptsMade == [][(PhaseTimesOut /\ Connecting) => stepped]_vars
===============================================================================
