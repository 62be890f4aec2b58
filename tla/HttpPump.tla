------------------------------- MODULE HttpPump -------------------------------
(***************************************************************************)
(* The cooperative HTTP pump: a bounded queue of requests and one active   *)
(* request that goes through the phases connect, write, read and close.    *)
(* tick() runs in steps that end where user code runs: the step callbacks, *)
(* the close callback of a failed attempt, and the subscribers of the      *)
(* completion event, which is dispatched synchronously.                    *)
(*                                                                         *)
(* Times are unsigned long milliseconds of uptime in the code; here they   *)
(* are counted modulo Wrap.  The link probe answers anything in Links at   *)
(* each call.  The jitter of a backoff is any value the code's formula can *)
(* take.  Metrics are left out.                                            *)
(***************************************************************************)
EXTENDS Integers, Sequences

CONSTANTS
  Requests,          \* the requests user code makes
  NoRequest,
  Capacity,          \* kQueueCapacity
  Wrap,              \* the modulus of times
  Links,             \* what the link probe may answer; {TRUE} without a probe
  HasClose,          \* closeStep_ is not NULL
  Poll,              \* Config: pollIntervalMs
  RetryBase, RetryMax, RetryJitter,   \* Config: retryBaseMs, ...
  Timeout,           \* phase -> its timeout, phaseTimeoutMs where none is set
  Grants,            \* the retries an accepted request starts with
  PhaseBudget,       \* Config: immediatePhaseBudget, at least 1
  DropOldest,        \* Config: dropOldestOnFull
  QueueWhenLinkDown, \* Config: queueWhenLinkDown
  CallbackMay,       \* the calls made from callbacks: a subset of {"enqueue", "restart"}
  MaxIdle            \* bound: time between two ticks

Time == 0 .. Wrap - 1
Phases == {"Connecting", "Writing", "Reading", "Closing"}

ASSUME HttpPumpAssumption ==
  /\ NoRequest \notin Requests
  /\ Capacity \in 1 .. 255
  /\ Wrap \in Nat \ {0}
  /\ Links \subseteq BOOLEAN
  /\ HasClose \in BOOLEAN /\ DropOldest \in BOOLEAN /\ QueueWhenLinkDown \in BOOLEAN
  /\ Poll \in Nat /\ RetryBase \in Nat /\ RetryMax \in Nat /\ RetryJitter \in Nat
  /\ Timeout \in [Phases -> Nat]
  /\ Grants \subseteq 0 .. 255
  /\ PhaseBudget \in 1 .. 255
  /\ CallbackMay \subseteq {"enqueue", "restart"}
  /\ MaxIdle \in Nat

VARIABLES
  queue,        \* queue_[0 .. queueCount_ - 1]
  active,       \* active_
  request,      \* activeRequest_
  phase,        \* phase_
  retries,      \* activeRetriesRemaining_
  phaseStarted, \* phaseStartedAtMs_
  nextRetry,    \* nextRetryAtMs_; 0 stands for none
  retryMs,      \* currentRetryMs_
  ticked,       \* hasTicked_
  clock,        \* the kernel's uptime
  now,          \* nowMs of the tick in progress, and lastTickAtMs_
  budget,       \* the phases the tick in progress may still step
  pc,           \* where tick() is; "user" outside
  stepped,      \* history: the connect step was called in this attempt
  reported      \* history: the active request was reported

job == <<active, request, phase, retries, phaseStarted, nextRetry, retryMs>>
vars == <<queue, job, ticked, clock, now, budget, pc, stepped, reported>>

Plus(s, t) == (s + t) % Wrap
Minus(s, t) == (s - t) % Wrap
Entry == [id : Requests, retries : 0 .. 255]
Idle == [id |-> NoRequest, retries |-> 0]

-------------------------------------------------------------------------------
(* User code.                                                              *)

InCallback == pc \in {"step", "abort", "complete"}
MayCall(call) == pc = "user" \/ (InCallback /\ call \in CallbackMay)

Waiting(r) == \E k \in 1 .. Len(queue) : queue[k].id = r

\* Mutant: the test of the capacity is off by one.
EnqueuePastCapacity(r, grant) ==
  /\ MayCall("enqueue")
  /\ ~Waiting(r) /\ ~(active /\ request.id = r)
  /\ QueueWhenLinkDown \/ TRUE \in Links
  /\ LET e == [id |-> r, retries |-> grant]
     IN  \/ Len(queue) <= Capacity /\ queue' = Append(queue, e)
         \/ Len(queue) > Capacity /\ DropOldest /\ queue' = Append(Tail(queue), e)
  /\ UNCHANGED <<job, ticked, clock, now, budget, pc, stepped, reported>>

\* A full queue drops its oldest request, or the call is refused and changes
\* nothing.  User code hands over a request that is not in the pump already.
Enqueue(r, grant) ==
  /\ MayCall("enqueue")
  /\ ~Waiting(r) /\ ~(active /\ request.id = r)
  /\ QueueWhenLinkDown \/ TRUE \in Links
  /\ LET e == [id |-> r, retries |-> grant]
     IN  \/ Len(queue) < Capacity /\ queue' = Append(queue, e)
         \/ Len(queue) = Capacity /\ DropOldest /\ queue' = Append(Tail(queue), e)
  /\ UNCHANGED <<job, ticked, clock, now, budget, pc, stepped, reported>>

\* begin() again: reset() forgets everything but activeRequest_.
Restart ==
  /\ MayCall("restart")
  /\ queue' = <<>>
  /\ active' = FALSE /\ phase' = "Idle" /\ retries' = 0
  /\ phaseStarted' = 0 /\ nextRetry' = 0 /\ retryMs' = RetryBase
  /\ ticked' = FALSE
  /\ reported' = FALSE
  /\ UNCHANGED <<request, clock, now, budget, pc, stepped>>

Elapse ==
  /\ pc = "user" /\ Minus(clock, now) < MaxIdle
  /\ clock' = Plus(clock, 1)
  /\ UNCHANGED <<queue, job, ticked, now, budget, pc, stepped, reported>>

-------------------------------------------------------------------------------
(* The loop of tick().                                                     *)

TickBegins ==
  /\ pc = "user"
  /\ ticked => Minus(clock, now) >= Poll
  /\ ticked' = TRUE /\ now' = clock
  /\ budget' = PhaseBudget
  /\ pc' = "body"
  /\ UNCHANGED <<queue, job, clock, stepped, reported>>

Return == pc' = "user" /\ UNCHANGED <<queue, job, ticked, clock, now, budget, stepped, reported>>

NothingToStart ==
  /\ pc = "body" /\ ~active
  /\ queue = <<>> \/ FALSE \in Links
  /\ Return

\* startNextRequest_.
StartNextRequest ==
  /\ pc = "body" /\ ~active
  /\ queue # <<>> /\ TRUE \in Links
  /\ request' = Head(queue) /\ queue' = Tail(queue)
  /\ active' = TRUE /\ phase' = "Connecting"
  /\ retries' = Head(queue).retries
  /\ phaseStarted' = now /\ nextRetry' = 0 /\ retryMs' = RetryBase
  /\ stepped' = FALSE /\ reported' = FALSE
  /\ UNCHANGED <<ticked, clock, now, budget, pc>>

Connecting == phase = "Connecting"
Deferred == Connecting /\ nextRetry # 0 /\ now < nextRetry

WaitForRetry ==
  /\ pc = "body" /\ active /\ Deferred
  /\ Return

Wait == IF retryMs = 0 THEN RetryBase ELSE retryMs
Doubled(ms) == IF ms >= RetryMax THEN ms ELSE IF ms * 2 > RetryMax THEN RetryMax ELSE ms * 2

\* Mutant: the backoff does not grow.
RetryConstant(jitter) ==
  /\ retries' = retries - 1
  /\ nextRetry' = Plus(now, Wait + jitter)
  /\ retryMs' = Wait
  /\ phase' = "Connecting" /\ phaseStarted' = now
  /\ stepped' = FALSE
  /\ pc' = "user"
  /\ UNCHANGED <<queue, active, request, ticked, clock, now, budget, reported>>

\* The end of handlePhaseFailure_: another attempt after the backoff ...
Retry(jitter) ==
  /\ retries' = retries - 1
  /\ nextRetry' = Plus(now, Wait + jitter)
  /\ retryMs' = Doubled(Wait)
  /\ phase' = "Connecting" /\ phaseStarted' = now
  /\ stepped' = FALSE
  /\ pc' = "user"
  /\ UNCHANGED <<queue, active, request, ticked, clock, now, budget, reported>>

\* finalizeSuccess_ and finalizeFailure_ publish the completion event.
Complete ==
  /\ reported' = TRUE
  /\ pc' = "complete"
  /\ UNCHANGED <<queue, job, ticked, clock, now, budget, stepped>>

\* ... or the end of the request.
RetryOrGiveUp ==
  IF retries = 0 THEN Complete ELSE \E jitter \in 0 .. RetryJitter : Retry(jitter)

\* Mutant: a failed request is given up without a completion event.
FailSilently ==
  IF HasClose /\ phase # "Closing"
    THEN pc' = "abort" /\ UNCHANGED <<queue, job, ticked, clock, now, budget, stepped, reported>>
    ELSE /\ active' = FALSE /\ phase' = "Idle" /\ pc' = "user"
         /\ UNCHANGED <<queue, request, retries, phaseStarted, nextRetry, retryMs,
                        ticked, clock, now, budget, stepped, reported>>

\* handlePhaseFailure_: the close step is called first.
HandlePhaseFailure ==
  IF HasClose /\ phase # "Closing"
    THEN pc' = "abort" /\ UNCHANGED <<queue, job, ticked, clock, now, budget, stepped, reported>>
    ELSE RetryOrGiveUp

LinkLost ==
  /\ pc = "body" /\ active /\ ~Deferred
  /\ Connecting /\ FALSE \in Links
  /\ HandlePhaseFailure

CurrentPhaseTimeout == Timeout[phase]

\* Mutant: only the phase that connects can time out.
OvertimeConnecting ==
  /\ Connecting /\ CurrentPhaseTimeout > 0 /\ phaseStarted # 0
  /\ Minus(now, phaseStarted) > CurrentPhaseTimeout

Overtime ==
  /\ CurrentPhaseTimeout > 0 /\ phaseStarted # 0
  /\ Minus(now, phaseStarted) > CurrentPhaseTimeout

PhaseTimesOut ==
  /\ pc = "body" /\ active /\ ~Deferred
  /\ Connecting => TRUE \in Links
  /\ Overtime
  /\ HandlePhaseFailure

StepCurrentPhase ==
  /\ pc = "body" /\ active /\ ~Deferred
  /\ Connecting => TRUE \in Links
  /\ ~Overtime
  /\ pc' = "step"
  /\ stepped' = (stepped \/ Connecting)
  /\ UNCHANGED <<queue, job, ticked, clock, now, budget, reported>>

-------------------------------------------------------------------------------
(* Callbacks return.                                                       *)

StepIsPending == pc = "step" /\ Return

StepFails == pc = "step" /\ HandlePhaseFailure

NextPhase ==
  CASE phase = "Connecting" -> "Writing"
    [] phase = "Writing" -> "Reading"
    [] phase = "Reading" /\ HasClose -> "Closing"
    [] OTHER -> "Idle"

\* handlePhaseSuccess_; the loop goes on while its budget lasts.
StepCompletes ==
  /\ pc = "step"
  /\ IF NextPhase = "Idle"
       THEN Complete
       ELSE /\ phase' = NextPhase
            /\ phaseStarted' = now
            /\ nextRetry' = IF Connecting THEN 0 ELSE nextRetry
            /\ budget' = budget - 1
            /\ pc' = IF active /\ budget > 1 THEN "body" ELSE "user"
            /\ UNCHANGED <<queue, active, request, retries, retryMs, ticked, clock, now,
                           stepped, reported>>

AbortReturns == pc = "abort" /\ RetryOrGiveUp

\* The subscribers of the completion event have run: clearActive_.
CompletionReturns ==
  /\ pc = "complete"
  /\ active' = FALSE /\ request' = Idle /\ phase' = "Idle" /\ retries' = 0
  /\ phaseStarted' = 0 /\ nextRetry' = 0 /\ retryMs' = RetryBase
  /\ reported' = FALSE
  /\ pc' = "user"
  /\ UNCHANGED <<queue, ticked, clock, now, budget, stepped>>

Body ==
  \/ NothingToStart \/ StartNextRequest \/ WaitForRetry
  \/ LinkLost \/ PhaseTimesOut \/ StepCurrentPhase
CallbackReturns == StepIsPending \/ StepFails \/ StepCompletes \/ AbortReturns \/ CompletionReturns

-------------------------------------------------------------------------------
Init ==
  /\ queue = <<>>
  /\ active = FALSE /\ request = Idle /\ phase = "Idle" /\ retries = 0
  /\ phaseStarted = 0 /\ nextRetry = 0 /\ retryMs = RetryBase
  /\ ticked = FALSE
  /\ clock = 0 /\ now = 0 /\ budget = 0
  /\ pc = "user"
  /\ stepped = FALSE /\ reported = FALSE

Next ==
  \/ \E r \in Requests : \E g \in Grants : Enqueue(r, g)
  \/ Restart
  \/ Elapse
  \/ TickBegins
  \/ Body
  \/ CallbackReturns

Spec == Init /\ [][Next]_vars

\* loop() calls tick(), callbacks return, and time passes.
FairSpec ==
  Spec /\ WF_vars(TickBegins) /\ WF_vars(Body) /\ WF_vars(CallbackReturns) /\ WF_vars(Elapse)
===============================================================================
