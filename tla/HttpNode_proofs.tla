---------------------------- MODULE HttpNode_proofs ----------------------------
(***************************************************************************)
(* Proofs about the HTTP half of the network node: what its reports mean,  *)
(* what becomes of its socket, and that its books balance, for every set   *)
(* of readings, configuration of the pump and behaviour of the server.     *)
(***************************************************************************)
EXTENDS HttpNodeProps, HttpPump_proofs

-------------------------------------------------------------------------------
(* What the pump's steps do to its phase and control.                      *)

PumpPart == <<queue, active, request>>

\* The end of a failed attempt.
Again ==
  \/ retries = 0 /\ pc' = "complete" /\ UNCHANGED <<phase, nextRetry>>
  \/ retries > 0 /\ pc' = "user" /\ phase' = "Connecting"

LEMMA EndOfAttempt ==
  ASSUME IInv, RetryOrGiveUp
  PROVE  UNCHANGED PumpPart /\ Again
<1>1. retries \in 0 .. 255
  BY DEF IInv, TypeOK
<1>2. CASE retries = 0
  BY <1>2 DEF RetryOrGiveUp, Complete, job, PumpPart, Again
<1>3. CASE retries # 0
  BY <1>1, <1>3 DEF RetryOrGiveUp, Retry, PumpPart, Again
<1> QED
  BY <1>2, <1>3

LEMMA FailedAttempt ==
  ASSUME IInv, HandlePhaseFailure
  PROVE  /\ UNCHANGED PumpPart
         /\ \/ phase # "Closing" /\ pc' = "abort" /\ UNCHANGED <<phase, nextRetry>>
            \/ phase = "Closing" /\ Again
<1>1. CASE phase # "Closing"
  BY <1>1, HttpNodeAssumption DEF HandlePhaseFailure, job, PumpPart
<1>2. CASE phase = "Closing"
  BY <1>2, EndOfAttempt DEF HandlePhaseFailure
<1> QED
  BY <1>1, <1>2

Follows(p, q) == <<p, q>> \in {<<"Connecting", "Writing">>, <<"Writing", "Reading">>,
                               <<"Reading", "Closing">>}

LEMMA CompletedPhase ==
  ASSUME IInv, StepCompletes
  PROVE  /\ pc = "step" /\ active /\ UNCHANGED PumpPart
         /\ \/ phase = "Closing" /\ pc' = "complete" /\ phase' = phase
            \/ Follows(phase, phase') /\ pc' \in {"body", "user"}
<1>1. pc = "step" /\ active /\ phase \in Phases
  BY DEF StepCompletes, IInv, TypeOK, InCallback, Phases
<1>2. CASE phase = "Closing"
  BY <1>1, <1>2 DEF StepCompletes, NextPhase, Complete, job, PumpPart
<1>3. CASE phase # "Closing"
  <2>1. Follows(phase, NextPhase) /\ NextPhase # "Idle"
    BY <1>1, <1>3, HttpNodeAssumption DEF NextPhase, Follows, Phases
  <2> QED
    BY <1>1, <2>1 DEF StepCompletes, PumpPart
<1> QED
  BY <1>2, <1>3

LEMMA NodeStepsPump == NodeNext => [Next]_vars
<1> SUFFICES ASSUME NodeNext PROVE [Next]_vars
  OBVIOUS
<1>1. CASE ServerAnswers \/ ConnectionEnds
  BY <1>1 DEF ServerAnswers, ConnectionEnds
<1>2. CASE Elapse
  BY <1>2 DEF Next
<1>3. ASSUME NEW reading \in Requests, NEW grant \in Grants, Dispatch(reading, grant)
      PROVE  [Next]_vars
  BY <1>3 DEF Dispatch, Next
<1>4. CASE PumpTask
  BY <1>4 DEF PumpTask, TickBody, Next, Body
<1>5. CASE Callback
  BY <1>5 DEF Callback, HttpConnectStep, HttpWriteStep, HttpReadStep, HttpCloseStep, Abort,
              StepComplete, StepFailed, StepPending, Next, CallbackReturns
<1> QED
  BY <1>1, <1>2, <1>3, <1>4, <1>5 DEF NodeNext

LEMMA PumpInvariant ==
  ASSUME IInv, [NodeNext]_nodeVars
  PROVE  IInv'
<1>1. NoRestart
  BY HttpNodeAssumption DEF NoRestart
<1>2. [Next]_vars
  BY NodeStepsPump DEF nodeVars
<1> QED
  BY <1>1, <1>2, NextInv

-------------------------------------------------------------------------------
(* The books.                                                              *)

\* Every attempt counted has a result, but for n of them.
Balanced(m, attempts, successes, failures, n) ==
  m[attempts] < CounterMax => m[attempts] = m[successes] + m[failures] + n

ConnectBooks(m, n) == Balanced(m, "connectAttempts", "connectSuccesses", "connectFailures", n)
SendBooks(m, n) == Balanced(m, "sendAttempts", "sendSuccesses", "sendFailures", n)

LEMMA IncrementTyped ==
  ASSUME NEW n \in 0 .. CounterMax
  PROVE  /\ Increment(n) \in 0 .. CounterMax
         /\ n < CounterMax => Increment(n) = n + 1
         /\ Increment(n) < CounterMax => n < CounterMax
BY TransportMetricsAssumption DEF Increment

LEMMA Recorded ==
  ASSUME NEW m \in Metrics, NEW counters
  PROVE  /\ Record(m, counters) \in Metrics
         /\ \A c \in Counted : Record(m, counters)[c] =
                                 IF c \in counters THEN Increment(m[c]) ELSE m[c]
BY IncrementTyped DEF Record, Metrics

LEMMA ResultRecorded ==
  ASSUME NEW m \in Metrics, NEW ok \in BOOLEAN, NEW success \in Counted, NEW failure \in Counted
  PROVE  /\ RecordResult(m, ok, success, failure) \in Metrics
         /\ \A c \in Counted : RecordResult(m, ok, success, failure)[c] =
              IF c = (IF ok THEN success ELSE failure) THEN Increment(m[c]) ELSE m[c]
<1> DEFINE counters == IF ok THEN {success} ELSE {failure, "consecutiveFailures"}
           counted == Record(m, counters)
           r == RecordResult(m, ok, success, failure)
<1>1. "consecutiveFailures" \notin Counted
  BY HttpNodeAssumption
<1>2. \A c \in Counted : c \in counters <=> c = (IF ok THEN success ELSE failure)
  BY <1>1
<1> HIDE DEF counters
<1>3. counted \in Metrics /\ \A c \in Counted : counted[c] =
                                 IF c \in counters THEN Increment(m[c]) ELSE m[c]
  BY Recorded
<1>4. r = [c \in Counted |-> IF ok /\ c = "consecutiveFailures" THEN 0 ELSE counted[c]]
  BY DEF RecordResult, counters
<1> HIDE DEF counted, r
<1>5. r = [c \in Counted |-> counted[c]]
  BY <1>1, <1>4
<1>6. r \in Metrics /\ \A c \in Counted : r[c] = counted[c]
  BY <1>3, <1>5 DEF Metrics
<1> QED
  BY <1>2, <1>3, <1>6 DEF r

\* An attempt is counted; a result is.
LEMMA AttemptCounted ==
  ASSUME NEW m \in Metrics, NEW r \in Metrics, NEW a \in Counted, NEW s \in Counted,
         NEW f \in Counted, r[a] = Increment(m[a]), r[s] = m[s], r[f] = m[f],
         Balanced(m, a, s, f, 0)
  PROVE  Balanced(r, a, s, f, 1)
<1>1. m[a] \in 0 .. CounterMax /\ m[s] \in 0 .. CounterMax /\ m[f] \in 0 .. CounterMax
  BY DEF Metrics
<1> QED
  BY <1>1, IncrementTyped, TransportMetricsAssumption DEF Balanced

LEMMA ResultCounted ==
  ASSUME NEW m \in Metrics, NEW r \in Metrics, NEW a \in Counted, NEW s \in Counted,
         NEW f \in Counted, r[a] = m[a],
         \/ r[s] = Increment(m[s]) /\ r[f] = m[f]
         \/ r[s] = m[s] /\ r[f] = Increment(m[f]),
         Balanced(m, a, s, f, 1)
  PROVE  Balanced(r, a, s, f, 0)
<1>1. m[a] \in 0 .. CounterMax /\ m[s] \in 0 .. CounterMax /\ m[f] \in 0 .. CounterMax
  BY DEF Metrics
<1>2. m[a] < CounterMax => m[s] < CounterMax /\ m[f] < CounterMax
  BY <1>1, TransportMetricsAssumption DEF Balanced
<1>3. m[s] < CounterMax => Increment(m[s]) = m[s] + 1
  BY <1>1, IncrementTyped
<1>4. m[f] < CounterMax => Increment(m[f]) = m[f] + 1
  BY <1>1, IncrementTyped
<1> QED
  BY <1>1, <1>2, <1>3, <1>4, TransportMetricsAssumption DEF Balanced

\* A counter of neither side leaves a balance as it is.
LEMMA OthersCounted ==
  ASSUME NEW m, NEW r, NEW a, NEW s, NEW f, NEW n,
         r[a] = m[a], r[s] = m[s], r[f] = m[f], Balanced(m, a, s, f, n)
  PROVE  Balanced(r, a, s, f, n)
BY DEF Balanced

LEMMA ConnectAttemptCounted ==
  ASSUME NEW m \in Metrics, ConnectBooks(m, 0), NEW n, SendBooks(m, n)
  PROVE  LET r == Record(m, {"connectAttempts"})
         IN  r \in Metrics /\ ConnectBooks(r, 1) /\ SendBooks(r, n)
<1> DEFINE r == Record(m, {"connectAttempts"})
<1>1. /\ "connectAttempts" \in Counted /\ "connectSuccesses" \in Counted
      /\ "connectFailures" \in Counted /\ "sendAttempts" \in Counted
      /\ "sendSuccesses" \in Counted /\ "sendFailures" \in Counted
  BY HttpNodeAssumption
<1>2. r \in Metrics
  BY Recorded
<1>3. /\ r["connectAttempts"] = Increment(m["connectAttempts"])
      /\ r["connectSuccesses"] = m["connectSuccesses"]
      /\ r["connectFailures"] = m["connectFailures"]
      /\ r["sendAttempts"] = m["sendAttempts"]
      /\ r["sendSuccesses"] = m["sendSuccesses"]
      /\ r["sendFailures"] = m["sendFailures"]
  BY <1>1, Recorded
<1> HIDE DEF r
<1>4. ConnectBooks(r, 1)
  BY <1>1, <1>2, <1>3, AttemptCounted DEF ConnectBooks
<1>5. SendBooks(r, n)
  BY <1>3, OthersCounted DEF SendBooks
<1> QED
  BY <1>2, <1>4, <1>5 DEF r

LEMMA SendAttemptCounted ==
  ASSUME NEW m \in Metrics, SendBooks(m, 0), NEW n, ConnectBooks(m, n)
  PROVE  LET r == Record(m, {"sendAttempts"})
         IN  r \in Metrics /\ SendBooks(r, 1) /\ ConnectBooks(r, n)
<1> DEFINE r == Record(m, {"sendAttempts"})
<1>1. /\ "connectAttempts" \in Counted /\ "connectSuccesses" \in Counted
      /\ "connectFailures" \in Counted /\ "sendAttempts" \in Counted
      /\ "sendSuccesses" \in Counted /\ "sendFailures" \in Counted
  BY HttpNodeAssumption
<1>2. r \in Metrics
  BY Recorded
<1>3. /\ r["sendAttempts"] = Increment(m["sendAttempts"])
      /\ r["sendSuccesses"] = m["sendSuccesses"]
      /\ r["sendFailures"] = m["sendFailures"]
      /\ r["connectAttempts"] = m["connectAttempts"]
      /\ r["connectSuccesses"] = m["connectSuccesses"]
      /\ r["connectFailures"] = m["connectFailures"]
  BY <1>1, Recorded
<1> HIDE DEF r
<1>4. SendBooks(r, 1)
  BY <1>1, <1>2, <1>3, AttemptCounted DEF SendBooks
<1>5. ConnectBooks(r, n)
  BY <1>3, OthersCounted DEF ConnectBooks
<1> QED
  BY <1>2, <1>4, <1>5 DEF r

LEMMA ConnectResultCounted ==
  ASSUME NEW m \in Metrics, NEW ok \in BOOLEAN, ConnectBooks(m, 1), NEW n, SendBooks(m, n)
  PROVE  LET r == RecordConnectResult(m, ok)
         IN  r \in Metrics /\ ConnectBooks(r, 0) /\ SendBooks(r, n)
<1> DEFINE r == RecordConnectResult(m, ok)
<1>1. /\ "connectAttempts" \in Counted /\ "connectSuccesses" \in Counted
      /\ "connectFailures" \in Counted /\ "sendAttempts" \in Counted
      /\ "sendSuccesses" \in Counted /\ "sendFailures" \in Counted
  BY HttpNodeAssumption
<1>2. r \in Metrics
  BY <1>1, ResultRecorded DEF RecordConnectResult
<1>3. \A c \in Counted :
        r[c] = IF c = (IF ok THEN "connectSuccesses" ELSE "connectFailures")
                 THEN Increment(m[c]) ELSE m[c]
  BY <1>1, ResultRecorded DEF RecordConnectResult
<1> HIDE DEF r
<1>4. /\ r["connectAttempts"] = m["connectAttempts"]
      /\ \/ /\ r["connectSuccesses"] = Increment(m["connectSuccesses"])
            /\ r["connectFailures"] = m["connectFailures"]
         \/ /\ r["connectSuccesses"] = m["connectSuccesses"]
            /\ r["connectFailures"] = Increment(m["connectFailures"])
      /\ r["sendAttempts"] = m["sendAttempts"]
      /\ r["sendSuccesses"] = m["sendSuccesses"]
      /\ r["sendFailures"] = m["sendFailures"]
  BY <1>1, <1>3
<1>5. ConnectBooks(r, 0)
  BY <1>1, <1>2, <1>4, ResultCounted DEF ConnectBooks
<1>6. SendBooks(r, n)
  BY <1>4, OthersCounted DEF SendBooks
<1> QED
  BY <1>2, <1>5, <1>6 DEF r

LEMMA SendResultCounted ==
  ASSUME NEW m \in Metrics, NEW ok \in BOOLEAN, SendBooks(m, 1), NEW n, ConnectBooks(m, n)
  PROVE  LET r == RecordSendResult(m, ok)
         IN  r \in Metrics /\ SendBooks(r, 0) /\ ConnectBooks(r, n)
<1> DEFINE r == RecordSendResult(m, ok)
<1>1. /\ "connectAttempts" \in Counted /\ "connectSuccesses" \in Counted
      /\ "connectFailures" \in Counted /\ "sendAttempts" \in Counted
      /\ "sendSuccesses" \in Counted /\ "sendFailures" \in Counted
  BY HttpNodeAssumption
<1>2. r \in Metrics
  BY <1>1, ResultRecorded DEF RecordSendResult
<1>3. \A c \in Counted :
        r[c] = IF c = (IF ok THEN "sendSuccesses" ELSE "sendFailures")
                 THEN Increment(m[c]) ELSE m[c]
  BY <1>1, ResultRecorded DEF RecordSendResult
<1> HIDE DEF r
<1>4. /\ r["sendAttempts"] = m["sendAttempts"]
      /\ \/ /\ r["sendSuccesses"] = Increment(m["sendSuccesses"])
            /\ r["sendFailures"] = m["sendFailures"]
         \/ /\ r["sendSuccesses"] = m["sendSuccesses"]
            /\ r["sendFailures"] = Increment(m["sendFailures"])
      /\ r["connectAttempts"] = m["connectAttempts"]
      /\ r["connectSuccesses"] = m["connectSuccesses"]
      /\ r["connectFailures"] = m["connectFailures"]
  BY <1>1, <1>3
<1>5. SendBooks(r, 0)
  BY <1>1, <1>2, <1>4, ResultCounted DEF SendBooks
<1>6. ConnectBooks(r, n)
  BY <1>4, OthersCounted DEF ConnectBooks
<1> QED
  BY <1>2, <1>5, <1>6 DEF r

Sending == {"Writing", "Reading", "Closing"}
BooksKept ==
  /\ metrics \in Metrics
  /\ ConnectBooks(metrics, InProgress({"Connecting"}))
  /\ SendBooks(metrics, InProgress(Sending))

LEMMA BooksAreKept == metrics \in Metrics => (BooksKept <=> AttemptsAccounted)
BY DEF BooksKept, AttemptsAccounted, ConnectBooks, SendBooks, Balanced, Sending

LEMMA SameBooks ==
  ASSUME BooksKept, UNCHANGED metrics,
         InProgress({"Connecting"})' = InProgress({"Connecting"}),
         InProgress(Sending)' = InProgress(Sending)
  PROVE  BooksKept'
BY DEF BooksKept, ConnectBooks, SendBooks, Balanced

\* The failure of an attempt in progress.
LEMMA FailureBooks ==
  ASSUME IInv, BooksKept, active, pc \in {"body", "step"}
  PROVE  /\ FailureRecorded(metrics) \in Metrics
         /\ ConnectBooks(FailureRecorded(metrics), 0) /\ SendBooks(FailureRecorded(metrics), 0)
<1>1. phase \in Phases
  BY DEF IInv, TypeOK
<1>2. CASE Connecting
  <2>1. InProgress({"Connecting"}) = 1 /\ InProgress(Sending) = 0
    BY <1>2 DEF Connecting, InProgress, Sending
  <2> QED
    BY <1>2, <2>1, ConnectResultCounted DEF BooksKept, FailureRecorded
<1>3. CASE ~Connecting
  <2>1. InProgress({"Connecting"}) = 0 /\ InProgress(Sending) = 1
    BY <1>1, <1>3 DEF Connecting, InProgress, Sending, Phases
  <2> QED
    BY <1>3, <2>1, SendResultCounted DEF BooksKept, FailureRecorded
<1> QED
  BY <1>2, <1>3

\* The end of a failed attempt, whose failure m has recorded.
LEMMA AgainBooks ==
  ASSUME IInv, NEW m \in Metrics, ConnectBooks(m, 0), SendBooks(m, 0), Again,
         metrics' = RetryRecorded(m)
  PROVE  BooksKept'
<1>1. retries \in 0 .. 255
  BY DEF IInv, TypeOK
<1>2. CASE retries = 0 /\ pc' = "complete"
  <2>1. metrics' = m
    BY <1>2 DEF RetryRecorded
  <2>2. InProgress({"Connecting"})' = 0 /\ InProgress(Sending)' = 0
    BY <1>2 DEF InProgress
  <2> QED
    BY <2>1, <2>2 DEF BooksKept, ConnectBooks, SendBooks, Balanced
<1>3. CASE retries > 0 /\ pc' = "user" /\ phase' = "Connecting"
  <2>1. metrics' = Record(m, {"connectAttempts"})
    BY <1>3 DEF RetryRecorded
  <2>2. InProgress({"Connecting"})' = 1 /\ InProgress(Sending)' = 0
    BY <1>3 DEF InProgress, Sending
  <2>3. metrics' \in Metrics /\ ConnectBooks(metrics', 1) /\ SendBooks(metrics', 0)
    BY <2>1, ConnectAttemptCounted
  <2> QED
    BY <2>2, <2>3 DEF BooksKept, ConnectBooks, SendBooks, Balanced
<1> QED
  BY <1>2, <1>3 DEF Again

LEMMA FailedBooks ==
  ASSUME IInv, BooksKept, active, pc \in {"body", "step"}, HandlePhaseFailure,
         metrics' = Failed(metrics)
  PROVE  BooksKept'
<1> DEFINE m == FailureRecorded(metrics)
<1>1. m \in Metrics /\ ConnectBooks(m, 0) /\ SendBooks(m, 0)
  BY FailureBooks
<1>2. CASE phase # "Closing" /\ pc' = "abort"
  <2>1. metrics' = m
    BY <1>2 DEF Failed
  <2>2. InProgress({"Connecting"})' = 0 /\ InProgress(Sending)' = 0
    BY <1>2 DEF InProgress
  <2> HIDE DEF m
  <2> QED
    BY <1>1, <2>1, <2>2 DEF BooksKept, ConnectBooks, SendBooks, Balanced
<1>3. CASE phase = "Closing" /\ Again
  <2>1. metrics' = RetryRecorded(m)
    BY <1>3 DEF Failed
  <2> HIDE DEF m
  <2> QED
    BY <1>1, <1>3, <2>1, AgainBooks
<1> QED
  BY <1>2, <1>3, FailedAttempt

LEMMA SucceededBooks ==
  ASSUME IInv, BooksKept, StepCompletes, metrics' = Succeeded(metrics)
  PROVE  BooksKept'
<1>1. /\ pc = "step"
      /\ \/ phase = "Closing" /\ pc' = "complete"
         \/ Follows(phase, phase') /\ pc' \in {"body", "user"}
  BY CompletedPhase
<1>2. CASE phase = "Closing" /\ pc' = "complete"
  <2>1. metrics' = RecordSendResult(metrics, TRUE)
    BY <1>2 DEF Succeeded, Connecting
  <2>2. InProgress({"Connecting"}) = 0 /\ InProgress(Sending) = 1
    BY <1>1, <1>2 DEF InProgress, Sending
  <2>3. metrics' \in Metrics /\ ConnectBooks(metrics', 0) /\ SendBooks(metrics', 0)
    BY <2>1, <2>2, SendResultCounted DEF BooksKept
  <2>4. InProgress({"Connecting"})' = 0 /\ InProgress(Sending)' = 0
    BY <1>2 DEF InProgress
  <2> QED
    BY <2>3, <2>4 DEF BooksKept, ConnectBooks, SendBooks, Balanced
<1>3. CASE phase = "Connecting" /\ phase' = "Writing" /\ pc' \in {"body", "user"}
  <2> DEFINE m == RecordConnectResult(metrics, TRUE)
  <2>1. metrics' = Record(m, {"sendAttempts"})
    BY <1>3 DEF Succeeded, Connecting
  <2>2. InProgress({"Connecting"}) = 1 /\ InProgress(Sending) = 0
    BY <1>1, <1>3 DEF InProgress, Sending
  <2>3. m \in Metrics /\ ConnectBooks(m, 0) /\ SendBooks(m, 0)
    BY <2>2, ConnectResultCounted DEF BooksKept
  <2> HIDE DEF m
  <2>4. metrics' \in Metrics /\ ConnectBooks(metrics', 0) /\ SendBooks(metrics', 1)
    BY <2>1, <2>3, SendAttemptCounted
  <2>5. InProgress({"Connecting"})' = 0 /\ InProgress(Sending)' = 1
    BY <1>3 DEF InProgress, Sending
  <2> QED
    BY <2>4, <2>5 DEF BooksKept, ConnectBooks, SendBooks, Balanced
<1>4. CASE phase \in {"Writing", "Reading"} /\ phase' \in {"Reading", "Closing"}
             /\ pc' \in {"body", "user"}
  <2>1. UNCHANGED metrics
    BY <1>4 DEF Succeeded, Connecting
  <2>2. InProgress({"Connecting"})' = 0 /\ InProgress({"Connecting"}) = 0
    BY <1>1, <1>4 DEF InProgress
  <2>3. InProgress(Sending)' = 1 /\ InProgress(Sending) = 1
    BY <1>1, <1>4 DEF InProgress, Sending
  <2> QED
    BY <2>1, <2>2, <2>3, SameBooks
<1> QED
  BY <1>1, <1>2, <1>3, <1>4 DEF Follows

LEMMA StepBooks ==
  ASSUME IInv, BooksKept, [NodeNext]_nodeVars
  PROVE  BooksKept'
<1>1. CASE UNCHANGED <<phase, pc, metrics>>
  BY <1>1, SameBooks DEF InProgress
<1>2. ASSUME NEW reading \in Requests, NEW grant \in Grants, Dispatch(reading, grant)
      PROVE  UNCHANGED <<phase, pc, metrics>>
  BY <1>2 DEF Dispatch, Enqueue, job
<1>3. CASE PumpTask
  <2>1. CASE TickBegins /\ UNCHANGED metrics
    BY <2>1, SameBooks DEF TickBegins, job, InProgress
  <2>2. CASE (NothingToStart \/ WaitForRetry \/ StepCurrentPhase) /\ UNCHANGED metrics
    BY <2>2, SameBooks
    DEF NothingToStart, WaitForRetry, StepCurrentPhase, Return, job, InProgress
  <2>3. CASE StartNextRequest /\ metrics' = Record(metrics, {"connectAttempts"})
    <3>1. phase = "Idle" /\ pc = "body" /\ phase' = "Connecting" /\ pc' = "body"
      BY <2>3 DEF StartNextRequest, IInv, TypeOK
    <3>2. InProgress({"Connecting"}) = 0 /\ InProgress(Sending) = 0
      BY <3>1 DEF InProgress, Sending
    <3>3. InProgress({"Connecting"})' = 1 /\ InProgress(Sending)' = 0
      BY <3>1 DEF InProgress, Sending
    <3>4. metrics' \in Metrics /\ ConnectBooks(metrics', 1) /\ SendBooks(metrics', 0)
      BY <2>3, <3>2, ConnectAttemptCounted DEF BooksKept
    <3> QED
      BY <3>3, <3>4 DEF BooksKept, ConnectBooks, SendBooks, Balanced
  <2>4. CASE (LinkLost \/ PhaseTimesOut) /\ metrics' = Failed(metrics)
    BY <2>4, FailedBooks DEF LinkLost, PhaseTimesOut
  <2> QED
    BY <1>3, <2>1, <2>2, <2>3, <2>4 DEF PumpTask, TickBody
<1>4. CASE StepFailed
  <2>1. pc = "step" /\ active
    BY <1>4 DEF StepFailed, StepFails, IInv, TypeOK, InCallback
  <2> QED
    BY <1>4, <2>1, FailedBooks DEF StepFailed, StepFails
<1>5. CASE StepComplete
  BY <1>5, SucceededBooks DEF StepComplete
<1>6. CASE StepPending
  BY <1>6, SameBooks DEF StepPending, StepIsPending, Return, job, InProgress
<1>7. CASE Abort
  <2>1. pc = "abort" /\ Again /\ metrics' = RetryRecorded(metrics)
    BY <1>7, EndOfAttempt DEF Abort, AbortReturns
  <2>2. InProgress({"Connecting"}) = 0 /\ InProgress(Sending) = 0
    BY <2>1 DEF InProgress
  <2> QED
    BY <2>1, <2>2, AgainBooks DEF BooksKept
<1>8. CASE CompletionReturns /\ UNCHANGED metrics
  BY <1>8, SameBooks DEF CompletionReturns, InProgress, Sending
<1>9. CASE Callback
  BY <1>4, <1>5, <1>6, <1>7, <1>8, <1>9
  DEF Callback, HttpConnectStep, HttpWriteStep, HttpReadStep, HttpCloseStep
<1>10. CASE ServerAnswers \/ ConnectionEnds \/ (Elapse /\ UNCHANGED metrics)
             \/ UNCHANGED nodeVars
  BY <1>1, <1>10 DEF ServerAnswers, ConnectionEnds, Elapse, vars, job, nodeVars
<1> QED
  BY <1>1, <1>2, <1>3, <1>9, <1>10 DEF NodeNext

LEMMA PumpAlways == NodeSpec => []IInv
<1>1. NodeInit => IInv
  BY InitInv DEF NodeInit
<1> QED
  BY <1>1, PumpInvariant, PTL DEF NodeSpec

\* For every configuration of the pump, and whatever the link, the server and
\* the step callbacks do: until a counter is full, every attempt to connect or to
\* send that was counted has one result or is in progress, through retries,
\* timeouts and refused requests.
THEOREM BooksBalance == NodeSpec => []AttemptsAccounted
<1>1. NodeInit => BooksKept
  <2> SUFFICES ASSUME NodeInit PROVE BooksKept
    OBVIOUS
  <2>1. metrics \in Metrics /\ \A c \in Counted : metrics[c] = 0
    BY TransportMetricsAssumption DEF NodeInit, NoMetrics, Metrics
  <2>2. InProgress({"Connecting"}) = 0 /\ InProgress(Sending) = 0
    BY DEF NodeInit, Init, InProgress, Sending
  <2> QED
    BY <2>1, <2>2, HttpNodeAssumption DEF BooksKept, ConnectBooks, SendBooks, Balanced
<1>2. IInv /\ BooksKept /\ [NodeNext]_nodeVars => BooksKept'
  BY StepBooks
<1>3. BooksKept => AttemptsAccounted
  BY BooksAreKept DEF BooksKept
<1> QED
  BY <1>1, <1>2, <1>3, PumpAlways, PTL DEF NodeSpec

-------------------------------------------------------------------------------
(* The reading, the connection and the flags.                              *)

SocketOK ==
  /\ socket \in [open : BOOLEAN, up : BOOLEAN, got : Requests \cup {NoRequest},
                 reply : {"none", "2xx", "error"}]
  /\ socket.reply = "2xx" => socket.got # NoRequest
HistoryOK == accepted \in BOOLEAN /\ unread \in BOOLEAN /\ missed \in BOOLEAN

\* The pump holds one request at most: the one that points to the buffer.
OneReading ==
  /\ payload \in Requests \cup {NoRequest}
  /\ queue # <<>> => ~active /\ Len(queue) = 1 /\ Head(queue).id = payload
  /\ active => request.id = payload

\* While a request is written or read, what the server has got of it is the
\* buffer, and no earlier answer is left in the flags.
Exchange ==
  /\ phase \in {"Writing", "Reading"} => sawStatus # "2xx" /\ socket.got \in {NoRequest, payload}
  /\ phase = "Closing" => answered = request.id

\* An accepted request that is served again missed its reading or its closing: its
\* answer waits in the reading phase or has been read.
AcceptedOnce ==
  accepted =>
    \/ unread \/ missed \/ phase = "Idle" \/ (phase = "Closing" /\ pc # "abort")
    \/ (phase = "Reading" /\ pc # "abort" /\ socket.reply = "2xx")

\* An answer that comes after its reading has failed finds the connection closed,
\* or the reading phase has timed out.
GivenUp == (phase = "Reading" /\ pc = "abort" /\ socket.up) => unread

\* An open connection belongs to an attempt in progress, or was left by a
\* closing that timed out and is about to be closed.
Attended ==
  /\ active /\ pc # "complete"
  /\ Connecting => (pc = "body" /\ nextRetry = 0) \/ pc \in {"step", "abort"}
SocketHeld == socket.open => missed \/ Attended

NodeInv ==
  SocketOK /\ HistoryOK /\ OneReading /\ Exchange /\ AcceptedOnce /\ GivenUp /\ SocketHeld

LEMMA RequestsReal ==
  ASSUME IInv, OneReading, active
  PROVE  payload # NoRequest
BY DEF IInv, RequestKnown, OneReading

LEMMA ClosedSound ==
  /\ Closed \in [open : BOOLEAN, up : BOOLEAN, got : Requests \cup {NoRequest},
                 reply : {"none", "2xx", "error"}]
  /\ Connected \in [open : BOOLEAN, up : BOOLEAN, got : Requests \cup {NoRequest},
                    reply : {"none", "2xx", "error"}]
  /\ ~Closed.open /\ ~Closed.up /\ Closed.got = NoRequest /\ Closed.reply = "none"
  /\ Connected.open /\ Connected.got = NoRequest /\ Connected.reply = "none"
BY DEF Closed, Connected

\* Pump steps that leave the request and the buffer alone.
LEMMA SameReading ==
  ASSUME OneReading, UNCHANGED <<PumpPart, payload>>
  PROVE  OneReading'
BY DEF OneReading, PumpPart

LEMMA InitNode == NodeInit => NodeInv
<1> SUFFICES ASSUME NodeInit PROVE NodeInv
  OBVIOUS
<1> USE DEF NodeInit, Init
<1>1. SocketOK /\ SocketHeld
  BY ClosedSound DEF SocketOK, SocketHeld
<1>2. HistoryOK /\ OneReading /\ Exchange /\ AcceptedOnce /\ GivenUp
  BY DEF HistoryOK, OneReading, Exchange, AcceptedOnce, GivenUp
<1> QED
  BY <1>1, <1>2 DEF NodeInv

\* The server and the network change only the socket.
LEMMA NetworkNode ==
  ASSUME NodeInv, ServerAnswers \/ ConnectionEnds
  PROVE  NodeInv'
<1>1. UNCHANGED <<vars, payload, flags, metrics, answered, unread, missed>>
  BY DEF ServerAnswers, ConnectionEnds, history
<1>2. UNCHANGED <<queue, active, request, phase, nextRetry, pc, sawStatus, payload,
                  answered, unread, missed>>
  BY <1>1 DEF vars, job, flags
<1>3. ASSUME NEW reply \in {"2xx", "error"}, reply = "2xx" => socket.got # NoRequest,
             socket.up, socket.reply = "none", socket' = [socket EXCEPT !.reply = reply],
             accepted' = (accepted \/ (reply = "2xx" /\ phase = "Reading"))
      PROVE  /\ SocketOK' /\ socket'.got = socket.got /\ socket'.open = socket.open
             /\ accepted' \in BOOLEAN /\ AcceptedOnce' /\ GivenUp'
  <2>1. /\ SocketOK' /\ socket'.got = socket.got /\ socket'.open = socket.open
        /\ socket'.reply = reply /\ socket'.up = socket.up
    BY <1>3 DEF NodeInv, SocketOK
  <2>2. accepted' \in BOOLEAN
    BY <1>3
  <2>3. accepted => unread \/ missed \/ phase = "Idle" \/ (phase = "Closing" /\ pc # "abort")
    <3>1. socket.reply # "2xx"
      BY <1>3
    <3> QED
      BY <3>1 DEF NodeInv, AcceptedOnce
  <2>4. (accepted' /\ ~accepted) => socket'.reply = "2xx" /\ phase = "Reading"
    BY <1>3, <2>1
  <2>5. phase = "Reading" => pc # "abort" \/ unread
    BY <1>3 DEF NodeInv, GivenUp
  <2>6. AcceptedOnce'
    BY <1>2, <2>3, <2>4, <2>5, Zenon DEF AcceptedOnce
  <2>7. GivenUp'
    BY <1>2, <2>1 DEF NodeInv, GivenUp
  <2> QED
    BY <2>1, <2>2, <2>6, <2>7
<1>4. ASSUME socket' = [socket EXCEPT !.up = FALSE], UNCHANGED accepted
      PROVE  /\ SocketOK' /\ socket'.got = socket.got /\ socket'.open = socket.open
             /\ accepted' \in BOOLEAN /\ AcceptedOnce' /\ GivenUp'
  <2>1. /\ SocketOK' /\ socket'.got = socket.got /\ socket'.open = socket.open
        /\ socket'.reply = socket.reply /\ ~socket'.up
    BY <1>4 DEF NodeInv, SocketOK
  <2> QED
    BY <1>2, <1>4, <2>1 DEF NodeInv, HistoryOK, AcceptedOnce, GivenUp
<1>5. /\ SocketOK' /\ socket'.got = socket.got /\ socket'.open = socket.open
      /\ accepted' \in BOOLEAN /\ AcceptedOnce' /\ GivenUp'
  BY <1>3, <1>4 DEF ServerAnswers, ConnectionEnds, history
<1> QED
  BY <1>2, <1>5
  DEF NodeInv, HistoryOK, OneReading, Exchange, SocketHeld, Attended, Connecting

LEMMA DispatchNode ==
  ASSUME IInv, NodeInv, NEW reading \in Requests, NEW grant \in Grants, Dispatch(reading, grant)
  PROVE  NodeInv'
<1> DEFINE e == [id |-> reading, retries |-> grant]
<1>1. /\ payload' = reading /\ queue = <<>> /\ ~active /\ pc = "user"
      /\ UNCHANGED <<active, request, phase, nextRetry, pc, socket, sawStatus,
                     answered, accepted, unread, missed>>
  BY DEF Dispatch, Enqueue, job, flags, history
<1>2. queue' = Append(queue, e)
  BY <1>1, HttpPumpAssumption DEF Dispatch, Enqueue
<1>3. Len(queue') = 1 /\ Head(queue').id = reading
  BY <1>1, <1>2
<1>4. OneReading'
  BY <1>1, <1>3 DEF OneReading
<1>5. phase = "Idle"
  BY <1>1 DEF IInv, TypeOK
<1> QED
  BY <1>1, <1>4, <1>5
  DEF NodeInv, SocketOK, HistoryOK, Exchange, AcceptedOnce, GivenUp, SocketHeld, Attended, Connecting

\* An attempt fails: by itself, by a timeout, or because the link is lost.
LEMMA FailureNode ==
  ASSUME IInv, NodeInv, active, pc \in {"body", "step"}, HandlePhaseFailure,
         UNCHANGED <<payload, accepted>>, socket' \in {socket, Closed},
         phase \in {"Writing", "Reading"} => sawStatus' \in {sawStatus, "error"},
         phase = "Closing" => UNCHANGED answered,
         phase = "Reading" => unread' \/ (socket' = Closed /\ socket.reply # "2xx"),
         unread' \in BOOLEAN, unread => unread',
         missed' \in BOOLEAN, missed \/ phase = "Closing" => missed'
  PROVE  NodeInv'
<1>1. /\ UNCHANGED PumpPart
      /\ \/ phase # "Closing" /\ pc' = "abort" /\ phase' = phase
         \/ phase = "Closing" /\ missed' /\ phase' \in {"Closing", "Connecting"}
  BY FailedAttempt DEF Again
<1>2. OneReading'
  BY <1>1, SameReading DEF NodeInv
<1>3. /\ SocketOK' /\ (socket'.open => socket.open)
      /\ socket'.got \in {socket.got, NoRequest}
  BY ClosedSound DEF NodeInv, SocketOK
<1>4. SocketHeld'
  BY <1>1, <1>3 DEF SocketHeld, Attended, Connecting, PumpPart
<1>5. HistoryOK' /\ Exchange'
  BY <1>1, <1>3 DEF NodeInv, HistoryOK, Exchange, PumpPart
<1>6. AcceptedOnce'
  BY <1>1 DEF NodeInv, AcceptedOnce
<1>7. GivenUp'
  BY <1>1, ClosedSound DEF GivenUp
<1> QED
  BY <1>2, <1>3, <1>4, <1>5, <1>6, <1>7 DEF NodeInv

LEMMA PumpTaskNode ==
  ASSUME IInv, NodeInv, PumpTask
  PROVE  NodeInv'
<1>1. UNCHANGED <<payload, socket, prepared, sawStatus, deadline>>
  BY DEF PumpTask, flags
<1>2. SocketOK'
  BY <1>1 DEF NodeInv, SocketOK
<1>3. CASE /\ TickBegins \/ NothingToStart \/ WaitForRetry \/ StepCurrentPhase
           /\ UNCHANGED history
  <2>1. /\ UNCHANGED <<PumpPart, phase, nextRetry, answered, accepted, unread, missed>>
        /\ \/ pc = "user" /\ pc' = "body"
           \/ pc = "body" /\ pc' = "user" /\ (~active \/ (Connecting /\ nextRetry # 0))
           \/ pc = "body" /\ pc' = "step"
    BY <1>3 DEF TickBegins, NothingToStart, WaitForRetry, StepCurrentPhase, Return, Deferred,
                job, history, PumpPart
  <2>2. OneReading'
    BY <1>1, <2>1, SameReading DEF NodeInv
  <2>3. SocketHeld'
    BY <1>1, <2>1 DEF NodeInv, SocketHeld, Attended, Connecting, PumpPart
  <2> QED
    BY <1>1, <1>2, <2>1, <2>2, <2>3 DEF NodeInv, HistoryOK, Exchange, AcceptedOnce, GivenUp, PumpPart
<1>4. CASE /\ StartNextRequest
           /\ answered' = NoRequest /\ accepted' = FALSE /\ unread' = FALSE /\ missed' = FALSE
  <2>1. /\ ~active /\ queue # <<>> /\ request' = Head(queue) /\ queue' = Tail(queue)
        /\ active' /\ phase' = "Connecting" /\ nextRetry' = 0 /\ pc' = "body"
    BY <1>4 DEF StartNextRequest
  <2>2. Len(queue) = 1 /\ Head(queue).id = payload /\ queue \in Seq(Entry)
    BY <2>1 DEF NodeInv, OneReading, IInv, TypeOK
  <2>3. queue' = <<>>
    BY <2>1, <2>2
  <2>4. OneReading'
    BY <1>1, <2>1, <2>2, <2>3 DEF NodeInv, OneReading
  <2> QED
    BY <1>1, <1>2, <1>4, <2>1, <2>4
    DEF NodeInv, HistoryOK, Exchange, AcceptedOnce, GivenUp, SocketHeld, Attended, Connecting
<1>5. CASE LinkLost /\ UNCHANGED history
  <2>1. pc = "body" /\ active /\ HandlePhaseFailure /\ phase = "Connecting"
    BY <1>5 DEF LinkLost, Connecting
  <2> QED
    BY <1>1, <1>5, <2>1, FailureNode DEF NodeInv, HistoryOK, history
<1>6. CASE /\ PhaseTimesOut /\ missed' = (missed \/ phase = "Closing")
           /\ unread' = (unread \/ phase = "Reading")
           /\ UNCHANGED <<answered, accepted>>
  <2>1. pc = "body" /\ active /\ HandlePhaseFailure
    BY <1>6 DEF PhaseTimesOut
  <2>2. /\ missed' \in BOOLEAN /\ (missed \/ phase = "Closing" => missed')
        /\ unread' \in BOOLEAN /\ (unread => unread') /\ (phase = "Reading" => unread')
    BY <1>6
  <2> QED
    BY <1>1, <1>6, <2>1, <2>2, FailureNode
<1> QED
  BY <1>3, <1>4, <1>5, <1>6 DEF PumpTask, TickBody, history

\* A step completes before the closing phase.
LEMMA ForwardNode ==
  ASSUME IInv, NodeInv, StepCompletes, phase # "Closing", UNCHANGED <<payload, unread, missed>>,
         SocketOK', accepted' \in BOOLEAN,
         phase' \in {"Writing", "Reading"} =>
           sawStatus' # "2xx" /\ socket'.got \in {NoRequest, payload} /\ UNCHANGED accepted,
         phase' = "Closing" => answered' = request.id
  PROVE  NodeInv'
<1>1. /\ active /\ UNCHANGED PumpPart
      /\ Follows(phase, phase') /\ pc' \in {"body", "user"}
  BY CompletedPhase
<1>2. phase \in {"Connecting", "Writing", "Reading"} /\ phase' \in {"Writing", "Reading", "Closing"}
  BY <1>1 DEF Follows
<1>3. OneReading'
  BY <1>1, SameReading DEF NodeInv
<1>4. HistoryOK' /\ Exchange'
  BY <1>1 DEF NodeInv, HistoryOK, Exchange, PumpPart
<1>5. AcceptedOnce' /\ GivenUp'
  BY <1>1, <1>2 DEF NodeInv, AcceptedOnce, GivenUp, Follows
<1>6. SocketHeld'
  BY <1>1, <1>2 DEF SocketHeld, Attended, Connecting, PumpPart
<1> QED
  BY <1>3, <1>4, <1>5, <1>6 DEF NodeInv

LEMMA ConnectNode ==
  ASSUME IInv, NodeInv, HttpConnectStep
  PROVE  NodeInv'
<1>1. phase = "Connecting" /\ UNCHANGED <<payload, accepted, unread, missed>> /\ answered' = NoRequest
  BY DEF HttpConnectStep, Connecting
<1>2. CASE StepComplete /\ socket' = Connected /\ sawStatus' = "none"
  <2>1. StepCompletes /\ phase' = "Writing"
    BY <1>1, <1>2, CompletedPhase DEF StepComplete, Follows
  <2>2. SocketOK' /\ socket'.got = NoRequest
    BY <1>2, ClosedSound DEF SocketOK
  <2> QED
    BY <1>1, <1>2, <2>1, <2>2, ForwardNode DEF NodeInv, HistoryOK
<1>3. CASE StepFailed /\ socket' = Closed /\ UNCHANGED flags
  <2>1. pc = "step" /\ active /\ HandlePhaseFailure
    BY <1>3 DEF StepFailed, StepFails, IInv, TypeOK, InCallback
  <2> QED
    BY <1>1, <1>3, <2>1, FailureNode DEF NodeInv, HistoryOK, flags
<1> QED
  BY <1>2, <1>3 DEF HttpConnectStep

LEMMA WriteNode ==
  ASSUME IInv, NodeInv, HttpWriteStep
  PROVE  NodeInv'
<1>1. phase = "Writing" /\ UNCHANGED <<payload, answered, accepted, unread, missed>>
  BY DEF HttpWriteStep, history
<1>2. CASE StepFailed /\ UNCHANGED <<socket, flags>>
  <2>1. pc = "step" /\ active /\ HandlePhaseFailure
    BY <1>2 DEF StepFailed, StepFails, IInv, TypeOK, InCallback
  <2> QED
    BY <1>1, <1>2, <2>1, FailureNode DEF NodeInv, HistoryOK, flags
<1>3. CASE /\ StepComplete /\ UNCHANGED sawStatus
           /\ socket' = IF prepared THEN socket ELSE [socket EXCEPT !.got = payload]
  <2>1. StepCompletes /\ phase' = "Reading" /\ active
    BY <1>1, <1>3, CompletedPhase DEF StepComplete, Follows
  <2>2. payload \in Requests /\ payload # NoRequest
    BY <2>1, RequestsReal DEF NodeInv, OneReading
  <2>3. SocketOK' /\ socket'.got \in {socket.got, payload}
    BY <1>3, <2>2 DEF NodeInv, SocketOK
  <2>4. sawStatus # "2xx" /\ socket.got \in {NoRequest, payload}
    BY <1>1 DEF NodeInv, Exchange
  <2> QED
    BY <1>1, <1>3, <2>1, <2>3, <2>4, ForwardNode DEF NodeInv, HistoryOK
<1> QED
  BY <1>2, <1>3 DEF HttpWriteStep

LEMMA ReadNode ==
  ASSUME IInv, NodeInv, HttpReadStep
  PROVE  NodeInv'
<1>1. phase = "Reading" /\ UNCHANGED <<payload, accepted, unread, missed>>
  BY DEF HttpReadStep
<1>2. sawStatus # "2xx" /\ socket.got \in {NoRequest, payload}
  BY <1>1 DEF NodeInv, Exchange
<1>3. CASE /\ StepFailed /\ socket' = Closed /\ sawStatus' \in {sawStatus, "error"}
           /\ UNCHANGED answered /\ socket.reply # "2xx"
  <2>1. pc = "step" /\ active /\ HandlePhaseFailure
    BY <1>3 DEF StepFailed, StepFails, IInv, TypeOK, InCallback
  <2> QED
    BY <1>1, <1>3, <2>1, FailureNode DEF NodeInv, HistoryOK
<1>4. CASE /\ socket.reply = "2xx" /\ StepComplete
           /\ socket' = [socket EXCEPT !.reply = "none"]
           /\ answered' = socket.got
  <2>1. StepCompletes /\ phase' = "Closing" /\ active
    BY <1>1, <1>4, CompletedPhase DEF StepComplete, Follows
  <2>2. socket.got = payload /\ payload = request.id
    BY <1>2, <1>4, <2>1 DEF NodeInv, SocketOK, OneReading
  <2>3. SocketOK'
    BY <1>4 DEF NodeInv, SocketOK
  <2> QED
    BY <1>1, <1>4, <2>1, <2>2, <2>3, ForwardNode DEF NodeInv, HistoryOK
<1>5. CASE StepPending /\ UNCHANGED <<socket, sawStatus, answered>>
  <2>1. /\ UNCHANGED <<PumpPart, phase, nextRetry>> /\ pc' = "user"
    BY <1>5 DEF StepPending, StepIsPending, Return, job, PumpPart
  <2>2. active
    BY <1>1 DEF IInv, TypeOK
  <2>3. OneReading'
    BY <1>1, <2>1, SameReading DEF NodeInv
  <2>4. SocketHeld'
    BY <1>1, <2>1, <2>2 DEF SocketHeld, Attended, Connecting, PumpPart
  <2> QED
    BY <1>1, <1>5, <2>1, <2>3, <2>4
    DEF NodeInv, SocketOK, HistoryOK, Exchange, AcceptedOnce, GivenUp, PumpPart
<1> QED
  BY <1>2, <1>3, <1>4, <1>5 DEF HttpReadStep

LEMMA CloseNode ==
  ASSUME IInv, NodeInv, HttpCloseStep
  PROVE  NodeInv'
<1>1. /\ phase = "Closing" /\ socket' = Closed
      /\ UNCHANGED <<payload, answered, accepted, unread, missed>>
  BY DEF HttpCloseStep, history
<1>2. UNCHANGED PumpPart /\ phase' = phase /\ pc' = "complete"
  BY <1>1, CompletedPhase DEF HttpCloseStep, StepComplete, Follows
<1>3. OneReading'
  BY <1>1, <1>2, SameReading DEF NodeInv
<1>4. SocketOK' /\ SocketHeld'
  BY <1>1, ClosedSound DEF SocketOK, SocketHeld
<1> QED
  BY <1>1, <1>2, <1>3, <1>4 DEF NodeInv, HistoryOK, Exchange, AcceptedOnce, GivenUp, PumpPart

LEMMA AbortNode ==
  ASSUME IInv, NodeInv, Abort
  PROVE  NodeInv'
<1>1. /\ pc = "abort" /\ socket' = Closed /\ sawStatus' = "none"
      /\ UNCHANGED <<payload, answered, accepted, unread, missed>>
  BY DEF Abort, AbortReturns, history
<1>2. UNCHANGED PumpPart /\ Again
  BY EndOfAttempt DEF Abort, AbortReturns
<1>3. OneReading'
  BY <1>1, <1>2, SameReading DEF NodeInv
<1>4. SocketOK' /\ SocketHeld' /\ socket'.got = NoRequest
  BY <1>1, ClosedSound DEF SocketOK, SocketHeld
<1>5. HistoryOK' /\ AcceptedOnce' /\ GivenUp'
  <2>1. phase # "Idle"
    BY <1>1 DEF IInv, TypeOK, InCallback
  <2> QED
    BY <1>1, <1>2, <1>4, <2>1, ClosedSound DEF NodeInv, HistoryOK, AcceptedOnce, GivenUp, Again
<1>6. Exchange'
  BY <1>1, <1>2, <1>4 DEF NodeInv, Exchange, Again, PumpPart
<1> QED
  BY <1>3, <1>4, <1>5, <1>6 DEF NodeInv

LEMMA CompletionNode ==
  ASSUME IInv, NodeInv, CompletionReturns, UNCHANGED <<payload, socket, flags, history>>
  PROVE  NodeInv'
<1>1. /\ active /\ pc = "complete" /\ ~active' /\ phase' = "Idle" /\ queue' = queue
      /\ UNCHANGED <<answered, accepted, unread, missed>>
  BY DEF CompletionReturns, IInv, TypeOK, InCallback, history
<1>2. SocketHeld'
  BY <1>1 DEF NodeInv, SocketHeld, Attended
<1> QED
  BY <1>1, <1>2 DEF NodeInv, SocketOK, HistoryOK, OneReading, Exchange, AcceptedOnce, GivenUp

LEMMA StepNode ==
  ASSUME IInv, NodeInv, [NodeNext]_nodeVars
  PROVE  NodeInv'
<1>1. CASE Callback
  BY <1>1, ConnectNode, WriteNode, ReadNode, CloseNode, AbortNode, CompletionNode DEF Callback
<1>2. CASE (Elapse /\ UNCHANGED <<payload, socket, flags, metrics, history>>) \/ UNCHANGED nodeVars
  <2>1. UNCHANGED <<queue, active, request, phase, nextRetry, pc, socket, sawStatus, payload,
                    answered, accepted, unread, missed>>
    BY <1>2 DEF Elapse, nodeVars, vars, job, flags, history
  <2> QED
    BY <2>1
    DEF NodeInv, SocketOK, HistoryOK, OneReading, Exchange, AcceptedOnce, GivenUp, SocketHeld, Attended,
        Connecting
<1> QED
  BY <1>1, <1>2, NetworkNode, DispatchNode, PumpTaskNode DEF NodeNext

LEMMA NodeAlways == NodeSpec => [](IInv /\ NodeInv)
<1>1. IInv /\ NodeInv /\ [NodeNext]_nodeVars => NodeInv'
  BY StepNode
<1> QED
  BY <1>1, InitNode, PumpAlways, PTL DEF NodeSpec

\* For every configuration and behaviour of the server: when the pump is idle or
\* waits for a retry, no connection is open, unless the closing phase timed out.
THEOREM SocketIsReleased == NodeSpec => []SocketReleased
<1>1. IInv /\ NodeInv => SocketReleased
  BY DEF NodeInv, SocketHeld, Attended, SocketReleased
<1> QED
  BY <1>1, NodeAlways, PTL

\* For every configuration and behaviour of the server: a request is reported
\* successful only when its current attempt has read the 2xx answer to its own
\* reading.
THEOREM ReportsAreHonest == NodeSpec => ReportsHonest
<1>1. NodeInv /\ HttpCloseStep => answered = request.id
  BY DEF NodeInv, Exchange, HttpCloseStep
<1>2. IInv /\ NodeInv /\ [NodeNext]_nodeVars => [HttpCloseStep => answered = request.id]_nodeVars
  BY <1>1
<1> QED
  BY <1>2, NodeAlways, PTL DEF NodeSpec, ReportsHonest

\* For every configuration and behaviour of the server: a reading the server has
\* accepted, its 2xx answer having arrived, is written again only after a timeout of
\* the reading phase, which may leave that answer unread, or of the closing phase.
THEOREM NeverRepeated == NodeSpec => NotRepeated
<1> DEFINE Posts == socket'.got # NoRequest /\ socket.got = NoRequest
           Fresh == ~accepted \/ unread \/ missed
<1>1. ASSUME IInv, NodeInv, NodeNext, Posts PROVE Fresh
  <2>1. CASE HttpWriteStep
    BY <1>1, <2>1 DEF HttpWriteStep, NodeInv, AcceptedOnce
  <2>2. ~(ServerAnswers \/ ConnectionEnds)
    <3>1. ASSUME NEW reply, socket' = [socket EXCEPT !.reply = reply] PROVE FALSE
      BY <1>1, <3>1 DEF NodeInv, SocketOK
    <3>2. socket' # [socket EXCEPT !.up = FALSE]
      BY <1>1 DEF NodeInv, SocketOK
    <3> QED
      BY <3>1, <3>2 DEF ServerAnswers, ConnectionEnds
  <2>3. ~(socket' \in {socket, Closed, Connected})
    BY <1>1, ClosedSound
  <2>4. socket' # [socket EXCEPT !.reply = "none"]
    BY <1>1 DEF NodeInv, SocketOK
  <2> QED
    BY <1>1, <2>1, <2>2, <2>3, <2>4
    DEF NodeNext, Dispatch, PumpTask, Callback, HttpConnectStep, HttpReadStep, HttpCloseStep,
        Abort
<1>2. IInv /\ NodeInv /\ [NodeNext]_nodeVars => [Posts => Fresh]_nodeVars
  BY <1>1
<1> QED
  BY <1>2, NodeAlways, PTL DEF NodeSpec, NotRepeated

-------------------------------------------------------------------------------
(* The pump in the node.                                                   *)

\* What the node does with its pump, the pump's own model allows: in the node,
\* too, readings are served in order, each is reported exactly once, and retries
\* keep their backoff.
THEOREM PumpKeepsItsPromises == NodeSpec => ImplementsService /\ BackoffKept
<1>1. NodeInit => Init
  BY DEF NodeInit
<1>2. [NodeNext]_nodeVars => [Next]_vars
  BY NodeStepsPump DEF nodeVars
<1>3. NodeSpec => Spec
  BY <1>1, <1>2, PTL DEF NodeSpec, Spec
<1>4. NoRestart
  BY HttpNodeAssumption DEF NoRestart
<1> QED
  BY <1>3, <1>4, PumpImplementsService, BackoffAlwaysKept
===============================================================================
