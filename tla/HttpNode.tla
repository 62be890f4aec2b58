------------------------------- MODULE HttpNode -------------------------------
(***************************************************************************)
(* The HTTP half of the network node as LiveNetworkNode builds it: one     *)
(* task writes a reading into the payload buffer and hands it to the HTTP  *)
(* pump, one ticks the pump, whose step callbacks drive one socket and     *)
(* keep their own flags beside the pump's phases.  The pump counts its     *)
(* attempts and results in its transport metrics.                          *)
(*                                                                         *)
(* A reading is what the buffer holds; a request points to the buffer.     *)
(* The server may answer or not, with success or an error, and the         *)
(* connection may end at any time.                                         *)
(***************************************************************************)
EXTENDS HttpPumpProps, TransportMetrics

CONSTANT IoTimeout   \* kHttpIoTimeoutMs

VARIABLES
  payload,   \* g_httpPayload
  socket,    \* g_httpClient
  prepared,  \* g_httpRequestPrepared
  sawStatus, \* g_httpResponseSawStatus and g_httpResponseSuccess, one value
  deadline,  \* g_httpReadDeadlineMs
  metrics,   \* metrics_ of the pump
  answered,  \* history: the reading whose 2xx answer the current attempt has read
  accepted,  \* history: a 2xx answer to the current request has arrived
  unread,    \* history: the reading phase of the current request timed out
  missed     \* history: the closing phase of the current request timed out

flags == <<prepared, sawStatus, deadline>>
history == <<answered, accepted, unread, missed>>
nodeVars == <<vars, payload, socket, flags, metrics, history>>

ASSUME HttpNodeAssumption ==
  /\ HasClose /\ CallbackMay = {} /\ IoTimeout \in Nat
  /\ Counted = {"connectAttempts", "connectSuccesses", "connectFailures",
                "sendAttempts", "sendSuccesses", "sendFailures"}

Closed == [open |-> FALSE, up |-> FALSE, got |-> NoRequest, reply |-> "none"]
Connected == [open |-> TRUE, up |-> TRUE, got |-> NoRequest, reply |-> "none"]

-------------------------------------------------------------------------------
(* The server and the network.                                             *)

\* A status line arrives; the server may refuse before it has read the request.
\* Before and after the reading phase a connection carries only answers to a
\* request before, or one more to a request that was accepted.
ServerAnswers ==
  /\ socket.up /\ socket.reply = "none"
  /\ \E reply \in {"2xx", "error"} :
       /\ reply = "2xx" => socket.got # NoRequest
       /\ socket' = [socket EXCEPT !.reply = reply]
       /\ accepted' = (accepted \/ (reply = "2xx" /\ phase = "Reading"))
  /\ UNCHANGED <<vars, payload, flags, metrics, answered, unread, missed>>

ConnectionEnds ==
  /\ socket.up
  /\ socket' = [socket EXCEPT !.up = FALSE]
  /\ UNCHANGED <<vars, payload, flags, metrics, history>>

-------------------------------------------------------------------------------
(* The metrics of the pump, as each of its steps records them.             *)

\* handlePhaseFailure_ up to the close step ...
FailureRecorded(m) ==
  IF Connecting THEN RecordConnectResult(m, FALSE) ELSE RecordSendResult(m, FALSE)

\* ... and behind it.
RetryRecorded(m) == IF retries > 0 THEN Record(m, {"connectAttempts"}) ELSE m

Failed(m) ==
  IF phase = "Closing" THEN RetryRecorded(FailureRecorded(m)) ELSE FailureRecorded(m)

\* Mutant: the attempt to send is counted when the request is written.
SucceededLate(m) ==
  CASE Connecting -> RecordConnectResult(m, TRUE)
    [] phase = "Writing" -> Record(m, {"sendAttempts"})
    [] phase = "Reading" -> m
    [] phase = "Closing" -> RecordSendResult(m, TRUE)

\* handlePhaseSuccess_.
Succeeded(m) ==
  CASE Connecting -> Record(RecordConnectResult(m, TRUE), {"sendAttempts"})
    [] phase \in {"Writing", "Reading"} -> m
    [] phase = "Closing" -> RecordSendResult(m, TRUE)

-------------------------------------------------------------------------------
(* dispatchTask.                                                           *)

\* Mutant: a request that is being served is not looked at.
DispatchWhileBusy(reading, grant) ==
  /\ pc = "user"
  /\ queue = <<>> /\ TRUE \in Links
  /\ payload' = reading
  /\ Enqueue(reading, grant)
  /\ UNCHANGED <<socket, flags, metrics, history>>

\* The buffer is written when the pump holds no request that points to it.
Dispatch(reading, grant) ==
  /\ pc = "user"
  /\ queue = <<>> /\ ~active /\ TRUE \in Links
  /\ payload' = reading
  /\ Enqueue(reading, grant)
  /\ UNCHANGED <<socket, flags, metrics, history>>

-------------------------------------------------------------------------------
(* httpPumpTask, outside its callbacks.                                    *)

TickBody ==
  \/ TickBegins /\ UNCHANGED <<metrics, history>>
  \/ (NothingToStart \/ WaitForRetry \/ StepCurrentPhase) /\ UNCHANGED <<metrics, history>>
  \/ /\ StartNextRequest
     /\ metrics' = Record(metrics, {"connectAttempts"})
     /\ answered' = NoRequest /\ accepted' = FALSE /\ unread' = FALSE /\ missed' = FALSE
  \/ LinkLost /\ metrics' = Failed(metrics) /\ UNCHANGED history
  \/ /\ PhaseTimesOut
     /\ metrics' = Failed(metrics)
     /\ unread' = (unread \/ phase = "Reading")
     /\ missed' = (missed \/ phase = "Closing")
     /\ UNCHANGED <<answered, accepted>>

PumpTask == TickBody /\ UNCHANGED <<payload, socket, flags>>

-------------------------------------------------------------------------------
(* The step callbacks.                                                     *)

StepFailed == StepFails /\ metrics' = Failed(metrics)
StepComplete == StepCompletes /\ metrics' = Succeeded(metrics)
StepPending == StepIsPending /\ UNCHANGED metrics

\* httpConnectStep: the old connection is closed first; the flags are only
\* reset when the new one is up.
HttpConnectStep ==
  /\ Connecting
  /\ \/ /\ StepComplete
        /\ socket' = Connected
        /\ prepared' = FALSE /\ sawStatus' = "none" /\ deadline' = 0
     \/ /\ StepFailed
        /\ socket' = Closed
        /\ UNCHANGED flags
  /\ answered' = NoRequest
  /\ UNCHANGED <<payload, accepted, unread, missed>>

\* httpWriteStep: the request's header and the buffer its body points to.
HttpWriteStep ==
  /\ phase = "Writing"
  /\ \/ ~socket.up /\ StepFailed /\ UNCHANGED <<socket, flags>>
     \/ /\ socket.up /\ StepComplete
        /\ socket' = IF prepared THEN socket ELSE [socket EXCEPT !.got = payload]
        /\ prepared' = TRUE
        /\ deadline' = IF prepared THEN deadline ELSE Plus(clock, IoTimeout)
        /\ UNCHANGED sawStatus
  /\ UNCHANGED <<payload, history>>

\* httpReadStep: the status line decides; the deadline is compared as a number.
HttpReadStep ==
  /\ phase = "Reading"
  /\ \/ /\ socket.reply = "none" /\ ~socket.up
        /\ IF sawStatus = "2xx" THEN StepComplete /\ UNCHANGED socket
                                ELSE StepFailed /\ socket' = Closed
        /\ UNCHANGED <<sawStatus, answered>>
     \/ /\ socket.reply = "2xx"
        /\ StepComplete
        /\ socket' = [socket EXCEPT !.reply = "none"]
        /\ sawStatus' = "2xx" /\ answered' = socket.got
     \/ /\ socket.reply = "error"
        /\ StepFailed
        /\ socket' = Closed
        /\ sawStatus' = "error"
        /\ UNCHANGED <<answered, accepted>>
     \/ /\ socket.reply = "none" /\ socket.up /\ clock > deadline
        /\ StepFailed
        /\ socket' = Closed
        /\ UNCHANGED <<sawStatus, answered>>
     \/ /\ socket.reply = "none" /\ socket.up /\ clock <= deadline
        /\ StepPending
        /\ UNCHANGED <<socket, sawStatus, answered>>
  /\ UNCHANGED <<payload, prepared, deadline, accepted, unread, missed>>

\* Mutant: closing a connection that the server has ended is a failure.
HttpCloseStepFailing ==
  /\ phase = "Closing"
  /\ IF socket.up THEN StepComplete ELSE StepFailed
  /\ socket' = Closed
  /\ prepared' = FALSE /\ sawStatus' = "none"
  /\ UNCHANGED <<payload, deadline, history>>

\* httpCloseStep, in its phase ...
HttpCloseStep ==
  /\ phase = "Closing"
  /\ StepComplete
  /\ socket' = Closed
  /\ prepared' = FALSE /\ sawStatus' = "none"
  /\ UNCHANGED <<payload, deadline, history>>

\* Mutant: the flags are reset, the connection is left to the next attempt.
AbortResetting ==
  /\ AbortReturns
  /\ prepared' = FALSE /\ sawStatus' = "none"
  /\ metrics' = RetryRecorded(metrics)
  /\ UNCHANGED <<payload, socket, deadline, history>>

\* ... and for an attempt that failed.
Abort ==
  /\ AbortReturns
  /\ socket' = Closed
  /\ prepared' = FALSE /\ sawStatus' = "none"
  /\ metrics' = RetryRecorded(metrics)
  /\ UNCHANGED <<payload, deadline, history>>

Callback ==
  \/ HttpConnectStep \/ HttpWriteStep \/ HttpReadStep \/ HttpCloseStep \/ Abort
  \/ CompletionReturns /\ UNCHANGED <<payload, socket, flags, metrics, history>>

-------------------------------------------------------------------------------
NodeInit ==
  /\ Init
  /\ payload = NoRequest
  /\ socket = Closed
  /\ prepared = FALSE /\ sawStatus = "none" /\ deadline = 0
  /\ metrics = NoMetrics
  /\ answered = NoRequest /\ accepted = FALSE /\ unread = FALSE /\ missed = FALSE

NodeNext ==
  \/ ServerAnswers \/ ConnectionEnds
  \/ Elapse /\ UNCHANGED <<payload, socket, flags, metrics, history>>
  \/ \E reading \in Requests : \E grant \in Grants : Dispatch(reading, grant)
  \/ PumpTask \/ Callback

NodeSpec == NodeInit /\ [][NodeNext]_nodeVars
===============================================================================
