----------------------------- MODULE HttpNodeProps -----------------------------
(***************************************************************************)
(* Properties of the HTTP half of the network node.                        *)
(***************************************************************************)
EXTENDS HttpNode

\* A request is reported successful only when its current attempt has read the
\* server's 2xx answer to its own reading: neither an earlier attempt's flags
\* nor a reading written into the buffer meanwhile is taken for it.
ReportsHonest == [][ HttpCloseStep => answered = request.id ]_nodeVars

\* A reading whose 2xx answer has arrived is not posted again by any failure but
\* two: a timeout of the reading phase, although the answer may wait in the socket,
\* for the pump looks at the time before it calls the step; and a timeout of the
\* closing phase, which makes a failure of a request that has succeeded.  In these
\* two the code posts an accepted reading twice.  An answer that is lost on its way
\* is unknown to the node and not held against it.
NotRepeated ==
  [][ socket'.got # NoRequest /\ socket.got = NoRequest
      => ~accepted \/ unread \/ missed ]_nodeVars

\* No connection is left open while the pump is idle or waits for a retry,
\* wherever an attempt failed; again except after a timeout of the closing
\* phase, the one failure that does not call the close step.
SocketReleased ==
  (pc = "user" /\ (~active \/ (Connecting /\ nextRetry # 0))) => ~socket.open \/ missed

\* The books balance: until a counter is full, each attempt that was counted
\* has one result or is in progress.  The rates a node reports rest on it.
InProgress(phases) == IF phase \in phases /\ pc \notin {"abort", "complete"} THEN 1 ELSE 0
AttemptsAccounted ==
  /\ metrics["connectAttempts"] < CounterMax =>
       metrics["connectAttempts"] = metrics["connectSuccesses"] + metrics["connectFailures"]
                                    + InProgress({"Connecting"})
  /\ metrics["sendAttempts"] < CounterMax =>
       metrics["sendAttempts"] = metrics["sendSuccesses"] + metrics["sendFailures"]
                                 + InProgress({"Writing", "Reading", "Closing"})
===============================================================================
