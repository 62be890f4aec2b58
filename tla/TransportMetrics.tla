--------------------------- MODULE TransportMetrics ---------------------------
(***************************************************************************)
(* The counters of a transport: unsigned 16-bit values that stop at their  *)
(* maximum.  Latencies are left out.  A model that uses the module chooses *)
(* the counters it keeps (Counted); the others are not recorded.           *)
(***************************************************************************)
EXTENDS Integers

CONSTANTS
  Counted,      \* the counters that are kept
  CounterMax    \* 0xFFFF

Counters ==
  {"connectAttempts", "connectSuccesses", "connectFailures", "sendAttempts",
   "sendSuccesses", "sendFailures", "loopCalls", "queueDrops",
   "backoffSchedules", "consecutiveFailures", "maxQueueDepth"}

ASSUME TransportMetricsAssumption ==
  /\ Counted \subseteq Counters
  /\ CounterMax \in Nat \ {0}

Metrics == [Counted -> 0 .. CounterMax]

\* reset().
NoMetrics == [c \in Counted |-> 0]

\* increment16_.
Increment(n) == IF n = CounterMax THEN n ELSE n + 1

Record(m, counters) == [c \in Counted |-> IF c \in counters THEN Increment(m[c]) ELSE m[c]]

\* recordConnectResult and recordSendResult: a success ends a series of failures.
RecordResult(m, ok, success, failure) ==
  LET counted == Record(m, IF ok THEN {success} ELSE {failure, "consecutiveFailures"})
  IN  [c \in Counted |-> IF ok /\ c = "consecutiveFailures" THEN 0 ELSE counted[c]]

RecordConnectResult(m, ok) == RecordResult(m, ok, "connectSuccesses", "connectFailures")

RecordSendResult(m, ok) == RecordResult(m, ok, "sendSuccesses", "sendFailures")

\* recordSendQueued: the queue's greatest depth.
RecordSendQueued(m, depth) ==
  [c \in Counted |-> IF c = "maxQueueDepth" /\ depth > m[c] THEN depth ELSE m[c]]
===============================================================================
