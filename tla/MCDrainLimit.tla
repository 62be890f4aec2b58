----------------------------- MODULE MCDrainLimit -----------------------------
(***************************************************************************)
(* The drain budgets tabulated: a build's capacity and base budget are     *)
(* fixed, its queue fills one message at a time.                           *)
(***************************************************************************)
EXTENDS DrainLimit

CONSTANT Capacities   \* the capacities tabulated

VARIABLES capacity, base, queued
vars == <<capacity, base, queued>>

Init ==
  /\ capacity \in Capacities
  /\ base \in 0 .. capacity     \* static_assert: 0 or at most the capacity
  /\ queued = 0

Enqueue ==
  /\ queued < capacity
  /\ queued' = queued + 1
  /\ UNCHANGED <<capacity, base>>

Spec == Init /\ [][Enqueue]_vars

Normal == ResolveDrainLimit(queued, base, capacity)
Idle == ResolveIdleDrainLimit(queued, base, capacity)

\* The sum of the raised budget does not fit into its uint8_t.  It takes a queue
\* of at least 187 messages and a base budget of more than half of it.
Wraps ==
  /\ AdaptiveDrain
  /\ queued > capacity \div 2 /\ queued < (capacity * 3) \div 4
  /\ base + queued \div 2 > 255

\* A tick drains at least its configured budget, at most what is queued, and is
\* never handed the limit 0 that the drain loops read as "no limit".  The code
\* breaks this where the raised budget wraps: the tick then gets less than its
\* base, or, at a sum of 256, no limit at all.  A tick that ran no task computes
\* its budget without that sum and is bounded in every build.
LimitsBounded ==
  queued > 0 =>
    /\ Wraps \/ Normal \in AtMost(queued, AtLeast(base, 1)) .. queued
    /\ Idle \in AtMost(queued, AtLeast(base, 1)) .. queued
===============================================================================
