------------------------------ MODULE DrainLimit ------------------------------
(***************************************************************************)
(* The per-tick drain budgets of the deferred queues, in the 8-bit         *)
(* arithmetic of Kernel::resolveDrainLimit_ and resolveIdleDrainLimit_.     *)
(* A budget of 0 means "no limit" to the drain loops, so a budget that     *)
(* wraps to 0 is not a small budget but an unbounded one.                  *)
(***************************************************************************)
EXTENDS Integers

CONSTANTS
  AdaptiveDrain,    \* ZEROKERNEL_ENABLE_ADAPTIVE_DRAIN
  IdleMultiplier    \* ZEROKERNEL_IDLE_DRAIN_MULTIPLIER

\* ZeroKernelConfig.h rejects a multiplier outside 1..16 at compile time.
ASSUME DrainLimitAssumption ==
  /\ AdaptiveDrain \in BOOLEAN
  /\ IdleMultiplier \in 1 .. 16

Byte == 0 .. 255

\* A value stored into a uint8_t.
U8(n) == n % 256

AtMost(n, bound) == IF n < bound THEN n ELSE bound
AtLeast(n, bound) == IF n < bound THEN bound ELSE n

\* Mutant: half the queue replaces the base instead of being added to it.
RaisedLimitOfHalf(queued, base, capacity) ==
  CASE capacity > 0 /\ queued >= (capacity * 3) \div 4 -> queued
    [] capacity > 0 /\ queued > capacity \div 2
       /\ queued < (capacity * 3) \div 4 -> U8(queued \div 2)
    [] OTHER -> base

\* The adaptive part: a base budget grows once the queue is over half full,
\* and becomes the whole queue from three quarters on.
RaisedLimit(queued, base, capacity) ==
  CASE capacity > 0 /\ queued >= (capacity * 3) \div 4 -> queued
    [] capacity > 0 /\ queued > capacity \div 2
       /\ queued < (capacity * 3) \div 4 -> U8(base + queued \div 2)
    [] OTHER -> base

ResolveDrainLimit(queued, base, capacity) ==
  IF queued = 0 \/ base = 0 THEN queued
  ELSE AtMost(queued, IF AdaptiveDrain THEN RaisedLimit(queued, base, capacity)
                                       ELSE base)

\* The budget of a tick that ran no task.  The product is a uint16_t: with a
\* multiplier of at most 16 it never wraps.
ResolveIdleDrainLimit(queued, base, capacity) ==
  LET scaled == AtLeast(base * IdleMultiplier, base)
      capped == IF capacity > 0 THEN AtMost(scaled, capacity) ELSE scaled
  IN  IF queued = 0 \/ base = 0 THEN queued
      ELSE AtMost(queued, AtMost(capped, 255))
===============================================================================
