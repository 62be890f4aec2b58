--------------------------- MODULE MCDeferredQueues ---------------------------
(***************************************************************************)
(* Small instances of the deferred queues.                                 *)
(***************************************************************************)
EXTENDS DeferredQueuesProps, TLC

CONSTANTS m1, m2, m3, w1

\* Queues of up to three entries; the command queue has no slots.
MCCapacity == [event |-> 2, command |-> 0, work |-> 1]
MCDrainPerTick == [event |-> 1, command |-> 0, work |-> 0]
MCMessages == [event |-> {m1, m2, m3}, command |-> {}, work |-> {w1}]

\* The kernel compares messages for equality only, so events are symmetric
\* (for the run without liveness).
Symmetry == Permutations({m1, m2, m3})

MCDropOldest == {"event", "work"}
===============================================================================
