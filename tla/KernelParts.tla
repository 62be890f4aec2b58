------------------------------ MODULE KernelParts ------------------------------
(***************************************************************************)
(* The parts of the kernel that keep state of their own and read no other  *)
(* part's: the handler tables with the dispatches in progress, the event   *)
(* flags, the trace, and the length of a queue with the drain budgets of a *)
(* tick.  Nothing one of them does changes what another one may do, so     *)
(* they are checked side by side and not multiplied: a behaviour moves one *)
(* of them.                                                                *)
(***************************************************************************)
EXTENDS DispatchProps

CONSTANTS
  Flags,
  Entries, MaxEntries, NoEntry,
  AdaptiveDrain, IdleMultiplier, Capacities

VARIABLES
  flags, taking, owed, raced,         \* the event flags
  ring, head, tail, count, recent,    \* the trace
  capacity, base, queued,             \* a queue
  moving                              \* the part that moves

flagsVars == <<flags, taking, owed, raced>>
traceVars == <<ring, head, tail, count, recent>>
budgetVars == <<capacity, base, queued>>

EventFlags == INSTANCE EventFlags
Trace == INSTANCE TraceRing
Budget == INSTANCE MCDrainLimit

ASSUME KernelPartsAssumption ==
  /\ Trace!Parameters
  /\ AdaptiveDrain \in BOOLEAN /\ IdleMultiplier \in 1 .. 16
  /\ Capacities \subseteq 0 .. 255

PartsInit ==
  /\ Init /\ EventFlags!Init /\ Trace!Init
  /\ moving \in {"tables", "flags", "trace", "budget"}
  /\ IF moving = "budget" THEN Budget!Init ELSE capacity = 0 /\ base = 0 /\ queued = 0

PartsNext ==
  /\ UNCHANGED moving
  /\ \/ moving = "tables" /\ Next /\ UNCHANGED <<flagsVars, traceVars, budgetVars>>
     \/ moving = "flags" /\ EventFlags!Next /\ UNCHANGED <<vars, traceVars, budgetVars>>
     \/ moving = "trace" /\ Trace!Next /\ UNCHANGED <<vars, flagsVars, budgetVars>>
     \/ moving = "budget" /\ Budget!Enqueue /\ UNCHANGED <<vars, flagsVars, traceVars>>

PartsSpec == PartsInit /\ [][PartsNext]_<<vars, flagsVars, traceVars, budgetVars, moving>>

-------------------------------------------------------------------------------
\* Event flags are neither lost nor seen twice, except that a flag set between
\* the load and the clear of a take of it may be lost.
FlagsKept == EventFlags!FlagsKept

\* A snapshot of the trace shows a stretch of its entries in order.
TraceKept == Trace!TraceKept

\* A snapshot shows the newest entries, as its documentation says.
NewestShown == Trace!NewestShown

\* A tick's drain budget is between the configured one and the queue's length,
\* except where the raised budget wraps.
LimitsBounded == Budget!LimitsBounded
===============================================================================
