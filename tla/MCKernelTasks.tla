----------------------------- MODULE MCKernelTasks -----------------------------
(***************************************************************************)
(* Small instances of the scheduler: two tasks with contracts that differ  *)
(* where supervision tells contracts apart.                                *)
(***************************************************************************)
EXTENDS PowerSaveLoop, TLC

CONSTANT net   \* a capability bit

Plain == [interval |-> 1, heartbeat |-> 0, maxRuntimeMs |-> 0, maxRuntimeUs |-> 0,
          priority |-> 1, critical |-> FALSE, allowDegrade |-> FALSE,
          dropIfLate |-> FALSE, runImmediate |-> FALSE, failureBudget |-> 0,
          panicMode |-> "Default", floor |-> 0, needs |-> {}, startEnabled |-> TRUE]

With(changes) == changes @@ Plain

\* The loop's pair: a task with a budget of one failure, measured in
\* microseconds, beside a critical one that may degrade and freezes the kernel.
SupervisedPair ==
  <<With([interval |-> 2, heartbeat |-> 1, maxRuntimeUs |-> 500, failureBudget |-> 1]),
    With([interval |-> 2, heartbeat |-> 1, critical |-> TRUE, allowDegrade |-> TRUE,
          failureBudget |-> 1, panicMode |-> "Freeze"])>>

\* The API's pair: a task measured in microseconds beside a critical one that
\* starts suspended, runs at once when it starts, and needs a capability.
ManagedPair ==
  <<With([maxRuntimeUs |-> 500, failureBudget |-> 1, allowDegrade |-> TRUE]),
    With([heartbeat |-> 1, priority |-> 2, critical |-> TRUE, failureBudget |-> 1,
          runImmediate |-> TRUE, startEnabled |-> FALSE, needs |-> {net}])>>
StrictPolicy == {[heartbeat |-> 1, maxFailures |-> 1, autoRecovery |-> FALSE]}
===============================================================================
