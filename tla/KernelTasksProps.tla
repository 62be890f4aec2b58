---------------------------- MODULE KernelTasksProps ----------------------------
(***************************************************************************)
(* What the scheduler and its supervision must satisfy.                    *)
(***************************************************************************)
EXTENDS KernelTasks

\* Slots, kernel record, times and control keep their types; in particular a
\* failure counter stays within uint8_t and a priority floor is a priority.
TypeOK ==
  /\ task \in [Tasks -> Slot]
  /\ kernel \in Kernel
  /\ started \in BOOLEAN
  /\ policy \in Policy
  /\ caps \in [active : SUBSET Caps, safe : SUBSET Caps]
  /\ hints \in [ready : Nat, monitoring : BOOLEAN]
  /\ clocked \in BOOLEAN
  /\ {clock, lastTick, now} \subseteq Time
  /\ pc \in {"loop", "inspect", "select", "callback", "drain", "lastDrain"}
  /\ cursor \in Tasks
  /\ current \in 0 .. N

-------------------------------------------------------------------------------
(* The kernel state and the safe-mode restriction.                         *)

\* kernelState_, safeMode_, the floor and lastPanic_ are written by seven
\* functions, some of them in the middle of a failure; the state that is
\* reported never contradicts the restriction that selection applies: SAFE_MODE
\* and RECOVERY only under it, BOOT and NORMAL only without it, no floor left
\* behind when it is lifted, and PANIC only with the record that explains it.
KernelCoherent ==
  /\ kernel.state \in {"SafeMode", "Recovery"} => kernel.safeMode
  /\ kernel.state \in {"Boot", "Normal"} => ~kernel.safeMode
  /\ ~kernel.safeMode => kernel.floor = High
  /\ kernel.state = "Panic" => kernel.panic.reason # "None"

\* Supervision never uses a stale hint: heartbeats are inspected exactly when
\* some heartbeat is configured, although the flag is cached and recomputed by
\* each of the functions that change a timeout.
MonitoringFresh == hints.monitoring = Hints(task, policy).monitoring

\* A task that auto-recovery left faulted has exhausted its failure budget, and
\* it is contained: the kernel entered safe mode or recorded a panic, and has
\* not come back by itself.  (For builds whose user code neither lifts safe mode
\* nor switches auto-recovery off.)
FaultsContained ==
  \A i \in Tasks :
    task[i].state = "Faulted" =>
      /\ Exhausted(i, task[i].fails)
      /\ kernel.safeMode \/ kernel.panic.reason # "None"

\* No stall goes unnoticed: outside the inspections, and whatever callbacks,
\* handlers and waits came before, no ready task under supervision has been
\* silent, at the time the last inspection used, for longer than its interval
\* and its timeout; the silence since then is at most what the clock has moved.
Supervised(i) == task[i].state = "Ready" /\ Timeout(i) # 0
StallsNoticed ==
  started /\ pc \in {"loop", "select", "callback", "lastDrain"} =>
    \A i \in Tasks :
      Supervised(i) =>
        Minus(clock, task[i].lastBeat) <= Config[i].interval + Timeout(i) + Minus(clock, now)

-------------------------------------------------------------------------------
(* What a step of tick() may never do.                                     *)

\* The slot a failure of this step is charged to.
Charged == IF pc = "inspect" THEN cursor ELSE current
InTick == pc' # pc \/ cursor' # cursor
AutoBegins == pc = "loop" /\ ~started

\* Recovery never takes the kernel out of PANIC: tick() leaves that state only
\* when it begins an unstarted kernel, degrades it on behalf of a task that may
\* degrade, or restricts it because another task exhausted its budget.
PanicSticky ==
  [][ kernel.state = "Panic" /\ kernel'.state # "Panic" /\ InTick =>
        \/ AutoBegins
        \/ Config[Charged].allowDegrade
        \/ Exhausted(Charged, task'[Charged].fails) /\ ~Config[Charged].critical ]_vars

\* Whoever fails a heartbeat has been silent, in real time, for longer than the
\* interval and the timeout, whatever moment tick() inspects it at: a heartbeat
\* "refreshes" the task and heartbeatTimeoutMs is a "tolerance beyond the task
\* interval" (docs/api.md).
TimeoutsHonest ==
  [][ pc = "inspect" /\ task'[cursor] # task[cursor] =>
        Minus(clock, task[cursor].lastBeat) > Plus(Config[cursor].interval, Timeout(cursor)) ]_vars

\* The next interval is counted from a moment of the run just ended, also when
\* millis() wraps during the run: a task is never due before an interval has
\* passed since it last started.
AnchorInRun ==
  [][ pc = "callback" /\ pc' = "drain" /\ ~Config[current].dropIfLate =>
        Minus(now', task'[current].lastRun) <= Minus(now', now) ]_vars

-------------------------------------------------------------------------------
(* Liveness.                                                               *)

\* No starvation: a task that may run does run, unless it stops being ready,
\* admitted or thawed.
CanRun(i) == started /\ task[i].state = "Ready" /\ Admitted(i) /\ ~Frozen
ReadyTaskRuns ==
  \A i \in Tasks : CanRun(i) ~> (current = i \/ ~CanRun(i))
===============================================================================
