----------------------------- MODULE PowerSaveLoop -----------------------------
(***************************************************************************)
(* loop() as the power-saving adapter runs it: tick(), then a delay up to  *)
(* the next wake-up nextWakeInMs() reports, less one millisecond.  The     *)
(* delay is nextWakeInMs() - 1 of real time in which nothing is polled, so *)
(* a wake-up reported too late is a task that runs too late.               *)
(***************************************************************************)
EXTENDS KernelTasksProps

\* The ready tasks that safe mode admits; capabilities are not looked at.
Waking ==
  {i \in Tasks : task[i].state = "Ready" /\ (kernel.safeMode => task[i].priority >= kernel.floor)}

\* Mutant: the time of the last tick is taken for the current time.
RemainingAtTick(i) ==
  LET elapsed == Minus(lastTick, task[i].lastRun)
  IN  IF elapsed >= Config[i].interval THEN 0 ELSE Config[i].interval - elapsed

Remaining(i) ==
  LET elapsed == Minus(CurrentTime, task[i].lastRun)
  IN  IF elapsed >= Config[i].interval THEN 0 ELSE Config[i].interval - elapsed

\* What nextWakeInMs() may return: 0 while messages wait, or without a task.
NextWakeInMs ==
  IF ~started \/ Waking = {} THEN {0}
  ELSE {0} \cup {Remaining(i) : i \in {j \in Waking : \A k \in Waking : Remaining(j) <= Remaining(k)}}

\* powerSaveTick() with kIdleSleep, after its tick(); the other idle strategies
\* and short waits only yield.  A kernel without a clock source is not run this
\* way: its tick() would not see time pass.
Sleep ==
  /\ pc = "loop" /\ clocked
  /\ \E wake \in NextWakeInMs :
       /\ wake > 1
       /\ clock' = Plus(clock, wake - 1)
  /\ UNCHANGED <<api, control>>

LoopNext == Next \/ Sleep

LoopSpec == Init /\ [][LoopNext]_vars

\* loop() goes on, and so does time.
FairLoopSpec == LoopSpec /\ WF_vars(Tick) /\ WF_vars(TickBegins) /\ SF_vars(Elapse)

-------------------------------------------------------------------------------
\* The loop never sleeps through a due time: a task that can run and is not due
\* when the loop goes to sleep is not due yet when it wakes, whenever the tasks
\* were suspended, resumed, reprioritised or anchored, and across a wrap of
\* millis().
NoOversleep ==
  [][ Sleep => \A i \in Tasks : CanRun(i) /\ ~Due(i, clock) => ~Due(i, clock') ]_vars
===============================================================================
