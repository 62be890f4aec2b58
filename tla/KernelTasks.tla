------------------------------ MODULE KernelTasks ------------------------------
(***************************************************************************)
(* The cooperative scheduler and its supervision: task slots, tick(), the  *)
(* watchdog, safe mode and panic.  tick() runs in steps, because the user  *)
(* code it calls (task callbacks, and the handlers of the messages drained *)
(* after each task) may call the kernel back: between two steps any        *)
(* permitted API call may happen, and time passes.                         *)
(*                                                                         *)
(* Times are unsigned long milliseconds in the code (32 bits on the        *)
(* targets); here they are counted modulo Wrap, and compared, added and    *)
(* subtracted as the code does, so that millis() wraps within a few steps. *)
(* Signal, state-change and panic handlers only observe in this module.    *)
(***************************************************************************)
EXTENDS Integers, FiniteSets

CONSTANTS
  N,          \* the number of task slots used (at most kMaxTasks)
  Config,     \* slot -> the TaskConfig that addTask registers there
  Wrap,       \* the modulus of TimeMs
  Caps,       \* the capability bits
  Policies,   \* the watchdog policies user code installs
  Floors,     \* the priority floors user code passes to enterSafeMode
  Modes,      \* the panic modes user code passes to triggerPanic
  CapChoices, \* the capability masks user code installs
  NewPriorities, NewTimeouts,  \* what user code passes to setTaskPriority and
                               \* setTaskHeartbeatTimeout
  HasMicros,  \* the platform has a microsecond timer
  Clocks,     \* begin() with a clock source (TRUE) or without (FALSE)
  LoopMay,    \* the API calls made from setup() and loop()
  TaskMay,    \* the API calls made from task callbacks
  DrainMay,   \* the API calls made from handlers of drained messages
  MaxIdle,    \* bound: time between the end of a tick and the next one
  MaxRun,     \* bound: time one callback takes
  MaxDrain    \* bound: time the handlers of one drain take

Tasks == 1 .. N
Time == 0 .. Wrap - 1
U8(n) == n % 256
Priorities == 0 .. 3
High == 2
Critical == 3
PanicModes == {"Default", "Freeze", "EnterSafeMode", "Reboot"}
ApiCalls == {"begin", "rebegin", "stop", "add", "suspend", "resume", "heartbeat",
             "tune", "policy", "safeMode", "panic", "caps"}
Policy == [heartbeat : Time, maxFailures : 1 .. 255, autoRecovery : BOOLEAN]
Contract == [interval : Time \ {0}, heartbeat : Time, maxRuntimeMs : Time,
             maxRuntimeUs : Nat, priority : Priorities, critical : BOOLEAN, allowDegrade : BOOLEAN,
             dropIfLate : BOOLEAN, runImmediate : BOOLEAN, failureBudget : 0 .. 255,
             panicMode : PanicModes, floor : Priorities, needs : SUBSET Caps,
             startEnabled : BOOLEAN]

ASSUME TasksAssumption ==
  /\ N \in 1 .. 255
  /\ Wrap \in Nat \ {0, 1}
  /\ Config \in [Tasks -> Contract]
  /\ Policies \subseteq Policy
  /\ Floors \subseteq Priorities
  /\ Modes \subseteq PanicModes
  /\ CapChoices \subseteq SUBSET Caps
  /\ NewPriorities \subseteq Priorities
  /\ NewTimeouts \subseteq Time
  /\ Clocks \subseteq BOOLEAN /\ HasMicros \in BOOLEAN
  /\ LoopMay \cup TaskMay \cup DrainMay \subseteq ApiCalls
  /\ MaxIdle \in Nat /\ MaxRun \in Nat /\ MaxDrain \in Nat

VARIABLES
  task,       \* slot -> its TaskSlot: state, lastRun, lastBeat, fails
  kernel,     \* kernelState_, safeMode_, safeModePriorityFloor_, lastPanic_
  started,    \* started_
  policy,     \* watchdogPolicy_
  caps,       \* capabilityMask_ and safeModeCapabilityMask_
  hints,      \* readyTaskCount_ and heartbeatMonitoringActive_
  clocked,    \* clockSource_ is not NULL
  clock,      \* what millis() returns
  lastTick,   \* lastTickAtMs_
  pc,         \* where tick() is; "loop" outside
  cursor,     \* the slot inspectHeartbeats_ looks at next
  current,    \* the slot that runs or ran last in this pass, 0 if none
  now         \* schedulerNowMs

api == <<task, kernel, started, policy, caps, hints, clocked, lastTick>>
control == <<pc, cursor, current, now>>
vars == <<task, kernel, started, policy, caps, hints, clocked, clock, lastTick,
          pc, cursor, current, now>>

-------------------------------------------------------------------------------
(* Time.                                                                   *)

Plus(s, t) == (s + t) % Wrap
Minus(s, t) == (s - t) % Wrap
CurrentTime == IF clocked THEN clock ELSE lastTick

-------------------------------------------------------------------------------
(* Task slots.                                                             *)

TaskStates == {"Unused", "Ready", "Suspended", "Faulted"}
Slot == [state : TaskStates, lastRun : Time, lastBeat : Time, fails : 0 .. 255,
         priority : Priorities, heartbeat : Time]
InUse(ts) == {i \in Tasks : ts[i].state # "Unused"}

\* resetRuntimeState_; the subtraction is made only when it cannot go below 0.
ResetRuntime(i, s, t) ==
  [s EXCEPT !.state = IF Config[i].startEnabled THEN "Ready" ELSE "Suspended",
            !.lastRun = IF Config[i].runImmediate /\ Config[i].interval <= t
                          THEN t - Config[i].interval ELSE t,
            !.lastBeat = t,
            !.fails = 0]
ResetAll(t) ==
  [i \in Tasks |-> IF i \in InUse(task) THEN ResetRuntime(i, task[i], t) ELSE task[i]]

\* initializeTaskSlot_.
NewSlot(i, t) ==
  ResetRuntime(i, [state |-> "Ready", lastRun |-> 0, lastBeat |-> 0, fails |-> 0,
                   priority |-> Config[i].priority, heartbeat |-> Config[i].heartbeat], t)

\* syncTaskRuntimeHints_.
Hints(ts, p) ==
  [ready |-> Cardinality({i \in Tasks : ts[i].state = "Ready"}),
   monitoring |-> p.heartbeat > 0 \/ \E i \in InUse(ts) : ts[i].heartbeat > 0]

Budget(i) ==
  IF Config[i].failureBudget > 0 THEN Config[i].failureBudget ELSE policy.maxFailures

-------------------------------------------------------------------------------
(* The kernel state machine.                                               *)

KernelStates == {"Boot", "Normal", "Degraded", "SafeMode", "Recovery", "Panic"}
NoPanic == [reason |-> "None", mode |-> "Default"]
PanicReasons == {"None", "TaskOverrun", "HeartbeatTimeout", "TaskFailure", "Manual"}
Kernel == [state : KernelStates, safeMode : BOOLEAN, floor : Priorities,
           panic : [reason : PanicReasons, mode : PanicModes]]

Fresh(state) == [state |-> state, safeMode |-> FALSE, floor |-> High, panic |-> NoPanic]

InSafeMode(k, floor) ==
  [k EXCEPT !.state = "SafeMode", !.safeMode = TRUE, !.floor = floor]

Panicked(k, reason, mode) ==
  [state |-> "Panic",
   safeMode |-> k.safeMode \/ mode = "EnterSafeMode",
   floor |-> IF mode = "EnterSafeMode" THEN Critical ELSE k.floor,
   panic |-> [reason |-> reason, mode |-> mode]]

\* The mode of a contract, kPanicUseDefault standing for safe mode.
ContractMode(i) ==
  IF Config[i].panicMode = "Default" THEN "EnterSafeMode" ELSE Config[i].panicMode
ContractFloor(i) == IF Config[i].floor > 0 THEN Config[i].floor ELSE High

-------------------------------------------------------------------------------
(* Failures: recordFailure_, the panic of a critical task that may not     *)
(* degrade, and recoverIfAllowed_, which always follow each other.         *)

Exhausted(i, fails) == fails > Budget(i)

\* The kernel after recordFailure_.
Escalated(k, i, fails) ==
  LET degraded == IF Config[i].allowDegrade THEN [k EXCEPT !.state = "Degraded"] ELSE k
  IN  IF ~Exhausted(i, fails) THEN degraded
      ELSE IF Config[i].critical THEN Panicked(degraded, "TaskFailure", ContractMode(i))
      ELSE InSafeMode(degraded, ContractFloor(i))

\* The kernel after the caller's own panic.
HardFailed(k, i, reason) ==
  IF Config[i].critical /\ ~Config[i].allowDegrade
    THEN Panicked(k, reason, ContractMode(i)) ELSE k

\* Mutants: recovery forgets the panic, or the restriction.
RecoveredFromPanic(k) == [k EXCEPT !.state = IF k.safeMode THEN "Recovery" ELSE "Normal"]
RecoveredToNormal(k) == IF k.state = "Panic" THEN k ELSE [k EXCEPT !.state = "Normal"]

\* recoverIfAllowed_ passes through RECOVERY; it stays there in safe mode.
Recovered(k) ==
  IF k.state = "Panic" THEN k
  ELSE [k EXCEPT !.state = IF k.safeMode THEN "Recovery" ELSE "Normal"]

\* Mutant: the last failure of the budget is not recovered from.
RecoversLess(i, fails) == policy.autoRecovery /\ fails < Budget(i)

Recovers(i, fails) == policy.autoRecovery /\ ~Exhausted(i, fails)

\* Slot i, whose record is s, fails at time t with the kernel in state k.
Fail(i, s, k, t, reason) ==
  LET fails == U8(s.fails + 1)
      failed == HardFailed(Escalated(k, i, fails), i, reason)
      faulted == [s EXCEPT !.fails = fails, !.state = "Faulted"]
  IN  /\ task' = [task EXCEPT ![i] =
                    IF Recovers(i, fails)
                      THEN [faulted EXCEPT !.state = "Ready", !.lastRun = t, !.lastBeat = t]
                      ELSE faulted]
      /\ kernel' = IF Recovers(i, fails) THEN Recovered(failed) ELSE failed
      \* the return after recordFailure_'s panic skips the sync
      /\ hints' = IF Exhausted(i, fails) /\ Config[i].critical THEN hints
                                                               ELSE Hints(task', policy)

-------------------------------------------------------------------------------
(* The API, called from loop() (pc = "loop"), from the callback of the     *)
(* current task, or from a handler of a drained message.                   *)

MayCall(call) ==
  \/ pc = "loop" /\ call \in LoopMay
  \/ pc = "callback" /\ call \in TaskMay
  \/ pc \in {"drain", "lastDrain"} /\ call \in DrainMay

\* begin(): the hints are recounted before the slots are reset.  ("rebegin" is
\* a begin() of a kernel that runs already.)
Begin(withClock) ==
  /\ MayCall(IF started THEN "rebegin" ELSE "begin")
  /\ LET t == IF withClock THEN clock ELSE lastTick
     IN  task' = ResetAll(t) /\ lastTick' = t
  /\ clocked' = withClock
  /\ started' = TRUE
  /\ kernel' = Fresh("Normal")
  /\ hints' = Hints(task, policy)
  /\ UNCHANGED <<policy, caps, clock, control>>

Stop ==
  /\ MayCall("stop")
  /\ task' = ResetAll(CurrentTime)
  /\ kernel' = Fresh("Boot")
  /\ hints' = Hints(task', policy)
  /\ started' = FALSE
  /\ UNCHANGED <<policy, caps, clocked, clock, lastTick, control>>

\* Only the kernel record changes.
SetKernel(k) ==
  /\ kernel' = k
  /\ UNCHANGED <<task, started, policy, caps, hints, clocked, clock, lastTick, control>>

\* Only slots and the hints recounted from them change.
SetTasks(ts) ==
  /\ task' = ts
  /\ hints' = Hints(ts, policy)
  /\ UNCHANGED <<kernel, started, policy, caps, clocked, clock, lastTick, control>>

\* addTask takes the first free slot.
AddTask(i) ==
  /\ MayCall("add")
  /\ InUse(task) = 1 .. i - 1
  /\ SetTasks([task EXCEPT ![i] = NewSlot(i, IF started THEN CurrentTime ELSE 0)])

Suspend(i) ==
  /\ MayCall("suspend") /\ i \in InUse(task)
  /\ SetTasks([task EXCEPT ![i].state = "Suspended"])

\* resumeTask and restartTask have the same body.
Resume(i) ==
  /\ MayCall("resume") /\ i \in InUse(task)
  /\ SetTasks([task EXCEPT ![i] = [ResetRuntime(i, @, CurrentTime) EXCEPT !.state = "Ready"]])

Heartbeat(i) ==
  /\ MayCall("heartbeat") /\ i \in InUse(task)
  /\ task' = [task EXCEPT ![i].lastBeat = CurrentTime]
  /\ UNCHANGED <<kernel, started, policy, caps, hints, clocked, clock, lastTick, control>>

\* Mutant: the hints are not recounted.
SetHeartbeatTimeoutOnly(i, timeout) ==
  /\ MayCall("tune") /\ i \in InUse(task)
  /\ task' = [task EXCEPT ![i].heartbeat = timeout]
  /\ UNCHANGED <<kernel, started, policy, caps, hints, clocked, clock, lastTick, control>>

SetHeartbeatTimeout(i, timeout) ==
  /\ MayCall("tune") /\ i \in InUse(task)
  /\ SetTasks([task EXCEPT ![i].heartbeat = timeout])

SetPriority(i, priority) ==
  /\ MayCall("tune") /\ i \in InUse(task)
  /\ task' = [task EXCEPT ![i].priority = priority]
  /\ UNCHANGED <<kernel, started, policy, caps, hints, clocked, clock, lastTick, control>>

\* A policy of 0 failures is stored as 1: Policy leaves it out.
SetWatchdogPolicy(p) ==
  /\ MayCall("policy")
  /\ policy' = p
  /\ hints' = Hints(task, p)
  /\ UNCHANGED <<task, kernel, started, caps, clocked, clock, lastTick, control>>

EnterSafeMode(floor) == MayCall("safeMode") /\ SetKernel(InSafeMode(kernel, floor))

ExitSafeMode ==
  /\ MayCall("safeMode")
  /\ SetKernel([kernel EXCEPT !.safeMode = FALSE, !.floor = High,
                              !.state = IF @ = "Panic" THEN @ ELSE "Normal"])

TriggerPanic(mode) == MayCall("panic") /\ SetKernel(Panicked(kernel, "Manual", mode))

\* setCapabilities, enableCapabilities, disableCapabilities and
\* setSafeModeCapabilities install masks.
SetCapabilities(mask, which) ==
  /\ MayCall("caps")
  /\ caps' = [caps EXCEPT ![which] = mask]
  /\ UNCHANGED <<task, kernel, started, policy, hints, clocked, clock, lastTick, control>>

Api ==
  \/ \E c \in Clocks : Begin(c)
  \/ Stop
  \/ \E i \in Tasks : AddTask(i) \/ Suspend(i) \/ Resume(i) \/ Heartbeat(i)
  \/ \E i \in Tasks : \E t \in NewTimeouts : SetHeartbeatTimeout(i, t)
  \/ \E i \in Tasks : \E p \in NewPriorities : SetPriority(i, p)
  \/ \E p \in Policies : SetWatchdogPolicy(p)
  \/ \E f \in Floors : EnterSafeMode(f)
  \/ ExitSafeMode
  \/ \E m \in Modes : TriggerPanic(m)
  \/ \E mask \in CapChoices : \E w \in {"active", "safe"} : SetCapabilities(mask, w)

-------------------------------------------------------------------------------
(* tick().                                                                 *)

\* tick() reads the clock, or is given the time; an unstarted kernel begins.
TickBegins ==
  /\ pc = "loop"
  /\ IF started
       THEN UNCHANGED <<task, kernel, started, hints>>
       ELSE /\ task' = ResetAll(clock)
            /\ kernel' = Fresh("Normal")
            /\ hints' = Hints(task, policy)
            /\ started' = TRUE
  /\ lastTick' = clock
  /\ now' = clock
  /\ current' = 0
  /\ cursor' = 1
  /\ pc' = IF hints'.monitoring THEN "inspect" ELSE "select"
  /\ UNCHANGED <<policy, caps, clocked, clock>>

Timeout(i) == IF task[i].heartbeat = 0 THEN policy.heartbeat ELSE task[i].heartbeat

\* detectHeartbeatTimeout_'s test.
TimedOut(i, t) ==
  /\ task[i].state = "Ready"
  /\ Timeout(i) # 0
  /\ Minus(t, task[i].lastBeat) > Plus(Config[i].interval, Timeout(i))

\* Mutant: the loop runs one slot too far.
InspectPastEnd ==
  /\ pc = "inspect"
  /\ IF TimedOut(cursor, now)
       THEN Fail(cursor, task[cursor], kernel, now, "HeartbeatTimeout")
       ELSE UNCHANGED <<task, kernel, hints>>
  /\ cursor' = IF cursor > N THEN 1 ELSE cursor + 1
  /\ pc' = IF cursor > N THEN "select" ELSE "inspect"
  /\ UNCHANGED <<started, policy, caps, clocked, clock, lastTick, current, now>>

\* Mutant: the loop ends one slot too early.
InspectShort ==
  /\ pc = "inspect"
  /\ IF TimedOut(cursor, now)
       THEN Fail(cursor, task[cursor], kernel, now, "HeartbeatTimeout")
       ELSE UNCHANGED <<task, kernel, hints>>
  /\ cursor' = IF cursor >= N - 1 THEN 1 ELSE cursor + 1
  /\ pc' = IF cursor >= N - 1 THEN "select" ELSE "inspect"
  /\ UNCHANGED <<started, policy, caps, clocked, clock, lastTick, current, now>>

\* inspectHeartbeats_, one slot.
Inspect ==
  /\ pc = "inspect"
  /\ IF TimedOut(cursor, now)
       THEN Fail(cursor, task[cursor], kernel, now, "HeartbeatTimeout")
       ELSE UNCHANGED <<task, kernel, hints>>
  /\ cursor' = IF cursor = N THEN 1 ELSE cursor + 1
  /\ pc' = IF cursor = N THEN "select" ELSE "inspect"
  /\ UNCHANGED <<started, policy, caps, clocked, clock, lastTick, current, now>>

Frozen == kernel.state = "Panic" /\ kernel.panic.mode = "Freeze"
Capable(i) ==
  Config[i].needs \subseteq IF kernel.safeMode THEN caps.active \cap caps.safe ELSE caps.active
Admitted(i) == Capable(i) /\ (kernel.safeMode => task[i].priority >= kernel.floor)
DueAt(i) == Plus(task[i].lastRun, Config[i].interval)

\* Mutant: a comparison that misses a late tick.
DueExactly(i, t) == task[i].state = "Ready" /\ t = DueAt(i)

Due(i, t) ==
  task[i].state = "Ready" /\ Minus(t, task[i].lastRun) >= Config[i].interval
Runnable(t) == {i \in Tasks : ~Frozen /\ Due(i, t) /\ Admitted(i)}

\* The order in which selectNextRunnableTask_ prefers slots.
Preferred(i, j) ==
  \/ task[i].priority > task[j].priority
  \/ task[i].priority = task[j].priority /\ DueAt(i) < DueAt(j)
  \/ task[i].priority = task[j].priority /\ DueAt(i) = DueAt(j) /\ i <= j

\* The chosen slot's callback is entered.
Select(i) ==
  /\ pc = "select"
  /\ i \in Runnable(now)
  /\ \A j \in Runnable(now) : Preferred(i, j)
  /\ current' = i
  /\ pc' = "callback"
  /\ UNCHANGED <<api, clock, cursor, now>>

\* Mutant: every task keeps its fixed rate.
AnchorAtDue(i, before, after) == DueAt(i)

\* The record of a run from "before" to "after": recordExecutionSuccess_.
Anchor(i, before, after) ==
  LET due == DueAt(i)
  IN  IF ~Config[i].dropIfLate THEN IF after > before THEN after ELSE before
      ELSE IF after > due
        THEN Plus(due, ((after - due) \div Config[i].interval) * Config[i].interval)
        ELSE due
Ran(i, before, after) ==
  [task[i] EXCEPT !.lastRun = Anchor(i, before, after), !.lastBeat = after, !.fails = 0]
Late(i, before) == before > DueAt(i)

\* The budget in whole milliseconds; 0 means none.
BudgetMs(i) ==
  LET ms == Config[i].maxRuntimeMs
      us == (Config[i].maxRuntimeUs + 999) \div 1000
  IN  IF Config[i].maxRuntimeUs > 0 /\ (ms = 0 \/ us < ms) THEN us ELSE ms

\* Whether a run that lasted d milliseconds is an overrun; a run shorter than
\* one is measured in microseconds where there is a timer.
Overruns(i, d) ==
  IF BudgetMs(i) > 0 /\ d > BudgetMs(i) THEN {TRUE}
  ELSE IF HasMicros /\ Config[i].maxRuntimeUs > 0 /\ d = 0 THEN BOOLEAN
  ELSE {FALSE}

\* The callback returns; tick() records the run, then an overrun.
CallbackReturns ==
  /\ pc = "callback"
  /\ LET i == current
         after == IF clocked THEN clock ELSE now
         k == IF Late(i, now) /\ Config[i].allowDegrade /\ kernel.state = "Normal"
                THEN [kernel EXCEPT !.state = "Degraded"] ELSE kernel
     IN  /\ now' = after
         /\ \E overrun \in Overruns(i, Minus(after, now)) :
              IF overrun
                THEN Fail(i, Ran(i, now, after), k, after, "TaskOverrun")
                ELSE /\ task' = [task EXCEPT ![i] = Ran(i, now, after)]
                     /\ kernel' = k
                     /\ hints' = hints
  /\ pc' = "drain"
  /\ UNCHANGED <<started, policy, caps, clocked, clock, lastTick, cursor, current>>

\* The queues are drained (their handlers ran while pc was "drain"); with a
\* clock the heartbeats are inspected again, at the time the callback returned.
DrainReturns ==
  /\ pc = "drain"
  /\ pc' = IF clocked /\ hints.monitoring THEN "inspect" ELSE "select"
  /\ UNCHANGED <<api, clock, cursor, current, now>>

NothingRunnable ==
  /\ pc = "select"
  /\ Runnable(now) = {}
  /\ pc' = "lastDrain"
  /\ UNCHANGED <<api, clock, cursor, current, now>>

TickReturns ==
  /\ pc = "lastDrain"
  /\ lastTick' = now
  /\ current' = 0
  /\ pc' = "loop"
  /\ UNCHANGED <<task, kernel, started, policy, caps, hints, clocked, clock, cursor, now>>

Tick ==
  \/ Inspect
  \/ \E i \in Tasks : Select(i)
  \/ CallbackReturns
  \/ DrainReturns
  \/ NothingRunnable
  \/ TickReturns

\* Time passes while user code runs.
Elapse ==
  /\ \/ pc = "loop" /\ Minus(clock, now) < MaxIdle
     \/ pc = "callback" /\ clocked /\ Minus(clock, now) < MaxRun
     \/ pc \in {"drain", "lastDrain"} /\ clocked /\ Minus(clock, now) < MaxDrain
  /\ clock' = Plus(clock, 1)
  /\ UNCHANGED <<api, control>>

-------------------------------------------------------------------------------
Init ==
  /\ task = [i \in Tasks |-> [state |-> "Unused", lastRun |-> 0, lastBeat |-> 0,
                              fails |-> 0, priority |-> 0, heartbeat |-> 0]]
  /\ kernel = Fresh("Boot")
  /\ started = FALSE
  /\ policy = [heartbeat |-> 0, maxFailures |-> 3, autoRecovery |-> TRUE]
  /\ caps = [active |-> Caps, safe |-> Caps]
  /\ hints = [ready |-> 0, monitoring |-> FALSE]
  /\ clocked = FALSE
  /\ clock = 0
  /\ lastTick = 0
  /\ pc = "loop" /\ cursor = 1 /\ current = 0 /\ now = 0

Next == Api \/ TickBegins \/ Tick \/ Elapse

Spec == Init /\ [][Next]_vars
===============================================================================
