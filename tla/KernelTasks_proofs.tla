-------------------------- MODULE KernelTasks_proofs --------------------------
(***************************************************************************)
(* Proofs about the scheduler's supervision, for every set of tasks and    *)
(* contracts, every policy, and every pattern of API calls.                *)
(***************************************************************************)
EXTENDS PowerSaveLoop, FiniteSetTheorems, TLAPS

-------------------------------------------------------------------------------
(* The kernel record.                                                      *)

\* The restriction and the state a kernel record reports agree.
Coherent(k) ==
  /\ k.state \in {"SafeMode", "Recovery"} => k.safeMode
  /\ k.state \in {"Boot", "Normal"} => ~k.safeMode
  /\ ~k.safeMode => k.floor = High
  /\ k.state = "Panic" => k.panic.reason # "None"
Sound(k) == k \in Kernel /\ Coherent(k)

LEMMA CoherentKernel == KernelCoherent <=> Coherent(kernel)
BY DEF KernelCoherent, Coherent

LEMMA FreshSound ==
  ASSUME NEW s \in {"Boot", "Normal"}
  PROVE  Sound(Fresh(s))
BY DEF Sound, Coherent, Kernel, KernelStates, Fresh, NoPanic, PanicReasons, PanicModes,
       Priorities, High

LEMMA RestrictedSound ==
  ASSUME NEW k \in Kernel, NEW f \in Priorities
  PROVE  Sound(InSafeMode(k, f))
BY DEF Sound, Coherent, Kernel, KernelStates, InSafeMode

LEMMA PanickedSound ==
  ASSUME NEW k, Sound(k), NEW r \in PanicReasons \ {"None"}, NEW m \in PanicModes
  PROVE  Sound(Panicked(k, r, m))
<1> DEFINE p == Panicked(k, r, m)
<1>1. /\ k.safeMode \in BOOLEAN /\ k.floor \in Priorities
      /\ ~k.safeMode => k.floor = High
  BY DEF Sound, Coherent, Kernel
<1>2. /\ p.state = "Panic"
      /\ p.safeMode = (k.safeMode \/ m = "EnterSafeMode")
      /\ p.floor = IF m = "EnterSafeMode" THEN Critical ELSE k.floor
      /\ p.panic.reason = r
  BY DEF Panicked
<1>3. p \in Kernel
  <2>1. (k.safeMode \/ m = "EnterSafeMode") \in BOOLEAN
    BY <1>1
  <2>2. (IF m = "EnterSafeMode" THEN Critical ELSE k.floor) \in Priorities
    BY <1>1 DEF Critical, Priorities
  <2>3. [reason |-> r, mode |-> m] \in [reason : PanicReasons, mode : PanicModes]
    OBVIOUS
  <2>4. "Panic" \in KernelStates
    BY DEF KernelStates
  <2> QED
    BY <2>1, <2>2, <2>3, <2>4 DEF Panicked, Kernel
<1> HIDE DEF p
<1>4. Coherent(p)
  <2>1. ~p.safeMode => p.floor = High
    BY <1>1, <1>2
  <2>2. p.panic.reason # "None"
    BY <1>2
  <2>3. p.state = "Panic"
    BY <1>2
  <2> QED
    BY <2>1, <2>2, <2>3 DEF Coherent
<1> QED
  BY <1>3, <1>4 DEF Sound, p

LEMMA DegradedSound ==
  ASSUME NEW k, Sound(k)
  PROVE  Sound([k EXCEPT !.state = "Degraded"])
BY DEF Sound, Coherent, Kernel, KernelStates

LEMMA LiftedSound ==
  ASSUME NEW k, Sound(k)
  PROVE  Sound([k EXCEPT !.safeMode = FALSE, !.floor = High,
                         !.state = IF @ = "Panic" THEN @ ELSE "Normal"])
<1> DEFINE s == IF k.state = "Panic" THEN k.state ELSE "Normal"
           l == [k EXCEPT !.safeMode = FALSE, !.floor = High, !.state = s]
<1>1. s \in KernelStates /\ High \in Priorities /\ s \in {"Panic", "Normal"}
  BY DEF KernelStates, High, Priorities
<1>2. s = "Panic" => k.panic.reason # "None"
  BY DEF Sound, Coherent
<1> HIDE DEF s
<1>3. l \in Kernel /\ l.state = s /\ l.safeMode = FALSE /\ l.floor = High /\ l.panic = k.panic
  BY <1>1 DEF Sound, Kernel
<1>4. Coherent(l)
  BY <1>1, <1>2, <1>3 DEF Coherent
<1> QED
  BY <1>3, <1>4 DEF Sound, s

LEMMA RecoveredSound ==
  ASSUME NEW k, Sound(k)
  PROVE  Sound(Recovered(k))
BY DEF Sound, Coherent, Kernel, KernelStates, Recovered

LEMMA ContractTyped ==
  ASSUME NEW i \in Tasks
  PROVE  /\ ContractMode(i) \in PanicModes /\ ContractFloor(i) \in Priorities
         /\ Config[i].interval \in Time \ {0} /\ Config[i].heartbeat \in Time
         /\ Config[i].priority \in Priorities
BY TasksAssumption DEF Contract, ContractMode, ContractFloor, PanicModes, Priorities, High

\* The steps of a failure leave a sound kernel record ...
LEMMA EscalatedSound ==
  ASSUME NEW i \in Tasks, NEW k, Sound(k), NEW fails
  PROVE  Sound(Escalated(k, i, fails))
<1> DEFINE degraded == IF Config[i].allowDegrade THEN [k EXCEPT !.state = "Degraded"] ELSE k
<1>1. Sound(degraded)
  BY DegradedSound
<1>2. ContractMode(i) \in PanicModes /\ ContractFloor(i) \in Priorities
  BY ContractTyped
<1>3. "TaskFailure" \in PanicReasons \ {"None"}
  BY DEF PanicReasons
<1>4. Sound(Panicked(degraded, "TaskFailure", ContractMode(i)))
  BY <1>1, <1>2, <1>3, PanickedSound
<1>5. Sound(InSafeMode(degraded, ContractFloor(i)))
  BY <1>1, <1>2, RestrictedSound DEF Sound
<1>6. Escalated(k, i, fails)
        \in {degraded, Panicked(degraded, "TaskFailure", ContractMode(i)),
             InSafeMode(degraded, ContractFloor(i))}
  BY DEF Escalated
<1> QED
  BY <1>1, <1>4, <1>5, <1>6

LEMMA HardFailedSound ==
  ASSUME NEW i \in Tasks, NEW k, Sound(k), NEW reason \in {"TaskOverrun", "HeartbeatTimeout"}
  PROVE  Sound(HardFailed(k, i, reason))
<1>1. reason \in PanicReasons \ {"None"} /\ ContractMode(i) \in PanicModes
  BY ContractTyped DEF PanicReasons
<1> QED
  BY <1>1, PanickedSound DEF HardFailed

\* ... and so does the whole failure.
LEMMA FailedSound ==
  ASSUME NEW i \in Tasks, NEW s, NEW k, Sound(k), NEW t,
         NEW reason \in {"TaskOverrun", "HeartbeatTimeout"}, Fail(i, s, k, t, reason)
  PROVE  Sound(kernel')
<1> DEFINE failed == HardFailed(Escalated(k, i, U8(s.fails + 1)), i, reason)
<1>1. Sound(failed)
  BY EscalatedSound, HardFailedSound
<1>2. Sound(Recovered(failed))
  BY <1>1, RecoveredSound
<1> QED
  BY <1>1, <1>2 DEF Fail

-------------------------------------------------------------------------------
(* Coherence of the kernel state machine.                                  *)

\* The slot a failure is charged to is one of the tasks.
ChargesTasks == cursor \in Tasks /\ (pc = "callback" => current \in Tasks)

LEMMA ApiSound ==
  ASSUME Sound(kernel), Api
  PROVE  Sound(kernel')
<1>1. ASSUME NEW c \in Clocks, Begin(c) PROVE Sound(kernel')
  BY <1>1, FreshSound DEF Begin
<1>2. CASE Stop
  BY <1>2, FreshSound DEF Stop
<1>3. CASE UNCHANGED kernel
  BY <1>3
<1>4. ASSUME NEW f \in Floors, EnterSafeMode(f) PROVE Sound(kernel')
  BY <1>4, RestrictedSound, TasksAssumption DEF EnterSafeMode, SetKernel, Sound
<1>5. CASE ExitSafeMode
  BY <1>5, LiftedSound DEF ExitSafeMode, SetKernel
<1>6. ASSUME NEW m \in Modes, TriggerPanic(m) PROVE Sound(kernel')
  <2>1. m \in PanicModes /\ "Manual" \in PanicReasons \ {"None"}
    BY TasksAssumption DEF PanicReasons
  <2> QED
    BY <1>6, <2>1, PanickedSound DEF TriggerPanic, SetKernel
<1> QED
  BY <1>1, <1>2, <1>3, <1>4, <1>5, <1>6
  DEF Api, AddTask, Suspend, Resume, Heartbeat, SetHeartbeatTimeout, SetPriority,
      SetWatchdogPolicy, SetCapabilities, SetTasks

SoundInv == Sound(kernel) /\ ChargesTasks

LEMMA StepSound == SoundInv /\ [Next]_vars => SoundInv'
<1> SUFFICES ASSUME Sound(kernel), ChargesTasks, [Next]_vars
             PROVE  Sound(kernel') /\ ChargesTasks'
  BY DEF SoundInv, Sound
<1>1. CASE Api
  <2>1. UNCHANGED control
    BY <1>1 DEF Api, Begin, Stop, AddTask, Suspend, Resume, Heartbeat, SetHeartbeatTimeout,
                SetPriority, SetWatchdogPolicy, EnterSafeMode, ExitSafeMode, TriggerPanic,
                SetCapabilities, SetTasks, SetKernel
  <2> QED
    BY <1>1, <2>1, ApiSound DEF ChargesTasks, control
<1>2. CASE TickBegins
  BY <1>2, FreshSound, TasksAssumption DEF TickBegins, ChargesTasks, Tasks
<1>3. CASE Inspect
  <2>1. Sound(kernel')
    BY <1>3, FailedSound DEF Inspect, ChargesTasks
  <2>2. ChargesTasks'
    BY <1>3, TasksAssumption DEF Inspect, ChargesTasks, Tasks
  <2> QED
    BY <2>1, <2>2
<1>4. ASSUME NEW i \in Tasks, Select(i)
      PROVE  Sound(kernel') /\ ChargesTasks'
  BY <1>4 DEF Select, ChargesTasks, api
<1>5. CASE CallbackReturns
  <2> DEFINE k == IF Late(current, now) /\ Config[current].allowDegrade
                     /\ kernel.state = "Normal"
                    THEN [kernel EXCEPT !.state = "Degraded"] ELSE kernel
  <2>1. current \in Tasks /\ Sound(k)
    BY <1>5, DegradedSound DEF CallbackReturns, ChargesTasks
  <2> HIDE DEF k
  <2>2. \/ kernel' = k
        \/ \E s, t : Fail(current, s, k, t, "TaskOverrun")
    BY <1>5 DEF CallbackReturns, k
  <2>3. Sound(kernel')
    BY <2>1, <2>2, FailedSound
  <2>4. ChargesTasks'
    BY <1>5 DEF CallbackReturns, ChargesTasks
  <2> QED
    BY <2>3, <2>4
<1>6. CASE DrainReturns \/ NothingRunnable \/ TickReturns \/ Elapse
  BY <1>6 DEF DrainReturns, NothingRunnable, TickReturns, Elapse, ChargesTasks, api, control
<1>7. CASE UNCHANGED vars
  BY <1>7 DEF vars, ChargesTasks
<1> QED
  BY <1>1, <1>2, <1>3, <1>4, <1>5, <1>6, <1>7 DEF Next, Tick

LEMMA SoundAlways == Spec => []SoundInv
<1>1. Init => SoundInv
  BY FreshSound, TasksAssumption DEF Init, SoundInv, ChargesTasks, Tasks
<1> QED
  BY <1>1, StepSound, PTL DEF Spec

\* In every build and for every history of failures, recoveries, panics and API
\* calls, the state the kernel reports agrees with the restriction it applies
\* and with the panic it recorded.
THEOREM KernelStaysCoherent == Spec => []KernelCoherent
<1>1. SoundInv => KernelCoherent
  BY CoherentKernel DEF SoundInv, Sound
<1> QED
  BY <1>1, SoundAlways, PTL

-------------------------------------------------------------------------------
(* Type correctness.                                                       *)

LEMMA ModuloTyped ==
  ASSUME NEW x \in Int
  PROVE  x % Wrap \in Time
BY TasksAssumption DEF Time

LEMMA TimesTyped ==
  ASSUME NEW s \in Time, NEW t \in Time
  PROVE  Plus(s, t) \in Time /\ Minus(s, t) \in Time
BY ModuloTyped DEF Plus, Minus, Time

LEMMA ZeroTyped == 0 \in Time
BY TasksAssumption DEF Time

LEMMA ConfigTyped ==
  ASSUME NEW i \in Tasks
  PROVE  /\ Config[i].startEnabled \in BOOLEAN /\ Config[i].runImmediate \in BOOLEAN
         /\ Config[i].dropIfLate \in BOOLEAN
         /\ Config[i].interval \in Time \ {0}
BY TasksAssumption DEF Contract

\* The hints are of their type, whatever the slots are.
LEMMA HintsTyped ==
  ASSUME NEW ts, NEW p
  PROVE  Hints(ts, p) \in [ready : Nat, monitoring : BOOLEAN]
<1> DEFINE ready == {i \in Tasks : ts[i].state = "Ready"}
           monitoring == p.heartbeat > 0 \/ \E i \in InUse(ts) : ts[i].heartbeat > 0
<1>1. IsFiniteSet(Tasks)
  BY FS_Interval, TasksAssumption DEF Tasks
<1>2. ready \subseteq Tasks
  OBVIOUS
<1>3. Cardinality(ready) \in Nat
  BY <1>1, <1>2, FS_Subset, FS_CardinalityType
<1>4. monitoring \in BOOLEAN
  BY Zenon
<1> HIDE DEF ready, monitoring
<1>5. [ready |-> Cardinality(ready), monitoring |-> monitoring]
        \in [ready : Nat, monitoring : BOOLEAN]
  BY <1>3, <1>4
<1> QED
  BY <1>5 DEF Hints, ready, monitoring

LEMMA UpdateTyped ==
  ASSUME NEW s \in Slot, NEW st \in TaskStates, NEW run \in Time, NEW beat \in Time,
         NEW fails \in 0 .. 255
  PROVE  LET r == [s EXCEPT !.state = st, !.lastRun = run, !.lastBeat = beat, !.fails = fails]
         IN  /\ r \in Slot
             /\ r.state = st /\ r.lastRun = run /\ r.fails = fails
             /\ r.heartbeat = s.heartbeat /\ r.priority = s.priority
BY DEF Slot

LEMMA ResetTyped ==
  ASSUME NEW i \in Tasks, NEW s \in Slot, NEW t \in Time
  PROVE  ResetRuntime(i, s, t) \in Slot
<1> DEFINE st == IF Config[i].startEnabled THEN "Ready" ELSE "Suspended"
           run == IF Config[i].runImmediate /\ Config[i].interval <= t
                    THEN t - Config[i].interval ELSE t
<1>1. st \in TaskStates
  BY DEF TaskStates
<1>2. run \in Time
  BY ConfigTyped, TasksAssumption DEF Time
<1> HIDE DEF st, run
<1>3. 0 \in 0 .. 255
  OBVIOUS
<1>4. [s EXCEPT !.state = st, !.lastRun = run, !.lastBeat = t, !.fails = 0] \in Slot
  BY <1>1, <1>2, <1>3, UpdateTyped
<1> QED
  BY <1>4 DEF ResetRuntime, st, run

LEMMA ResetAllTyped ==
  ASSUME task \in [Tasks -> Slot], NEW t \in Time
  PROVE  ResetAll(t) \in [Tasks -> Slot]
BY ResetTyped DEF ResetAll

LEMMA NewSlotTyped ==
  ASSUME NEW i \in Tasks, NEW t \in Time
  PROVE  NewSlot(i, t) \in Slot
<1> DEFINE s == [state |-> "Ready", lastRun |-> 0, lastBeat |-> 0, fails |-> 0,
                 priority |-> Config[i].priority, heartbeat |-> Config[i].heartbeat]
<1>1. s \in Slot
  BY ContractTyped, ZeroTyped DEF Slot, TaskStates
<1> HIDE DEF s
<1>2. ResetRuntime(i, s, t) \in Slot
  BY <1>1, ResetTyped
<1> QED
  BY <1>2 DEF NewSlot, s

LEMMA AnchorTyped ==
  ASSUME task \in [Tasks -> Slot], NEW i \in Tasks, NEW before \in Time, NEW after \in Time
  PROVE  Anchor(i, before, after) \in Time
<1> DEFINE due == DueAt(i)
           steps == (after - due) \div Config[i].interval
<1>1. due \in Time
  BY TimesTyped, ConfigTyped DEF DueAt, Slot
<1> HIDE DEF due
<1>2. steps \in Int /\ Config[i].interval \in Int /\ due \in Int
  BY <1>1, ConfigTyped, TasksAssumption DEF Time
<1> HIDE DEF steps
<1>3. due + steps * Config[i].interval \in Int
  BY <1>2
<1>4. Plus(due, steps * Config[i].interval) \in Time
  BY <1>3, ModuloTyped DEF Plus
<1> QED
  BY <1>1, <1>4 DEF Anchor, due, steps

LEMMA RanTyped ==
  ASSUME task \in [Tasks -> Slot], NEW i \in Tasks, NEW before \in Time, NEW after \in Time
  PROVE  /\ Ran(i, before, after) \in Slot
         /\ Ran(i, before, after).state = task[i].state
         /\ Ran(i, before, after).heartbeat = task[i].heartbeat
         /\ Ran(i, before, after).lastRun = Anchor(i, before, after)
         /\ Ran(i, before, after).lastBeat = after
<1> DEFINE anchor == Anchor(i, before, after)
           slot == task[i]
           ran == Ran(i, before, after)
<1>1. anchor \in Time /\ slot \in Slot
  BY AnchorTyped
<1>2. ran = [slot EXCEPT !.lastRun = anchor, !.lastBeat = after, !.fails = 0]
  BY DEF Ran
<1> HIDE DEF anchor, slot, ran
<1>3. /\ ran.state = slot.state /\ ran.heartbeat = slot.heartbeat
      /\ ran.lastRun = anchor
  BY <1>1, <1>2 DEF Slot
<1>4. ran.lastBeat = after /\ ran.fails = 0 /\ ran.priority = slot.priority
  BY <1>1, <1>2 DEF Slot
<1>5. \A fails \in 0 .. 255 :
        [slot EXCEPT !.lastRun = anchor, !.lastBeat = after, !.fails = fails] \in Slot
  BY <1>1 DEF Slot
<1>6. 0 \in 0 .. 255
  OBVIOUS
<1>7. ran \in Slot
  BY <1>2, <1>5, <1>6, Zenon
<1> QED
  BY <1>3, <1>4, <1>7 DEF anchor, slot, ran

\* What a failure does to the slots.
LEMMA FailedSlot ==
  ASSUME task \in [Tasks -> Slot], NEW i \in Tasks, NEW s \in Slot, NEW k,
         NEW t \in Time, NEW reason, Fail(i, s, k, t, reason)
  PROVE  /\ task' \in [Tasks -> Slot]
         /\ hints' \in {hints, Hints(task', policy)}
         /\ \A j \in Tasks \ {i} : task'[j] = task[j]
         /\ task'[i].fails = U8(s.fails + 1)
         /\ task'[i].state = IF Recovers(i, U8(s.fails + 1)) THEN "Ready" ELSE "Faulted"
         /\ task'[i].lastRun = IF Recovers(i, U8(s.fails + 1)) THEN t ELSE s.lastRun
         /\ task'[i].lastBeat = IF Recovers(i, U8(s.fails + 1)) THEN t ELSE s.lastBeat
         /\ task'[i].heartbeat = s.heartbeat
<1> DEFINE fails == U8(s.fails + 1)
           faulted == [s EXCEPT !.fails = fails, !.state = "Faulted"]
           after == IF Recovers(i, fails)
                      THEN [faulted EXCEPT !.state = "Ready", !.lastRun = t, !.lastBeat = t]
                      ELSE faulted
<1>1. fails \in 0 .. 255
  BY DEF U8, Slot
<1>2. task' = [task EXCEPT ![i] = after] /\ hints' \in {hints, Hints(task', policy)}
  BY DEF Fail
<1> HIDE DEF fails
<1>3. /\ after \in Slot
      /\ after.fails = fails
      /\ after.state = IF Recovers(i, fails) THEN "Ready" ELSE "Faulted"
      /\ after.lastRun = IF Recovers(i, fails) THEN t ELSE s.lastRun
      /\ after.lastBeat = IF Recovers(i, fails) THEN t ELSE s.lastBeat
      /\ after.heartbeat = s.heartbeat
  <2>1. CASE Recovers(i, fails)
    BY <1>1, <2>1 DEF Slot, TaskStates
  <2>2. CASE ~Recovers(i, fails)
    BY <1>1, <2>2 DEF Slot, TaskStates
  <2> QED
    BY <2>1, <2>2
<1> HIDE DEF after
<1> QED
  BY <1>2, <1>3 DEF fails

\* Everything but the kernel record.
SlotsTyped ==
  /\ task \in [Tasks -> Slot]
  /\ hints \in [ready : Nat, monitoring : BOOLEAN]
SettingsTyped ==
  /\ policy \in Policy
  /\ caps \in [active : SUBSET Caps, safe : SUBSET Caps]
  /\ started \in BOOLEAN /\ clocked \in BOOLEAN
TimesOK ==
  /\ clock \in Time /\ lastTick \in Time /\ now \in Time
ControlTyped ==
  /\ pc \in {"loop", "inspect", "select", "callback", "drain", "lastDrain"}
  /\ cursor \in Tasks
  /\ current \in 0 .. N
Typed == SlotsTyped /\ SettingsTyped /\ TimesOK /\ ControlTyped

LEMMA InitTyped == Init => Typed
<1> SUFFICES ASSUME Init PROVE Typed
  OBVIOUS
<1>1. /\ 0 \in Time /\ 0 \in Priorities /\ 0 \in 0 .. 255 /\ 3 \in 1 .. 255
      /\ 1 \in Tasks /\ 0 \in 0 .. N /\ 0 \in Nat
  BY ZeroTyped, TasksAssumption DEF Priorities, Tasks
<1>2. task \in [Tasks -> Slot]
  BY <1>1 DEF Init, Slot, TaskStates
<1>3. hints \in [ready : Nat, monitoring : BOOLEAN]
  BY <1>1 DEF Init
<1>4. SettingsTyped
  BY <1>1 DEF Init, SettingsTyped, Policy
<1>5. TimesOK /\ ControlTyped
  BY <1>1 DEF Init, TimesOK, ControlTyped
<1> QED
  BY <1>2, <1>3, <1>4, <1>5 DEF Typed, SlotsTyped

LEMMA CurrentTimeTyped == Typed => CurrentTime \in Time
BY DEF Typed, TimesOK, CurrentTime

LEMMA ApiTyped ==
  ASSUME Typed, Api
  PROVE  Typed'
<1>1. /\ task \in [Tasks -> Slot] /\ hints \in [ready : Nat, monitoring : BOOLEAN]
      /\ CurrentTime \in Time /\ clock \in Time /\ lastTick \in Time /\ now \in Time
  BY CurrentTimeTyped DEF Typed, SlotsTyped, TimesOK
<1>2. UNCHANGED control /\ UNCHANGED clock
  BY DEF Api, Begin, Stop, AddTask, Suspend, Resume, Heartbeat, SetHeartbeatTimeout,
         SetPriority, SetWatchdogPolicy, EnterSafeMode, ExitSafeMode, TriggerPanic,
         SetCapabilities, SetTasks, SetKernel
<1>3. ControlTyped'
  BY <1>2 DEF Typed, ControlTyped, control
<1>4. SettingsTyped' /\ TimesOK'
  <2>1. ASSUME NEW c \in Clocks, Begin(c) PROVE SettingsTyped' /\ TimesOK'
    BY <1>1, <1>2, <2>1, TasksAssumption DEF Begin, Typed, SettingsTyped, TimesOK, control
  <2>2. CASE Stop
    BY <1>2, <2>2 DEF Stop, Typed, SettingsTyped, TimesOK, control
  <2>3. ASSUME NEW p \in Policies, SetWatchdogPolicy(p) PROVE SettingsTyped' /\ TimesOK'
    BY <1>2, <2>3, TasksAssumption DEF SetWatchdogPolicy, Typed, SettingsTyped, TimesOK, control
  <2>4. ASSUME NEW mask \in CapChoices, NEW w \in {"active", "safe"}, SetCapabilities(mask, w)
        PROVE  SettingsTyped' /\ TimesOK'
    BY <1>2, <2>4, TasksAssumption DEF SetCapabilities, Typed, SettingsTyped, TimesOK, control
  <2>5. CASE UNCHANGED <<policy, caps, started, clocked, lastTick>>
    BY <1>2, <2>5 DEF Typed, SettingsTyped, TimesOK, control
  <2> QED
    BY <2>1, <2>2, <2>3, <2>4, <2>5
    DEF Api, AddTask, Suspend, Resume, Heartbeat, SetHeartbeatTimeout, SetPriority,
        EnterSafeMode, ExitSafeMode, TriggerPanic, SetTasks, SetKernel
<1>5. SlotsTyped'
  <2>1. ASSUME NEW c \in Clocks, Begin(c) PROVE SlotsTyped'
    BY <1>1, <2>1, ResetAllTyped, HintsTyped DEF Begin, SlotsTyped
  <2>2. CASE Stop
    BY <1>1, <2>2, ResetAllTyped, HintsTyped DEF Stop, SlotsTyped
  <2>3. ASSUME NEW i \in Tasks, AddTask(i) PROVE SlotsTyped'
    <3> DEFINE s == NewSlot(i, IF started THEN CurrentTime ELSE 0)
    <3>1. s \in Slot
      BY <1>1, NewSlotTyped, ZeroTyped
    <3>2. task' = [task EXCEPT ![i] = s] /\ hints' = Hints(task', policy)
      BY <2>3 DEF AddTask, SetTasks
    <3> HIDE DEF s
    <3> QED
      BY <1>1, <3>1, <3>2, HintsTyped DEF SlotsTyped
  <2>4. ASSUME NEW i \in Tasks, Suspend(i) PROVE SlotsTyped'
    <3>1. [task[i] EXCEPT !.state = "Suspended"] \in Slot
      BY <1>1 DEF Slot, TaskStates
    <3>2. /\ task' = [task EXCEPT ![i] = [task[i] EXCEPT !.state = "Suspended"]]
          /\ hints' = Hints(task', policy)
      BY <1>1, <2>4 DEF Suspend, SetTasks
    <3> QED
      BY <1>1, <3>1, <3>2, HintsTyped DEF SlotsTyped
  <2>5. ASSUME NEW i \in Tasks, Resume(i) PROVE SlotsTyped'
    <3> DEFINE r == ResetRuntime(i, task[i], CurrentTime)
               s == [r EXCEPT !.state = "Ready"]
    <3>1. r \in Slot
      BY <1>1, ResetTyped
    <3>2. task' = [task EXCEPT ![i] = s] /\ hints' = Hints(task', policy)
      BY <1>1, <2>5 DEF Resume, SetTasks
    <3> HIDE DEF r
    <3>3. s \in Slot
      BY <3>1 DEF Slot, TaskStates
    <3> HIDE DEF s
    <3> QED
      BY <1>1, <3>2, <3>3, HintsTyped DEF SlotsTyped
  <2>6. ASSUME NEW i \in Tasks, Heartbeat(i) PROVE SlotsTyped'
    BY <1>1, <2>6 DEF Heartbeat, SlotsTyped, Slot
  <2>7. ASSUME NEW i \in Tasks, NEW t \in NewTimeouts, SetHeartbeatTimeout(i, t)
        PROVE  SlotsTyped'
    <3>1. [task[i] EXCEPT !.heartbeat = t] \in Slot
      BY <1>1, TasksAssumption DEF Slot
    <3>2. /\ task' = [task EXCEPT ![i] = [task[i] EXCEPT !.heartbeat = t]]
          /\ hints' = Hints(task', policy)
      BY <1>1, <2>7 DEF SetHeartbeatTimeout, SetTasks
    <3> QED
      BY <1>1, <3>1, <3>2, HintsTyped DEF SlotsTyped
  <2>8. ASSUME NEW i \in Tasks, NEW p \in NewPriorities, SetPriority(i, p) PROVE SlotsTyped'
    BY <1>1, <2>8, TasksAssumption DEF SetPriority, SlotsTyped, Slot
  <2>9. ASSUME NEW p \in Policies, SetWatchdogPolicy(p) PROVE SlotsTyped'
    BY <1>1, <2>9, HintsTyped DEF SetWatchdogPolicy, SlotsTyped
  <2>10. CASE UNCHANGED <<task, hints>>
    BY <1>1, <2>10 DEF SlotsTyped
  <2> QED
    BY <2>1, <2>2, <2>3, <2>4, <2>5, <2>6, <2>7, <2>8, <2>9, <2>10
    DEF Api, EnterSafeMode, ExitSafeMode, TriggerPanic, SetKernel, SetCapabilities
<1> QED
  BY <1>3, <1>4, <1>5 DEF Typed

\* What the return of a callback does, whether or not it overran.
LEMMA CallbackOutcome ==
  ASSUME CallbackReturns
  PROVE  LET after == IF clocked THEN clock ELSE now
             k == IF Late(current, now) /\ Config[current].allowDegrade
                       /\ kernel.state = "Normal"
                    THEN [kernel EXCEPT !.state = "Degraded"] ELSE kernel
         IN  /\ now' = after
             /\ \/ Fail(current, Ran(current, now, after), k, after, "TaskOverrun")
                \/ /\ task' = [task EXCEPT ![current] = Ran(current, now, after)]
                   /\ kernel' = k
                   /\ UNCHANGED hints
BY DEF CallbackReturns

LEMMA StepTyped ==
  ASSUME Typed, SoundInv, [Next]_vars
  PROVE  Typed'
<1>1. /\ task \in [Tasks -> Slot] /\ hints \in [ready : Nat, monitoring : BOOLEAN]
      /\ clock \in Time /\ lastTick \in Time /\ now \in Time
  BY DEF Typed, SlotsTyped, TimesOK
<1>2. cursor \in Tasks /\ current \in 0 .. N /\ (pc = "callback" => current \in Tasks)
  BY DEF Typed, ControlTyped, SoundInv, ChargesTasks
<1>3. CASE Api
  BY <1>3, ApiTyped
<1>4. CASE TickBegins
  <2>1. SlotsTyped'
    BY <1>1, <1>4, ResetAllTyped, HintsTyped DEF TickBegins, SlotsTyped
  <2>2. SettingsTyped' /\ TimesOK'
    BY <1>4 DEF TickBegins, Typed, SettingsTyped, TimesOK
  <2>3. ControlTyped'
    BY <1>4, TasksAssumption DEF TickBegins, ControlTyped, Tasks
  <2> QED
    BY <2>1, <2>2, <2>3 DEF Typed
<1>5. CASE Inspect
  <2>1. SlotsTyped'
    <3>1. CASE TimedOut(cursor, now)
      <4>1. Fail(cursor, task[cursor], kernel, now, "HeartbeatTimeout")
        BY <1>5, <3>1 DEF Inspect
      <4>2. task' \in [Tasks -> Slot] /\ hints' \in {hints, Hints(task', policy)}
        BY <1>1, <1>2, <4>1, FailedSlot
      <4> QED
        BY <1>1, <4>2, HintsTyped DEF SlotsTyped
    <3>2. CASE ~TimedOut(cursor, now)
      BY <1>1, <1>5, <3>2 DEF Inspect, SlotsTyped
    <3> QED
      BY <3>1, <3>2
  <2>2. SettingsTyped' /\ TimesOK'
    BY <1>5 DEF Inspect, Typed, SettingsTyped, TimesOK
  <2>3. ControlTyped'
    BY <1>2, <1>5, TasksAssumption DEF Inspect, ControlTyped, Tasks
  <2> QED
    BY <2>1, <2>2, <2>3 DEF Typed
<1>6. ASSUME NEW i \in Tasks, Select(i) PROVE Typed'
  BY <1>6 DEF Select, api, Typed, SlotsTyped, SettingsTyped, TimesOK, ControlTyped, Tasks
<1>7. CASE CallbackReturns
  <2> DEFINE after == IF clocked THEN clock ELSE now
             k == IF Late(current, now) /\ Config[current].allowDegrade
                       /\ kernel.state = "Normal"
                    THEN [kernel EXCEPT !.state = "Degraded"] ELSE kernel
             ran == Ran(current, now, after)
  <2>1. current \in Tasks /\ after \in Time
    BY <1>1, <1>2, <1>7 DEF CallbackReturns
  <2>2. ran \in Slot
    BY <1>1, <2>1, RanTyped
  <2>3. \/ Fail(current, ran, k, after, "TaskOverrun")
        \/ task' = [task EXCEPT ![current] = ran] /\ UNCHANGED hints
    BY <1>7, CallbackOutcome
  <2>4. now' = after
    BY <1>7 DEF CallbackReturns
  <2> HIDE DEF after, k, ran
  <2>5. SlotsTyped'
    <3>1. CASE Fail(current, ran, k, after, "TaskOverrun")
      <4>1. task' \in [Tasks -> Slot] /\ hints' \in {hints, Hints(task', policy)}
        BY <1>1, <2>1, <2>2, <3>1, FailedSlot
      <4> QED
        BY <1>1, <4>1, HintsTyped DEF SlotsTyped
    <3>2. CASE task' = [task EXCEPT ![current] = ran] /\ UNCHANGED hints
      BY <1>1, <2>1, <2>2, <3>2 DEF SlotsTyped
    <3> QED
      BY <2>3, <3>1, <3>2
  <2>6. SettingsTyped' /\ TimesOK' /\ ControlTyped'
    BY <1>7, <2>1, <2>4
    DEF CallbackReturns, Typed, SettingsTyped, TimesOK, ControlTyped
  <2> QED
    BY <2>5, <2>6 DEF Typed
<1>8. CASE DrainReturns \/ NothingRunnable
  BY <1>8 DEF DrainReturns, NothingRunnable, api, Typed, SlotsTyped, SettingsTyped, TimesOK,
              ControlTyped
<1>9. CASE TickReturns
  BY <1>9, TasksAssumption
  DEF TickReturns, Typed, SlotsTyped, SettingsTyped, TimesOK, ControlTyped
<1>10. CASE Elapse
  <2>1. 1 \in Time
    BY TasksAssumption DEF Time
  <2>2. clock' \in Time
    BY <1>1, <1>10, <2>1, TimesTyped DEF Elapse
  <2> QED
    BY <1>10, <2>2
    DEF Elapse, api, control, Typed, SlotsTyped, SettingsTyped, TimesOK, ControlTyped
<1>11. CASE UNCHANGED vars
  BY <1>11 DEF vars, Typed, SlotsTyped, SettingsTyped, TimesOK, ControlTyped
<1> QED
  BY <1>3, <1>4, <1>5, <1>6, <1>7, <1>8, <1>9, <1>10, <1>11 DEF Next, Tick

LEMMA TypedAlways == Spec => [](Typed /\ SoundInv)
<1>1. Typed /\ SoundInv /\ [Next]_vars => Typed'
  BY StepTyped
<1> QED
  BY <1>1, InitTyped, SoundAlways, PTL DEF Spec

\* For every set of tasks and contracts, slots, kernel record, times and control
\* keep their types: the counter of failures wraps within its byte, and times
\* stay below the wrap of millis().
THEOREM TypeCorrect == Spec => []TypeOK
<1>1. Typed /\ SoundInv => TypeOK
  BY DEF Typed, SlotsTyped, SettingsTyped, TimesOK, ControlTyped, SoundInv, Sound, TypeOK
<1> QED
  BY <1>1, TypedAlways, PTL

-------------------------------------------------------------------------------
(* The cached hint of heartbeat monitoring.                                *)

\* A slot counts for the hint by its being used and by its timeout alone.
SameWatch(ts, us) ==
  \A i \in Tasks : /\ us[i].state = "Unused" <=> ts[i].state = "Unused"
                   /\ us[i].heartbeat = ts[i].heartbeat
Watching(ts, p) == p.heartbeat > 0 \/ \E i \in InUse(ts) : ts[i].heartbeat > 0

LEMMA HintWatches ==
  ASSUME NEW ts, NEW p
  PROVE  Hints(ts, p).monitoring = Watching(ts, p)
BY DEF Hints, Watching

LEMMA SameHint ==
  ASSUME NEW ts, NEW us, NEW p, SameWatch(ts, us)
  PROVE  Hints(us, p).monitoring = Hints(ts, p).monitoring
<1>1. InUse(us) = InUse(ts)
  BY DEF SameWatch, InUse
<1>2. \A i \in InUse(ts) : us[i].heartbeat = ts[i].heartbeat
  BY DEF SameWatch, InUse
<1>3. Watching(us, p) <=> Watching(ts, p)
  BY <1>1, <1>2 DEF Watching
<1>4. Watching(us, p) \in BOOLEAN /\ Watching(ts, p) \in BOOLEAN
  BY Zenon DEF Watching
<1> DEFINE w == Watching(us, p)
           v == Watching(ts, p)
<1>5. w = v
  <2> HIDE DEF w, v
  <2> QED
    BY <1>3, <1>4 DEF w, v
<1> QED
  BY <1>5, HintWatches

LEMMA ResetWatch ==
  ASSUME task \in [Tasks -> Slot], NEW t
  PROVE  SameWatch(task, ResetAll(t))
<1> SUFFICES ASSUME NEW i \in Tasks
             PROVE  /\ ResetAll(t)[i].state = "Unused" <=> task[i].state = "Unused"
                    /\ ResetAll(t)[i].heartbeat = task[i].heartbeat
  BY DEF SameWatch
<1>1. CASE i \in InUse(task)
  <2>1. ResetAll(t)[i] = ResetRuntime(i, task[i], t)
    BY <1>1 DEF ResetAll
  <2>2. /\ ResetRuntime(i, task[i], t).state \in {"Ready", "Suspended"}
        /\ ResetRuntime(i, task[i], t).heartbeat = task[i].heartbeat
    BY DEF ResetRuntime, Slot
  <2> QED
    BY <1>1, <2>1, <2>2 DEF InUse
<1>2. CASE i \notin InUse(task)
  BY <1>2 DEF ResetAll
<1> QED
  BY <1>1, <1>2

\* The slot whose callback runs stays in use.
RunnerInUse == pc = "callback" => task[current].state # "Unused"
WatchInv == MonitoringFresh /\ RunnerInUse

LEMMA FailedWatch ==
  ASSUME task \in [Tasks -> Slot], NEW i \in Tasks, NEW s \in Slot, NEW k, NEW t \in Time,
         NEW reason, Fail(i, s, k, t, reason), MonitoringFresh, UNCHANGED policy,
         task[i].state # "Unused", s.heartbeat = task[i].heartbeat
  PROVE  MonitoringFresh'
<1>1. /\ hints' \in {hints, Hints(task', policy)}
      /\ \A j \in Tasks \ {i} : task'[j] = task[j]
      /\ task'[i].state \in {"Ready", "Faulted"} /\ task'[i].heartbeat = s.heartbeat
  BY FailedSlot
<1>2. SameWatch(task, task')
  BY <1>1 DEF SameWatch
<1>3. Hints(task', policy).monitoring = Hints(task, policy).monitoring
  BY <1>2, SameHint
<1> QED
  BY <1>1, <1>3 DEF MonitoringFresh

\* A used slot is written, and the hints are recounted from the new slots.
LEMMA WrittenWatch ==
  ASSUME task \in [Tasks -> Slot], SoundInv, WatchInv, NEW i \in Tasks, NEW s,
         s.state # "Unused", task' = [task EXCEPT ![i] = s], hints' = Hints(task', policy),
         UNCHANGED <<policy, pc, current>>
  PROVE  WatchInv'
<1>1. MonitoringFresh'
  BY DEF MonitoringFresh
<1>2. RunnerInUse'
  BY DEF RunnerInUse, WatchInv, SoundInv, ChargesTasks
<1> QED
  BY <1>1, <1>2 DEF WatchInv

\* A slot is written that is used as before, with the timeout it had.
LEMMA TouchedWatch ==
  ASSUME task \in [Tasks -> Slot], SoundInv, WatchInv, NEW i \in Tasks, NEW s,
         s.state = task[i].state, s.heartbeat = task[i].heartbeat,
         task' = [task EXCEPT ![i] = s], UNCHANGED <<hints, policy, pc, current>>
  PROVE  WatchInv'
<1>1. SameWatch(task, task')
  BY DEF SameWatch
<1>2. Hints(task', policy).monitoring = Hints(task, policy).monitoring
  BY <1>1, SameHint
<1>3. MonitoringFresh'
  BY <1>2 DEF MonitoringFresh, WatchInv
<1>4. RunnerInUse'
  BY <1>1 DEF RunnerInUse, WatchInv, SoundInv, ChargesTasks, SameWatch
<1> QED
  BY <1>3, <1>4 DEF WatchInv

LEMMA ApiWatch ==
  ASSUME Typed, SoundInv, WatchInv, Api
  PROVE  WatchInv'
<1>1. task \in [Tasks -> Slot]
  BY DEF Typed, SlotsTyped
<1>2. UNCHANGED control
  BY DEF Api, Begin, Stop, AddTask, Suspend, Resume, Heartbeat, SetHeartbeatTimeout,
         SetPriority, SetWatchdogPolicy, EnterSafeMode, ExitSafeMode, TriggerPanic,
         SetCapabilities, SetTasks, SetKernel
<1>3. /\ pc' = pc /\ current' = current
      /\ pc = "callback" => current \in Tasks /\ task[current].state # "Unused"
      /\ hints.monitoring = Hints(task, policy).monitoring
  BY <1>2 DEF control, WatchInv, RunnerInUse, MonitoringFresh, SoundInv, ChargesTasks
<1>4. ASSUME NEW c \in Clocks, Begin(c) PROVE WatchInv'
  <2> DEFINE t == IF c THEN clock ELSE lastTick
  <2>1. task' = ResetAll(t) /\ hints' = Hints(task, policy) /\ policy' = policy
    BY <1>4 DEF Begin
  <2> HIDE DEF t
  <2>2. SameWatch(task, task')
    BY <1>1, <2>1, ResetWatch
  <2>3. MonitoringFresh'
    BY <2>1, <2>2, SameHint DEF MonitoringFresh
  <2> QED
    BY <2>2, <2>3, <1>3 DEF WatchInv, RunnerInUse, SameWatch
<1>5. CASE Stop
  <2>1. SameWatch(task, task') /\ hints' = Hints(task', policy) /\ policy' = policy
    BY <1>1, <1>5, ResetWatch DEF Stop
  <2> QED
    BY <2>1, <1>3 DEF WatchInv, RunnerInUse, SameWatch, MonitoringFresh
<1>6. ASSUME NEW i \in Tasks, AddTask(i) PROVE WatchInv'
  <2> DEFINE s == NewSlot(i, IF started THEN CurrentTime ELSE 0)
  <2>1. s.state # "Unused"
    BY DEF NewSlot, ResetRuntime
  <2>2. task' = [task EXCEPT ![i] = s] /\ hints' = Hints(task', policy) /\ policy' = policy
    BY <1>6 DEF AddTask, SetTasks
  <2> HIDE DEF s
  <2> QED
    BY <1>1, <1>3, <2>1, <2>2, WrittenWatch
<1>7. ASSUME NEW i \in Tasks, Suspend(i) PROVE WatchInv'
  <2> DEFINE s == [task[i] EXCEPT !.state = "Suspended"]
  <2>1. s.state # "Unused"
    BY <1>1 DEF Slot
  <2>2. task' = [task EXCEPT ![i] = s] /\ hints' = Hints(task', policy) /\ policy' = policy
    BY <1>1, <1>7 DEF Suspend, SetTasks
  <2> HIDE DEF s
  <2> QED
    BY <1>1, <1>3, <2>1, <2>2, WrittenWatch
<1>8. ASSUME NEW i \in Tasks, Resume(i) PROVE WatchInv'
  <2> DEFINE r == ResetRuntime(i, task[i], CurrentTime)
             s == [r EXCEPT !.state = "Ready"]
  <2>1. r \in Slot
    BY <1>1, ResetTyped, CurrentTimeTyped
  <2>2. task' = [task EXCEPT ![i] = s] /\ hints' = Hints(task', policy) /\ policy' = policy
    BY <1>1, <1>8 DEF Resume, SetTasks
  <2> HIDE DEF r
  <2>3. s.state # "Unused"
    BY <2>1 DEF Slot
  <2> HIDE DEF s
  <2> QED
    BY <1>1, <1>3, <2>2, <2>3, WrittenWatch
<1>9. ASSUME NEW i \in Tasks, Heartbeat(i) PROVE WatchInv'
  <2> DEFINE s == [task[i] EXCEPT !.lastBeat = CurrentTime]
  <2>1. s.state = task[i].state /\ s.heartbeat = task[i].heartbeat
    BY <1>1 DEF Slot
  <2>2. task' = [task EXCEPT ![i] = s] /\ UNCHANGED <<hints, policy>>
    BY <1>1, <1>9 DEF Heartbeat
  <2> HIDE DEF s
  <2> QED
    BY <1>1, <1>3, <2>1, <2>2, TouchedWatch
<1>10. ASSUME NEW i \in Tasks, NEW t \in NewTimeouts, SetHeartbeatTimeout(i, t) PROVE WatchInv'
  <2> DEFINE s == [task[i] EXCEPT !.heartbeat = t]
  <2>1. s.state # "Unused"
    BY <1>1, <1>10 DEF Slot, SetHeartbeatTimeout, InUse
  <2>2. task' = [task EXCEPT ![i] = s] /\ hints' = Hints(task', policy) /\ policy' = policy
    BY <1>1, <1>10 DEF SetHeartbeatTimeout, SetTasks
  <2> HIDE DEF s
  <2> QED
    BY <1>1, <1>3, <2>1, <2>2, WrittenWatch
<1>11. ASSUME NEW i \in Tasks, NEW p \in NewPriorities, SetPriority(i, p) PROVE WatchInv'
  <2> DEFINE s == [task[i] EXCEPT !.priority = p]
  <2>1. s.state = task[i].state /\ s.heartbeat = task[i].heartbeat
    BY <1>1 DEF Slot
  <2>2. task' = [task EXCEPT ![i] = s] /\ UNCHANGED <<hints, policy>>
    BY <1>1, <1>11 DEF SetPriority
  <2> HIDE DEF s
  <2> QED
    BY <1>1, <1>3, <2>1, <2>2, TouchedWatch
<1>12. ASSUME NEW p \in Policies, SetWatchdogPolicy(p) PROVE WatchInv'
  BY <1>3, <1>12 DEF SetWatchdogPolicy, WatchInv, RunnerInUse, MonitoringFresh
<1>13. CASE UNCHANGED <<task, hints, policy>>
  BY <1>3, <1>13 DEF WatchInv, RunnerInUse, MonitoringFresh
<1> QED
  BY <1>4, <1>5, <1>6, <1>7, <1>8, <1>9, <1>10, <1>11, <1>12, <1>13
  DEF Api, EnterSafeMode, ExitSafeMode, TriggerPanic, SetKernel, SetCapabilities

LEMMA StepWatch ==
  ASSUME Typed, SoundInv, WatchInv, [Next]_vars
  PROVE  WatchInv'
<1>1. /\ task \in [Tasks -> Slot] /\ now \in Time /\ clock \in Time /\ cursor \in Tasks
      /\ MonitoringFresh
      /\ pc = "callback" => current \in Tasks /\ task[current].state # "Unused"
  BY DEF Typed, SlotsTyped, TimesOK, ControlTyped, SoundInv, ChargesTasks, WatchInv, RunnerInUse
<1>2. CASE Api
  BY <1>2, ApiWatch
<1>3. CASE TickBegins
  <2>1. pc' # "callback" /\ policy' = policy
    BY <1>3 DEF TickBegins
  <2>2. \/ UNCHANGED <<task, hints>>
        \/ task' = ResetAll(clock) /\ hints' = Hints(task, policy)
    BY <1>3 DEF TickBegins
  <2>3. MonitoringFresh'
    BY <1>1, <2>1, <2>2, ResetWatch, SameHint DEF MonitoringFresh
  <2> QED
    BY <2>1, <2>3 DEF WatchInv, RunnerInUse
<1>4. CASE Inspect
  <2>1. pc' # "callback" /\ policy' = policy
    BY <1>4 DEF Inspect
  <2>2. CASE TimedOut(cursor, now)
    <3>1. /\ Fail(cursor, task[cursor], kernel, now, "HeartbeatTimeout")
          /\ task[cursor].state # "Unused" /\ task[cursor] \in Slot
      BY <1>1, <1>4, <2>2 DEF Inspect, TimedOut
    <3>2. MonitoringFresh'
      BY <1>1, <2>1, <3>1, FailedWatch
    <3> QED
      BY <2>1, <3>2 DEF WatchInv, RunnerInUse
  <2>3. CASE ~TimedOut(cursor, now)
    BY <1>1, <1>4, <2>1, <2>3 DEF Inspect, WatchInv, RunnerInUse, MonitoringFresh
  <2> QED
    BY <2>2, <2>3
<1>5. ASSUME NEW i \in Tasks, Select(i) PROVE WatchInv'
  BY <1>1, <1>5 DEF Select, Runnable, Due, api, WatchInv, RunnerInUse, MonitoringFresh
<1>6. CASE CallbackReturns
  <2> DEFINE after == IF clocked THEN clock ELSE now
             k == IF Late(current, now) /\ Config[current].allowDegrade
                       /\ kernel.state = "Normal"
                    THEN [kernel EXCEPT !.state = "Degraded"] ELSE kernel
             ran == Ran(current, now, after)
  <2>1. /\ current \in Tasks /\ task[current].state # "Unused" /\ after \in Time
        /\ pc' = "drain" /\ policy' = policy
    BY <1>1, <1>6 DEF CallbackReturns
  <2>2. ran \in Slot /\ ran.state = task[current].state /\ ran.heartbeat = task[current].heartbeat
    BY <1>1, <2>1, RanTyped
  <2>3. \/ Fail(current, ran, k, after, "TaskOverrun")
        \/ task' = [task EXCEPT ![current] = ran] /\ UNCHANGED hints
    BY <1>6, CallbackOutcome
  <2> HIDE DEF after, k, ran
  <2>4. MonitoringFresh'
    <3>1. CASE Fail(current, ran, k, after, "TaskOverrun")
      BY <1>1, <2>1, <2>2, <3>1, FailedWatch
    <3>2. CASE task' = [task EXCEPT ![current] = ran] /\ UNCHANGED hints
      <4>1. SameWatch(task, task')
        BY <1>1, <2>1, <2>2, <3>2 DEF SameWatch
      <4> QED
        BY <1>1, <2>1, <3>2, <4>1, SameHint DEF MonitoringFresh
    <3> QED
      BY <2>3, <3>1, <3>2
  <2> QED
    BY <2>1, <2>4 DEF WatchInv, RunnerInUse
<1>7. CASE DrainReturns \/ NothingRunnable \/ TickReturns
  BY <1>1, <1>7
  DEF DrainReturns, NothingRunnable, TickReturns, api, WatchInv, RunnerInUse, MonitoringFresh
<1>8. CASE Elapse \/ UNCHANGED vars
  BY <1>1, <1>8 DEF Elapse, vars, api, control, WatchInv, RunnerInUse, MonitoringFresh
<1> QED
  BY <1>2, <1>3, <1>4, <1>5, <1>6, <1>7, <1>8 DEF Next, Tick

LEMMA InitWatch == Init => WatchInv
<1> SUFFICES ASSUME Init PROVE WatchInv
  OBVIOUS
<1>1. policy.heartbeat = 0 /\ InUse(task) = {} /\ pc = "loop" /\ hints.monitoring = FALSE
  BY DEF Init, InUse
<1>2. Watching(task, policy) = FALSE
  BY <1>1 DEF Watching
<1> QED
  BY <1>1, <1>2, HintWatches DEF WatchInv, RunnerInUse, MonitoringFresh

LEMMA WatchAlways == Spec => [](Typed /\ SoundInv /\ WatchInv)
<1>1. Typed /\ SoundInv /\ WatchInv /\ [Next]_vars => WatchInv'
  BY StepWatch
<1> QED
  BY <1>1, InitWatch, TypedAlways, PTL DEF Spec

\* For every set of tasks and every pattern of API calls, from inside or outside
\* a tick: the cached flag that lets a tick skip the inspection of heartbeats is
\* never stale, whichever function changed a timeout, a slot or the policy.
THEOREM MonitoringStaysFresh == Spec => []MonitoringFresh
<1>1. WatchInv => MonitoringFresh
  BY DEF WatchInv
<1> QED
  BY <1>1, WatchAlways, PTL

-------------------------------------------------------------------------------
(* Containment of faulted tasks.                                           *)

Held(k) == k.safeMode \/ k.panic.reason # "None"

\* User code neither lifts safe mode nor changes the watchdog policy.
PolicyKept == {"safeMode", "policy"} \cap (LoopMay \cup TaskMay \cup DrainMay) = {}

ContainInv == FaultsContained /\ policy.autoRecovery

\* A slot is not charged with a failure while its own callback runs.
RunnerHealthy == pc = "callback" => task[current].state # "Faulted"

LEMMA FaultedHeld == FaultsContained <=>
  \A i \in Tasks : task[i].state = "Faulted" => Exhausted(i, task[i].fails) /\ Held(kernel)
BY DEF FaultsContained, Held

LEMMA PanickedHeld ==
  ASSUME NEW k, NEW reason, reason # "None", NEW mode
  PROVE  Held(Panicked(k, reason, mode))
BY DEF Held, Panicked

\* A failure that is not recovered from ends in safe mode or with a panic, and
\* no failure takes a kernel out of either.
LEMMA FailedHeld ==
  ASSUME NEW i \in Tasks, NEW s, NEW k, Sound(k), NEW t,
         NEW reason \in {"TaskOverrun", "HeartbeatTimeout"}, Fail(i, s, k, t, reason),
         Held(k) \/ Exhausted(i, U8(s.fails + 1))
  PROVE  Held(kernel')
<1> DEFINE fails == U8(s.fails + 1)
           degraded == IF Config[i].allowDegrade THEN [k EXCEPT !.state = "Degraded"] ELSE k
           escalated == Escalated(k, i, fails)
           failed == HardFailed(escalated, i, reason)
<1>1. kernel' \in {failed, Recovered(failed)}
  BY DEF Fail
<1>2. Sound(escalated) /\ Sound(failed)
  BY EscalatedSound, HardFailedSound
<1>3. Held(escalated)
  <2>1. Held(Panicked(degraded, "TaskFailure", ContractMode(i)))
    BY PanickedHeld
  <2>2. Sound(degraded) /\ (Held(k) => Held(degraded))
    BY DegradedSound DEF Held, Sound, Kernel
  <2>3. Held(InSafeMode(degraded, ContractFloor(i)))
    BY <2>2 DEF Held, InSafeMode, Sound, Kernel
  <2> HIDE DEF degraded, fails
  <2>4. \/ escalated \in {Panicked(degraded, "TaskFailure", ContractMode(i)),
                          InSafeMode(degraded, ContractFloor(i))}
        \/ escalated = degraded /\ ~Exhausted(i, fails)
    BY DEF Escalated, degraded
  <2> QED
    BY <2>1, <2>2, <2>3, <2>4 DEF fails
<1> HIDE DEF escalated
<1>4. Held(failed)
  BY <1>3, PanickedHeld DEF HardFailed
<1> HIDE DEF failed
<1>5. Held(Recovered(failed))
  BY <1>2, <1>4 DEF Recovered, Held, Sound, Kernel
<1> QED
  BY <1>1, <1>4, <1>5

LEMMA FailedContained ==
  ASSUME task \in [Tasks -> Slot], ContainInv, UNCHANGED policy,
         NEW i \in Tasks, NEW s \in Slot, NEW k, Sound(k), Held(kernel) => Held(k),
         NEW t \in Time, NEW reason \in {"TaskOverrun", "HeartbeatTimeout"},
         Fail(i, s, k, t, reason)
  PROVE  ContainInv'
<1> DEFINE fails == U8(s.fails + 1)
<1>1. /\ \A j \in Tasks \ {i} : task'[j] = task[j]
      /\ task'[i].fails = fails
      /\ task'[i].state = IF Recovers(i, fails) THEN "Ready" ELSE "Faulted"
  BY FailedSlot
<1>2. Held(k) \/ Exhausted(i, fails) => Held(kernel')
  BY FailedHeld
<1> HIDE DEF fails
<1>3. Recovers(i, fails) \/ Exhausted(i, fails)
  BY DEF Recovers, ContainInv
<1>4. ASSUME NEW j \in Tasks, task'[j].state = "Faulted"
      PROVE  Exhausted(j, task[j].fails)' /\ Held(kernel)'
  <2>1. CASE j = i
    BY <1>1, <1>2, <1>3, <1>4, <2>1 DEF Exhausted, Budget
  <2>2. CASE j # i
    BY <1>1, <1>2, <1>4, <2>2, FaultedHeld DEF ContainInv, Exhausted, Budget
  <2> QED
    BY <2>1, <2>2
<1> QED
  BY <1>4 DEF ContainInv, FaultsContained, Held

LEMMA ResetUnfaulted ==
  ASSUME task \in [Tasks -> Slot], NEW t, NEW i \in Tasks
  PROVE  ResetAll(t)[i].state # "Faulted"
BY DEF ResetAll, ResetRuntime, InUse, Slot

\* A slot is written that is not faulted, or that keeps its state and failures.
LEMMA WrittenContained ==
  ASSUME task \in [Tasks -> Slot], ContainInv, NEW i \in Tasks, NEW s,
         s.state # "Faulted" \/ (s.state = task[i].state /\ s.fails = task[i].fails),
         task' = [task EXCEPT ![i] = s], UNCHANGED policy, Held(kernel) => Held(kernel')
  PROVE  ContainInv'
<1>1. ASSUME NEW j \in Tasks, task'[j].state = "Faulted"
      PROVE  Exhausted(j, task[j].fails)' /\ Held(kernel)'
  <2>1. task[j].state = "Faulted" /\ task'[j].fails = task[j].fails
    BY <1>1
  <2> QED
    BY <1>1, <2>1, FaultedHeld DEF ContainInv, Exhausted, Budget
<1> QED
  BY <1>1 DEF ContainInv, FaultsContained, Held

LEMMA UntouchedContained ==
  ASSUME ContainInv, UNCHANGED <<task, policy>>, Held(kernel) => Held(kernel')
  PROVE  ContainInv'
<1>1. ASSUME NEW j \in Tasks, task'[j].state = "Faulted"
      PROVE  Exhausted(j, task[j].fails)' /\ Held(kernel)'
  BY <1>1, FaultedHeld DEF ContainInv, Exhausted, Budget
<1> QED
  BY <1>1 DEF ContainInv, FaultsContained, Held

LEMMA ApiContained ==
  ASSUME PolicyKept, Typed, SoundInv, ContainInv, Api
  PROVE  ContainInv'
<1>1. task \in [Tasks -> Slot] /\ CurrentTime \in Time
  BY CurrentTimeTyped DEF Typed, SlotsTyped
<1>2. ~MayCall("safeMode") /\ ~MayCall("policy")
  BY DEF MayCall, PolicyKept
<1>3. ASSUME NEW c \in Clocks, Begin(c) PROVE ContainInv'
  BY <1>1, <1>3, ResetUnfaulted DEF Begin, ContainInv, FaultsContained
<1>4. CASE Stop
  BY <1>1, <1>4, ResetUnfaulted DEF Stop, ContainInv, FaultsContained
<1>5. ASSUME NEW i \in Tasks, AddTask(i) PROVE ContainInv'
  <2> DEFINE s == NewSlot(i, IF started THEN CurrentTime ELSE 0)
  <2>1. s.state # "Faulted"
    BY DEF NewSlot, ResetRuntime
  <2>2. task' = [task EXCEPT ![i] = s] /\ UNCHANGED <<policy, kernel>>
    BY <1>5 DEF AddTask, SetTasks
  <2> HIDE DEF s
  <2> QED
    BY <1>1, <2>1, <2>2, WrittenContained
<1>6. ASSUME NEW i \in Tasks, Suspend(i) PROVE ContainInv'
  <2> DEFINE s == [task[i] EXCEPT !.state = "Suspended"]
  <2>1. s.state # "Faulted"
    BY <1>1 DEF Slot
  <2>2. task' = [task EXCEPT ![i] = s] /\ UNCHANGED <<policy, kernel>>
    BY <1>1, <1>6 DEF Suspend, SetTasks
  <2> HIDE DEF s
  <2> QED
    BY <1>1, <2>1, <2>2, WrittenContained
<1>7. ASSUME NEW i \in Tasks, Resume(i) PROVE ContainInv'
  <2> DEFINE r == ResetRuntime(i, task[i], CurrentTime)
             s == [r EXCEPT !.state = "Ready"]
  <2>1. r \in Slot
    BY <1>1, ResetTyped
  <2>2. task' = [task EXCEPT ![i] = s] /\ UNCHANGED <<policy, kernel>>
    BY <1>1, <1>7 DEF Resume, SetTasks
  <2> HIDE DEF r
  <2>3. s.state # "Faulted"
    BY <2>1 DEF Slot
  <2> HIDE DEF s
  <2> QED
    BY <1>1, <2>2, <2>3, WrittenContained
<1>8. ASSUME NEW i \in Tasks, Heartbeat(i) PROVE ContainInv'
  <2> DEFINE s == [task[i] EXCEPT !.lastBeat = CurrentTime]
  <2>1. s.state = task[i].state /\ s.fails = task[i].fails
    BY <1>1 DEF Slot
  <2>2. task' = [task EXCEPT ![i] = s] /\ UNCHANGED <<policy, kernel>>
    BY <1>1, <1>8 DEF Heartbeat
  <2> HIDE DEF s
  <2> QED
    BY <1>1, <2>1, <2>2, WrittenContained
<1>9. ASSUME NEW i \in Tasks, NEW t \in NewTimeouts, SetHeartbeatTimeout(i, t) PROVE ContainInv'
  <2> DEFINE s == [task[i] EXCEPT !.heartbeat = t]
  <2>1. s.state = task[i].state /\ s.fails = task[i].fails
    BY <1>1 DEF Slot
  <2>2. task' = [task EXCEPT ![i] = s] /\ UNCHANGED <<policy, kernel>>
    BY <1>1, <1>9 DEF SetHeartbeatTimeout, SetTasks
  <2> HIDE DEF s
  <2> QED
    BY <1>1, <2>1, <2>2, WrittenContained
<1>10. ASSUME NEW i \in Tasks, NEW p \in NewPriorities, SetPriority(i, p) PROVE ContainInv'
  <2> DEFINE s == [task[i] EXCEPT !.priority = p]
  <2>1. s.state = task[i].state /\ s.fails = task[i].fails
    BY <1>1 DEF Slot
  <2>2. task' = [task EXCEPT ![i] = s] /\ UNCHANGED <<policy, kernel>>
    BY <1>1, <1>10 DEF SetPriority
  <2> HIDE DEF s
  <2> QED
    BY <1>1, <2>1, <2>2, WrittenContained
<1>11. ASSUME NEW m \in Modes, TriggerPanic(m) PROVE ContainInv'
  <2>1. Held(kernel')
    BY <1>11, PanickedHeld DEF TriggerPanic, SetKernel
  <2> QED
    BY <1>11, <2>1, UntouchedContained DEF TriggerPanic, SetKernel
<1>12. ASSUME NEW mask \in CapChoices, NEW w \in {"active", "safe"}, SetCapabilities(mask, w)
       PROVE  ContainInv'
  BY <1>12, UntouchedContained DEF SetCapabilities
<1> QED
  BY <1>2, <1>3, <1>4, <1>5, <1>6, <1>7, <1>8, <1>9, <1>10, <1>11, <1>12
  DEF Api, EnterSafeMode, ExitSafeMode, SetWatchdogPolicy

\* User code never faults a slot.
LEMMA ApiFaultsNone ==
  ASSUME Typed, Api, NEW j \in Tasks, task'[j].state = "Faulted"
  PROVE  task[j].state = "Faulted"
<1>1. task \in [Tasks -> Slot] /\ CurrentTime \in Time
  BY CurrentTimeTyped DEF Typed, SlotsTyped
<1>2. ASSUME NEW c \in Clocks, Begin(c) PROVE FALSE
  BY <1>1, <1>2, ResetUnfaulted DEF Begin
<1>3. ~Stop
  BY <1>1, ResetUnfaulted DEF Stop
<1>4. ASSUME NEW i \in Tasks, AddTask(i) PROVE task[j].state = "Faulted"
  <2>1. NewSlot(i, IF started THEN CurrentTime ELSE 0).state # "Faulted"
    BY DEF NewSlot, ResetRuntime
  <2> QED
    BY <1>1, <1>4, <2>1 DEF AddTask, SetTasks
<1>5. ASSUME NEW i \in Tasks, Resume(i) PROVE task[j].state = "Faulted"
  <2> DEFINE r == ResetRuntime(i, task[i], CurrentTime)
             s == [r EXCEPT !.state = "Ready"]
  <2>1. r \in Slot
    BY <1>1, ResetTyped
  <2>2. task' = [task EXCEPT ![i] = s]
    BY <1>1, <1>5 DEF Resume, SetTasks
  <2> HIDE DEF r
  <2>3. s.state # "Faulted"
    BY <2>1 DEF Slot
  <2> HIDE DEF s
  <2> QED
    BY <1>1, <2>2, <2>3
<1>6. ASSUME NEW i \in Tasks,
             Suspend(i) \/ Heartbeat(i)
               \/ (\E t \in NewTimeouts : SetHeartbeatTimeout(i, t))
               \/ (\E p \in NewPriorities : SetPriority(i, p))
      PROVE  task[j].state = "Faulted"
  <2>1. CASE Suspend(i)
    BY <1>1, <1>6, <2>1 DEF Suspend, SetTasks, Slot
  <2>2. CASE Heartbeat(i)
    BY <1>1, <1>6, <2>2 DEF Heartbeat, Slot
  <2>3. ASSUME NEW t \in NewTimeouts, SetHeartbeatTimeout(i, t)
        PROVE  task[j].state = "Faulted"
    BY <1>1, <2>3 DEF SetHeartbeatTimeout, SetTasks, Slot
  <2>4. ASSUME NEW p \in NewPriorities, SetPriority(i, p)
        PROVE  task[j].state = "Faulted"
    BY <1>1, <2>4 DEF SetPriority, Slot
  <2> QED
    BY <1>6, <2>1, <2>2, <2>3, <2>4
<1>7. CASE UNCHANGED task
  BY <1>7
<1> QED
  BY <1>2, <1>3, <1>4, <1>5, <1>6, <1>7
  DEF Api, EnterSafeMode, ExitSafeMode, TriggerPanic, SetKernel, SetCapabilities,
      SetWatchdogPolicy

LEMMA StepHealthy ==
  ASSUME Typed, SoundInv, RunnerHealthy, [Next]_vars
  PROVE  RunnerHealthy'
<1>1. CASE Api
  <2>1. UNCHANGED control
    BY <1>1 DEF Api, Begin, Stop, AddTask, Suspend, Resume, Heartbeat, SetHeartbeatTimeout,
                SetPriority, SetWatchdogPolicy, EnterSafeMode, ExitSafeMode, TriggerPanic,
                SetCapabilities, SetTasks, SetKernel
  <2> QED
    BY <1>1, <2>1, ApiFaultsNone DEF RunnerHealthy, SoundInv, ChargesTasks, control
<1>2. CASE TickBegins \/ Inspect \/ CallbackReturns \/ DrainReturns \/ NothingRunnable \/ TickReturns
  BY <1>2 DEF TickBegins, Inspect, CallbackReturns, DrainReturns, NothingRunnable, TickReturns,
              RunnerHealthy
<1>3. ASSUME NEW i \in Tasks, Select(i) PROVE RunnerHealthy'
  BY <1>3 DEF Select, Runnable, Due, api, RunnerHealthy
<1>4. CASE Elapse \/ UNCHANGED vars
  BY <1>4 DEF Elapse, vars, api, control, RunnerHealthy
<1> QED
  BY <1>1, <1>2, <1>3, <1>4 DEF Next, Tick

LEMMA StepContained ==
  ASSUME PolicyKept, Typed, SoundInv, ContainInv, RunnerHealthy, [Next]_vars
  PROVE  ContainInv'
<1>1. /\ task \in [Tasks -> Slot] /\ now \in Time /\ clock \in Time /\ cursor \in Tasks
      /\ Sound(kernel)
      /\ pc = "callback" => current \in Tasks
  BY DEF Typed, SlotsTyped, TimesOK, ControlTyped, SoundInv, ChargesTasks
<1>2. CASE Api
  BY <1>2, ApiContained
<1>3. CASE TickBegins
  <2>1. CASE started
    BY <1>3, <2>1, UntouchedContained DEF TickBegins
  <2>2. CASE ~started
    BY <1>1, <1>3, <2>2, ResetUnfaulted DEF TickBegins, ContainInv, FaultsContained
  <2> QED
    BY <2>1, <2>2
<1>4. CASE Inspect
  <2>1. CASE TimedOut(cursor, now)
    <3>1. /\ Fail(cursor, task[cursor], kernel, now, "HeartbeatTimeout")
          /\ task[cursor] \in Slot /\ UNCHANGED policy
      BY <1>1, <1>4, <2>1 DEF Inspect
    <3> QED
      BY <1>1, <3>1, FailedContained
  <2>2. CASE ~TimedOut(cursor, now)
    BY <1>4, <2>2, UntouchedContained DEF Inspect
  <2> QED
    BY <2>1, <2>2
<1>5. ASSUME NEW i \in Tasks, Select(i) PROVE ContainInv'
  BY <1>5, UntouchedContained DEF Select, api
<1>6. CASE CallbackReturns
  <2> DEFINE after == IF clocked THEN clock ELSE now
             k == IF Late(current, now) /\ Config[current].allowDegrade
                       /\ kernel.state = "Normal"
                    THEN [kernel EXCEPT !.state = "Degraded"] ELSE kernel
             ran == Ran(current, now, after)
  <2>1. current \in Tasks /\ after \in Time /\ UNCHANGED policy
    BY <1>1, <1>6 DEF CallbackReturns
  <2>2. ran \in Slot /\ ran.state = task[current].state
    BY <1>1, <2>1, RanTyped
  <2>3. Sound(k) /\ (Held(kernel) => Held(k))
    BY <1>1, DegradedSound DEF Held, Sound, Kernel
  <2>4. \/ Fail(current, ran, k, after, "TaskOverrun")
        \/ task' = [task EXCEPT ![current] = ran] /\ kernel' = k
    BY <1>6, CallbackOutcome
  <2> HIDE DEF after, k, ran
  <2>5. CASE Fail(current, ran, k, after, "TaskOverrun")
    BY <1>1, <2>1, <2>2, <2>3, <2>5, FailedContained
  <2>6. CASE task' = [task EXCEPT ![current] = ran] /\ kernel' = k
    BY <1>1, <1>6, <2>1, <2>2, <2>3, <2>6, WrittenContained DEF CallbackReturns, RunnerHealthy
  <2> QED
    BY <2>4, <2>5, <2>6
<1>7. CASE DrainReturns \/ NothingRunnable \/ TickReturns
  BY <1>7, UntouchedContained DEF DrainReturns, NothingRunnable, TickReturns, api
<1>8. CASE Elapse \/ UNCHANGED vars
  BY <1>8, UntouchedContained DEF Elapse, vars, api
<1> QED
  BY <1>2, <1>3, <1>4, <1>5, <1>6, <1>7, <1>8 DEF Next, Tick

\* For every set of tasks and contracts, provided that user code neither lifts
\* safe mode nor changes the watchdog policy: a task that stays faulted has
\* exhausted its budget, and the kernel is restricted or has recorded a panic
\* from then on, until it begins anew.
THEOREM FaultsStayContained ==
  ASSUME PolicyKept
  PROVE  Spec => []FaultsContained
<1>1. Init => ContainInv /\ RunnerHealthy
  BY DEF Init, ContainInv, FaultsContained, RunnerHealthy
<1>2. Typed /\ SoundInv /\ ContainInv /\ RunnerHealthy /\ [Next]_vars
        => (ContainInv /\ RunnerHealthy)'
  BY StepContained, StepHealthy
<1>3. ContainInv => FaultsContained
  BY DEF ContainInv
<1> QED
  BY <1>1, <1>2, <1>3, TypedAlways, PTL DEF Spec

-------------------------------------------------------------------------------
(* What a step of tick() may never do.                                     *)

\* A failure leaves PANIC only as PanicSticky says.
LEMMA FailedSticky ==
  ASSUME NEW i \in Tasks, NEW s, NEW t, NEW reason,
         Fail(i, s, kernel, t, reason), Sound(kernel), kernel.state = "Panic",
         ~Config[i].allowDegrade,
         ~Exhausted(i, U8(s.fails + 1)) \/ Config[i].critical
  PROVE  kernel'.state = "Panic"
<1> DEFINE fails == U8(s.fails + 1)
           escalated == Escalated(kernel, i, fails)
           failed == HardFailed(escalated, i, reason)
<1>1. escalated.state = "Panic"
  BY DEF Escalated, Panicked
<1> HIDE DEF escalated
<1>2. failed.state = "Panic"
  BY <1>1 DEF HardFailed, Panicked
<1> HIDE DEF failed
<1>3. Recovered(failed) = failed
  BY <1>2 DEF Recovered
<1>4. kernel' \in {failed, Recovered(failed)}
  BY DEF Fail, failed, escalated
<1> QED
  BY <1>2, <1>3, <1>4

LEMMA StickyStep ==
  Typed /\ SoundInv /\ [Next]_vars =>
    [ kernel.state = "Panic" /\ kernel'.state # "Panic" /\ InTick =>
        \/ AutoBegins
        \/ Config[Charged].allowDegrade
        \/ Exhausted(Charged, task'[Charged].fails) /\ ~Config[Charged].critical ]_vars
<1> DEFINE Leaves == kernel.state = "Panic" /\ kernel'.state # "Panic" /\ InTick
           May == \/ AutoBegins
                  \/ Config[Charged].allowDegrade
                  \/ Exhausted(Charged, task'[Charged].fails) /\ ~Config[Charged].critical
<1>1. ASSUME Typed, SoundInv, Next, Leaves PROVE May
  <2>1. /\ task \in [Tasks -> Slot] /\ now \in Time /\ clock \in Time /\ cursor \in Tasks
        /\ Sound(kernel)
        /\ pc = "callback" => current \in Tasks
    BY <1>1 DEF Typed, SlotsTyped, TimesOK, ControlTyped, SoundInv, ChargesTasks
  <2>2. CASE Api
    <3>1. UNCHANGED control
      BY <2>2 DEF Api, Begin, Stop, AddTask, Suspend, Resume, Heartbeat, SetHeartbeatTimeout,
                  SetPriority, SetWatchdogPolicy, EnterSafeMode, ExitSafeMode, TriggerPanic,
                  SetCapabilities, SetTasks, SetKernel
    <3> QED
      BY <1>1, <3>1 DEF InTick, control
  <2>3. CASE TickBegins
    BY <1>1, <2>3 DEF TickBegins, AutoBegins
  <2>4. CASE Inspect
    <3>1. CASE TimedOut(cursor, now)
      <4>1. /\ Fail(cursor, task[cursor], kernel, now, "HeartbeatTimeout")
            /\ task[cursor] \in Slot /\ Charged = cursor
        BY <2>1, <2>4, <3>1 DEF Inspect, Charged
      <4>2. task'[cursor].fails = U8(task[cursor].fails + 1)
        BY <2>1, <4>1, FailedSlot
      <4> QED
        BY <1>1, <2>1, <4>1, <4>2, FailedSticky
    <3>2. CASE ~TimedOut(cursor, now)
      BY <1>1, <2>4, <3>2 DEF Inspect
    <3> QED
      BY <3>1, <3>2
  <2>5. CASE CallbackReturns
    <3> DEFINE after == IF clocked THEN clock ELSE now
               k == IF Late(current, now) /\ Config[current].allowDegrade
                         /\ kernel.state = "Normal"
                      THEN [kernel EXCEPT !.state = "Degraded"] ELSE kernel
               ran == Ran(current, now, after)
    <3>1. current \in Tasks /\ after \in Time /\ Charged = current
      BY <2>1, <2>5 DEF CallbackReturns, Charged
    <3>2. ran \in Slot
      BY <2>1, <3>1, RanTyped
    <3>3. k = kernel
      BY <1>1
    <3>4. \/ Fail(current, ran, k, after, "TaskOverrun")
          \/ kernel' = k
      BY <2>5, CallbackOutcome
    <3> HIDE DEF after, k, ran
    <3>5. CASE Fail(current, ran, k, after, "TaskOverrun")
      <4>1. task'[current].fails = U8(ran.fails + 1)
        BY <2>1, <3>1, <3>2, <3>5, FailedSlot
      <4> QED
        BY <1>1, <2>1, <3>1, <3>3, <3>5, <4>1, FailedSticky
    <3> QED
      BY <1>1, <3>3, <3>4, <3>5
  <2>6. CASE UNCHANGED kernel
    BY <1>1, <2>6
  <2> QED
    BY <1>1, <2>2, <2>3, <2>4, <2>5, <2>6
    DEF Next, Tick, Select, DrainReturns, NothingRunnable, TickReturns, Elapse, api
<1> QED
  BY <1>1

\* For every set of tasks and contracts, recovery never takes the kernel out of
\* PANIC: a tick leaves that state only by beginning an unstarted kernel, on
\* behalf of a task that may degrade it, or for another task's exhausted budget.
THEOREM PanicStaysSticky == Spec => PanicSticky
BY StickyStep, TypedAlways, PTL DEF Spec, PanicSticky

LEMMA AnchorStep ==
  Typed /\ SoundInv /\ [Next]_vars =>
    [ pc = "callback" /\ pc' = "drain" /\ ~Config[current].dropIfLate =>
        Minus(now', task'[current].lastRun) <= Minus(now', now) ]_vars
<1> DEFINE Returns == pc = "callback" /\ pc' = "drain" /\ ~Config[current].dropIfLate
           Anchored == Minus(now', task'[current].lastRun) <= Minus(now', now)
<1>1. ASSUME Typed, SoundInv, Next, Returns PROVE Anchored
  <2>1. /\ task \in [Tasks -> Slot] /\ now \in Time /\ clock \in Time /\ current \in Tasks
    BY <1>1 DEF Typed, SlotsTyped, TimesOK, SoundInv, ChargesTasks
  <2>2. CallbackReturns
    <3>1. ~Api /\ ~Elapse
      BY <1>1 DEF Api, Begin, Stop, AddTask, Suspend, Resume, Heartbeat, SetHeartbeatTimeout,
                  SetPriority, SetWatchdogPolicy, EnterSafeMode, ExitSafeMode, TriggerPanic,
                  SetCapabilities, SetTasks, SetKernel, Elapse, control
    <3> QED
      BY <1>1, <3>1 DEF Next, Tick, TickBegins, Inspect, Select, DrainReturns, NothingRunnable,
                        TickReturns
  <2> DEFINE after == IF clocked THEN clock ELSE now
             k == IF Late(current, now) /\ Config[current].allowDegrade
                       /\ kernel.state = "Normal"
                    THEN [kernel EXCEPT !.state = "Degraded"] ELSE kernel
             ran == Ran(current, now, after)
  <2>3. after \in Time /\ now' = after
    BY <2>1, <2>2, CallbackOutcome
  <2>4. ran \in Slot /\ ran.lastRun \in {now, after}
    BY <1>1, <2>1, <2>3, RanTyped DEF Anchor
  <2>5. \/ Fail(current, ran, k, after, "TaskOverrun")
        \/ task' = [task EXCEPT ![current] = ran]
    BY <2>2, CallbackOutcome
  <2> HIDE DEF after, k, ran
  <2>6. task'[current].lastRun \in {now, after}
    <3>1. CASE Fail(current, ran, k, after, "TaskOverrun")
      BY <2>1, <2>3, <2>4, <3>1, FailedSlot
    <3>2. CASE task' = [task EXCEPT ![current] = ran]
      BY <2>1, <2>4, <3>2
    <3> QED
      BY <2>5, <3>1, <3>2
  <2>7. Minus(after, after) = 0 /\ Minus(after, now) \in Nat
    <3>1. Minus(after, now) \in Time
      BY <2>1, <2>3, TimesTyped
    <3>2. after - after = 0 /\ 0 % Wrap = 0
      BY <2>3, TasksAssumption DEF Time
    <3> QED
      BY <3>1, <3>2 DEF Minus, Time
  <2>8. Minus(after, now) <= Minus(after, now) /\ Minus(after, after) <= Minus(after, now)
    BY <2>7
  <2> QED
    BY <2>3, <2>6, <2>8
<1> QED
  BY <1>1

\* For every set of tasks and contracts, and wherever millis() wraps: the next
\* interval of a task that does not drop late runs is counted from a moment of
\* the run just ended.
THEOREM AnchorStaysInRun == Spec => AnchorInRun
BY AnchorStep, TypedAlways, PTL DEF Spec, AnchorInRun

-------------------------------------------------------------------------------
(* How long a task has been silent.                                        *)

\* User code that changes no timeouts, and begins and stops the kernel from its
\* loop.  Callbacks and drained handlers may heartbeat, resume, suspend and add
\* tasks as they like.
TimeoutsKept == NewTimeouts = {} /\ Policies = {}
RestartsFromLoop == {"begin", "rebegin", "stop"} \cap (TaskMay \cup DrainMay) = {}

\* The longest pause between two readings of the clock, and a task's window.
Longer(s, t) == IF s >= t THEN s ELSE t
Pause == Longer(MaxIdle, Longer(MaxRun, MaxDrain))
Window(i) == Config[i].interval + Config[i].heartbeat

\* No window is so long, and no callback, drain or idle loop takes so long, that
\* a silence would not be told from one shorter by a wrap of millis().
SpansFit == \A i \in Tasks : Window(i) + Pause + MaxDrain < Wrap

Ahead == Minus(clock, now)
Silence(i) == Minus(clock, task[i].lastBeat)
Watched(i) == task[i].state = "Ready" /\ Config[i].heartbeat > 0

\* The slots whose silence has grown over a callback, or over the loop, and
\* has not been inspected since.
Uninspected(i) == (pc = "drain" /\ clocked) \/ (pc = "inspect" /\ i >= cursor)

\* A ready task's silence is known up to a window and what the clock has moved
\* since tick() read it; before an inspection also a whole pause more.
Heard(i) ==
  Watched(i) => Silence(i) <= Window(i) + (IF Uninspected(i) THEN Pause ELSE 0) + Ahead
TimeoutsAsAdded ==
  /\ policy.heartbeat = 0
  /\ \A i \in Tasks : task[i].state # "Unused" => task[i].heartbeat = Config[i].heartbeat
Placed ==
  /\ pc # "inspect" => cursor = 1
  /\ pc # "loop" => started
  /\ pc # "loop" /\ ~clocked => clock = now /\ lastTick = now
  /\ Ahead <= IF pc \in {"loop", "callback"} THEN Pause ELSE MaxDrain
  /\ pc = "loop" => Minus(clock, lastTick) <= Ahead
SilenceInv == TimeoutsAsAdded /\ Placed /\ (started => \A i \in Tasks : Heard(i))

LEMMA MinusIs ==
  ASSUME NEW s \in Time, NEW t \in Time
  PROVE  Minus(s, t) = IF s >= t THEN s - t ELSE s - t + Wrap
BY TasksAssumption DEF Minus, Time

LEMMA PlusIs ==
  ASSUME NEW s \in Time, NEW t \in Time
  PROVE  Plus(s, t) = IF s + t < Wrap THEN s + t ELSE s + t - Wrap
BY TasksAssumption DEF Plus, Time

LEMMA MinusSelf ==
  ASSUME NEW s \in Time
  PROVE  Minus(s, s) = 0
BY MinusIs DEF Time

\* While a span does not fill the range of millis(), it grows with the clock ...
LEMMA SpanGrows ==
  ASSUME NEW c \in Time, NEW from \in Time, NEW w \in Time, Minus(c, from) + w < Wrap
  PROVE  Minus(Plus(c, w), from) = Minus(c, from) + w
<1>1. Plus(c, w) \in Time
  BY TimesTyped
<1> QED
  BY <1>1, MinusIs, PlusIs, TasksAssumption DEF Time

\* ... and a span up to an earlier moment is shorter by what lies between.
LEMMA SpanShrinks ==
  ASSUME NEW c \in Time, NEW from \in Time, NEW t \in Time, Minus(c, t) <= Minus(c, from)
  PROVE  Minus(t, from) = Minus(c, from) - Minus(c, t)
BY MinusIs, TasksAssumption DEF Time

LEMMA PauseBounds ==
  /\ Pause \in Nat /\ MaxIdle <= Pause /\ MaxRun <= Pause /\ MaxDrain <= Pause
  /\ MaxIdle \in Nat /\ MaxRun \in Nat /\ MaxDrain \in Nat
BY TasksAssumption DEF Pause, Longer

LEMMA WindowBounds ==
  ASSUME NEW i \in Tasks, SpansFit
  PROVE  /\ Window(i) \in Nat /\ Window(i) + Pause + MaxDrain < Wrap
         /\ Plus(Config[i].interval, Config[i].heartbeat) = Window(i)
<1>1. Config[i].interval \in Time /\ Config[i].heartbeat \in Time
  BY ContractTyped
<1>2. Window(i) + Pause + MaxDrain < Wrap
  BY DEF SpansFit
<1> QED
  BY <1>1, <1>2, PlusIs, PauseBounds, TasksAssumption DEF Window, Time

LEMMA SilenceTyped ==
  ASSUME Typed, NEW i \in Tasks
  PROVE  /\ Silence(i) \in Time /\ Ahead \in Time /\ task[i] \in Slot
         /\ task[i].lastBeat \in Time /\ clock \in Time /\ now \in Time
         /\ lastTick \in Time /\ Minus(clock, lastTick) \in Time
BY TimesTyped DEF Typed, SlotsTyped, TimesOK, Slot, Silence, Ahead

LEMMA ResetKeeps ==
  ASSUME NEW i \in Tasks, NEW s \in Slot, NEW t \in Time
  PROVE  /\ ResetRuntime(i, s, t).lastBeat = t
         /\ ResetRuntime(i, s, t).heartbeat = s.heartbeat
         /\ ResetRuntime(i, s, t).state \in {"Ready", "Suspended"}
BY DEF ResetRuntime, Slot

LEMMA NewSlotBeats ==
  ASSUME NEW i \in Tasks, NEW t \in Time
  PROVE  NewSlot(i, t).lastBeat = t /\ NewSlot(i, t).heartbeat = Config[i].heartbeat
<1> DEFINE s == [state |-> "Ready", lastRun |-> 0, lastBeat |-> 0, fails |-> 0,
                 priority |-> Config[i].priority, heartbeat |-> Config[i].heartbeat]
<1>1. s \in Slot /\ s.heartbeat = Config[i].heartbeat
  BY ContractTyped, ZeroTyped DEF Slot, TaskStates
<1> HIDE DEF s
<1> QED
  BY <1>1, ResetKeeps DEF NewSlot, s

\* Where user code runs.
UserPlaces == {"loop", "callback", "drain", "lastDrain"}

\* Every way user code sets the time of a heartbeat sets it to a time that
\* tick() or the clock has just shown.
LEMMA ApiBeats ==
  ASSUME Typed, Api, TimeoutsKept, RestartsFromLoop, NEW i \in Tasks
  PROVE  /\ policy' = policy /\ UNCHANGED control /\ clock' = clock
         /\ task'[i].state # "Unused" =>
              task'[i].heartbeat \in
                {IF task[i].state = "Unused" THEN Config[i].heartbeat ELSE task[i].heartbeat,
                 Config[i].heartbeat}
         /\ started' /\ task'[i].state = "Ready" =>
              \/ started /\ task[i].state = "Ready" /\ task'[i].lastBeat = task[i].lastBeat
              \/ pc \in UserPlaces /\ task'[i].lastBeat = CurrentTime
              \/ pc = "loop" /\ task'[i].lastBeat \in {clock, lastTick}
         /\ pc # "loop" => UNCHANGED <<started, clocked, lastTick>>
         /\ lastTick' \in {lastTick, clock}
         /\ pc \in UserPlaces
<1>1. /\ task \in [Tasks -> Slot] /\ CurrentTime \in Time /\ clock \in Time /\ lastTick \in Time
      /\ 0 \in Time
  BY CurrentTimeTyped, ZeroTyped DEF Typed, SlotsTyped, TimesOK
<1> DEFINE Kept == UNCHANGED <<policy, clock, control>>
           Settled == pc # "loop" => UNCHANGED <<started, clocked, lastTick>>
           Old == IF task[i].state = "Unused" THEN Config[i].heartbeat ELSE task[i].heartbeat
           Timed == task'[i].state # "Unused" =>
                      task'[i].heartbeat \in {Old, Config[i].heartbeat}
           Beats == started' /\ task'[i].state = "Ready" =>
              \/ started /\ task[i].state = "Ready" /\ task'[i].lastBeat = task[i].lastBeat
              \/ pc \in UserPlaces /\ task'[i].lastBeat = CurrentTime
              \/ pc = "loop" /\ task'[i].lastBeat \in {clock, lastTick}
           Goal == /\ Kept /\ Settled /\ Timed /\ Beats /\ lastTick' \in {lastTick, clock}
                   /\ pc \in UserPlaces
<1>2. ASSUME NEW t \in Time
      PROVE  LET r == ResetAll(t)[i]
             IN  /\ r.state # "Unused" => r.heartbeat = Old
                 /\ r.state = "Ready" => r.lastBeat = t
  BY <1>1, ResetKeeps DEF ResetAll, InUse
<1>3. ASSUME NEW c \in Clocks, Begin(c) PROVE Goal
  <2> DEFINE t == IF c THEN clock ELSE lastTick
  <2>1. t \in Time /\ t \in {clock, lastTick} /\ task'[i] = ResetAll(t)[i] /\ lastTick' = t
    BY <1>1, <1>3 DEF Begin
  <2>2. pc = "loop" /\ pc \in UserPlaces
    BY <1>3 DEF Begin, MayCall, UserPlaces, RestartsFromLoop
  <2> HIDE DEF t
  <2>3. Timed /\ Beats
    BY <1>2, <2>1, <2>2
  <2>4. Kept
    BY <1>3 DEF Begin
  <2> QED
    BY <2>1, <2>2, <2>3, <2>4
<1>4. CASE Stop
  <2>1. pc = "loop" /\ pc \in UserPlaces /\ task'[i] = ResetAll(CurrentTime)[i] /\ started' = FALSE /\ Kept
        /\ lastTick' = lastTick
    BY <1>4 DEF Stop, MayCall, UserPlaces, RestartsFromLoop
  <2>2. Timed /\ Beats
    BY <1>1, <1>2, <2>1
  <2> QED
    BY <2>1, <2>2
<1>5. ASSUME NEW j \in Tasks, AddTask(j) PROVE Goal
  <2> DEFINE t == IF started THEN CurrentTime ELSE 0
             s == NewSlot(j, t)
  <2>1. t \in Time /\ s.lastBeat = t /\ s.heartbeat = Config[j].heartbeat
    BY <1>1, NewSlotBeats
  <2>2. task' = [task EXCEPT ![j] = s] /\ Kept /\ UNCHANGED <<started, clocked, lastTick>>
    BY <1>5 DEF AddTask, SetTasks
  <2>3. pc \in UserPlaces
    BY <1>5 DEF AddTask, MayCall, UserPlaces, RestartsFromLoop
  <2>4. started => s.lastBeat = CurrentTime
    BY <2>1
  <2> HIDE DEF s
  <2>5. task'[i] = IF i = j THEN s ELSE task[i]
    BY <1>1, <2>2
  <2>6. Timed /\ Beats
    BY <2>1, <2>2, <2>3, <2>4, <2>5
  <2> QED
    BY <2>2, <2>3, <2>6
<1>6. ASSUME NEW j \in Tasks, Suspend(j) PROVE Goal
  <2>1. task' = [task EXCEPT ![j].state = "Suspended"] /\ Kept
        /\ UNCHANGED <<started, clocked, lastTick>> /\ j \in InUse(task)
    BY <1>6 DEF Suspend, SetTasks
  <2>2. task'[i].heartbeat = task[i].heartbeat /\ task'[i].lastBeat = task[i].lastBeat
        /\ task'[i].state = IF i = j THEN "Suspended" ELSE task[i].state
    BY <1>1, <2>1 DEF Slot
  <2>3. Timed /\ Beats
    BY <2>1, <2>2 DEF InUse
  <2>4. pc \in UserPlaces
    BY <1>6 DEF Suspend, MayCall, UserPlaces
  <2> QED
    BY <2>1, <2>3, <2>4
<1>7. ASSUME NEW j \in Tasks, Resume(j) PROVE Goal
  <2> DEFINE r == ResetRuntime(j, task[j], CurrentTime)
             s == [r EXCEPT !.state = "Ready"]
  <2>1. r \in Slot /\ r.lastBeat = CurrentTime /\ r.heartbeat = task[j].heartbeat
    BY <1>1, ResetTyped, ResetKeeps
  <2>2. task' = [task EXCEPT ![j] = s] /\ Kept /\ UNCHANGED <<started, clocked, lastTick>>
        /\ j \in InUse(task)
    BY <1>1, <1>7 DEF Resume, SetTasks
  <2>3. pc \in UserPlaces
    BY <1>7 DEF Resume, MayCall, UserPlaces, RestartsFromLoop
  <2> HIDE DEF r
  <2>4. s.lastBeat = CurrentTime /\ s.heartbeat = task[j].heartbeat
    BY <2>1 DEF Slot
  <2> HIDE DEF s
  <2>5. task'[i] = IF i = j THEN s ELSE task[i]
    BY <1>1, <2>2
  <2>6. Timed /\ Beats
    BY <2>2, <2>3, <2>4, <2>5 DEF InUse
  <2> QED
    BY <2>2, <2>3, <2>6
<1>8. ASSUME NEW j \in Tasks, Heartbeat(j) PROVE Goal
  <2>1. task' = [task EXCEPT ![j].lastBeat = CurrentTime] /\ Kept
        /\ UNCHANGED <<started, clocked, lastTick>>
    BY <1>8 DEF Heartbeat
  <2>2. task'[i].heartbeat = task[i].heartbeat /\ task'[i].state = task[i].state
        /\ task'[i].lastBeat = IF i = j THEN CurrentTime ELSE task[i].lastBeat
    BY <1>1, <2>1 DEF Slot
  <2>3. pc \in UserPlaces
    BY <1>8 DEF Heartbeat, MayCall, UserPlaces, RestartsFromLoop
  <2>4. Timed /\ Beats
    BY <2>1, <2>2, <2>3
  <2> QED
    BY <2>1, <2>3, <2>4
<1>9. ASSUME NEW j \in Tasks, NEW p \in NewPriorities, SetPriority(j, p) PROVE Goal
  <2>1. task' = [task EXCEPT ![j].priority = p] /\ Kept
        /\ UNCHANGED <<started, clocked, lastTick>>
    BY <1>9 DEF SetPriority
  <2>2. task'[i].heartbeat = task[i].heartbeat /\ task'[i].state = task[i].state
        /\ task'[i].lastBeat = task[i].lastBeat
    BY <1>1, <2>1 DEF Slot
  <2>3. pc \in UserPlaces
    BY <1>9 DEF SetPriority, MayCall, UserPlaces
  <2> QED
    BY <2>1, <2>2, <2>3
<1>10. CASE \/ \E f \in Floors : EnterSafeMode(f)
            \/ ExitSafeMode
            \/ \E m \in Modes : TriggerPanic(m)
            \/ \E mask \in CapChoices : \E w \in {"active", "safe"} : SetCapabilities(mask, w)
  <2>1. UNCHANGED <<task, started, policy, clocked, clock, lastTick, control>>
        /\ pc \in UserPlaces
    BY <1>10 DEF EnterSafeMode, ExitSafeMode, TriggerPanic, SetCapabilities, SetKernel, MayCall, UserPlaces
  <2> QED
    BY <2>1
<1>11. Goal
  BY <1>3, <1>4, <1>5, <1>6, <1>7, <1>8, <1>9, <1>10 DEF Api, TimeoutsKept
<1> QED
  BY <1>11 DEF control

LEMMA InitSilent == Init => SilenceInv
<1> SUFFICES ASSUME Init PROVE SilenceInv
  OBVIOUS
<1>1. Ahead = 0 /\ Minus(clock, lastTick) = 0
  BY ZeroTyped, MinusSelf DEF Init, Ahead
<1>2. Placed
  BY <1>1, PauseBounds DEF Init, Placed
<1>3. TimeoutsAsAdded
  BY DEF Init, TimeoutsAsAdded
<1> QED
  BY <1>2, <1>3 DEF Init, SilenceInv

LEMMA ApiSilence ==
  ASSUME Typed, SilenceInv, Api, TimeoutsKept, RestartsFromLoop
  PROVE  SilenceInv'
<1>1. TimeoutsAsAdded'
  <2>1. 1 \in Tasks
    BY TasksAssumption DEF Tasks
  <2>2. policy' = policy
    BY <2>1, ApiBeats
  <2>3. ASSUME NEW i \in Tasks, task'[i].state # "Unused"
        PROVE  task'[i].heartbeat = Config[i].heartbeat
    BY <2>3, ApiBeats DEF SilenceInv, TimeoutsAsAdded
  <2> QED
    BY <2>2, <2>3 DEF SilenceInv, TimeoutsAsAdded
<1>2. /\ UNCHANGED <<pc, cursor, current, now, clock>>
      /\ pc # "loop" => UNCHANGED <<started, clocked, lastTick>>
      /\ lastTick' \in {lastTick, clock}
      /\ pc \in UserPlaces
  BY ApiBeats, TasksAssumption DEF control, Tasks
<1>3. /\ clock \in Time /\ lastTick \in Time /\ now \in Time
      /\ Ahead \in Time /\ Minus(clock, lastTick) \in Time
  BY TimesTyped DEF Typed, TimesOK, Ahead
<1>4. Ahead' = Ahead /\ Minus(clock, clock) = 0 /\ 0 <= Ahead
  BY <1>2, <1>3, MinusSelf DEF Ahead, Time
<1>5. Placed'
  BY <1>2, <1>4 DEF SilenceInv, Placed
<1>6. ASSUME NEW i \in Tasks, started', Watched(i)'
      PROVE  Silence(i)' <= Window(i) + (IF Uninspected(i)' THEN Pause ELSE 0) + Ahead
  <2>1. Window(i) \in Nat /\ Pause \in Nat
    BY ContractTyped, PauseBounds, TasksAssumption DEF Window, Time
  <2>2. CASE started /\ task[i].state = "Ready" /\ task'[i].lastBeat = task[i].lastBeat
    <3>1. Silence(i)' = Silence(i) /\ Heard(i) /\ Watched(i)
      BY <1>2, <1>6, <2>2 DEF Silence, SilenceInv, Watched
    <3>2. Uninspected(i)' = Uninspected(i)
      BY <1>2 DEF Uninspected
    <3> QED
      BY <3>1, <3>2 DEF Heard
  <2>3. CASE \/ pc \in UserPlaces /\ task'[i].lastBeat = CurrentTime
             \/ pc = "loop" /\ task'[i].lastBeat \in {clock, lastTick}
    <3>1. task'[i].lastBeat \in {clock, lastTick}
      BY <2>3 DEF CurrentTime
    <3>2. task'[i].lastBeat = clock \/ Minus(clock, task'[i].lastBeat) <= Ahead
          \/ (pc # "loop" /\ clocked)
      BY <1>4, <2>3, <3>1 DEF SilenceInv, Placed, CurrentTime
    <3>3. pc # "loop" /\ clocked => task'[i].lastBeat = clock
      BY <2>3 DEF CurrentTime
    <3>4. Silence(i)' <= Ahead
      BY <1>2, <1>3, <1>4, <3>2, <3>3 DEF Silence
    <3>5. Silence(i)' \in Int
      <4>1. task'[i].lastBeat \in Time /\ clock' = clock
        BY <1>2, <1>3, <3>1
      <4>2. Minus(clock, task'[i].lastBeat) \in Time
        BY <1>3, <4>1, TimesTyped
      <4> QED
        BY <4>1, <4>2 DEF Silence, Time
    <3> QED
      BY <1>3, <2>1, <3>1, <3>4, <3>5 DEF Time
  <2> QED
    BY <1>6, <2>2, <2>3, ApiBeats DEF Watched
<1>7. started' => \A i \in Tasks : Heard(i)'
  BY <1>2, <1>4, <1>6 DEF Heard, Window
<1> QED
  BY <1>1, <1>5, <1>7 DEF SilenceInv

LEMMA ElapseSilence ==
  ASSUME Typed, SilenceInv, Elapse, SpansFit
  PROVE  SilenceInv'
<1>1. UNCHANGED <<task, started, policy, clocked, lastTick, pc, cursor, now>>
  BY DEF Elapse, api, control
<1>2. /\ clock \in Time /\ lastTick \in Time /\ now \in Time /\ 1 \in Time /\ 1 \in Tasks
      /\ Ahead \in Time /\ Minus(clock, lastTick) \in Time
  <2>1. 1 \in Time /\ 1 \in Tasks
    BY TasksAssumption DEF Time, Tasks
  <2> QED
    BY <2>1, SilenceTyped
<1>3. clock' = Plus(clock, 1)
  BY DEF Elapse
<1>4. Pause + MaxDrain < Wrap
  BY <1>2, WindowBounds, PauseBounds, TasksAssumption
<1>5. Ahead + 1 <= IF pc \in {"loop", "callback"} THEN Pause ELSE MaxDrain
  BY <1>2, PauseBounds DEF Elapse, Ahead, Time
<1>6. Ahead' = Ahead + 1
  <2>1. Ahead + 1 < Wrap
    BY <1>2, <1>4, <1>5, PauseBounds, TasksAssumption DEF Time
  <2> QED
    BY <1>1, <1>2, <1>3, <2>1, SpanGrows DEF Ahead
<1>7. pc = "loop" => Minus(clock', lastTick) = Minus(clock, lastTick) + 1
  <2>1. pc = "loop" => Minus(clock, lastTick) + 1 < Wrap
    BY <1>2, <1>4, <1>5, PauseBounds, TasksAssumption DEF Time, SilenceInv, Placed
  <2> QED
    BY <1>2, <1>3, <2>1, SpanGrows
<1>8. pc = "loop" \/ clocked
  BY DEF Elapse
<1>9. Placed'
  BY <1>1, <1>2, <1>5, <1>6, <1>7, <1>8 DEF SilenceInv, Placed, Time
<1>10. ASSUME NEW i \in Tasks, Heard(i) PROVE Heard(i)'
  <2> SUFFICES ASSUME Watched(i)
               PROVE  Silence(i)' <= Window(i) + (IF Uninspected(i) THEN Pause ELSE 0) + Ahead'
    BY <1>1 DEF Heard, Watched, Uninspected, Window
  <2>1. Silence(i) \in Time /\ task[i].lastBeat \in Time
    BY SilenceTyped
  <2>2. Window(i) \in Nat /\ Window(i) + Pause + MaxDrain < Wrap
    BY WindowBounds
  <2>3. Uninspected(i) => pc \in {"drain", "inspect"}
    BY DEF Uninspected
  <2> DEFINE more == IF Uninspected(i) THEN Pause ELSE 0
  <2>4. Silence(i) <= Window(i) + more + Ahead
    BY <1>10 DEF Heard
  <2>5. more \in {0, Pause} /\ (more = 0 \/ pc \notin {"loop", "callback"})
    BY <2>3
  <2> HIDE DEF more
  <2>6. /\ Silence(i) \in Int /\ Ahead \in Int /\ Window(i) \in Int /\ more \in Int
        /\ Pause \in Nat /\ MaxDrain \in Nat /\ Wrap \in Int
    BY <1>2, <2>1, <2>2, <2>5, PauseBounds, TasksAssumption DEF Time
  <2>7. more + Ahead + 1 <= Pause + MaxDrain
    <3>1. CASE pc \in {"loop", "callback"}
      BY <1>5, <2>5, <2>6, <3>1
    <3>2. CASE pc \notin {"loop", "callback"}
      BY <1>5, <2>5, <2>6, <3>2
    <3> QED
      BY <3>1, <3>2
  <2>8. Silence(i) + 1 < Wrap
    <3> HIDE DEF Silence, Ahead, Window
    <3> QED
      BY <2>2, <2>4, <2>6, <2>7
  <2>9. Silence(i)' = Silence(i) + 1
    BY <1>1, <1>2, <1>3, <2>1, <2>8, SpanGrows DEF Silence
  <2>10. Silence(i)' <= Window(i) + more + Ahead'
    BY <1>6, <2>9, <2>4, <2>6
  <2> QED
    BY <2>10 DEF more
<1>11. TimeoutsAsAdded'
  BY <1>1 DEF SilenceInv, TimeoutsAsAdded
<1> QED
  BY <1>1, <1>9, <1>10, <1>11 DEF SilenceInv

\* The first inspection of a tick.
LEMMA TickSilence ==
  ASSUME Typed, SilenceInv, MonitoringFresh, TickBegins
  PROVE  SilenceInv'
<1>1. /\ task \in [Tasks -> Slot] /\ clock \in Time /\ now \in Time
  BY DEF Typed, SlotsTyped, TimesOK
<1>2. /\ pc = "loop" /\ started' /\ UNCHANGED <<policy, clocked, clock>>
      /\ now' = clock /\ lastTick' = clock /\ cursor' = 1
      /\ pc' = IF hints'.monitoring THEN "inspect" ELSE "select"
  BY DEF TickBegins
<1>3. Ahead' = 0
  BY <1>1, <1>2, MinusSelf DEF Ahead
<1>4. Placed'
  BY <1>2, <1>3, PauseBounds DEF Placed
<1>5. \A i \in Tasks :
        \/ task'[i] = task[i] /\ started
        \/ task'[i] = ResetAll(clock)[i] /\ ~started
  BY DEF TickBegins
<1>6. ASSUME NEW i \in Tasks, ~started
      PROVE  /\ task'[i].state # "Unused" => task[i].state # "Unused"
             /\ task'[i].state # "Unused" => task'[i].heartbeat = task[i].heartbeat
             /\ task'[i].state = "Ready" => task'[i].lastBeat = clock
  BY <1>1, <1>5, <1>6, ResetKeeps DEF ResetAll, InUse
<1>7. TimeoutsAsAdded'
  BY <1>2, <1>5, <1>6 DEF SilenceInv, TimeoutsAsAdded
<1>8. ASSUME NEW i \in Tasks, Watched(i)' PROVE hints'.monitoring
  <2>1. task[i].state # "Unused" /\ task[i].heartbeat > 0
    <3>1. task[i].state # "Unused" /\ task'[i].heartbeat = Config[i].heartbeat
          /\ task'[i].heartbeat = task[i].heartbeat
      BY <1>5, <1>6, <1>7, <1>8 DEF Watched, TimeoutsAsAdded
    <3> QED
      BY <1>8, <3>1 DEF Watched
  <2>2. Hints(task, policy).monitoring
    BY <2>1, HintWatches DEF Watching, InUse
  <2>3. hints' = hints \/ hints' = Hints(task, policy)
    BY DEF TickBegins
  <2> QED
    BY <2>2, <2>3 DEF MonitoringFresh
<1>9. ASSUME NEW i \in Tasks, Watched(i)'
      PROVE  Silence(i)' <= Window(i) + (IF Uninspected(i)' THEN Pause ELSE 0) + Ahead'
  <2>1. Uninspected(i)'
    BY <1>2, <1>8, <1>9 DEF Uninspected, Tasks
  <2>2. Window(i) \in Nat /\ Pause \in Nat
    BY ContractTyped, PauseBounds, TasksAssumption DEF Window, Time
  <2>3. CASE ~started
    <3>1. Silence(i)' = 0
      BY <1>1, <1>2, <1>6, <1>9, <2>3, MinusSelf DEF Silence, Watched
    <3> QED
      BY <1>3, <2>1, <2>2, <3>1
  <2>4. CASE started
    <3>1. Watched(i) /\ Silence(i)' = Silence(i) /\ Heard(i) /\ ~Uninspected(i)
      BY <1>2, <1>5, <1>9, <2>4 DEF Watched, Silence, SilenceInv, Uninspected
    <3>2. Silence(i) <= Window(i) + Ahead /\ Ahead <= Pause
      BY <1>2, <3>1, <2>2, SilenceTyped DEF Heard, SilenceInv, Placed, Time
    <3>3. Silence(i) \in Time /\ Ahead \in Time
      BY SilenceTyped
    <3> QED
      BY <1>3, <2>1, <2>2, <3>1, <3>2, <3>3 DEF Time
  <2> QED
    BY <2>3, <2>4
<1>10. \A i \in Tasks : Heard(i)'
  BY <1>9 DEF Heard, Window
<1> QED
  BY <1>4, <1>7, <1>10 DEF SilenceInv

\* What the inspection of a slot sees: the silence up to the time it uses, or, of
\* a task that has beaten since, nearly a whole period.
LEMMA InspectionSees ==
  ASSUME Typed, SilenceInv, SpansFit, pc = "inspect",
         task[cursor].state = "Ready", Timeout(cursor) # 0
  PROVE  /\ Watched(cursor)
         /\ Silence(cursor) >= Ahead =>
              Minus(now, task[cursor].lastBeat) = Silence(cursor) - Ahead
         /\ Plus(Config[cursor].interval, Timeout(cursor)) = Window(cursor)
<1>1. /\ cursor \in Tasks /\ started /\ Silence(cursor) \in Time /\ Ahead \in Time
      /\ clock \in Time /\ now \in Time /\ task[cursor].lastBeat \in Time
  BY SilenceTyped DEF Typed, ControlTyped, SilenceInv, Placed
<1>2. task[cursor].heartbeat = Config[cursor].heartbeat /\ policy.heartbeat = 0
      /\ Config[cursor].heartbeat \in Time
  BY <1>1, ContractTyped DEF SilenceInv, TimeoutsAsAdded
<1>3. Timeout(cursor) = Config[cursor].heartbeat /\ Config[cursor].heartbeat > 0
  BY <1>2, TasksAssumption DEF Timeout, Time
<1>4. Watched(cursor)
  BY <1>1, <1>3 DEF Watched
<1>5. Silence(cursor) >= Ahead => Minus(now, task[cursor].lastBeat) = Silence(cursor) - Ahead
  BY <1>1, SpanShrinks DEF Silence, Ahead, Time
<1> QED
  BY <1>1, <1>3, <1>4, <1>5, WindowBounds

LEMMA InspectSilence ==
  ASSUME Typed, SilenceInv, Inspect, SpansFit
  PROVE  SilenceInv'
<1>1. /\ pc = "inspect" /\ started /\ cursor \in Tasks
      /\ UNCHANGED <<started, policy, clocked, clock, lastTick, current, now>>
      /\ cursor' = (IF cursor = N THEN 1 ELSE cursor + 1)
      /\ pc' = (IF cursor = N THEN "select" ELSE "inspect")
  BY DEF Inspect, Typed, ControlTyped, SilenceInv, Placed
<1>2. task \in [Tasks -> Slot] /\ now \in Time /\ clock \in Time
  BY DEF Typed, SlotsTyped, TimesOK
<1>3. Ahead' = Ahead
  BY <1>1 DEF Ahead
<1>4. Placed'
  BY <1>1, <1>3 DEF SilenceInv, Placed
<1>5. /\ \A j \in Tasks \ {cursor} : task'[j] = task[j]
      /\ task'[cursor].heartbeat = task[cursor].heartbeat
      /\ \/ task'[cursor] = task[cursor] /\ ~TimedOut(cursor, now)
         \/ /\ TimedOut(cursor, now)
            /\ task'[cursor].state = "Ready" => task'[cursor].lastBeat = now
  <2>1. CASE TimedOut(cursor, now)
    <3>1. Fail(cursor, task[cursor], kernel, now, "HeartbeatTimeout")
      BY <2>1 DEF Inspect
    <3>2. task[cursor] \in Slot
      BY <1>1, <1>2
    <3> QED
      BY <1>1, <1>2, <2>1, <3>1, <3>2, FailedSlot
  <2>2. CASE ~TimedOut(cursor, now)
    BY <2>2 DEF Inspect
  <2> QED
    BY <2>1, <2>2
<1>6. TimeoutsAsAdded'
  <2>1. TimedOut(cursor, now) => task[cursor].state # "Unused"
    BY DEF TimedOut
  <2> QED
    BY <1>1, <1>5, <2>1 DEF SilenceInv, TimeoutsAsAdded
<1>7. ASSUME NEW i \in Tasks \ {cursor} PROVE Heard(i)'
  <2>1. Uninspected(i)' = Uninspected(i)
    BY <1>1, TasksAssumption DEF Uninspected, Tasks
  <2>2. Heard(i)
    BY <1>1 DEF SilenceInv
  <2> QED
    BY <1>1, <1>3, <1>5, <2>1, <2>2 DEF Heard, Watched, Silence, Window
<1>8. ASSUME Watched(cursor)
      PROVE  ~TimedOut(cursor, now) => Silence(cursor) - Ahead <= Window(cursor)
  <2>1. task[cursor].state = "Ready" /\ Timeout(cursor) # 0
    BY <1>1, <1>8, ContractTyped, TasksAssumption
    DEF Watched, Timeout, SilenceInv, TimeoutsAsAdded, Time
  <2>2. /\ Silence(cursor) >= Ahead =>
             Minus(now, task[cursor].lastBeat) = Silence(cursor) - Ahead
        /\ Plus(Config[cursor].interval, Timeout(cursor)) = Window(cursor)
    BY <1>1, <2>1, InspectionSees
  <2>3. Silence(cursor) \in Int /\ Ahead \in Int /\ Window(cursor) \in Nat
    BY <1>1, SilenceTyped, WindowBounds DEF Time
  <2>4. CASE Silence(cursor) < Ahead
    BY <2>3, <2>4
  <2>5. CASE Silence(cursor) >= Ahead
    BY <2>1, <2>2, <2>3, <2>5 DEF TimedOut
  <2> QED
    BY <2>3, <2>4, <2>5
<1>9. Heard(cursor)
      /\ Window(cursor) \in Nat /\ Silence(cursor) \in Int /\ Ahead \in Nat
  BY <1>1, SilenceTyped, WindowBounds, TasksAssumption DEF SilenceInv, Time
<1>10. ~(pc' = "inspect" /\ cursor >= cursor') /\ pc' # "drain"
  BY <1>1, TasksAssumption DEF Tasks
<1>11. ASSUME task'[cursor].state = "Ready", Config[cursor].heartbeat > 0
       PROVE  Minus(clock, task'[cursor].lastBeat) <= Window(cursor) + Ahead
  <2>1. CASE task'[cursor] = task[cursor] /\ ~TimedOut(cursor, now)
    <3>1. Watched(cursor)
      BY <1>11, <2>1 DEF Watched
    <3>2. Silence(cursor) <= Window(cursor) + Ahead
      BY <1>8, <1>9, <2>1, <3>1
    <3> QED
      BY <2>1, <3>2 DEF Silence
  <2>2. CASE task'[cursor].lastBeat = now
    BY <1>9, <2>2 DEF Ahead
  <2> QED
    BY <1>5, <1>11, <2>1, <2>2
<1>12. \A i \in Tasks : Heard(i)'
  <2>1. PICK c \in Tasks : c = cursor
    BY <1>1
  <2>2. Heard(c)'
    BY <1>1, <1>3, <1>10, <1>11, <2>1, <1>9 DEF Heard, Watched, Silence, Window, Uninspected
  <2> QED
    BY <1>7, <2>1, <2>2
<1> QED
  BY <1>4, <1>6, <1>12 DEF SilenceInv

LEMMA CallbackSilence ==
  ASSUME Typed, SoundInv, SilenceInv, RunnerInUse, CallbackReturns
  PROVE  SilenceInv'
<1> DEFINE after == IF clocked THEN clock ELSE now
           k == IF Late(current, now) /\ Config[current].allowDegrade
                     /\ kernel.state = "Normal"
                  THEN [kernel EXCEPT !.state = "Degraded"] ELSE kernel
           ran == Ran(current, now, after)
<1>1. /\ task \in [Tasks -> Slot] /\ now \in Time /\ clock \in Time /\ current \in Tasks
  BY DEF Typed, SlotsTyped, TimesOK, SoundInv, ChargesTasks, CallbackReturns
<1>2. /\ pc = "callback" /\ pc' = "drain" /\ started
      /\ UNCHANGED <<started, policy, clocked, clock, lastTick, cursor, current>>
  BY DEF CallbackReturns, SilenceInv, Placed
<1>3. after = clock /\ now' = clock /\ (~clocked => clock = now /\ lastTick = now)
  BY <1>2, CallbackOutcome DEF SilenceInv, Placed
<1>4. ran \in Slot /\ ran.lastBeat = after /\ ran.heartbeat = task[current].heartbeat
      /\ ran.state = task[current].state
  BY <1>1, <1>3, RanTyped
<1>5. \/ Fail(current, ran, k, after, "TaskOverrun")
      \/ task' = [task EXCEPT ![current] = ran]
  BY CallbackOutcome
<1> HIDE DEF after, k, ran
<1>6. /\ \A j \in Tasks \ {current} : task'[j] = task[j]
      /\ task'[current].heartbeat = task[current].heartbeat
      /\ task'[current].lastBeat = clock
  <2>1. CASE Fail(current, ran, k, after, "TaskOverrun")
    BY <1>1, <1>3, <1>4, <2>1, FailedSlot
  <2>2. CASE task' = [task EXCEPT ![current] = ran]
    BY <1>1, <1>3, <1>4, <2>2
  <2> QED
    BY <1>5, <2>1, <2>2
<1>7. Ahead' = 0 /\ (~clocked => Ahead = 0) /\ Ahead <= Pause
  BY <1>1, <1>2, <1>3, MinusSelf DEF Ahead, SilenceInv, Placed
<1>8. Placed'
  BY <1>2, <1>3, <1>7, PauseBounds DEF SilenceInv, Placed
<1>9. TimeoutsAsAdded'
  BY <1>2, <1>6 DEF SilenceInv, TimeoutsAsAdded, RunnerInUse
<1>10. ASSUME NEW i \in Tasks PROVE Heard(i)'
  <2>1. Window(i) \in Nat /\ Pause \in Nat /\ Silence(i) \in Int /\ Ahead \in Int
    BY ContractTyped, PauseBounds, SilenceTyped, TasksAssumption DEF Window, Time
  <2>2. ~Uninspected(i) /\ Uninspected(i)' = clocked
    BY <1>2, TasksAssumption DEF Uninspected, Typed, SettingsTyped
  <2>3. CASE i = current
    <3>1. Silence(i)' = 0
      BY <1>1, <1>2, <1>6, <2>3, MinusSelf DEF Silence
    <3> QED
      BY <1>7, <2>1, <3>1 DEF Heard, Window
  <2>4. CASE i # current
    <3>1. Silence(i)' = Silence(i) /\ Watched(i)' = Watched(i) /\ Heard(i)
          /\ Window(i)' = Window(i)
      BY <1>2, <1>6, <2>4 DEF Silence, Watched, SilenceInv, Window
    <3>2. Silence(i) \in Nat
      BY SilenceTyped, TasksAssumption DEF Time
    <3>3. Watched(i) => Silence(i) <= Window(i) + Ahead
      BY <2>1, <2>2, <3>1 DEF Heard
    <3>4. Watched(i) => Silence(i) <= Window(i) + (IF clocked THEN Pause ELSE 0) + 0
      BY <1>7, <2>1, <3>3
    <3> QED
      BY <1>7, <2>2, <3>1, <3>2, <3>4 DEF Heard
  <2> QED
    BY <2>3, <2>4
<1> QED
  BY <1>8, <1>9, <1>10 DEF SilenceInv

\* The steps that only move tick() on.
LEMMA MovesSilence ==
  ASSUME Typed, SilenceInv, MonitoringFresh,
         \/ DrainReturns \/ NothingRunnable \/ TickReturns \/ \E i \in Tasks : Select(i)
  PROVE  SilenceInv'
<1>1. UNCHANGED <<task, started, policy, clocked, clock, cursor, now>> /\ started
      /\ Ahead' = Ahead
  BY DEF DrainReturns, NothingRunnable, TickReturns, Select, api, SilenceInv, Placed, Ahead
<1>2. TimeoutsAsAdded'
  BY <1>1 DEF SilenceInv, TimeoutsAsAdded
<1>3. /\ Ahead \in Time /\ Pause \in Nat /\ MaxDrain \in Nat /\ MaxDrain <= Pause
  BY PauseBounds, TimesTyped DEF Ahead, Typed, TimesOK
<1>4. Placed'
  <2>1. CASE TickReturns
    BY <1>1, <1>3, <2>1 DEF TickReturns, SilenceInv, Placed, Ahead, Time
  <2>2. CASE DrainReturns \/ NothingRunnable \/ \E i \in Tasks : Select(i)
    BY <1>1, <1>3, <2>2 DEF DrainReturns, NothingRunnable, Select, api, SilenceInv, Placed, Time
  <2> QED
    BY <2>1, <2>2
<1>5. ASSUME NEW i \in Tasks PROVE Heard(i)'
  <2>1. Heard(i) /\ Silence(i)' = Silence(i) /\ Watched(i)' = Watched(i)
        /\ Window(i)' = Window(i)
    BY <1>1 DEF SilenceInv, Silence, Watched, Window
  <2>2. CASE DrainReturns
    <3>1. Watched(i) => hints.monitoring
      <4>1. Watched(i) => task[i].state # "Unused" /\ task[i].heartbeat > 0
        BY DEF Watched, SilenceInv, TimeoutsAsAdded
      <4> QED
        BY <4>1, HintWatches DEF MonitoringFresh, Watching, InUse
    <3>2. cursor' = 1 /\ pc = "drain"
      BY <1>1, <2>2 DEF DrainReturns, SilenceInv, Placed
    <3>3. Watched(i) => Uninspected(i)' = Uninspected(i)
      BY <1>1, <2>2, <3>1, <3>2 DEF DrainReturns, Uninspected, Tasks
    <3> QED
      BY <1>1, <2>1, <3>2, <3>3 DEF Heard
  <2>3. CASE NothingRunnable \/ TickReturns \/ \E j \in Tasks : Select(j)
    <3>1. ~Uninspected(i) /\ ~Uninspected(i)'
      BY <2>3 DEF NothingRunnable, TickReturns, Select, Uninspected
    <3> QED
      BY <1>1, <2>1, <3>1 DEF Heard
  <2> QED
    BY <2>2, <2>3
<1> QED
  BY <1>1, <1>2, <1>4, <1>5 DEF SilenceInv

LEMMA StepSilence ==
  ASSUME Typed, SoundInv, WatchInv, SilenceInv, [Next]_vars,
         TimeoutsKept, RestartsFromLoop, SpansFit
  PROVE  SilenceInv'
<1>1. CASE Api
  BY <1>1, ApiSilence
<1>2. CASE TickBegins
  BY <1>2, TickSilence DEF WatchInv
<1>3. CASE Tick
  BY <1>3, InspectSilence, CallbackSilence, MovesSilence DEF Tick, WatchInv
<1>4. CASE Elapse
  BY <1>4, ElapseSilence
<1>5. CASE UNCHANGED vars
  BY <1>5 DEF vars, SilenceInv, TimeoutsAsAdded, Placed, Heard, Silence, Ahead, Watched,
              Uninspected, Window
<1> QED
  BY <1>1, <1>2, <1>3, <1>4, <1>5 DEF Next

\* For every set of tasks and contracts, and wherever millis() wraps: no ready
\* task under supervision goes on in silence past an inspection, whoever sends
\* heartbeats from where.  (For user code that keeps to TimeoutsKept and
\* RestartsFromLoop, and spans that fit millis().)
THEOREM StallsAlwaysNoticed ==
  ASSUME TimeoutsKept, RestartsFromLoop, SpansFit
  PROVE  Spec => []StallsNoticed
<1> DEFINE Inv == Typed /\ SoundInv /\ WatchInv /\ SilenceInv
<1>1. ASSUME Inv PROVE StallsNoticed
  <2> SUFFICES ASSUME started, pc \in {"loop", "select", "callback", "lastDrain"},
                      NEW i \in Tasks, Supervised(i)
               PROVE  Minus(clock, task[i].lastBeat)
                        <= Config[i].interval + Timeout(i) + Minus(clock, now)
    BY DEF StallsNoticed
  <2>1. Timeout(i) = Config[i].heartbeat /\ Watched(i)
    <3>1. task[i].heartbeat = Config[i].heartbeat /\ policy.heartbeat = 0
          /\ Config[i].heartbeat \in Time
      BY <1>1, ContractTyped DEF SilenceInv, TimeoutsAsAdded, Supervised
    <3> QED
      BY <3>1, TasksAssumption DEF Timeout, Watched, Supervised, Time
  <2>2. ~Uninspected(i)
    BY DEF Uninspected
  <2>3. Silence(i) <= Window(i) + 0 + Ahead
    BY <1>1, <2>1, <2>2 DEF SilenceInv, Heard
  <2>4. Window(i) \in Nat /\ Silence(i) \in Int /\ Ahead \in Int
    BY <1>1, SilenceTyped, WindowBounds DEF Time
  <2>5. Silence(i) <= Window(i) + Ahead
    BY <2>3, <2>4
  <2> QED
    BY <2>1, <2>5 DEF Silence, Window, Ahead
<1>2. Inv => StallsNoticed
  BY <1>1
<1>3. Init => SilenceInv
  BY InitSilent
<1>4. Inv /\ [Next]_vars => SilenceInv'
  BY StepSilence
<1> QED
  BY <1>2, <1>3, <1>4, TypedAlways, WatchAlways, PTL DEF Spec

-------------------------------------------------------------------------------
(* The delay of the power-saving loop.                                     *)

LEMMA SleepTyped ==
  ASSUME Typed, Sleep
  PROVE  Typed'
<1>1. PICK wake \in NextWakeInMs : wake > 1 /\ clock' = Plus(clock, wake - 1)
  BY DEF Sleep
<1>2. wake \in Int
  <2>1. ASSUME NEW i \in Waking PROVE Remaining(i) \in Int
    <3>1. task[i] \in Slot /\ Config[i].interval \in Time /\ CurrentTime \in Time
      BY CurrentTimeTyped, ConfigTyped DEF Typed, SlotsTyped, Waking
    <3>2. Minus(CurrentTime, task[i].lastRun) \in Time
      BY <3>1, TimesTyped DEF Slot
    <3> QED
      BY <3>1, <3>2 DEF Remaining, Time
  <2> QED
    BY <1>1, <2>1 DEF NextWakeInMs
<1>3. clock \in Int /\ clock + (wake - 1) \in Int
  BY <1>2 DEF Typed, TimesOK, Time
<1>4. clock' \in Time
  BY <1>1, <1>3, ModuloTyped DEF Plus
<1> QED
  BY <1>4 DEF Sleep, api, control, Typed, SlotsTyped, SettingsTyped, TimesOK, ControlTyped

LEMMA LoopTyped == LoopSpec => [](Typed /\ SoundInv)
<1>1. Init => Typed /\ SoundInv
  BY InitTyped, FreshSound, TasksAssumption DEF Init, SoundInv, ChargesTasks, Tasks
<1>2. Typed /\ SoundInv /\ [LoopNext]_vars => (Typed /\ SoundInv)'
  <2>1. Typed /\ SoundInv /\ [Next]_vars => (Typed /\ SoundInv)'
    BY StepTyped, StepSound
  <2>2. SoundInv /\ Sleep => SoundInv'
    BY DEF Sleep, api, control, SoundInv, Sound, Coherent, ChargesTasks
  <2> QED
    BY <2>1, <2>2, SleepTyped DEF LoopNext
<1> QED
  BY <1>1, <1>2, PTL DEF LoopSpec

\* A delay up to a task's own wake-up ends before the task is due.
LEMMA SleepEndsEarly ==
  ASSUME Typed, Sleep, NEW i \in Tasks, CanRun(i), ~Due(i, clock)
  PROVE  ~Due(i, clock')
<1> DEFINE elapsed == Minus(clock, task[i].lastRun)
           interval == Config[i].interval
<1>1. /\ task[i].state = "Ready" /\ task[i].lastRun \in Time /\ clock \in Time
      /\ interval \in Time /\ i \in Waking /\ started
      /\ \A k \in Tasks : task[k].lastRun \in Time
      /\ CurrentTime = clock
  BY ConfigTyped DEF Typed, SlotsTyped, TimesOK, Slot, CanRun, Admitted, Waking, Sleep, CurrentTime
<1>2. elapsed \in Time /\ elapsed < interval
  BY <1>1, TimesTyped DEF Due, Time
<1>3. PICK wake \in NextWakeInMs : wake > 1 /\ clock' = Plus(clock, wake - 1)
  BY DEF Sleep
<1>4. Remaining(i) = interval - elapsed
  BY <1>1, <1>2 DEF Remaining, Time
<1>5. PICK j \in Waking : wake = Remaining(j) /\ Remaining(j) <= Remaining(i)
  BY <1>1, <1>3 DEF NextWakeInMs
<1>6. Remaining(j) \in Int
  <2>1. Minus(clock, task[j].lastRun) \in Time /\ Config[j].interval \in Time
    BY <1>1, TimesTyped, ConfigTyped DEF Waking
  <2> QED
    BY <1>1, <2>1 DEF Remaining, Time
<1> HIDE DEF elapsed, interval
<1>7. wake - 1 \in Time /\ elapsed + (wake - 1) < interval /\ elapsed + (wake - 1) < Wrap
  BY <1>1, <1>2, <1>3, <1>4, <1>5, <1>6, TasksAssumption DEF Time
<1>8. Minus(clock', task[i].lastRun) = elapsed + (wake - 1)
  BY <1>1, <1>3, <1>7, SpanGrows DEF elapsed
<1>9. Minus(clock', task[i].lastRun) < Config[i].interval
  BY <1>7, <1>8 DEF interval
<1>10. Minus(clock', task[i].lastRun) \in Int
  BY <1>2, <1>7, <1>8 DEF Time
<1> QED
  BY <1>1, <1>9, <1>10 DEF Due, interval, Time

\* For every set of tasks and contracts, every use of the API and wherever
\* millis() wraps: the power-saving loop is awake again before a task that can
\* run, and was not due when it went to sleep, is due.
THEOREM NeverOversleeps == FairLoopSpec => NoOversleep
<1> DEFINE Wakes == \A i \in Tasks : CanRun(i) /\ ~Due(i, clock) => ~Due(i, clock')
<1>1. Typed /\ SoundInv /\ [LoopNext]_vars => [Sleep => Wakes]_vars
  BY SleepEndsEarly
<1>2. LoopSpec => NoOversleep
  BY <1>1, LoopTyped, PTL DEF LoopSpec, NoOversleep
<1>3. FairLoopSpec => LoopSpec
  BY PTL DEF FairLoopSpec
<1> QED
  BY <1>2, <1>3, PTL

\* Nothing but the clock moves while the loop sleeps: the promises of the kernel
\* hold in the power-saving loop as they do where loop() only polls.
THEOREM SleepingLoopSafe ==
  LoopSpec => [](KernelCoherent /\ MonitoringFresh) /\ PanicSticky /\ AnchorInRun
<1>1. ASSUME Typed, SoundInv, WatchInv, [LoopNext]_vars
      PROVE  WatchInv'
  <2>1. CASE Sleep
    BY <1>1, <2>1 DEF Sleep, api, control, WatchInv, MonitoringFresh, RunnerInUse
  <2> QED
    BY <1>1, <2>1, StepWatch DEF LoopNext
<1>2. SoundInv /\ WatchInv => KernelCoherent /\ MonitoringFresh
  BY CoherentKernel DEF SoundInv, Sound, WatchInv
<1>3. Typed /\ SoundInv /\ [LoopNext]_vars =>
        [ kernel.state = "Panic" /\ kernel'.state # "Panic" /\ InTick =>
            \/ AutoBegins
            \/ Config[Charged].allowDegrade
            \/ Exhausted(Charged, task'[Charged].fails) /\ ~Config[Charged].critical ]_vars
  <2>1. Sleep => kernel' = kernel
    BY DEF Sleep, api
  <2> QED
    BY <2>1, StickyStep DEF LoopNext
<1>4. Typed /\ SoundInv /\ [LoopNext]_vars =>
        [ pc = "callback" /\ pc' = "drain" /\ ~Config[current].dropIfLate =>
            Minus(now', task'[current].lastRun) <= Minus(now', now) ]_vars
  <2>1. Sleep => pc = "loop"
    BY DEF Sleep
  <2> QED
    BY <2>1, AnchorStep DEF LoopNext
<1> QED
  BY <1>1, <1>2, <1>3, <1>4, InitWatch, LoopTyped, PTL DEF LoopSpec, PanicSticky, AnchorInRun

\* So does containment, under its condition.
THEOREM SleepingLoopContains ==
  ASSUME PolicyKept
  PROVE  LoopSpec => []FaultsContained
<1>1. Init => ContainInv /\ RunnerHealthy
  BY DEF Init, ContainInv, FaultsContained, RunnerHealthy
<1>2. ASSUME Typed, SoundInv, ContainInv, RunnerHealthy, [LoopNext]_vars
      PROVE  (ContainInv /\ RunnerHealthy)'
  <2>1. CASE Sleep
    <3>1. UNCHANGED <<task, kernel, policy>> /\ pc = "loop" /\ pc' = pc
      BY <2>1 DEF Sleep, api, control
    <3>2. ContainInv'
      BY <1>2, <3>1, UntouchedContained
    <3>3. RunnerHealthy'
      BY <3>1 DEF RunnerHealthy
    <3> QED
      BY <3>2, <3>3
  <2> QED
    BY <1>2, <2>1, StepContained, StepHealthy DEF LoopNext
<1>3. ContainInv => FaultsContained
  BY DEF ContainInv
<1> QED
  BY <1>1, <1>2, <1>3, LoopTyped, PTL DEF LoopSpec
===============================================================================
