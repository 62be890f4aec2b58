# Formal models of ZeroKernel

ZeroKernel is a cooperative kernel for microcontrollers: one thread, no dynamic
allocation, a fixed table of tasks that `tick()` runs when they are due, a
watchdog that supervises them, three bounded queues of deferred messages, and
three network helpers built on top. These are TLA+ models of its core, checked
with TLC and partly proved with TLAPS. Paths below are relative to `src/src/`.

## 1. Inventory

| Component | Source | State | Operations | What makes it correct | Module |
|---|---|---|---|---|---|
| Scheduler | `core/KernelRuntime.cpp` | `started_`, clock source, last tick time, cached hints | `begin`, `stop`, `tick` | due tasks run, in order, and `tick()` returns; nothing runs early, across the wrap of `millis()` | `KernelTasks` |
| Task registry | `core/TaskRegistry.cpp` | task slots | add, suspend, resume, restart, heartbeat, timeout, priority | the cached hints agree with the slots; the next wake-up is not reported too late | `KernelTasks`, `PowerSaveLoop` |
| Watchdog | `core/Watchdog.cpp` | failure counters, kernel state, safe mode, last panic, policy, capabilities | record success or failure, recover, degrade, safe mode, panic | failures are contained, panics are not forgotten, nobody is blamed wrongly | `KernelTasks` |
| Drain budgets | `core/KernelRuntime.cpp` | none | `resolveDrainLimit_`, `resolveIdleDrainLimit_` | every tick has a limit, between its base and the queue length | `DrainLimit` |
| Deferred queues | `core/EventHub.cpp` | three rings of 8-bit counters | publish, flush, drain, reset | bounded FIFO channels under re-entrancy | `DeferredQueues` |
| Subscriptions, dispatch | `core/EventHub.cpp` | subscriber and handler tables | subscribe, unsubscribe, dispatch | each subscriber called once, while handlers change the table | `Dispatch` |
| Event flags | `core/EventHub.cpp`, `internal/KernelArch.h` | one atomic word | set, clear, take (also from interrupts) | a flag that is set is returned once, or cleared | `EventFlags` |
| Trace ring, signals | `core/KernelUtils.cpp`, `core/TaskRegistry.cpp` | trace ring | push, snapshot, clear | a snapshot shows the surviving entries, in order, without a gap | `TraceRing` |
| HTTP pump | `modules/net/ZeroHttpPump.h` | request queue, phase, retry clock | enqueue, tick | every request served is reported once, in order; backoffs are kept; a request in progress ends | `HttpPump` |
| MQTT pump | `modules/net/ZeroMqttPump.h` | message queue, connection, retry clock | enqueue, tick | in order, none popped unsent; changes announced | `MqttPump` |
| WiFi maintainer | `modules/net/ZeroWiFiMaintainer.h` | link state, backoff, stability | begin, tick | observers and capability follow the link; attempts keep their distance | `WiFiMaintainer` |
| Transport metrics | `modules/net/ZeroTransportMetrics.h` | saturating counters | record | each attempt has one result | `TransportMetrics` |
| Live network node | `examples/LiveNetworkNode` | socket, flags of the step callbacks, payload buffer | its tasks and step callbacks | what it reports is what the server said; a lost link closes the session | `NetNode`, `HttpNode` |
| Power-saving loop | `adapters/PowerSaveLoopAdapter.h` | none | `powerSaveTick` | the loop never sleeps through a due time | `PowerSaveLoop` |
| Network profiles, diagnostics, identity, strings, hash, other adapters and examples | several | none of interest | formatting, constants, platform calls | - | out of scope, see the end of this file |

**How they interact.** Everything runs on one thread, but not in one piece: the
kernel calls user code (task callbacks, handlers of messages, signal, panic and
state-change handlers) and that code may call the kernel again. `tick()` runs
callbacks; after each callback it drains the queues, whose handlers publish,
flush, send heartbeats or suspend tasks; a publication into a full queue drops
the oldest message and calls the signal handler in the middle of the enqueue.
Interrupts may set event flags. The network helpers are objects that tasks tick;
they call probes and steps of the application, publish completion and state
events synchronously, and change capabilities. In the live node they share the
Wi-Fi driver: the maintainer's link probe is the MQTT pump's transport probe,
and its disconnect step ends the broker session.

**What is hard.** (1) Re-entrancy: state read before a callback and used after
it. (2) Unsigned millisecond arithmetic: subtraction survives the wrap of
`millis()`, comparison does not. (3) Supervision is a chain of functions that
each write kernel state, safe mode and the panic record. (4) 8-bit counters and
limits, where 0 means "no limit". (5) Cached flags. (6) Backoff and timeouts in
the pumps. (7) A network that changes behind everybody's back, and step
callbacks that keep state of their own beside the pump's. `PROJECT.json` lists
each hazard at its line.

## 2. Modules

| Module | Role |
|---|---|
| `DrainLimit` | the two limit functions in 8-bit arithmetic |
| `MCDrainLimit` | tabulates them: a queue that fills one message at a time |
| `BoundedChannels` | abstract specification: a family of bounded FIFO channels |
| `DeferredQueues`, `DeferredQueuesProps` | the three rings and the re-entrant call stack, extends `DrainLimit`; properties, refinement of `BoundedChannels` |
| `DeferredQueues_proofs` | ring safety, coalescing, and that the rings implement `BoundedChannels`, for every instance |
| `KernelTasks`, `KernelTasksProps` | scheduler, registry, watchdog, safe mode, panic; properties |
| `KernelTasks_proofs` | types, kernel state, monitoring, containment, panic, anchoring and the inspection of heartbeats; the sleeping loop; for every instance |
| `PowerSaveLoop` | extends the scheduler with the sleeping loop; fairness |
| `Dispatch`, `DispatchProps` | handler tables, registration and re-entrant dispatch; properties |
| `EventFlags` | the flag word, with interrupts between the two halves of a take |
| `TraceRing` | the trace and its snapshots |
| `KernelParts` | `Dispatch`, `EventFlags`, `TraceRing` and the drain budgets side by side |
| `KernelParts_proofs` | tables, flags, trace and limits for every instance; the bounds of `DrainLimit` |
| `RequestService` | abstract specification: a bounded line of requests, served one at a time and reported once |
| `HttpPump`, `HttpPumpProps` | the HTTP pump: queue, phases, timeouts, backoff, callbacks; properties, refinement of `RequestService` |
| `Doubling` | a backoff that doubles, in closed form: the reference the three network components are held against |
| `Doubling_proofs` | powers of two, and that doubling step by step with a cap gives the closed form |
| `HttpPump_proofs` | its types, its backoff, and that it implements `RequestService`, for every instance |
| `TransportMetrics` | the pump's saturating counters |
| `HttpNode`, `HttpNodeProps` | the HTTP half of the live node: pump, metrics, socket, step callbacks, dispatch task; properties |
| `HttpNode_proofs` | its four properties, and those of the pump within it, for every instance |
| `Outbox` | abstract specification: messages leave sent, used up or displaced |
| `MqttPump`, `MqttPumpProps` | the MQTT pump: queue, connection, backoff, callbacks; properties, refinement of `Outbox` |
| `MqttPump_proofs` | its types, announcements, backoff, and that it implements `Outbox`, for every instance |
| `WiFiMaintainer`, `WiFiMaintainerProps` | polls, notices, capability, retries; properties |
| `NetNode`, `NetNodeProps` | the Wi-Fi and MQTT half of the live node: maintainer and pump over one network; properties |
| `NetNode_proofs` | its safety properties, and those of the pump within it, for every instance |
| `MC...` | small instances |

Operators marked "Mutant" in a model are plausible bugs used to show that a
property is able to fail; no model refers to them.

### DeferredQueues

`head`, `tail`, `count` and `slot` are the ring members of the class, for the
three queues at once: the code repeats the same statements for events, commands
and work. A message is an element of a small set and stands for a (key, value)
or (handler, value) pair, which the code only compares for equality; `NoMessage`
is an entry whose `inUse` is false, and also a publication without a key.

The C++ call stack is the variable `stack`: one frame per kernel call that is
suspended in user code, plus the drain loop that runs, if any. A drain frame
holds the loop's locals (`limit`, `drained`) and the queues
`drainDeferredQueues_` still has to drain; a "store" frame is an enqueue
suspended in the signal of the drop that made its room, and a "refuse" frame is
a rejected publication in its signal. One iteration of a loop is one step,
because user code runs only inside the handler call that ends it. `begin()` and
`stop()` appear through the three resets they make. A queue that is compiled out
returns false without any effect, which is a stuttering step.

`SignalReentry` says whether a drop-signal handler may publish into the queue
that is dropping. The code does not forbid it and breaks (see Findings); the
safety results are stated for builds whose handlers do not.

### KernelTasks

A task's record is its `TaskSlot` without statistics; `Config` gives the
registered contract. `tick()` runs in steps that end where user code runs:
`TickBegins`, `Inspect` (one slot of a heartbeat inspection), `Select` (a
callback is entered), `CallbackReturns` (success, overrun, failure, recovery),
`DrainReturns`, `NothingRunnable`, `TickReturns`. Between them, when the control
is in `loop()`, in a callback or in the handlers of drained messages, `Api`
actions may happen and the clock may advance. `now` is the local
`schedulerNowMs`.

A failure runs `recordFailure_`, the caller's own panic and `recoverIfAllowed_`
without a call of user code that this module lets act, so `Fail` is one
definition used by inspection and by overruns. Signal, panic and state-change
handlers are assumed to observe only. A run shorter than a millisecond is an
overrun or not, nondeterministically, where a microsecond timer measures it.

`PowerSaveLoop` adds `Sleep`: the power-saving loop computes `nextWakeInMs()`
after `tick()` and lets the clock advance by one millisecond less, without
polling. `NextWakeInMs` may also be 0, as it is while messages wait; short waits
and the other idle strategies only yield, which is time passing between ticks.

Not in this model: the statistics, the idle strategy, a `tick()` called from a
callback, `tick(now)` with a time that contradicts the clock source, and the
hardware watchdog bridge.

### HttpPump

The variables are the pump's members; `pc` is where `tick()` is. It runs in
steps that end where user code runs: `StepCurrentPhase` enters a step callback,
`StepIsPending`, `StepFails` and `StepCompletes` return from it; a failed phase
first enters the close step (`pc = "abort"`, `AbortReturns`) and then retries or
gives up; `Complete` publishes the completion event and `CompletionReturns` is
`clearActive_` after its subscribers ran. While a callback runs, it may enqueue
(and restart the pump, where `CallbackMay` says so). Each call of the link probe
answers anything in `Links`. The jitter is any value its formula can take.
`stepped` and `reported` are history variables; metrics and the request's texts
are left out. A `tick()` called from one of the pump's own callbacks is not
modelled. User code does not hand over a request that is already in the pump:
this identifies requests, and nothing in the code depends on it.

`RequestService` is its abstract specification. `fresh`, refined by
`~hasTicked_`, keeps a restart from excusing a lost completion.

### Dispatch

`slot` is the three tables, numbered through in the order dispatch looks at
them; an entry is a handler and a topic (key and label, or key alone for the
`Fast` functions, whose label is NULL). `stack` holds the kernel calls that are
suspended in user code: a dispatch in one of its handlers, with the slot it has
reached, or a registration in the collision signal, which runs after the search
for duplicates and before the entry is written. `owed` and `done` are history
variables of a dispatch: the subscriptions that have been there since it began
and wait for their call, and those that had it. Payloads and statistics are left
out, and the queues through which deferred messages arrive are `DeferredQueues`.

### EventFlags, TraceRing, KernelParts

`takeFlags` is two atomic operations, `TakeLoads` and `TakeClears`; flags are
set and cleared between them. `raced` is a history variable: the flags last set,
for the first time or again, between the load and the clear of a take of them.
`TraceRing` has the ring's members and `recent`, a history of the last entries.
`KernelParts` puts these two, `Dispatch` and the drain budgets side by side.
They share no variable and none reads another's, so that a behaviour moves only
one of them: the product has the same steps and no further behaviour of
interest, and is too large.

### MqttPump

The variables are the pump's members; `session` and `transport` are what its two
probes would answer, and change at any time. `tick()` runs in steps that end
where user code runs: the state topic's subscribers (`notify`, `announce`), the
connect, loop and publish steps. `EnqueueFrom` names the places user code
enqueues from. It may not contain the publish step: on a full queue a message
enqueued from there displaces the very message being sent, and `popFront_`
(`modules/net/ZeroMqttPump.h:224`) then removes one that never was. `failures`,
`failedAt` and `gaveUp` are history variables: the failures since the pump last
connected, the moment of the last one, and whether it was a message's last try,
after which the code drops the message and schedules no wait. A restart from one
of the pump's own callbacks is not modelled.

`Outbox` is the abstract specification: what the pump owes to a message it has
accepted.

### WiFiMaintainer and NetNode

The maintainer's variables are its members, `link` what its probe would answer
and `capable` the kernel capability it manages. `told`, `forgot`, `triedAt` and
`tries` are history variables. Its `reset()`, which stops it, is not modelled.

`NetNode` composes it with `MqttPump` over one network, as `LiveNetworkNode.ino`
does: `transport` is the maintainer's `link`; tasks run to completion, one at a
time, so that a tick of one is never interleaved with a tick of the other, but
network changes fall anywhere. A broker session may outlive its link, half open,
until the client notices. The driver does not reconnect by itself. `ConnectWiFi`
is nondeterministic on a link that is down: depending on the status the driver
gives, and on the board, `connectWiFi()` calls `WiFi.begin()` or returns.
`RestartWiFi` is a second `begin()`; two at the same millisecond would only
repeat each other and are left out.

### HttpNode

`HttpNode` composes the HTTP pump with its metrics and with the step callbacks
of `LiveNetworkNode.ino`, which keep flags and a socket of their own, and with
the dispatch task, which writes the one payload buffer every request points to.
`answered`, `accepted`, `unread` and `missed` are history variables: whose
answer has been read, whether the 2xx answer to the request in progress has
arrived at the node (read or not), and whether its reading or its closing phase
has timed out. The alternatives of a step callback are those of the code, also
where the pump's order of phases never reaches them, as a second write in one
attempt. The read deadline is taken from the clock when the write step returns.

## 3. Runs

| Run | Checks | Instance |
|---|---|---|
| `queues` | `TypeOK`, `RingsCoherent`, `NoDuplicates`, `ImplementsChannels`, `CallsReturn` | event ring of 2 with three messages, work ring of 1, command ring of 0; drop-oldest and reject; three suspended calls |
| `tasks_loop` | `TypeOK`, `FaultsContained`, `StallsNoticed`, `PanicSticky`, `AnchorInRun`, `NoOversleep`, `ReadyTaskRuns` | two monitored tasks, one critical with a freeze, in a loop that may sleep; late ticks, late runs, heartbeats from drained handlers; clock modulo 6 |
| `tasks_api` | `KernelCoherent`, `MonitoringFresh` | two tasks managed by every API call but heartbeats; no clock source; microsecond overruns |
| `parts` | `TablesTypeOK`, `HandlersUnique`, `CalledOnce`, `FlagsKept`, `TraceKept`, `LimitsBounded` | four slots, two labels of one key, two nested calls; three flags; a trace of three; thirteen capacities from 1 to 255 with every base and length |
| `http` | `TypeOK`, `ImplementsService`, `BackoffKept`, `ActiveEnds` | three requests, a queue of two, a close step, up to two retries, clock modulo 16 |
| `http_node` | `SocketReleased`, `AttemptsAccounted`, `ReportsHonest`, `NotRepeated` | two readings, a queue of one, one retry, counters that saturate at 3, clock modulo 6 |
| `mqtt` | `TypeOK`, `ImplementsOutbox`, `BackoffKept`, `ChangesAnnounced`, `MessagesLeave` | three messages, a queue of two, both probes, a loop step with an idle throttle, enqueues from every callback but publish, clock modulo 6 |
| `net_node` | `NodeTypeOK`, `ObserversKnow`, `HalfOpenClosed`, `AttemptsSpaced`, `LossNoticed`, `Delivered` | one message, stable polls twice as rare, backoff 1 to 2, clock modulo 5 |
| `queues_reentry`, `tasks_heartbeat`, `trace_newest`, `http_retry` | one property each, violated | see Findings |

**Bounds.** Three messages in a ring of two reach every combination of full,
wrapped and coalescing; three suspended calls contain a drop inside a handler
inside a drain, and the theorems hold for every depth. `MaxCalls = 1` lets each
handler invocation make one call, and a drain loop invokes a handler per
message, so long sequences of calls still arise. Capacities in `parts` include
every residue that matters for halves and three quarters, and 187 and 255, the
smallest and the largest for which the 8-bit sum wraps. Time is taken modulo 6
in `tasks_loop`, larger than any sum of an interval, a timeout and a delay, so
that an unsigned difference means what it means in 32 bits, and small enough for
the wrap to occur in every phase; `tasks_api` uses 3 because its properties are
not about time. `MaxIdle`, `MaxRun` and `MaxDrain` bound delays between ticks,
in callbacks and in handlers: with a run beyond the budget, overruns happen;
time-outs happen falsely, after a heartbeat from a drained handler, and then
truly, once the restriction or the freeze that followed keeps a task from
running. The pauses satisfy `SpansFit` (3 + 1 + 1 < 6).

In `http`, backoffs of 1, 2 and 3 show the doubling and its cap, a phase timeout
of 2 is above the first backoff and below the last, a budget of two phases per
tick lets a tick both finish a phase and fail the next, and a modulus of 16
contains a whole attempt and backoff and is crossed again and again.

Two labels that share a key, and the key alone, are every relation between two
topics that dispatch distinguishes; a second key would only add topics that
never meet. Three event slots hold a slot before, at and behind the one being
called; labels are symmetric. Three trace entries in a ring of three tell every
rotation apart. In `mqtt`, a backoff of 1 doubling to 2 and a throttle of 2
interleave with polls every 1 or 2 and a wrap at 6; in `net_node`, modulo 5, a
stable poll interval of 2 lets the pump tick several times between two polls. In
`http_node`, one retry gives a request a second attempt in which the first one's
flags could be seen, and counters of 3 fill up within two requests.

Deadlock is checked in every model but `parts`, where a queue being tabulated
stops when it is full.

**Fairness.** There is one thread, and blocking callbacks are out of contract
(`docs/reliability.md`); this justifies weak fairness of each step of a kernel
or pump that can go on, and of the return of the user code it called. What users
do (publications, API calls, restarts) and what the network does is never
assumed to happen, with one exception below. `queues` assumes that a kernel loop
that can go on goes on and that a handler returns; only a flush, which has no
limit, may be kept supplied for ever (`Flushing`). `tasks_loop` assumes that
`loop()` calls `tick()`, that `tick()` goes on, and that time passes. `Elapse`
gets strong fairness because a tick in which no time passes disables it for a
moment: the clock does not wait for a firmware that keeps ticking. Sleeping is
not fair: a loop need not sleep. A run takes at most 1 ms there, less than the
intervals: with two tasks that each run for longer than the other's interval
`tick()` really never returns, which the documents exclude as blocking. `http`
and `mqtt` assume that `loop()` calls `tick()`, that it and its callbacks
return, and that time passes; an HTTP step may still answer "pending" for ever
and a link may be down at every call. `net_node` assumes the same of both tasks,
since the kernel runs every task that is due, that a driver that was told to
join a network joins it in the end, and that it does not for ever answer
`connectWiFi()` with a status that keeps it from trying (strong fairness, an
assumption about the driver and not about the code); whether access point and
broker stay (`<>[]site`) is a premise of the property.

**What the properties say.** `NoDuplicates` relates what an enqueue saw before
the signal handler to what it finds afterwards. `ImplementsChannels` is the
refinement: whatever handlers do, each queue hands its messages over once and in
order, and loses one only by evicting the oldest from a full queue.
`PanicSticky` lists the only ways out of PANIC within a tick, two of which may
surprise: another task's failure may degrade the kernel, or put it in safe mode,
and either also lifts a freeze. `FaultsContained` says that a task left faulted
took the kernel into safe mode or a panic. `NoOversleep` says that the reported
wake-up is right for every history of suspending, resuming and anchoring, across
the wrap. `StallsNoticed` says that supervision misses nobody: no ready task
that is watched remains silent past an inspection for longer than its interval
and timeout, although the code only sees differences modulo the period of the
clock, and whoever sends heartbeats from wherever. The opposite error, blaming a
live task, the code does make: see `tasks_heartbeat`.

`CalledOnce` says that a subscription present from the beginning to the end of a
dispatch is called exactly once by it, whatever handlers do to the table.
`HandlersUnique` has one exception, which the code really has: a collision ends
the search for duplicates. `FlagsKept` has one too: a flag that an interrupt
sets between the load and the clear of a take of it may be lost. If it had been
captured its second setting is lost; if not, it is cleared without ever having
been returned. `takeFlags` is atomic "within the cooperative loop"
(`docs/api.md:142`) and only there. `TraceKept` compares each snapshot with the
history of what was traced: a consecutive stretch of it, as long as the buffer
allows. `LimitsBounded` has the exception `Wraps`: from a capacity of 187 on,
with a base of more than half of it, the raised budget may not fit its byte, and
the tick then gets less than its base or, at 256, no limit at all.

`ImplementsService` says of the HTTP pump that no combination of failure,
timeout, retry, drop and re-entrant enqueue loses or repeats a completion.
`BackoffKept` relates a connect call to the failure before it, by the number of
retries spent. `ActiveEnds` names two exceptions, and the run fails without
either: a phase that starts at uptime 0 has no timeout, because 0 means "not
started", and an attempt whose time lies just before the wrap of the uptime
waits for a whole period if no tick sees that moment, because the times are
compared as numbers. The same comparison is the exception (`Overlong`, and the
bound by `Wrap` in `BackoffKept` and `AttemptsSpaced`) for the MQTT pump and the
maintainer.

`ReportsHonest` says that a success the node counts belongs to the reading that
is in the buffer. `NotRepeated` says that a reading whose 2xx answer has arrived
is not posted again. It has two exceptions, both of which the code has and
without which the run fails: the phase timeout is tested before the step is
called (`modules/net/ZeroHttpPump.h:233`), so that another task that blocks for
longer turns a request into a failure while its answer waits to be read
(`unread`), or after it was read and only has to be closed (`missed`); both are
posted again, the second with its socket left open, which `SocketReleased`
excepts too. An answer lost on its way is unknown to the node and is not
counted. `AttemptsAccounted` says that the counters the rates are computed from
agree.

In the MQTT pump `BackoffKept` excepts the failure of a message's last try
(`gaveUp`): `tick()` pops the message and returns without a wait
(`modules/net/ZeroMqttPump.h:231`), so that a queue of messages without retries
is offered to a refusing broker one tick after the other. `ImplementsOutbox`
says that an MQTT message leaves only sent, used up or displaced while it waits.
`ChangesAnnounced` relates the connection the pump acts on to what its
subscribers were told; `ObserversKnow` does so for the maintainer, with the
managed capability. `LossNoticed` and `HalfOpenClosed` are about the
composition: no loss of the link goes without the disconnect step and its
notice, and a session left half open is closed at the next poll, unless the link
was lost before the maintainer ever saw it, or after a second `begin()`: then it
stays half open until the client notices. `Delivered` says that polls, stable
polls and two backoffs do not keep each other waiting once the network is back.

### Findings

Each is a run with a counterexample and an entry in `PROJECT.json`.

* `queues_reentry` - a drop-signal handler that publishes into the dropping
  queue overfills the ring and overwrites a live entry.
* `tasks_heartbeat` - the handler of a drained message sends a heartbeat later
  than the time the scheduler took when the callback returned
  (`core/KernelRuntime.cpp:253`); the unsigned difference is huge, and the next
  inspection of the same tick fails the task for silence it never kept
  (`docs/api.md:16` and `58`).
* `trace_newest` - `snapshotTrace` gives a buffer shorter than the trace its
  oldest entries, though `docs/api.md:163` says that it "copies the newest trace
  entries".
* `http_retry` - with a backoff longer than the phase timeout, as in the default
  configuration, a retry times out before its connect step is called, so a
  request is given up after a single real attempt.

Seen while modelling, without a run of their own. Two of them are further
disagreements with the documents:

* A task that suspends itself in its callback and then overruns is failed and
  made ready again by auto-recovery (`core/Watchdog.cpp:301`), though
  `docs/api.md:13` calls a suspended task paused. In `KernelTasks`: `Suspend` in
  a task, then `CallbackReturns` with an overrun; `Fail` and `Recovered` write
  the slot's state whatever it was.
* The success of a run is recorded before its overrun and resets the failure
  counter (`core/Watchdog.cpp:235`): overruns never exhaust the budget of
  `docs/api.md:59`.

With 187 slots or more the raised drain limit may wrap, to less than the base or
to 0, which means unlimited (`core/KernelRuntime.cpp:462`). A flag that an
interrupt sets inside a take of it may be lost (`core/EventHub.cpp:822`). A
publication that fails on its last try schedules no backoff
(`modules/net/ZeroMqttPump.h:231`). A reading the server has accepted is posted
again when the reading or closing phase times out
(`modules/net/ZeroHttpPump.h:233`). These four are the named exceptions of
`LimitsBounded`, `FlagsKept`, `BackoffKept` and `NotRepeated`. `tick()` goes on
selecting after a callback has stopped the kernel, and a task that runs
immediately is entered although the comment in `stop()` calls the kernel
quiescent (`core/KernelRuntime.cpp:165`). A step callback that restarts the HTTP
pump makes it publish the completion of the request it has forgotten
(`modules/net/ZeroHttpPump.h:336`). Equal-priority tasks whose due times lie on
both sides of a wrap are chosen in the wrong order
(`core/KernelRuntime.cpp:525`, against "breaks ties by earliest due time" of
`docs/architecture.md`). An idle tick may drain less than a busy one
(`core/KernelRuntime.cpp:480`, against the comment at line 340: capacity 16,
base 4, 14 queued gives 8 and 14). `flushEvents()` never returns when a handler
publishes one event per event. `readyTaskCount_` may be stale after a critical
failure and after `begin()`. A ready task that safe mode keeps from running is
failed for silence.

## 4. Proofs

TLAPS proves, for every value of the constants:

| Theorem | Module | States | When |
|---|---|---|---|
| `TypeCorrect` | `DeferredQueues_proofs` | `TypeOK`: counters are bytes, indices are in the ring | always |
| `RingsSafe` | `DeferredQueues_proofs` | `RingsCoherent`, and `RoomKept` | `~SignalReentry` |
| `CoalescingHolds` | `DeferredQueues_proofs` | `NoDuplicates` | `~SignalReentry` |
| `QueuesImplementChannels` | `DeferredQueues_proofs` | `ImplementsChannels` | `~SignalReentry` |
| `TypeCorrect` | `KernelTasks_proofs` | `TypeOK` | always |
| `KernelStaysCoherent` | `KernelTasks_proofs` | `KernelCoherent` | always |
| `MonitoringStaysFresh` | `KernelTasks_proofs` | `MonitoringFresh` | always |
| `FaultsStayContained` | `KernelTasks_proofs` | `FaultsContained` | `PolicyKept` |
| `PanicStaysSticky` | `KernelTasks_proofs` | `PanicSticky` | always |
| `AnchorStaysInRun` | `KernelTasks_proofs` | `AnchorInRun` | always |
| `StallsAlwaysNoticed` | `KernelTasks_proofs` | `StallsNoticed` | `TimeoutsKept`, `RestartsFromLoop`, `SpansFit` |
| `NeverOversleeps` | `KernelTasks_proofs` | `NoOversleep` | always |
| `SleepingLoopSafe` | `KernelTasks_proofs` | `KernelCoherent`, `MonitoringFresh`, `PanicSticky`, `AnchorInRun` of the sleeping loop | always |
| `SleepingLoopContains` | `KernelTasks_proofs` | `FaultsContained` of the sleeping loop | `PolicyKept` |
| `TablesTyped`, `NoHandlerTwice`, `EachCalledOnce` | `KernelParts_proofs` | `TablesTypeOK`, `HandlersUnique`, `CalledOnce` | always |
| `FlagsNotLost` | `KernelParts_proofs` | `FlagsKept` | always |
| `SnapshotsSound` | `KernelParts_proofs` | `TraceKept` | always |
| `LimitsStayBounded` | `KernelParts_proofs` | `LimitsBounded` | always |
| `PumpTypeCorrect` | `HttpPump_proofs` | `TypeOK` of the HTTP pump | `NoRestart` |
| `PumpImplementsService` | `HttpPump_proofs` | `ImplementsService` | `NoRestart` |
| `BackoffAlwaysKept` | `HttpPump_proofs` | `BackoffKept` of the HTTP pump | `NoRestart` |
| `BooksBalance` | `HttpNode_proofs` | `AttemptsAccounted` | always |
| `SocketIsReleased` | `HttpNode_proofs` | `SocketReleased` | always |
| `ReportsAreHonest` | `HttpNode_proofs` | `ReportsHonest` | always |
| `NeverRepeated` | `HttpNode_proofs` | `NotRepeated` | always |
| `PumpKeepsItsPromises` | `HttpNode_proofs` | `ImplementsService` and `BackoffKept` within the node | always |
| `TypeCorrect` | `MqttPump_proofs` | `TypeOK` of the MQTT pump | always |
| `EachChangeAnnounced` | `MqttPump_proofs` | `ChangesAnnounced` | always |
| `PumpImplementsOutbox` | `MqttPump_proofs` | `ImplementsOutbox` | `PublishStepQuiet` |
| `BackoffAlwaysKept` | `MqttPump_proofs` | `BackoffKept` of the MQTT pump | always |
| `NodeTyped` | `NetNode_proofs` | `NodeTypeOK` | always |
| `ObserversAlwaysKnow` | `NetNode_proofs` | `ObserversKnow` | always |
| `NoLossUnnoticed` | `NetNode_proofs` | `LossNoticed` | always |
| `HalfOpenAlwaysClosed` | `NetNode_proofs` | `HalfOpenClosed` | always |
| `AttemptsStaySpaced` | `NetNode_proofs` | `AttemptsSpaced` | always |
| `PumpKeepsItsPromises` | `NetNode_proofs` | `ImplementsOutbox` and `BackoffKept` within the node | always |

**Assumptions.** "Always" is under the named assumptions of the modules:
capacities and limits are bytes and a drain limit is at most the capacity
(`ZeroKernelConfig.h` asserts it), at most 255 tasks, contracts, delays and
counters within their types, a positive modulus of the clock. Message sets,
depth of re-entrancy, number of calls per handler, contracts, policies, and what
link, server and step callbacks do are arbitrary. The other conditions are about
user code: `~SignalReentry`, no drop-signal handler publishes into the queue
that drops (without it the statement is false, see Findings); `PolicyKept`, user
code neither lifts safe mode nor changes the policy (either may be done to a
faulted task's kernel on purpose); `NoRestart`, no callback of the HTTP pump
calls its `begin()` or `reset()`; `PublishStepQuiet`, the MQTT publish step
enqueues nothing (the pump pops the head after the step returns, so a step that
displaces the head would lose another message); `TimeoutsKept` and
`RestartsFromLoop`, it changes no timeout, and begins and stops the kernel from
`loop()` only; heartbeats may be sent from anywhere. `SpansFit` is about time: a
task's interval and timeout, the longest pause between two readings of the clock
and the longest drain together are shorter than the period of `millis()`, 49
days in a build. Capacities are any bytes, as in the configuration header.

**The arguments.** An invariant is seldom inductive as it stands; what has to be
added is where the design shows.

`LimitsStayBounded` is arithmetic in the three cases of the raised limit: where
`Wraps` does not hold the sum is its own byte, lies above the base, and is cut
at the length; its invariant is that base and length stay within the capacity.

`RingsSafe`: the store after a drop signal writes without looking at the count,
so the invariant has to say that there is room (`RoomKept`); the room is there
because only one enqueue of a queue can be suspended at a time, and because no
other publication into that queue is possible meanwhile, which is where
`~SignalReentry` is used. A stored message must also be a message
(`StoresKnown`), or the slot would look free. The inductive invariant is `TypeOK
/\ RingsCoherent /\ RoomKept /\ StoresKnown`. Its arithmetic is on an explicit
window: `Wrapped` and `InWindow` avoid `%`, and one lemma per ring operation
(store, remove, reset) shows what it does to the window; one lemma per stack
operation shows which frames remain. Each action is then a combination of one of
each.

`CoalescingHolds` restates `NoDuplicates` in terms of the slots (`Distinct`),
which change one at a time, while the positions of all messages shift when the
head leaves; a step either clears slots or stores a message that was looked for.
`QueuesImplementChannels` maps a ring to the line of messages from its head
(`Line`): a store appends to it, a removal takes its first, and nothing else
moves. The debt of a channel is the message of the only suspended enqueue
(`OwedBy`, from `RoomKept`). One more fact is needed, `LoopsDrain`: only drain
loops run outside user code, so a call that ends never forgets a debt.

`KernelStaysCoherent`: `KernelCoherent` together with the type of the kernel
record and with "the slot a failure is charged to exists" is inductive. One
lemma per operation on the record (fresh, restricted, panicked, degraded,
lifted, recovered) shows that it yields a coherent record, and `FailedSound`
composes them in the order `Fail` does. `PanicStaysSticky` reads the same lemmas
as a list of the ways out of PANIC. `MonitoringStaysFresh` needs that the slot
whose callback runs stays in use; `FaultsStayContained` that the running task is
not faulted and that auto-recovery stays on; `AnchorStaysInRun` only the types:
it is arithmetic modulo the clock.

`StallsAlwaysNoticed`: the code compares the last heartbeat with the time the
tick took (`now`), and sees the difference modulo the period, so that a long
enough silence would look short. The invariant (`SilenceInv`) bounds the silence
of a watched task: its window, a pause since the last inspection where the next
one is still ahead of it (`Uninspected`), and what the clock is ahead of `now`;
with `SpansFit` this stays below the period, so that the unsigned difference is
the silence, and an inspection that passes a task re-establishes the bound
without the pause. A heartbeat later than `now`, which the code takes for a huge
silence (the finding `tasks_heartbeat`), fails the task, and it is then no
longer watched or has been recovered with a fresh heartbeat.

`NeverOversleeps` reads the minimum that `nextWakeInMs()` returns: whoever can
run is among the tasks it looks at, waits at least that long, and the sleep is a
millisecond shorter. The two `SleepingLoop` theorems say that nothing else
depended on the loop polling: the sleep moves only the clock.

`KernelParts_proofs`: `CalledOnce` is an action property of histories that the
table does not keep. Its invariant `StackSound` says of every suspended dispatch
that what it owes is subscribed and ahead of its position and what it has called
is not, and of every suspended registration that it met a collision, which is
the exception of `HandlersUnique`. `FlagsKept` needs `TakeSound`, and
`TraceKept` that the ring's window is the tail of what was traced (`TraceInv`).
The parts share no variable, so each step of one keeps the invariants of the
others.

`PumpTypeCorrect` and `PumpImplementsService`: the type invariant needs that a
tick in the middle of a phase has budget left; the refinement needs that a
request is reported exactly while its subscribers run, that an active request is
a real one, and that a pump inside `tick()` has ticked. Four lemmas say what
taking the requests of a queue commutes with (type, append, tail, empty); then
each action maps to one action of the service or to none.

The backoffs are proved against `DoubledWait`, base * 2^(k-1) cut at the
maximum, while the code doubles a stored wait at each failure. The provers know
nothing of a recursive function, so `Doubling_proofs` first proves the equation
of `PowerOfTwo` from the library's well-founded induction in its form for sets
(`SetInduction`), and then that doubling with a cap is the next closed form
(`WaitsDouble`, `NextWait`). Each component has an invariant (`Spaced`,
`WiFiSpaced`) that relates its stored wait to the number of failures and its
planned time to the last failure plus that wait and a jitter; `KeptApart`
concludes that an attempt at or after the planned time keeps the distance unless
the plan itself lies beyond the wrap. The number of failures saturates in the
models (`UpTo`), which is sound because a wait that reached its maximum stays
there.

`HttpNode_proofs`, where the node's configuration is fixed by
`HttpNodeAssumption` (a close step, no callback that enqueues or restarts), adds
to the pump's invariant that the pump holds one request, the one that points to
the buffer (`OneReading`), that in the writing and reading phases the flags and
the connection are those of the current attempt (`Exchange`), that an accepted
request is over, is about to be, or waits to be read (`AcceptedOnce`), that an
answer which comes after its reading has failed finds the connection gone or the
phase timed out (`GivenUp`), and that an open connection is attended
(`SocketHeld`). They carry the exceptions `unread` and `missed`, a reading or a
closing phase that timed out.

`MqttPump_proofs` needs one fact beyond the types, that the loop step is only
called connected (`LoopConnected`). `NetNode_proofs` combines that with the
maintainer's own invariant (`Told`: what observers were told, what is granted)
and with `Links`, which ties the two sides' views of the network together:
whoever joins is not online for the maintainer, and a link it does not know of
either is about to be disconnected or was never seen.

The two theorems `PumpKeepsItsPromises` carry the pumps' own properties into the
nodes. For HTTP every step of the node is a step of the pump or leaves it alone.
For MQTT it is not so simple: in the node a session may outlive its link, which
the pump alone excludes, so its steps are related to the queue, the control and
the backoff (`PumpOrElsewhere`), none of which depends on that.

**Only model-checked:** all liveness (`CallsReturn`, `ReadyTaskRuns`,
`ActiveEnds`, `MessagesLeave`, `Delivered`), since liveness under fairness is
out of reach of the installed provers; and the four findings, which are
counterexamples. Every invariant, action property and refinement of a passing
run has a theorem. `StallsAlwaysNoticed` is about the loop that polls (`Spec`),
while `tasks_loop` checks `StallsNoticed` in the loop that may also sleep: the
theorem's `SpansFit` bounds pauses by `MaxIdle`, and a sleep is as long as the
shortest wait of the tasks that can run.

## 5. Not modelled

* Statistics, timing reports and names of tasks, latencies and dwell times of
  the metrics: written by the modelled actions, read by nobody but reports.
* `publishDeferredFast` from an interrupt (`core/EventHub.cpp:972`): it updates
  slot, tail and count with plain stores. No document allows it, event flags are
  offered for that, and a model would show only that plain stores are not
  atomic.
* `tick()` of the kernel or of a pump called from its own callbacks, a
  `tick(now)` that contradicts the clock source, restarts of the MQTT pump from
  its own callbacks, `reset()` of the maintainer: no code in the repository does
  any of it.
* The hardware watchdog bridge, clocks, register access, label copies and the
  FNV-1a hash: platform calls and pure functions; names and keys are model
  values, and two labels may share a key.
* Diagnostics, identity, the ESP8266 profiles (constants), examples other than
  the live node, benchmarks, scripts and tests.

## 6. Plan

1. Composition of `tick()` with the queues: handlers of drained messages calling
   the scheduler, with the real drain limits.
2. `StallsNoticed` for the sleeping loop, from a bound on the intervals of the
   tasks it waits for; containment under weaker conditions than `PolicyKept`.
3. The sampling and reporting tasks of the live node, and a node with several
   requests on one buffer (`RealProjectNode`).
