---------------------------- MODULE DeferredQueues ----------------------------
(***************************************************************************)
(* The three deferred queues of the kernel (events, commands, work), each  *)
(* a fixed ring, and the call stack through which user code and the kernel *)
(* re-enter each other: a drain calls a handler, a handler publishes, a    *)
(* publication into a full ring drops a message and calls the signal       *)
(* handler, which may call the kernel again.                               *)
(*                                                                         *)
(* The stack holds one frame per kernel call that is suspended in user     *)
(* code, plus the drain loop that is running, if any.  User code runs when *)
(* the stack is empty (setup, loop(), a task callback) or when the top     *)
(* frame is "inHandler".                                                   *)
(***************************************************************************)
EXTENDS DrainLimit, Sequences

CONSTANTS
  Capacity,       \* queue -> kMaxEventQueue, kMaxCommandQueue, kMaxWorkQueue
  DrainPerTick,   \* queue -> ZEROKERNEL_*_DRAIN_PER_TICK
  DropOldest,     \* the queues whose backpressure is ZEROKERNEL_QUEUE_DROP_OLDEST
  Coalescing,     \* ZEROKERNEL_ENABLE_EVENT_COALESCING
  Messages,       \* queue -> the (key, value) or (handler, value) pairs published
  NoMessage,      \* an entry whose inUse is false; also a publication without a key
  MaxDepth,       \* bound: suspended kernel calls
  MaxCalls,       \* bound: kernel calls one handler makes before it returns
  UserMay,        \* the calls user code makes: a subset of the four below
  SignalReentry   \* may a drop-signal handler publish into the queue that drops?

Queues == {"event", "command", "work"}
UserCalls == {"publish", "flush", "tick", "reset"}

\* ZeroKernelConfig.h and ZeroKernel.h: capacities are uint8_t, and a drain
\* budget is 0 or at most the capacity.
ASSUME QueuesAssumption ==
  /\ Capacity \in [Queues -> Byte]
  /\ DrainPerTick \in [Queues -> Byte]
  /\ \A q \in Queues : DrainPerTick[q] <= Capacity[q]
  /\ DropOldest \subseteq Queues
  /\ Coalescing \in BOOLEAN
  /\ \A q \in Queues : NoMessage \notin Messages[q]
  /\ MaxDepth \in Nat
  /\ MaxCalls \in Nat
  /\ UserMay \subseteq UserCalls
  /\ SignalReentry \in BOOLEAN

VARIABLES
  head, tail, count,  \* <queue>QueueHead_, Tail_, Count_
  slot,               \* <queue>Queue_[]
  stack,              \* the kernel calls in progress, innermost last
  handed              \* history: the message each queue last handed to handlers

rings == <<head, tail, count, slot>>
vars == <<head, tail, count, slot, stack, handed>>

\* kEventQueueStorage, ...: a ring has at least one slot.
Storage(q) == AtLeast(Capacity[q], 1)
Indices(q) == 0 .. Storage(q) - 1
NextIndex(q, i) == (i + 1) % Storage(q)

Pending(q) == [k \in 0 .. count[q] - 1 |-> slot[q][(head[q] + k) % Storage(q)]]
Queued(q, m) == \E k \in DOMAIN Pending(q) : Pending(q)[k] = m

-------------------------------------------------------------------------------
(* The call stack.                                                         *)

AllMessages == UNION {Messages[q] : q \in Queues}
Rests == {<<>>, <<"work">>, <<"command", "work">>}

\* drain: a drain loop; store: an enqueue suspended in the signal of the drop
\* that made room for its message; refuse: a rejected publication signalling.
Frame == [kind : {"drain", "store", "refuse"}, queue : Queues,
          message : AllMessages \cup {NoMessage}, limit : Byte, drained : Byte,
          rest : Rests, idle : BOOLEAN, inHandler : BOOLEAN, calls : 0 .. MaxCalls]

Top == stack[Len(stack)]
WithTop(f) == [stack EXCEPT ![Len(stack)] = f]
Below == SubSeq(stack, 1, Len(stack) - 1)

DrainFrame(q, limit, rest, idle) ==
  [kind |-> "drain", queue |-> q, message |-> NoMessage, limit |-> limit,
   drained |-> 0, rest |-> rest, idle |-> idle, inHandler |-> FALSE, calls |-> 0]
SignalFrame(kind, q, m) ==
  [kind |-> kind, queue |-> q, message |-> m, limit |-> 0, drained |-> 0,
   rest |-> <<>>, idle |-> FALSE, inHandler |-> TRUE, calls |-> 0]

UserRuns == stack # <<>> => Top.inHandler

\* User code makes one of the calls.
MayCall(call) ==
  /\ call \in UserMay
  /\ UserRuns
  /\ stack # <<>> => Top.calls < MaxCalls

\* The stack once user code has made its call and before the call suspends.
Called == IF stack = <<>> THEN stack ELSE WithTop([Top EXCEPT !.calls = @ + 1])
Push(f) == Len(stack) < MaxDepth /\ stack' = Append(Called, f)

Dropping(q) ==
  \E i \in 1 .. Len(stack) : stack[i].kind = "store" /\ stack[i].queue = q

-------------------------------------------------------------------------------
(* Publishing: publishDeferred*, enqueueCommand*, scheduleWork*.           *)

\* The entry is written at the tail: the end of enqueue*_.
Store(q, m) ==
  /\ slot' = [slot EXCEPT ![q][tail[q]] = m]
  /\ tail' = [tail EXCEPT ![q] = NextIndex(q, @)]
  /\ count' = [count EXCEPT ![q] = U8(@ + 1)]
  /\ head' = head

\* Mutant: the entry's inUse flag is not cleared.
RemoveHeadKeepsEntry(q) ==
  /\ slot' = slot
  /\ head' = [head EXCEPT ![q] = NextIndex(q, @)]
  /\ count' = [count EXCEPT ![q] = @ - 1]
  /\ tail' = tail

\* The head entry leaves the ring: dropOldest*_ and the drain loops.
RemoveHead(q) ==
  /\ slot' = [slot EXCEPT ![q][head[q]] = NoMessage]
  /\ head' = [head EXCEPT ![q] = NextIndex(q, @)]
  /\ count' = [count EXCEPT ![q] = @ - 1]
  /\ tail' = tail

Refused(q, m) ==
  \/ m = NoMessage
  \/ Capacity[q] = 0
  \/ count[q] >= Capacity[q] /\ (q \notin DropOldest \/ count[q] = 0)

\* Mutant: only the oldest entry is compared.
CoalescedWithHead(q, m) ==
  m # NoMessage /\ Coalescing /\ count[q] > 0 /\ slot[q][head[q]] = m

Coalesced(q, m) == m # NoMessage /\ Coalescing /\ Queued(q, m)

PublishAllowed(q) == MayCall("publish") /\ (SignalReentry \/ ~Dropping(q))

\* An equal message is already queued: the call succeeds and queues nothing.
PublishCoalesced(q, m) ==
  /\ PublishAllowed(q) /\ Capacity[q] > 0 /\ Coalesced(q, m)
  /\ stack' = Called
  /\ UNCHANGED <<rings, handed>>

\* There is room.
PublishStored(q, m) ==
  /\ PublishAllowed(q) /\ m # NoMessage /\ ~Coalesced(q, m)
  /\ count[q] < Capacity[q]
  /\ Store(q, m)
  /\ stack' = Called
  /\ UNCHANGED handed

\* The ring is full and drops its oldest entry; the enqueue is suspended in the
\* drop signal and stores its message when the signal handler returns.
PublishEvicts(q, m) ==
  /\ PublishAllowed(q) /\ ~Coalesced(q, m) /\ ~Refused(q, m)
  /\ count[q] >= Capacity[q]
  /\ RemoveHead(q)
  /\ Push(SignalFrame("store", q, m))
  /\ UNCHANGED handed

\* Mutant: a rejected publication costs the oldest entry too.
PublishRefusedDrops(q, m) ==
  /\ PublishAllowed(q) /\ Refused(q, m) /\ ~(Capacity[q] > 0 /\ Coalesced(q, m))
  /\ Push(SignalFrame("refuse", q, NoMessage))
  /\ IF count[q] > 0 THEN RemoveHead(q) ELSE UNCHANGED rings
  /\ UNCHANGED handed

\* The publication is rejected: counted as a drop and signalled.
PublishRefused(q, m) ==
  /\ PublishAllowed(q) /\ Refused(q, m) /\ ~(Capacity[q] > 0 /\ Coalesced(q, m))
  /\ Push(SignalFrame("refuse", q, NoMessage))
  /\ UNCHANGED <<rings, handed>>

Publish(q, m) ==
  \/ PublishCoalesced(q, m)
  \/ PublishStored(q, m)
  \/ PublishEvicts(q, m)
  \/ PublishRefused(q, m)

-------------------------------------------------------------------------------
(* Draining.                                                               *)

\* flushEvents, flushCommands, flushWork: a drain loop without a limit.
Flush(q) ==
  /\ MayCall("flush")
  /\ Push(DrainFrame(q, 0, <<>>, FALSE))
  /\ UNCHANGED <<rings, handed>>

\* Mutant: an idle tick drains without a limit.
TickLimitUnlessIdle(q, idle) ==
  IF idle THEN 0 ELSE ResolveDrainLimit(count[q], DrainPerTick[q], Capacity[q])

TickLimit(q, idle) ==
  IF idle THEN ResolveIdleDrainLimit(count[q], DrainPerTick[q], Capacity[q])
          ELSE ResolveDrainLimit(count[q], DrainPerTick[q], Capacity[q])

\* drainDeferredQueues_, as tick() calls it: events, then commands, then work,
\* each with a limit computed from the queue's length when its turn comes.
DrainDeferredQueues(idle) ==
  /\ MayCall("tick")
  /\ Push(DrainFrame("event", TickLimit("event", idle), <<"command", "work">>, idle))
  /\ UNCHANGED <<rings, handed>>

LoopRuns == stack # <<>> /\ ~Top.inHandler
LimitReached(f) == f.limit # 0 /\ f.drained >= f.limit

\* Mutant: the loop does not test the count.
DrainOneUntested ==
  /\ LoopRuns
  /\ ~LimitReached(Top)
  /\ LET q == Top.queue
         m == slot[q][head[q]]
     IN  /\ RemoveHead(q)
         /\ stack' = WithTop([Top EXCEPT
                        !.inHandler = (m # NoMessage),
                        !.drained = IF Top.limit = 0 THEN 0 ELSE @ + 1])
         /\ handed' = IF m = NoMessage THEN handed ELSE [handed EXCEPT ![q] = m]

\* One iteration: the head entry is copied out and its slot released, then the
\* handlers are called; an empty entry is skipped.
DrainOne ==
  /\ LoopRuns
  /\ count[Top.queue] > 0 /\ ~LimitReached(Top)
  /\ LET q == Top.queue
         m == slot[q][head[q]]
     IN  /\ RemoveHead(q)
         /\ stack' = WithTop([Top EXCEPT
                        !.inHandler = (m # NoMessage),
                        !.drained = IF Top.limit = 0 THEN 0 ELSE @ + 1])
         /\ handed' = IF m = NoMessage THEN handed ELSE [handed EXCEPT ![q] = m]

\* The loop ends: drainDeferredQueues_ goes on with the next queue.
DrainNextQueue ==
  /\ LoopRuns
  /\ count[Top.queue] = 0 \/ LimitReached(Top)
  /\ Top.rest # <<>>
  /\ LET q == Head(Top.rest)
     IN  stack' = WithTop(DrainFrame(q, TickLimit(q, Top.idle), Tail(Top.rest), Top.idle))
  /\ UNCHANGED <<rings, handed>>

DrainEnds ==
  /\ LoopRuns
  /\ count[Top.queue] = 0 \/ LimitReached(Top)
  /\ Top.rest = <<>>
  /\ stack' = Below
  /\ UNCHANGED <<rings, handed>>

KernelStep == DrainOne \/ DrainNextQueue \/ DrainEnds

-------------------------------------------------------------------------------
(* User code returns to the kernel, or resets the queues.                  *)

\* The signal handler returns into enqueue*_, which stores its message.
StoreAfterDrop ==
  /\ stack # <<>> /\ Top.inHandler /\ Top.kind = "store"
  /\ Store(Top.queue, Top.message)
  /\ stack' = Below
  /\ UNCHANGED handed

ReturnToCaller ==
  /\ stack # <<>> /\ Top.inHandler /\ Top.kind # "store"
  /\ stack' = IF Top.kind = "drain" THEN WithTop([Top EXCEPT !.inHandler = FALSE, !.calls = 0])
                                    ELSE Below
  /\ UNCHANGED <<rings, handed>>

HandlerReturns == StoreAfterDrop \/ ReturnToCaller

\* resetEventQueue_, resetCommandQueue_ and resetWorkQueue_, which begin() and
\* stop() call together.
Reset ==
  /\ MayCall("reset")
  /\ head' = [q \in Queues |-> 0]
  /\ tail' = [q \in Queues |-> 0]
  /\ count' = [q \in Queues |-> 0]
  /\ slot' = [q \in Queues |-> [i \in Indices(q) |-> NoMessage]]
  /\ stack' = Called
  /\ UNCHANGED handed

-------------------------------------------------------------------------------
Init ==
  /\ head = [q \in Queues |-> 0]
  /\ tail = [q \in Queues |-> 0]
  /\ count = [q \in Queues |-> 0]
  /\ slot = [q \in Queues |-> [i \in Indices(q) |-> NoMessage]]
  /\ stack = <<>>
  /\ handed = [q \in Queues |-> NoMessage]

Next ==
  \/ \E q \in Queues : \E m \in Messages[q] \cup {NoMessage} : Publish(q, m)
  \/ \E q \in Queues : Flush(q)
  \/ \E idle \in BOOLEAN : DrainDeferredQueues(idle)
  \/ KernelStep
  \/ HandlerReturns
  \/ Reset

Spec == Init /\ [][Next]_vars

\* The drain loops run, and handlers return: both happen on the one thread the
\* firmware has, and "blocking task callbacks are out of contract"
\* (docs/reliability.md).
FairSpec == Spec /\ WF_vars(KernelStep) /\ WF_vars(HandlerReturns)
===============================================================================
