-------------------------- MODULE DeferredQueuesProps --------------------------
(***************************************************************************)
(* What the deferred queues must satisfy.                                  *)
(***************************************************************************)
EXTENDS DeferredQueues

\* Every ring index, counter and frame keeps its type; in particular a count
\* never leaves the uint8_t range and a drain limit is a uint8_t.
TypeOK ==
  /\ head \in [Queues -> Byte]
  /\ tail \in [Queues -> Byte]
  /\ count \in [Queues -> Byte]
  /\ DOMAIN slot = Queues
  /\ \A q \in Queues :
       /\ head[q] \in Indices(q) /\ tail[q] \in Indices(q)
       /\ slot[q] \in [Indices(q) -> AllMessages \cup {NoMessage}]
  /\ stack \in Seq(Frame)
  /\ handed \in [Queues -> AllMessages \cup {NoMessage}]

-------------------------------------------------------------------------------
(* Ring coherence.                                                         *)

\* n reduced to an index, for n below twice the ring's size.
Wrapped(q, n) == IF n < Storage(q) THEN n ELSE n - Storage(q)

\* Index i lies in the window of count[q] entries that starts at the head.
InWindow(q, i) ==
  IF head[q] <= i THEN i - head[q] < count[q]
                  ELSE i + Storage(q) - head[q] < count[q]

Bounded(q) == count[q] <= Capacity[q]
TailFollows(q) == tail[q] = Wrapped(q, head[q] + count[q])
SlotsMatch(q) == \A i \in Indices(q) : slot[q][i] # NoMessage <=> InWindow(q, i)

\* The three ring counters, which enqueue*_, dropOldest*_ and drain*Queue_
\* update separately, describe the slots: nothing beyond the capacity, tail
\* "count" entries after head, and exactly the window's slots in use.
RingsCoherent == \A q \in Queues : Bounded(q) /\ TailFollows(q) /\ SlotsMatch(q)

\* An enqueue suspended in its drop signal still finds the room it made when
\* the handler returns, and is the only one of its queue: dropOldest*_ checked
\* the count before user code ran, the write that follows does not check again.
StoreFrame(i, q) ==
  i \in 1 .. Len(stack) /\ stack[i].kind = "store" /\ stack[i].queue = q
RoomKept ==
  \A q \in Queues : \A i \in 1 .. Len(stack) :
    StoreFrame(i, q) =>
      /\ count[q] < Capacity[q]
      /\ \A j \in 1 .. Len(stack) : StoreFrame(j, q) => i = j

\* A suspended enqueue has a message to store.
StoresKnown ==
  \A i \in 1 .. Len(stack) : stack[i].kind = "store" => stack[i].message # NoMessage

\* The message an enqueue will store when its signal handler returns.
Owed(q) ==
  IF Dropping(q)
    THEN stack[CHOOSE i \in 1 .. Len(stack) : StoreFrame(i, q)].message
    ELSE NoMessage

\* Coalescing holds across re-entrancy: no queue ever holds two equal messages,
\* nor one that a suspended enqueue is about to store, although enqueue*_ looks
\* for a duplicate before the drop signal and writes after it.
NoDuplicates ==
  Coalescing =>
    \A q \in Queues :
      /\ \A j, k \in 0 .. count[q] - 1 : Pending(q)[j] = Pending(q)[k] => j = k
      /\ Owed(q) # NoMessage => ~Queued(q, Owed(q))

-------------------------------------------------------------------------------
(* The queues implement bounded FIFO channels.                             *)

Channels == INSTANCE BoundedChannels WITH
  Channels <- Queues, Bound <- Capacity, Evicting <- DropOldest,
  Values <- Messages, NoValue <- NoMessage,
  buffer <- [q \in Queues |-> [k \in 1 .. count[q] |-> Pending(q)[k - 1]]],
  owed <- [q \in Queues |-> Owed(q)]

\* Whatever handlers do while a queue is drained or an enqueue is suspended,
\* messages are handed over in the order they were stored, each once, and a
\* message is lost only by an eviction from a full queue that drops its oldest.
ImplementsChannels == Channels!Spec

-------------------------------------------------------------------------------
(* Liveness.                                                               *)

\* A flush whose handlers keep it supplied: flushEvents, flushCommands and
\* flushWork drain without a limit.  (A tick's last queue has no limit only when
\* it is empty.)
Flushing ==
  \E i \in 1 .. Len(stack) :
    stack[i].kind = "drain" /\ stack[i].limit = 0 /\ stack[i].rest = <<>>
      /\ count[stack[i].queue] > 0

\* Every kernel call ends, so tick() returns to loop(), although the handlers
\* it calls may publish into the queue that is being drained: a drain limit is
\* computed once, from the length the queue had when its turn came.  Only a
\* flush may go on for ever.
CallsReturn == [](stack # <<>> => <>(stack = <<>> \/ Flushing))

\* The queue bound that enqueue*_ is there to keep.
QueueBounded == \A q \in Queues : Bounded(q)
===============================================================================
