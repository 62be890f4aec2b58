------------------------- MODULE DeferredQueues_proofs -------------------------
(***************************************************************************)
(* Proofs about the deferred queues, for every capacity, drain budget and  *)
(* drop policy, any number of nested calls, and any user code: the types,  *)
(* the coherence of the three rings, coalescing, and the refinement of the *)
(* bounded channels.                                                       *)
(***************************************************************************)
EXTENDS DeferredQueuesProps, TLAPS

-------------------------------------------------------------------------------
(* Ring indices.                                                           *)

LEMMA StorageSize ==
  ASSUME NEW q \in Queues
  PROVE  Storage(q) \in 1 .. 255 /\ Capacity[q] \in 0 .. Storage(q)
BY QueuesAssumption DEF Storage, AtLeast, Byte

\* The index after i, without the modulus.
LEMMA NextIndexValue ==
  ASSUME NEW q \in Queues, NEW i \in Indices(q)
  PROVE  /\ NextIndex(q, i) \in Indices(q) /\ NextIndex(q, i) \in Byte
         /\ NextIndex(q, i) = IF i + 1 = Storage(q) THEN 0 ELSE i + 1
<1> DEFINE S == Storage(q)
<1>1. S \in 1 .. 255 /\ i \in 0 .. S - 1
  BY StorageSize DEF Indices
<1> HIDE DEF S
<1>2. (i + 1) % S = IF i + 1 = S THEN 0 ELSE i + 1
  BY <1>1
<1>3. (i + 1) % S \in 0 .. S - 1 /\ (i + 1) % S \in Byte
  BY <1>1, <1>2 DEF Byte
<1> QED
  BY <1>2, <1>3 DEF NextIndex, Indices, S

\* The index at position x of a ring of S, for x below twice S.
Reduced(S, x) == IF x < S THEN x ELSE x - S
Successor(S, i) == IF i + 1 = S THEN 0 ELSE i + 1

\* Index i is one of the n that start at h, in a ring of S.
Within(S, h, n, i) == IF h <= i THEN i - h < n ELSE i + S - h < n

\* A window that grows by one takes in the index where the tail was.
LEMMA WindowGrows ==
  ASSUME NEW S \in 1 .. 255, NEW h \in 0 .. S - 1, NEW n \in 0 .. S - 1, NEW i \in 0 .. S - 1
  PROVE  Within(S, h, n + 1, i) <=> Within(S, h, n, i) \/ i = Reduced(S, h + n)
BY DEF Within, Reduced

\* A window that loses its head loses just that index.
LEMMA WindowShrinks ==
  ASSUME NEW S \in 1 .. 255, NEW h \in 0 .. S - 1, NEW n \in 1 .. S, NEW i \in 0 .. S - 1
  PROVE  Within(S, Successor(S, h), n - 1, i) <=> Within(S, h, n, i) /\ i # h
BY DEF Within, Successor

-------------------------------------------------------------------------------
(* Types.                                                                  *)

Stored == AllMessages \cup {NoMessage}
RingsTyped ==
  /\ head \in [Queues -> Byte]
  /\ tail \in [Queues -> Byte]
  /\ count \in [Queues -> Byte]
  /\ DOMAIN slot = Queues
  /\ \A q \in Queues :
       /\ head[q] \in Indices(q) /\ tail[q] \in Indices(q)
       /\ slot[q] \in [Indices(q) -> Stored]

LEMMA CountTyped ==
  ASSUME RingsTyped, NEW q \in Queues
  PROVE  count[q] \in 0 .. 255
BY DEF RingsTyped, Byte

LEMMA StoreTyped ==
  ASSUME RingsTyped, NEW q \in Queues, NEW m \in Stored, Store(q, m)
  PROVE  RingsTyped'
<1>1. NextIndex(q, tail[q]) \in Indices(q) /\ NextIndex(q, tail[q]) \in Byte
  BY NextIndexValue DEF RingsTyped
<1>2. U8(count[q] + 1) \in Byte
  BY DEF RingsTyped, U8, Byte
<1>3. head' \in [Queues -> Byte] /\ tail' \in [Queues -> Byte] /\ count' \in [Queues -> Byte]
  BY <1>1, <1>2 DEF RingsTyped, Store
<1>4. DOMAIN slot' = Queues /\ \A p \in Queues : slot'[p] \in [Indices(p) -> Stored]
  BY DEF RingsTyped, Store
<1>5. \A p \in Queues : head'[p] \in Indices(p) /\ tail'[p] \in Indices(p)
  BY <1>1 DEF RingsTyped, Store
<1> QED
  BY <1>3, <1>4, <1>5 DEF RingsTyped, Indices, Storage

LEMMA RemoveHeadTyped ==
  ASSUME RingsTyped, NEW q \in Queues, count[q] > 0, RemoveHead(q)
  PROVE  RingsTyped'
<1>1. NextIndex(q, head[q]) \in Indices(q) /\ NextIndex(q, head[q]) \in Byte
  BY NextIndexValue DEF RingsTyped
<1>2. count[q] - 1 \in Byte
  BY DEF RingsTyped, Byte
<1>3. head' \in [Queues -> Byte] /\ tail' \in [Queues -> Byte] /\ count' \in [Queues -> Byte]
  BY <1>1, <1>2 DEF RingsTyped, RemoveHead
<1>4. DOMAIN slot' = Queues /\ \A p \in Queues : slot'[p] \in [Indices(p) -> Stored]
  BY DEF RingsTyped, RemoveHead, Stored
<1>5. \A p \in Queues : head'[p] \in Indices(p) /\ tail'[p] \in Indices(p)
  BY <1>1 DEF RingsTyped, RemoveHead
<1> QED
  BY <1>3, <1>4, <1>5 DEF RingsTyped, Indices, Storage

-------------------------------------------------------------------------------
(* The call stack.                                                         *)

LEMMA TopTyped ==
  ASSUME stack \in Seq(Frame), stack # <<>>
  PROVE  Len(stack) \in 1 .. Len(stack) /\ Top \in Frame
BY DEF Top

LEMMA WithTopTyped ==
  ASSUME stack \in Seq(Frame), stack # <<>>, NEW f \in Frame
  PROVE  WithTop(f) \in Seq(Frame) /\ Len(WithTop(f)) = Len(stack)
BY DEF WithTop

LEMMA BelowTyped ==
  ASSUME stack \in Seq(Frame), stack # <<>>
  PROVE  /\ Below \in Seq(Frame) /\ Len(Below) = Len(stack) - 1
         /\ \A i \in 1 .. Len(Below) : Below[i] = stack[i]
<1>1. Len(stack) \in Nat /\ Len(stack) # 0
  OBVIOUS
<1>2. \A i \in 1 .. Len(stack) - 1 : stack[i] \in Frame
  BY <1>1
<1>3. Below = [i \in 1 .. Len(stack) - 1 |-> stack[i]]
  BY <1>1 DEF Below
<1> QED
  BY <1>1, <1>2, <1>3

LEMMA CallCounted ==
  ASSUME NEW f \in Frame, f.calls < MaxCalls
  PROVE  [f EXCEPT !.calls = @ + 1] \in Frame
<1>1. f.calls + 1 \in 0 .. MaxCalls
  BY QueuesAssumption DEF Frame
<1> QED
  BY <1>1 DEF Frame

LEMMA CalledTyped ==
  ASSUME stack \in Seq(Frame), NEW call, MayCall(call)
  PROVE  Called \in Seq(Frame) /\ Len(Called) = Len(stack)
<1>1. CASE stack = <<>>
  BY <1>1 DEF Called
<1>2. CASE stack # <<>>
  <2>1. Top \in Frame /\ Top.calls < MaxCalls
    BY <1>2, TopTyped DEF MayCall
  <2>2. [Top EXCEPT !.calls = @ + 1] \in Frame
    BY <2>1, CallCounted
  <2> QED
    BY <1>2, <2>2, WithTopTyped DEF Called
<1> QED
  BY <1>1, <1>2

LEMMA PushTyped ==
  ASSUME stack \in Seq(Frame), NEW call, MayCall(call), NEW f \in Frame, Push(f)
  PROVE  stack' \in Seq(Frame)
BY CalledTyped DEF Push

LEMMA TickLimitTyped ==
  ASSUME RingsTyped, NEW q \in Queues, NEW idle \in BOOLEAN
  PROVE  TickLimit(q, idle) \in Byte
<1>1. count[q] \in 0 .. 255 /\ DrainPerTick[q] \in 0 .. 255 /\ Capacity[q] \in 0 .. 255
  BY QueuesAssumption DEF RingsTyped, Byte
<1>2. ASSUME NEW n \in 0 .. 255, NEW b \in 0 .. 255, NEW c \in 0 .. 255
      PROVE  ResolveDrainLimit(n, b, c) \in 0 .. 255
  <2>1. RaisedLimit(n, b, c) \in 0 .. 255
    <3>1. U8(b + n \div 2) \in 0 .. 255
      BY DEF U8
    <3> QED
      BY <3>1 DEF RaisedLimit
  <2> QED
    BY <2>1 DEF ResolveDrainLimit, AtMost
<1>3. ASSUME NEW n \in 0 .. 255, NEW b \in 0 .. 255, NEW c \in 0 .. 255
      PROVE  ResolveIdleDrainLimit(n, b, c) \in 0 .. 255
  <2> DEFINE product == b * IdleMultiplier
  <2>1. product \in Nat
    BY DrainLimitAssumption
  <2> HIDE DEF product
  <2>2. AtMost(n, AtMost(IF c > 0 THEN AtMost(AtLeast(product, b), c) ELSE AtLeast(product, b), 255))
          \in 0 .. 255
    BY <2>1 DEF AtMost, AtLeast
  <2> QED
    BY <2>2 DEF ResolveIdleDrainLimit, product
<1> QED
  BY <1>1, <1>2, <1>3 DEF TickLimit, Byte

LEMMA DrainFrameTyped ==
  ASSUME NEW q \in Queues, NEW limit \in Byte, NEW rest \in Rests, NEW idle \in BOOLEAN
  PROVE  DrainFrame(q, limit, rest, idle) \in Frame
BY QueuesAssumption DEF DrainFrame, Frame, Byte

LEMMA IterationTyped ==
  ASSUME NEW f \in Frame, NEW entered \in BOOLEAN, NEW n \in Byte
  PROVE  [f EXCEPT !.inHandler = entered, !.drained = n] \in Frame
BY DEF Frame

LEMMA ReturnTyped ==
  ASSUME NEW f \in Frame
  PROVE  [f EXCEPT !.inHandler = FALSE, !.calls = 0] \in Frame
<1>1. 0 \in 0 .. MaxCalls
  BY QueuesAssumption
<1> QED
  BY <1>1 DEF Frame

LEMMA RestTyped ==
  ASSUME NEW r \in Rests, r # <<>>
  PROVE  Head(r) \in Queues /\ Tail(r) \in Rests
<1>1. CASE r = <<"work">>
  <2>1. Head(r) = "work" /\ Tail(r) = <<>>
    BY <1>1
  <2> QED
    BY <2>1 DEF Rests, Queues
<1>2. CASE r = <<"command", "work">>
  <2>1. Head(r) = "command" /\ Tail(r) = <<"work">>
    BY <1>2
  <2> QED
    BY <2>1 DEF Rests, Queues
<1> QED
  BY <1>1, <1>2 DEF Rests

LEMMA SignalFrameTyped ==
  ASSUME NEW kind \in {"store", "refuse"}, NEW q \in Queues, NEW m \in Stored
  PROVE  SignalFrame(kind, q, m) \in Frame
BY QueuesAssumption DEF SignalFrame, Frame, Byte, Rests, Stored

-------------------------------------------------------------------------------
(* Type correctness.                                                       *)

LEMMA TypeOKParts ==
  TypeOK <=> RingsTyped /\ stack \in Seq(Frame) /\ handed \in [Queues -> Stored]
BY DEF TypeOK, RingsTyped, Stored

LEMMA PublishTyped ==
  ASSUME TypeOK, NEW q \in Queues, NEW m \in Messages[q] \cup {NoMessage}, Publish(q, m)
  PROVE  TypeOK'
<1>1. RingsTyped /\ stack \in Seq(Frame) /\ handed \in [Queues -> Stored] /\ m \in Stored
  BY TypeOKParts DEF Stored, AllMessages
<1>2. CASE PublishCoalesced(q, m)
  BY <1>1, <1>2, CalledTyped DEF PublishCoalesced, PublishAllowed, TypeOK, RingsTyped, rings
<1>3. CASE PublishStored(q, m)
  <2>1. RingsTyped'
    BY <1>1, <1>3, StoreTyped DEF PublishStored
  <2>2. stack' \in Seq(Frame)
    BY <1>1, <1>3, CalledTyped DEF PublishStored, PublishAllowed
  <2> QED
    BY <1>1, <1>3, <2>1, <2>2, TypeOKParts DEF PublishStored, TypeOK, RingsTyped, Stored
<1>4. CASE PublishEvicts(q, m)
  <2>1. RingsTyped'
    <3>1. count[q] \in 0 .. 255
      BY <1>1, CountTyped
    <3>2. count[q] # 0
      BY <1>4, Zenon DEF PublishEvicts, Refused
    <3>3. count[q] > 0 /\ RemoveHead(q)
      BY <1>4, <3>1, <3>2 DEF PublishEvicts
    <3> QED
      BY <1>1, <3>3, RemoveHeadTyped
  <2>2. stack' \in Seq(Frame)
    BY <1>1, <1>4, PushTyped, SignalFrameTyped DEF PublishEvicts, PublishAllowed
  <2> QED
    BY <1>1, <1>4, <2>1, <2>2 DEF PublishEvicts, TypeOK, RingsTyped, Stored
<1>5. CASE PublishRefused(q, m)
  <2>1. stack' \in Seq(Frame)
    BY <1>1, <1>5, PushTyped, SignalFrameTyped DEF PublishRefused, PublishAllowed, Stored
  <2> QED
    BY <1>1, <1>5, <2>1 DEF PublishRefused, TypeOK, RingsTyped, Stored, rings, Indices, Storage
<1> QED
  BY <1>2, <1>3, <1>4, <1>5 DEF Publish

LEMMA KernelStepTyped ==
  ASSUME TypeOK, KernelStep
  PROVE  TypeOK'
<1>1. RingsTyped /\ stack \in Seq(Frame) /\ handed \in [Queues -> Stored] /\ stack # <<>>
  BY TypeOKParts DEF KernelStep, DrainOne, DrainNextQueue, DrainEnds, LoopRuns
<1>2. Top \in Frame
  BY <1>1, TopTyped
<1>3. CASE DrainOne
  <2> DEFINE q == Top.queue
             m == slot[q][head[q]]
             f == [Top EXCEPT !.inHandler = (m # NoMessage),
                              !.drained = IF Top.limit = 0 THEN 0 ELSE @ + 1]
  <2>1. q \in Queues /\ count[q] > 0 /\ RemoveHead(q)
    BY <1>2, <1>3 DEF DrainOne, Frame
  <2>2. RingsTyped'
    BY <1>1, <2>1, RemoveHeadTyped
  <2>3. f \in Frame
    <3> DEFINE n == IF Top.limit = 0 THEN 0 ELSE Top.drained + 1
    <3>1. Top.limit \in 0 .. 255 /\ Top.drained \in 0 .. 255
      BY <1>2 DEF Frame, Byte
    <3>2. Top.limit # 0 => ~(Top.drained >= Top.limit)
      BY <1>3, Zenon DEF DrainOne, LimitReached
    <3>3. n \in Byte /\ (m # NoMessage) \in BOOLEAN
      BY <3>1, <3>2 DEF Byte
    <3> HIDE DEF n
    <3>4. [Top EXCEPT !.inHandler = (m # NoMessage), !.drained = n] \in Frame
      BY <1>2, <3>3, IterationTyped
    <3> QED
      BY <3>4 DEF n
  <2>4. stack' \in Seq(Frame)
    BY <1>1, <1>3, <2>3, WithTopTyped DEF DrainOne
  <2>5. handed' \in [Queues -> Stored]
    <3>1. m \in Stored
      BY <1>1, <2>1 DEF RingsTyped
    <3> QED
      BY <1>1, <1>3, <2>1, <3>1 DEF DrainOne
  <2> QED
    BY <2>2, <2>4, <2>5 DEF TypeOK, RingsTyped, Stored
<1>4. CASE DrainNextQueue
  <2> DEFINE q == Head(Top.rest)
  <2>1. q \in Queues /\ Tail(Top.rest) \in Rests /\ Top.idle \in BOOLEAN
    <3>1. Top.rest \in Rests /\ Top.idle \in BOOLEAN /\ Top.rest # <<>>
      BY <1>2, <1>4 DEF DrainNextQueue, Frame
    <3> QED
      BY <3>1, RestTyped
  <2>2. DrainFrame(q, TickLimit(q, Top.idle), Tail(Top.rest), Top.idle) \in Frame
    BY <1>1, <2>1, TickLimitTyped, DrainFrameTyped
  <2>3. stack' \in Seq(Frame)
    BY <1>1, <1>4, <2>2, WithTopTyped DEF DrainNextQueue
  <2> QED
    BY <1>1, <1>4, <2>3 DEF DrainNextQueue, TypeOK, RingsTyped, Stored, rings, Indices, Storage
<1>5. CASE DrainEnds
  <2>1. stack' \in Seq(Frame)
    BY <1>1, <1>5, BelowTyped DEF DrainEnds
  <2> QED
    BY <1>1, <1>5, <2>1 DEF DrainEnds, TypeOK, RingsTyped, Stored, rings, Indices, Storage
<1> QED
  BY <1>3, <1>4, <1>5 DEF KernelStep

LEMMA HandlerReturnsTyped ==
  ASSUME TypeOK, HandlerReturns
  PROVE  TypeOK'
<1>1. RingsTyped /\ stack \in Seq(Frame) /\ handed \in [Queues -> Stored] /\ stack # <<>>
  BY TypeOKParts DEF HandlerReturns, StoreAfterDrop, ReturnToCaller
<1>2. Top \in Frame /\ Below \in Seq(Frame)
  BY <1>1, TopTyped, BelowTyped
<1>3. CASE StoreAfterDrop
  <2>1. Top.queue \in Queues /\ Top.message \in Stored /\ Store(Top.queue, Top.message)
    BY <1>2, <1>3 DEF StoreAfterDrop, Frame, Stored
  <2>2. RingsTyped'
    BY <1>1, <2>1, StoreTyped
  <2> QED
    BY <1>1, <1>2, <1>3, <2>2 DEF StoreAfterDrop, TypeOK, RingsTyped, Stored
<1>4. CASE ReturnToCaller
  <2>1. [Top EXCEPT !.inHandler = FALSE, !.calls = 0] \in Frame
    BY <1>2, ReturnTyped
  <2>2. stack' \in Seq(Frame)
    BY <1>1, <1>2, <1>4, <2>1, WithTopTyped DEF ReturnToCaller
  <2> QED
    BY <1>1, <1>4, <2>2 DEF ReturnToCaller, TypeOK, RingsTyped, Stored, rings, Indices, Storage
<1> QED
  BY <1>3, <1>4 DEF HandlerReturns

LEMMA FreshRings ==
  ASSUME NEW q \in Queues
  PROVE  0 \in Indices(q) /\ 0 \in Byte
BY StorageSize DEF Indices, Byte

\* Every ring index stays in its ring, every count, drain limit and drain
\* counter in its uint8_t, and every frame of the call stack well formed, in
\* every build and for every nesting of publications, drains and handlers.
THEOREM TypeCorrect == Spec => []TypeOK
<1>1. Init => TypeOK
  BY FreshRings DEF Init, TypeOK
<1>2. TypeOK /\ [Next]_vars => TypeOK'
  <2> SUFFICES ASSUME TypeOK, [Next]_vars PROVE TypeOK'
    OBVIOUS
  <2>1. RingsTyped /\ stack \in Seq(Frame) /\ handed \in [Queues -> Stored]
    BY TypeOKParts
  <2>2. ASSUME NEW q \in Queues, NEW m \in Messages[q] \cup {NoMessage}, Publish(q, m)
        PROVE  TypeOK'
    BY <2>2, PublishTyped
  <2>3. ASSUME NEW q \in Queues, Flush(q)
        PROVE  TypeOK'
    <3>1. DrainFrame(q, 0, <<>>, FALSE) \in Frame
      <4>1. 0 \in Byte /\ <<>> \in Rests /\ FALSE \in BOOLEAN
        BY DEF Byte, Rests
      <4> QED
        BY <2>3, <4>1, DrainFrameTyped
    <3>2. stack' \in Seq(Frame)
      BY <2>1, <2>3, <3>1, PushTyped DEF Flush
    <3> QED
      BY <2>1, <2>3, <3>2 DEF Flush, TypeOK, RingsTyped, Stored, rings, Indices, Storage
  <2>4. ASSUME NEW idle \in BOOLEAN, DrainDeferredQueues(idle)
        PROVE  TypeOK'
    <3>1. "event" \in Queues /\ <<"command", "work">> \in Rests
      BY DEF Queues, Rests
    <3>2. DrainFrame("event", TickLimit("event", idle), <<"command", "work">>, idle) \in Frame
      BY <2>1, <3>1, TickLimitTyped, DrainFrameTyped
    <3>3. stack' \in Seq(Frame)
      BY <2>1, <2>4, <3>2, PushTyped DEF DrainDeferredQueues
    <3> QED
      BY <2>1, <2>4, <3>3 DEF DrainDeferredQueues, TypeOK, RingsTyped, Stored, rings, Indices, Storage
  <2>5. CASE KernelStep
    BY <2>5, KernelStepTyped
  <2>6. CASE HandlerReturns
    BY <2>6, HandlerReturnsTyped
  <2>7. CASE Reset
    <3>1. stack' \in Seq(Frame)
      BY <2>1, <2>7, CalledTyped DEF Reset
    <3> QED
      BY <2>1, <2>7, <3>1, FreshRings DEF Reset, TypeOK, Stored, Indices, Storage
  <2>8. CASE UNCHANGED vars
    BY <2>1, <2>8 DEF vars, TypeOK, RingsTyped, Stored, Indices, Storage
  <2> QED
    BY <2>2, <2>3, <2>4, <2>5, <2>6, <2>7, <2>8 DEF Next
<1> QED
  BY <1>1, <1>2, PTL DEF Spec

-------------------------------------------------------------------------------
(* Coherence of the rings.                                                 *)

CoherentIn(q) == Bounded(q) /\ TailFollows(q) /\ SlotsMatch(q)

\* The window of queue q, in the terms of the lemmas about indices.
LEMMA WindowIs ==
  ASSUME NEW q \in Queues, NEW i \in Indices(q)
  PROVE  InWindow(q, i) <=> Within(Storage(q), head[q], count[q], i)
BY DEF InWindow, Within

\* What storing a message does to the numbers: S slots, c of them used at most,
\* n entries from h on.
LEMMA GrowthArithmetic ==
  ASSUME NEW S \in 1 .. 255, NEW c \in 0 .. S, NEW h \in 0 .. S - 1, NEW n \in 0 .. 255,
         n < c
  PROVE  /\ n \in 0 .. S - 1 /\ U8(n + 1) = n + 1 /\ n + 1 <= c
         /\ Successor(S, Reduced(S, h + n)) = Reduced(S, h + (n + 1))
BY DEF U8, Successor, Reduced

\* What removing the head does to them.
LEMMA ShrinkArithmetic ==
  ASSUME NEW S \in 1 .. 255, NEW c \in 0 .. S, NEW h \in 0 .. S - 1, NEW n \in 0 .. 255,
         n > 0, n <= c
  PROVE  /\ n \in 1 .. S /\ n - 1 <= c
         /\ Reduced(S, h + n) = Reduced(S, Successor(S, h) + (n - 1))
BY DEF Successor, Reduced

\* A coherent ring in these terms.
LEMMA CoherentNumbers ==
  ASSUME RingsTyped, RingsCoherent, NEW q \in Queues
  PROVE  /\ Storage(q) \in 1 .. 255 /\ Capacity[q] \in 0 .. Storage(q)
         /\ head[q] \in 0 .. Storage(q) - 1 /\ count[q] \in 0 .. 255
         /\ count[q] <= Capacity[q]
         /\ tail[q] = Reduced(Storage(q), head[q] + count[q])
         /\ \A i \in Indices(q) :
              slot[q][i] # NoMessage <=> Within(Storage(q), head[q], count[q], i)
<1>1. Bounded(q) /\ TailFollows(q) /\ SlotsMatch(q)
  BY DEF RingsCoherent
<1>2. \A i \in Indices(q) : InWindow(q, i) <=> Within(Storage(q), head[q], count[q], i)
  BY WindowIs
<1> QED
  BY <1>1, <1>2, StorageSize, CountTyped
  DEF RingsTyped, Bounded, TailFollows, Wrapped, Reduced, SlotsMatch, Indices

\* The converse, of the next state.
LEMMA NumbersCoherent ==
  ASSUME NEW q \in Queues,
         count'[q] <= Capacity[q],
         tail'[q] = Reduced(Storage(q), head'[q] + count'[q]),
         \A i \in Indices(q) :
           slot'[q][i] # NoMessage <=> Within(Storage(q), head'[q], count'[q], i)
  PROVE  CoherentIn(q)'
<1>1. Bounded(q)'
  BY DEF Bounded
<1>2. TailFollows(q)'
  BY DEF TailFollows, Wrapped, Reduced, Storage
<1>3. SlotsMatch(q)'
  BY DEF SlotsMatch, InWindow, Within, Indices, Storage
<1> QED
  BY <1>1, <1>2, <1>3 DEF CoherentIn

\* A ring that does not change stays coherent.
LEMMA OtherRing ==
  ASSUME NEW q \in Queues, CoherentIn(q),
         head'[q] = head[q], tail'[q] = tail[q], count'[q] = count[q], slot'[q] = slot[q]
  PROVE  CoherentIn(q)'
BY DEF CoherentIn, Bounded, TailFollows, Wrapped, SlotsMatch, InWindow, Indices, Storage

\* A message stored into a ring with room keeps it coherent.
LEMMA StoreCoherent ==
  ASSUME RingsTyped, RingsCoherent, NEW q \in Queues, NEW m, m # NoMessage,
         count[q] < Capacity[q], Store(q, m)
  PROVE  RingsCoherent'
<1>1. ASSUME NEW p \in Queues, p # q
      PROVE  CoherentIn(p)'
  <2>1. head'[p] = head[p] /\ tail'[p] = tail[p] /\ count'[p] = count[p] /\ slot'[p] = slot[p]
    BY <1>1 DEF Store, RingsTyped
  <2>2. CoherentIn(p)
    BY DEF RingsCoherent, CoherentIn
  <2> QED
    BY <2>1, <2>2, OtherRing, Zenon
<1>2. CoherentIn(q)'
  <2> DEFINE S == Storage(q)
             c == Capacity[q]
             h == head[q]
             n == count[q]
             t == tail[q]
  <2>1. /\ S \in 1 .. 255 /\ c \in 0 .. S /\ h \in 0 .. S - 1 /\ n \in 0 .. 255 /\ n < c
        /\ t = Reduced(S, h + n) /\ t \in Indices(q)
        /\ \A i \in Indices(q) : slot[q][i] # NoMessage <=> Within(S, h, n, i)
    BY CoherentNumbers, Zenon DEF RingsTyped
  <2>2. /\ head'[q] = h
        /\ count'[q] = U8(n + 1)
        /\ tail'[q] = NextIndex(q, t)
        /\ \A i \in Indices(q) : slot'[q][i] = IF i = t THEN m ELSE slot[q][i]
    BY DEF Store, RingsTyped
  <2>3. NextIndex(q, t) = Successor(S, t)
    BY <2>1, NextIndexValue, Zenon DEF Successor
  <2>4. Indices(q) = 0 .. S - 1
    BY DEF Indices
  <2> HIDE DEF S, c, h, n, t
  <2>5. n \in 0 .. S - 1 /\ U8(n + 1) = n + 1 /\ n + 1 <= c
        /\ Successor(S, Reduced(S, h + n)) = Reduced(S, h + (n + 1))
    BY <2>1, GrowthArithmetic
  <2>6. \A i \in Indices(q) : Within(S, h, n + 1, i) <=> Within(S, h, n, i) \/ i = t
    BY <2>1, <2>4, <2>5, WindowGrows
  <2>7. \A i \in Indices(q) : slot'[q][i] # NoMessage <=> Within(S, h, n + 1, i)
    BY <2>1, <2>2, <2>6
  <2>8. tail'[q] = Reduced(S, h + (n + 1))
    BY <2>1, <2>2, <2>3, <2>5
  <2> QED
    BY <2>2, <2>5, <2>7, <2>8, NumbersCoherent DEF S, c
<1> QED
  BY <1>1, <1>2 DEF RingsCoherent, CoherentIn

\* Removing the head of a ring that is not empty keeps it coherent.
LEMMA RemoveHeadCoherent ==
  ASSUME RingsTyped, RingsCoherent, NEW q \in Queues, count[q] > 0, RemoveHead(q)
  PROVE  RingsCoherent'
<1>1. ASSUME NEW p \in Queues, p # q
      PROVE  CoherentIn(p)'
  <2>1. head'[p] = head[p] /\ tail'[p] = tail[p] /\ count'[p] = count[p] /\ slot'[p] = slot[p]
    BY <1>1 DEF RemoveHead, RingsTyped
  <2>2. CoherentIn(p)
    BY DEF RingsCoherent, CoherentIn
  <2> QED
    BY <2>1, <2>2, OtherRing, Zenon
<1>2. CoherentIn(q)'
  <2> DEFINE S == Storage(q)
             c == Capacity[q]
             h == head[q]
             n == count[q]
             t == tail[q]
  <2>1. /\ S \in 1 .. 255 /\ c \in 0 .. S /\ h \in 0 .. S - 1 /\ n \in 0 .. 255
        /\ n > 0 /\ n <= c
        /\ t = Reduced(S, h + n) /\ h \in Indices(q)
        /\ \A i \in Indices(q) : slot[q][i] # NoMessage <=> Within(S, h, n, i)
    BY CoherentNumbers, Zenon DEF RingsTyped
  <2>2. /\ head'[q] = NextIndex(q, h)
        /\ count'[q] = n - 1
        /\ tail'[q] = t
        /\ \A i \in Indices(q) : slot'[q][i] = IF i = h THEN NoMessage ELSE slot[q][i]
    BY DEF RemoveHead, RingsTyped
  <2>3. NextIndex(q, h) = Successor(S, h)
    BY <2>1, NextIndexValue, Zenon DEF Successor
  <2>4. Indices(q) = 0 .. S - 1
    BY DEF Indices
  <2> HIDE DEF S, c, h, n, t
  <2>5. n \in 1 .. S /\ n - 1 <= c
        /\ Reduced(S, h + n) = Reduced(S, Successor(S, h) + (n - 1))
    BY <2>1, ShrinkArithmetic
  <2>6. \A i \in Indices(q) :
          Within(S, Successor(S, h), n - 1, i) <=> Within(S, h, n, i) /\ i # h
    BY <2>1, <2>4, <2>5, WindowShrinks
  <2>7. \A i \in Indices(q) :
          slot'[q][i] # NoMessage <=> Within(S, Successor(S, h), n - 1, i)
    BY <2>1, <2>2, <2>6
  <2>8. tail'[q] = Reduced(S, Successor(S, h) + (n - 1))
    BY <2>1, <2>2, <2>5
  <2> QED
    BY <2>2, <2>3, <2>5, <2>7, <2>8, NumbersCoherent DEF S, c
<1> QED
  BY <1>1, <1>2 DEF RingsCoherent, CoherentIn

LEMMA RingsUnchanged ==
  ASSUME RingsCoherent, UNCHANGED rings
  PROVE  RingsCoherent'
BY DEF RingsCoherent, rings, Bounded, TailFollows, Wrapped, SlotsMatch, InWindow, Indices, Storage

-------------------------------------------------------------------------------
(* Enqueues suspended in their drop signals.                               *)

\* The enqueues suspended in stack s are suspended in the current stack.
Keeps(s) ==
  \A i \in 1 .. Len(s) :
    s[i].kind = "store" =>
      /\ i \in 1 .. Len(stack)
      /\ stack[i].kind = "store"
      /\ stack[i].queue = s[i].queue
      /\ stack[i].message = s[i].message

LEMMA WithTopKeeps ==
  ASSUME stack \in Seq(Frame), stack # <<>>, NEW f,
         f.kind = "store" => f.kind = Top.kind /\ f.queue = Top.queue /\ f.message = Top.message
  PROVE  Keeps(WithTop(f))
BY DEF Keeps, WithTop, Top

LEMMA CalledKeeps ==
  ASSUME stack \in Seq(Frame)
  PROVE  Keeps(Called)
<1>1. CASE stack = <<>>
  BY <1>1 DEF Called, Keeps
<1>2. CASE stack # <<>>
  <2> DEFINE f == [Top EXCEPT !.calls = @ + 1]
  <2>1. f.kind = Top.kind /\ f.queue = Top.queue /\ f.message = Top.message
    BY <1>2, TopTyped DEF Frame
  <2> QED
    BY <1>2, <2>1, WithTopKeeps DEF Called
<1> QED
  BY <1>1, <1>2

LEMMA BelowKeeps ==
  ASSUME stack \in Seq(Frame), stack # <<>>
  PROVE  Keeps(Below)
BY BelowTyped DEF Keeps

LEMMA PushKeeps ==
  ASSUME stack \in Seq(Frame), NEW call, MayCall(call), NEW f, f.kind # "store", Push(f)
  PROVE  Keeps(stack')
<1>1. Called \in Seq(Frame) /\ Keeps(Called) /\ stack' = Append(Called, f)
  BY CalledTyped, CalledKeeps DEF Push
<1>2. \A i \in 1 .. Len(Append(Called, f)) :
        Append(Called, f)[i] = IF i \in 1 .. Len(Called) THEN Called[i] ELSE f
  BY <1>1
<1> QED
  BY <1>1, <1>2 DEF Keeps

\* The part of the invariant about suspended enqueues survives a step that
\* suspends no other, and stores only where none is suspended.
LEMMA RoomStays ==
  ASSUME RingsTyped, stack \in Seq(Frame), RoomKept, StoresKnown,
         count' \in [Queues -> Byte], Keeps(stack'),
         \A q \in Queues : count'[q] <= count[q] \/ \A i \in 1 .. Len(stack') :
                              stack'[i].kind = "store" => stack'[i].queue # q
  PROVE  RoomKept' /\ StoresKnown'
<1>1. StoresKnown'
  BY DEF StoresKnown, Keeps
<1>2. ASSUME NEW q \in Queues, NEW i \in 1 .. Len(stack'), StoreFrame(i, q)'
      PROVE  /\ count'[q] < Capacity[q]
             /\ \A j \in 1 .. Len(stack') : StoreFrame(j, q)' => i = j
  <2>1. stack'[i].kind = "store" /\ stack'[i].queue = q
    BY <1>2 DEF StoreFrame
  <2>2. i \in 1 .. Len(stack) /\ StoreFrame(i, q)
    BY <2>1 DEF Keeps, StoreFrame
  <2>3. /\ count[q] < Capacity[q]
        /\ \A j \in 1 .. Len(stack) : StoreFrame(j, q) => i = j
    BY <2>2 DEF RoomKept
  <2>4. count'[q] < Capacity[q]
    <3> DEFINE new == count'[q]
               old == count[q]
               room == Capacity[q]
    <3>1. new <= old /\ old < room
      BY <2>1, <2>3
    <3>2. old \in 0 .. 255 /\ new \in 0 .. 255 /\ room \in 0 .. 255
      BY QueuesAssumption, CountTyped DEF Byte
    <3> HIDE DEF new, old, room
    <3>3. new < room
      BY <3>1, <3>2
    <3> QED
      BY <3>3 DEF new, room
  <2>5. ASSUME NEW j \in 1 .. Len(stack'), StoreFrame(j, q)'
        PROVE  i = j
    <3>1. j \in 1 .. Len(stack) /\ StoreFrame(j, q)
      BY <2>5 DEF Keeps, StoreFrame
    <3> QED
      BY <2>3, <3>1
  <2> QED
    BY <2>4, <2>5
<1> QED
  BY <1>1, <1>2 DEF RoomKept

-------------------------------------------------------------------------------
(* The invariant.                                                          *)

IInv == TypeOK /\ RingsCoherent /\ RoomKept /\ StoresKnown

LEMMA IInvParts ==
  ASSUME IInv
  PROVE  RingsTyped /\ stack \in Seq(Frame) /\ RingsCoherent /\ RoomKept /\ StoresKnown
BY TypeOKParts DEF IInv

\* A step that leaves the rings alone and suspends no other enqueue.
LEMMA StackStep ==
  ASSUME IInv, TypeOK', UNCHANGED rings, Keeps(stack')
  PROVE  IInv'
<1>1. RingsTyped /\ stack \in Seq(Frame) /\ RingsCoherent /\ RoomKept /\ StoresKnown
  BY IInvParts
<1>2. count' = count /\ count \in [Queues -> 0 .. 255]
  BY <1>1 DEF rings, RingsTyped, Byte
<1>3. \A q \in Queues : count'[q] <= count[q]
  BY <1>2
<1>4. RoomKept' /\ StoresKnown'
  BY <1>1, <1>3, RoomStays DEF TypeOK
<1>5. RingsCoherent'
  BY <1>1, RingsUnchanged
<1> QED
  BY <1>4, <1>5 DEF IInv

\* A step that removes the head of a ring and suspends no other enqueue.
LEMMA RemovalStep ==
  ASSUME IInv, TypeOK', NEW q \in Queues, count[q] > 0, RemoveHead(q), Keeps(stack')
  PROVE  IInv'
<1>1. RingsTyped /\ stack \in Seq(Frame) /\ RingsCoherent /\ RoomKept /\ StoresKnown
  BY IInvParts
<1>2. count \in [Queues -> 0 .. 255] /\ count' = [count EXCEPT ![q] = @ - 1]
  BY <1>1 DEF RemoveHead, RingsTyped, Byte
<1>3. \A p \in Queues : count'[p] <= count[p]
  BY <1>2
<1>4. RoomKept' /\ StoresKnown'
  BY <1>1, <1>3, RoomStays DEF TypeOK
<1>5. RingsCoherent'
  BY <1>1, RemoveHeadCoherent
<1> QED
  BY <1>4, <1>5 DEF IInv

\* A step that stores a message where no other enqueue is suspended.
LEMMA StoreStep ==
  ASSUME IInv, TypeOK', NEW q \in Queues, NEW m, m # NoMessage, count[q] < Capacity[q],
         Store(q, m), Keeps(stack'),
         \A i \in 1 .. Len(stack') : stack'[i].kind = "store" => stack'[i].queue # q
  PROVE  IInv'
<1>1. RingsTyped /\ stack \in Seq(Frame) /\ RingsCoherent /\ RoomKept /\ StoresKnown
  BY IInvParts
<1>2. count \in [Queues -> 0 .. 255] /\ \A p \in Queues : p # q => count'[p] = count[p]
  BY <1>1 DEF Store, RingsTyped, Byte
<1>3. ASSUME NEW p \in Queues, p # q
      PROVE  count'[p] <= count[p]
  <2> DEFINE new == count'[p]
             old == count[p]
  <2>1. old \in 0 .. 255 /\ new = old
    BY <1>1, <1>2, <1>3, CountTyped
  <2> HIDE DEF new, old
  <2>2. new <= old
    BY <2>1
  <2> QED
    BY <2>2 DEF new, old
<1>4. RoomKept' /\ StoresKnown'
  BY <1>1, <1>3, RoomStays DEF TypeOK
<1>5. RingsCoherent'
  BY <1>1, StoreCoherent
<1> QED
  BY <1>4, <1>5 DEF IInv

\* Empty rings are coherent.
LEMMA EmptyCoherent ==
  ASSUME NEW q \in Queues
  PROVE  /\ 0 <= Capacity[q] /\ 0 = Reduced(Storage(q), 0 + 0)
         /\ \A i \in Indices(q) : ~Within(Storage(q), 0, 0, i)
BY StorageSize DEF Reduced, Within, Indices

LEMMA ResetStep ==
  ASSUME IInv, TypeOK', Reset
  PROVE  IInv'
<1>1. RingsTyped /\ stack \in Seq(Frame) /\ RingsCoherent /\ RoomKept /\ StoresKnown
  BY IInvParts
<1>2. Keeps(stack')
  BY <1>1, CalledKeeps DEF Reset
<1>3. ASSUME NEW q \in Queues
      PROVE  count'[q] <= count[q]
  <2> DEFINE old == count[q]
  <2>1. count'[q] = 0 /\ old \in 0 .. 255
    BY <1>1, CountTyped DEF Reset
  <2> HIDE DEF old
  <2>2. 0 <= old
    BY <2>1
  <2> QED
    BY <2>1, <2>2 DEF old
<1>4. RoomKept' /\ StoresKnown'
  BY <1>1, <1>2, <1>3, RoomStays DEF TypeOK
<1>5. ASSUME NEW q \in Queues
      PROVE  CoherentIn(q)'
  <2>1. /\ head'[q] = 0 /\ tail'[q] = 0 /\ count'[q] = 0
        /\ \A i \in Indices(q) : slot'[q][i] = NoMessage
    BY DEF Reset
  <2> QED
    BY <2>1, EmptyCoherent, NumbersCoherent
<1> QED
  BY <1>4, <1>5 DEF IInv, RingsCoherent, CoherentIn

LEMMA PublishStep ==
  ASSUME ~SignalReentry, IInv, TypeOK', NEW q \in Queues,
         NEW m \in Messages[q] \cup {NoMessage}, Publish(q, m)
  PROVE  IInv'
<1>1. RingsTyped /\ stack \in Seq(Frame) /\ RingsCoherent /\ RoomKept /\ StoresKnown
  BY IInvParts
<1>2. CASE PublishCoalesced(q, m)
  BY <1>1, <1>2, CalledKeeps, StackStep DEF PublishCoalesced
<1>3. CASE PublishRefused(q, m)
  <2>1. SignalFrame("refuse", q, NoMessage).kind # "store"
    BY DEF SignalFrame
  <2>2. Keeps(stack')
    BY <1>1, <1>3, <2>1, PushKeeps DEF PublishRefused, PublishAllowed
  <2> QED
    BY <1>3, <2>2, StackStep DEF PublishRefused
<1>4. CASE PublishStored(q, m)
  <2>1. /\ m # NoMessage /\ count[q] < Capacity[q] /\ Store(q, m)
        /\ stack' = Called /\ ~Dropping(q)
    BY <1>4 DEF PublishStored, PublishAllowed
  <2>2. Keeps(stack')
    BY <1>1, <2>1, CalledKeeps
  <2>3. \A i \in 1 .. Len(stack') : stack'[i].kind = "store" => stack'[i].queue # q
    BY <2>1, <2>2 DEF Keeps, Dropping
  <2> QED
    BY <2>1, <2>2, <2>3, StoreStep
<1>5. CASE PublishEvicts(q, m)
  <2> DEFINE f == SignalFrame("store", q, m)
  <2>1. /\ ~Dropping(q) /\ m # NoMessage /\ RemoveHead(q) /\ Push(f)
        /\ MayCall("publish")
    BY <1>5 DEF PublishEvicts, PublishAllowed, Refused
  <2>2. count[q] \in 0 .. 255 /\ count[q] # 0
    BY <1>1, <1>5, CountTyped, Zenon DEF PublishEvicts, Refused
  <2>3. count[q] > 0
    BY <2>2
  <2>4. RingsCoherent'
    BY <1>1, <2>1, <2>3, RemoveHeadCoherent
  <2>5. f.kind = "store" /\ f.queue = q /\ f.message = m
    BY DEF SignalFrame
  <2>6. Called \in Seq(Frame) /\ Keeps(Called) /\ stack' = Append(Called, f)
    BY <1>1, <2>1, CalledTyped, CalledKeeps DEF Push
  <2> HIDE DEF f
  <2>7. /\ Len(Called) \in Nat /\ Len(stack') = Len(Called) + 1
        /\ stack'[Len(Called) + 1] = f
        /\ \A i \in 1 .. Len(Called) : stack'[i] = Called[i]
    BY <2>6
  <2>8. \A i \in 1 .. Len(Called) :
          stack'[i].kind = "store" =>
            /\ StoreFrame(i, stack'[i].queue)
            /\ stack'[i].queue # q
            /\ stack'[i].message # NoMessage
    BY <1>1, <2>1, <2>6, <2>7 DEF Keeps, StoreFrame, Dropping, StoresKnown
  <2>9. StoresKnown'
    BY <2>1, <2>5, <2>7, <2>8 DEF StoresKnown
  <2>10. RoomKept'
    <3> SUFFICES ASSUME NEW p \in Queues, NEW i \in 1 .. Len(stack'), StoreFrame(i, p)'
                 PROVE  /\ count'[p] < Capacity[p]
                        /\ \A j \in 1 .. Len(stack') : StoreFrame(j, p)' => i = j
      BY DEF RoomKept
    <3>1. CASE p = q
      <4>1. count'[q] = count[q] - 1 /\ count[q] <= Capacity[q]
        BY <1>1, <2>1 DEF RemoveHead, RingsTyped, RingsCoherent, Bounded
      <4>2. count'[q] < Capacity[q]
        <5> DEFINE new == count'[q]
                   old == count[q]
                   room == Capacity[q]
        <5>1. new = old - 1 /\ old <= room
          BY <4>1
        <5>2. old \in 0 .. 255 /\ room \in 0 .. 255
          BY <2>2, QueuesAssumption DEF Byte
        <5> HIDE DEF new, old, room
        <5>3. new < room
          BY <5>1, <5>2
        <5> QED
          BY <5>3 DEF new, room
      <4>3. \A j \in 1 .. Len(stack') : StoreFrame(j, q)' => j = Len(Called) + 1
        BY <2>7, <2>8 DEF StoreFrame
      <4> QED
        BY <3>1, <4>2, <4>3
    <3>2. CASE p # q
      <4>1. \A j \in 1 .. Len(stack') : StoreFrame(j, p)' =>
              j \in 1 .. Len(Called) /\ StoreFrame(j, p) /\ j \in 1 .. Len(stack)
        BY <2>5, <2>6, <2>7, <2>8, <3>2 DEF StoreFrame, Keeps
      <4>2. count'[p] = count[p]
        BY <1>1, <2>1, <3>2 DEF RemoveHead, RingsTyped
      <4> QED
        BY <1>1, <4>1, <4>2 DEF RoomKept
    <3> QED
      BY <3>1, <3>2
  <2> QED
    BY <2>4, <2>9, <2>10 DEF IInv
<1> QED
  BY <1>2, <1>3, <1>4, <1>5 DEF Publish

LEMMA RingsInvariant ==
  ASSUME ~SignalReentry
  PROVE  Spec => []IInv
<1>1. Init => IInv
  <2> SUFFICES ASSUME Init PROVE IInv
    OBVIOUS
  <2>1. TypeOK
    BY FreshRings DEF Init, TypeOK
  <2>2. RoomKept /\ StoresKnown
    BY DEF Init, RoomKept, StoresKnown
  <2>3. RingsCoherent
    <3> SUFFICES ASSUME NEW q \in Queues PROVE CoherentIn(q)
      BY DEF RingsCoherent, CoherentIn
    <3>1. /\ head[q] = 0 /\ tail[q] = 0 /\ count[q] = 0
          /\ slot[q] = [i \in Indices(q) |-> NoMessage]
      BY DEF Init
    <3>2. Bounded(q)
      BY <3>1, EmptyCoherent DEF Bounded
    <3>3. TailFollows(q)
      BY <3>1, EmptyCoherent DEF TailFollows, Wrapped, Reduced
    <3>4. SlotsMatch(q)
      BY <3>1, EmptyCoherent, WindowIs DEF SlotsMatch
    <3> QED
      BY <3>2, <3>3, <3>4 DEF CoherentIn
  <2> QED
    BY <2>1, <2>2, <2>3 DEF IInv
<1>2. IInv /\ TypeOK' /\ [Next]_vars => IInv'
  <2> SUFFICES ASSUME IInv, TypeOK', [Next]_vars PROVE IInv'
    OBVIOUS
  <2>1. RingsTyped /\ stack \in Seq(Frame) /\ RingsCoherent /\ RoomKept /\ StoresKnown
    BY IInvParts
  <2>2. ASSUME NEW q \in Queues, NEW m \in Messages[q] \cup {NoMessage}, Publish(q, m)
        PROVE  IInv'
    BY <2>2, PublishStep
  <2>3. ASSUME NEW q \in Queues, Flush(q)
        PROVE  IInv'
    <3>1. DrainFrame(q, 0, <<>>, FALSE).kind # "store"
      BY DEF DrainFrame
    <3>2. Keeps(stack')
      BY <2>1, <2>3, <3>1, PushKeeps DEF Flush
    <3> QED
      BY <2>3, <3>2, StackStep DEF Flush
  <2>4. ASSUME NEW idle \in BOOLEAN, DrainDeferredQueues(idle)
        PROVE  IInv'
    <3>1. DrainFrame("event", TickLimit("event", idle), <<"command", "work">>, idle).kind # "store"
      BY DEF DrainFrame
    <3>2. Keeps(stack')
      BY <2>1, <2>4, <3>1, PushKeeps DEF DrainDeferredQueues
    <3> QED
      BY <2>4, <3>2, StackStep DEF DrainDeferredQueues
  <2>5. CASE DrainOne
    <3>1. stack # <<>> /\ Top \in Frame
      BY <2>1, <2>5, TopTyped DEF DrainOne, LoopRuns
    <3>2. Top.queue \in Queues /\ count[Top.queue] > 0 /\ RemoveHead(Top.queue)
      BY <2>5, <3>1 DEF DrainOne, Frame
    <3>3. Keeps(stack')
      BY <2>1, <2>5, <3>1, WithTopKeeps DEF DrainOne, Frame
    <3> QED
      BY <3>2, <3>3, RemovalStep
  <2>6. CASE DrainNextQueue
    <3>1. Keeps(stack')
      BY <2>1, <2>6, WithTopKeeps DEF DrainNextQueue, LoopRuns, DrainFrame
    <3> QED
      BY <2>6, <3>1, StackStep DEF DrainNextQueue
  <2>7. CASE DrainEnds
    <3>1. Keeps(stack')
      BY <2>1, <2>7, BelowKeeps DEF DrainEnds, LoopRuns
    <3> QED
      BY <2>7, <3>1, StackStep DEF DrainEnds
  <2>8. CASE StoreAfterDrop
    <3>1. stack # <<>> /\ Top \in Frame /\ Top.kind = "store" /\ stack' = Below
      BY <2>1, <2>8, TopTyped DEF StoreAfterDrop
    <3>2. /\ Len(stack) \in 1 .. Len(stack) /\ StoreFrame(Len(stack), Top.queue)
          /\ Top.queue \in Queues
      BY <2>1, <3>1, TopTyped DEF StoreFrame, Top, Frame
    <3>3. /\ count[Top.queue] < Capacity[Top.queue]
          /\ \A j \in 1 .. Len(stack) : StoreFrame(j, Top.queue) => Len(stack) = j
          /\ Top.message # NoMessage /\ Store(Top.queue, Top.message)
      BY <2>1, <2>8, <3>1, <3>2 DEF RoomKept, StoresKnown, StoreAfterDrop, Top
    <3>4. Keeps(stack')
      BY <2>1, <3>1, BelowKeeps
    <3>5. \A i \in 1 .. Len(stack') : stack'[i].kind = "store" => stack'[i].queue # Top.queue
      BY <2>1, <3>1, <3>3, BelowTyped DEF StoreFrame
    <3> QED
      BY <3>2, <3>3, <3>4, <3>5, StoreStep
  <2>9. CASE ReturnToCaller
    <3>1. stack # <<>> /\ Top \in Frame
      BY <2>1, <2>9, TopTyped DEF ReturnToCaller
    <3>2. Keeps(WithTop([Top EXCEPT !.inHandler = FALSE, !.calls = 0])) /\ Keeps(Below)
      BY <2>1, <3>1, WithTopKeeps, BelowKeeps DEF Frame
    <3> QED
      BY <2>9, <3>2, StackStep DEF ReturnToCaller
  <2>10. CASE Reset
    BY <2>10, ResetStep
  <2>11. CASE UNCHANGED vars
    <3>1. Keeps(stack')
      BY <2>11 DEF vars, Keeps
    <3> QED
      BY <2>11, <3>1, StackStep DEF vars, rings
  <2> QED
    BY <2>2, <2>3, <2>4, <2>5, <2>6, <2>7, <2>8, <2>9, <2>10, <2>11
    DEF Next, KernelStep, HandlerReturns
<1> QED
  BY <1>1, <1>2, TypeCorrect, PTL DEF Spec

\* The three rings stay coherent, and an enqueue suspended in a drop signal
\* finds its room when the handler returns: for every build, and any user code
\* whose drop-signal handlers do not publish into the queue that drops.
THEOREM RingsSafe ==
  ASSUME ~SignalReentry
  PROVE  Spec => [](RingsCoherent /\ RoomKept)
<1>1. IInv => RingsCoherent /\ RoomKept
  BY DEF IInv
<1> QED
  BY <1>1, RingsInvariant, PTL

-------------------------------------------------------------------------------
(* Coalescing.                                                             *)

\* The entry k behind the head, without the modulus.
LEMMA PositionIs ==
  ASSUME NEW S \in 1 .. 255, NEW h \in 0 .. S - 1, NEW n \in 0 .. S, NEW k \in 0 .. n - 1
  PROVE  /\ (h + k) % S = Reduced(S, h + k) /\ Reduced(S, h + k) \in 0 .. S - 1
         /\ Within(S, h, n, Reduced(S, h + k))
         /\ \A j \in 0 .. n - 1 : Reduced(S, h + j) = Reduced(S, h + k) => j = k
<1>1. (h + k) % S = Reduced(S, h + k)
  BY DEF Reduced
<1> QED
  BY <1>1 DEF Reduced, Within

\* Every index of the window is such an entry.
LEMMA PositionOf ==
  ASSUME NEW S \in 1 .. 255, NEW h \in 0 .. S - 1, NEW n \in 0 .. S, NEW i \in 0 .. S - 1,
         Within(S, h, n, i)
  PROVE  \E k \in 0 .. n - 1 : Reduced(S, h + k) = i
<1> DEFINE k == IF h <= i THEN i - h ELSE i + S - h
<1>1. k \in 0 .. n - 1 /\ Reduced(S, h + k) = i
  BY DEF Reduced, Within
<1> QED
  BY <1>1

\* No slot of queue q holds m.
Fresh(q, m) == \A i \in Indices(q) : slot[q][i] # m

\* NoDuplicates in terms of the slots, which a step changes one at a time: no
\* two slots in use are equal, nor equal to what a suspended enqueue will store.
Distinct ==
  Coalescing =>
    \A q \in Queues :
      /\ \A i, j \in Indices(q) :
           slot[q][i] # NoMessage /\ slot[q][i] = slot[q][j] => i = j
      /\ \A s \in 1 .. Len(stack) : StoreFrame(s, q) => Fresh(q, stack[s].message)

\* The pending messages are the slots of the window.
LEMMA PendingSlots ==
  ASSUME RingsTyped, RingsCoherent, NEW q \in Queues
  PROVE  /\ DOMAIN Pending(q) = 0 .. count[q] - 1
         /\ \A k \in 0 .. count[q] - 1 :
              /\ Pending(q)[k] = slot[q][Reduced(Storage(q), head[q] + k)]
              /\ Reduced(Storage(q), head[q] + k) \in Indices(q)
              /\ Pending(q)[k] # NoMessage
              /\ \A j \in 0 .. count[q] - 1 :
                   Reduced(Storage(q), head[q] + j) = Reduced(Storage(q), head[q] + k) => j = k
         /\ \A i \in Indices(q) : slot[q][i] # NoMessage =>
              \E k \in 0 .. count[q] - 1 : Pending(q)[k] = slot[q][i]
<1> DEFINE S == Storage(q)
           h == head[q]
           n == count[q]
<1>1. /\ S \in 1 .. 255 /\ h \in 0 .. S - 1 /\ Indices(q) = 0 .. S - 1
      /\ \A i \in Indices(q) : slot[q][i] # NoMessage <=> Within(S, h, n, i)
  BY CoherentNumbers, Zenon DEF Indices
<1>2. n \in 0 .. S
  <2> DEFINE c == Capacity[q]
  <2>1. c \in 0 .. S /\ n \in 0 .. 255 /\ n <= c
    BY CoherentNumbers, Zenon
  <2> HIDE DEF c, n, S
  <2> QED
    BY <1>1, <2>1
<1>3. Pending(q) = [k \in 0 .. n - 1 |-> slot[q][(h + k) % S]]
  BY DEF Pending
<1> HIDE DEF S, h, n
<1>4. ASSUME NEW k \in 0 .. n - 1
      PROVE  /\ Pending(q)[k] = slot[q][Reduced(S, h + k)]
             /\ Reduced(S, h + k) \in Indices(q)
             /\ Pending(q)[k] # NoMessage
             /\ \A j \in 0 .. n - 1 : Reduced(S, h + j) = Reduced(S, h + k) => j = k
  <2>1. /\ (h + k) % S = Reduced(S, h + k) /\ Reduced(S, h + k) \in 0 .. S - 1
        /\ Within(S, h, n, Reduced(S, h + k))
        /\ \A j \in 0 .. n - 1 : Reduced(S, h + j) = Reduced(S, h + k) => j = k
    BY <1>1, <1>2, PositionIs
  <2> QED
    BY <1>1, <1>3, <2>1
<1>5. ASSUME NEW i \in Indices(q), slot[q][i] # NoMessage
      PROVE  \E k \in 0 .. n - 1 : Pending(q)[k] = slot[q][i]
  <2>0. i \in 0 .. S - 1 /\ Within(S, h, n, i)
    BY <1>1, <1>5
  <2>1. PICK k \in 0 .. n - 1 : Reduced(S, h + k) = i
    BY <1>1, <1>2, <2>0, PositionOf
  <2> QED
    BY <1>4, <2>1
<1> QED
  BY <1>3, <1>4, <1>5 DEF S, h, n

\* A message that coalescing has not found is in no slot.
LEMMA NotFoundFresh ==
  ASSUME RingsTyped, RingsCoherent, NEW q \in Queues, NEW m,
         m # NoMessage, Coalescing, ~Coalesced(q, m)
  PROVE  Fresh(q, m)
<1>1. ~\E k \in 0 .. count[q] - 1 : Pending(q)[k] = m
  BY PendingSlots DEF Coalesced, Queued
<1> QED
  BY <1>1, PendingSlots DEF Fresh

LEMMA DistinctSuffices ==
  ASSUME RingsTyped, RingsCoherent, Distinct
  PROVE  NoDuplicates
<1> SUFFICES ASSUME Coalescing, NEW q \in Queues
             PROVE  /\ \A j, k \in 0 .. count[q] - 1 : Pending(q)[j] = Pending(q)[k] => j = k
                    /\ Owed(q) # NoMessage => ~Queued(q, Owed(q))
  BY DEF NoDuplicates
<1>1. /\ \A i, j \in Indices(q) :
           slot[q][i] # NoMessage /\ slot[q][i] = slot[q][j] => i = j
      /\ \A s \in 1 .. Len(stack) : StoreFrame(s, q) => Fresh(q, stack[s].message)
  BY DEF Distinct
<1>2. ASSUME NEW j \in 0 .. count[q] - 1, NEW k \in 0 .. count[q] - 1,
             Pending(q)[j] = Pending(q)[k]
      PROVE  j = k
  <2> DEFINE at(x) == Reduced(Storage(q), head[q] + x)
  <2>1. /\ Pending(q)[j] = slot[q][at(j)] /\ at(j) \in Indices(q) /\ Pending(q)[j] # NoMessage
        /\ Pending(q)[k] = slot[q][at(k)] /\ at(k) \in Indices(q)
        /\ at(j) = at(k) => j = k
    BY PendingSlots
  <2> HIDE DEF at
  <2> QED
    BY <1>1, <1>2, <2>1
<1>3. ASSUME Owed(q) # NoMessage
      PROVE  ~Queued(q, Owed(q))
  <2>1. PICK s \in 1 .. Len(stack) : StoreFrame(s, q) /\ Owed(q) = stack[s].message
    BY <1>3 DEF Owed, Dropping, StoreFrame
  <2>2. \A i \in Indices(q) : slot[q][i] # Owed(q)
    BY <1>1, <2>1 DEF Fresh
  <2>3. \A k \in 0 .. count[q] - 1 : \E i \in Indices(q) : Pending(q)[k] = slot[q][i]
    BY PendingSlots
  <2>4. DOMAIN Pending(q) = 0 .. count[q] - 1
    BY PendingSlots
  <2> QED
    BY <2>2, <2>3, <2>4, Zenon DEF Queued
<1> QED
  BY <1>2, <1>3

\* A step that only clears slots, and suspends no other enqueue.
LEMMA ClearingDistinct ==
  ASSUME Distinct, StoresKnown, Keeps(stack'),
         \A q \in Queues : \A i \in Indices(q) : slot'[q][i] \in {slot[q][i], NoMessage}
  PROVE  Distinct'
<1> SUFFICES ASSUME Coalescing, NEW q \in Queues
             PROVE  /\ \A i, j \in Indices(q) :
                         slot'[q][i] # NoMessage /\ slot'[q][i] = slot'[q][j] => i = j
                    /\ \A s \in 1 .. Len(stack') : StoreFrame(s, q)' =>
                         \A i \in Indices(q) : slot'[q][i] # stack'[s].message
  BY DEF Distinct, Fresh, Indices, Storage
<1>1. /\ \A i, j \in Indices(q) :
           slot[q][i] # NoMessage /\ slot[q][i] = slot[q][j] => i = j
      /\ \A s \in 1 .. Len(stack) : StoreFrame(s, q) => Fresh(q, stack[s].message)
  BY DEF Distinct
<1>2. \A i, j \in Indices(q) : slot'[q][i] # NoMessage /\ slot'[q][i] = slot'[q][j] => i = j
  BY <1>1
<1>3. ASSUME NEW s \in 1 .. Len(stack'), StoreFrame(s, q)', NEW i \in Indices(q)
      PROVE  slot'[q][i] # stack'[s].message
  <2>1. /\ s \in 1 .. Len(stack) /\ StoreFrame(s, q)
        /\ stack[s].message = stack'[s].message /\ stack[s].message # NoMessage
    BY <1>3 DEF Keeps, StoreFrame, StoresKnown
  <2> QED
    BY <1>1, <2>1 DEF Fresh
<1> QED
  BY <1>2, <1>3

\* A step that stores a fresh message where no enqueue remains suspended.
LEMMA StoringDistinct ==
  ASSUME RingsTyped, Distinct, Keeps(stack'), NEW q \in Queues, NEW m, Store(q, m),
         Coalescing => Fresh(q, m),
         \A i \in 1 .. Len(stack') : stack'[i].kind = "store" => stack'[i].queue # q
  PROVE  Distinct'
<1> SUFFICES ASSUME Coalescing, NEW p \in Queues
             PROVE  /\ \A i, j \in Indices(p) :
                         slot'[p][i] # NoMessage /\ slot'[p][i] = slot'[p][j] => i = j
                    /\ \A s \in 1 .. Len(stack') : StoreFrame(s, p)' =>
                         \A i \in Indices(p) : slot'[p][i] # stack'[s].message
  BY DEF Distinct, Fresh, Indices, Storage
<1>1. /\ \A i, j \in Indices(p) :
           slot[p][i] # NoMessage /\ slot[p][i] = slot[p][j] => i = j
      /\ \A s \in 1 .. Len(stack) : StoreFrame(s, p) => Fresh(p, stack[s].message)
  BY DEF Distinct
<1>2. CASE p = q
  <2>1. \A i \in Indices(q) : slot'[q][i] = IF i = tail[q] THEN m ELSE slot[q][i]
    BY DEF Store, RingsTyped
  <2>2. \A i \in Indices(q) : slot[q][i] # m
    BY DEF Fresh
  <2>3. \A s \in 1 .. Len(stack') : ~StoreFrame(s, q)'
    BY DEF StoreFrame
  <2> QED
    BY <1>1, <1>2, <2>1, <2>2, <2>3
<1>3. CASE p # q
  <2>1. slot'[p] = slot[p]
    BY <1>3 DEF Store, RingsTyped
  <2>2. ASSUME NEW s \in 1 .. Len(stack'), StoreFrame(s, p)', NEW i \in Indices(p)
        PROVE  slot'[p][i] # stack'[s].message
    <3>1. /\ s \in 1 .. Len(stack) /\ StoreFrame(s, p)
          /\ stack[s].message = stack'[s].message
      BY <2>2 DEF Keeps, StoreFrame
    <3> QED
      BY <1>1, <2>1, <3>1 DEF Fresh
  <2> QED
    BY <1>1, <2>1, <2>2
<1> QED
  BY <1>2, <1>3

\* Every action that publishes keeps the slots distinct: an enqueue has looked
\* for a duplicate, and until it stores nobody else publishes into its queue.
LEMMA PublishDistinct ==
  ASSUME ~SignalReentry, IInv, Distinct, NEW q \in Queues,
         NEW m \in Messages[q] \cup {NoMessage}, Publish(q, m)
  PROVE  Distinct'
<1>1. RingsTyped /\ stack \in Seq(Frame) /\ RingsCoherent /\ RoomKept /\ StoresKnown
  BY IInvParts
<1>2. CASE PublishCoalesced(q, m) \/ PublishRefused(q, m)
  <2>1. SignalFrame("refuse", q, NoMessage).kind # "store"
    BY DEF SignalFrame
  <2>2. Keeps(stack')
    BY <1>1, <1>2, <2>1, CalledKeeps, PushKeeps
    DEF PublishCoalesced, PublishRefused, PublishAllowed
  <2>3. slot' = slot
    BY <1>2 DEF PublishCoalesced, PublishRefused, rings
  <2> QED
    BY <1>1, <2>2, <2>3, ClearingDistinct
<1>3. CASE PublishStored(q, m)
  <2>1. /\ m # NoMessage /\ ~Coalesced(q, m) /\ Store(q, m)
        /\ stack' = Called /\ ~Dropping(q)
    BY <1>3 DEF PublishStored, PublishAllowed
  <2>2. Keeps(stack')
    BY <1>1, <2>1, CalledKeeps
  <2>3. \A i \in 1 .. Len(stack') : stack'[i].kind = "store" => stack'[i].queue # q
    BY <2>1, <2>2 DEF Keeps, Dropping
  <2>4. Coalescing => Fresh(q, m)
    BY <1>1, <2>1, NotFoundFresh
  <2> QED
    BY <1>1, <2>1, <2>2, <2>3, <2>4, StoringDistinct
<1>4. CASE PublishEvicts(q, m)
  <2> DEFINE f == SignalFrame("store", q, m)
  <2>1. /\ ~Dropping(q) /\ m # NoMessage /\ ~Coalesced(q, m) /\ RemoveHead(q) /\ Push(f)
    BY <1>4 DEF PublishEvicts, PublishAllowed, Refused
  <2>2. f.kind = "store" /\ f.queue = q /\ f.message = m
    BY DEF SignalFrame
  <2>3. Called \in Seq(Frame) /\ Keeps(Called) /\ stack' = Append(Called, f)
    BY <1>1, <2>1, CalledTyped, CalledKeeps, <1>4
    DEF Push, PublishEvicts, PublishAllowed
  <2>4. Coalescing => Fresh(q, m)
    BY <1>1, <2>1, NotFoundFresh
  <2> HIDE DEF f
  <2>5. /\ Len(Called) \in Nat /\ Len(stack') = Len(Called) + 1
        /\ stack'[Len(Called) + 1] = f
        /\ \A i \in 1 .. Len(Called) : stack'[i] = Called[i]
    BY <2>3
  <2>6. \A p \in Queues : \A i \in Indices(p) : slot'[p][i] \in {slot[p][i], NoMessage}
    BY <1>1, <2>1 DEF RemoveHead, RingsTyped
  <2> SUFFICES ASSUME Coalescing, NEW p \in Queues
               PROVE  /\ \A i, j \in Indices(p) :
                           slot'[p][i] # NoMessage /\ slot'[p][i] = slot'[p][j] => i = j
                      /\ \A s \in 1 .. Len(stack') : StoreFrame(s, p)' =>
                           \A i \in Indices(p) : slot'[p][i] # stack'[s].message
    BY DEF Distinct, Fresh, Indices, Storage
  <2>7. /\ \A i, j \in Indices(p) :
             slot[p][i] # NoMessage /\ slot[p][i] = slot[p][j] => i = j
        /\ \A s \in 1 .. Len(stack) : StoreFrame(s, p) => Fresh(p, stack[s].message)
    BY DEF Distinct
  <2>8. \A i, j \in Indices(p) : slot'[p][i] # NoMessage /\ slot'[p][i] = slot'[p][j] => i = j
    BY <2>6, <2>7
  <2>9. ASSUME NEW s \in 1 .. Len(stack'), StoreFrame(s, p)', NEW i \in Indices(p)
        PROVE  slot'[p][i] # stack'[s].message
    <3>1. CASE s = Len(Called) + 1
      <4>1. p = q /\ stack'[s].message = m
        BY <2>2, <2>5, <2>9, <3>1 DEF StoreFrame
      <4> QED
        BY <2>1, <2>4, <2>6, <4>1 DEF Fresh
    <3>2. CASE s # Len(Called) + 1
      <4>1. s \in 1 .. Len(Called) /\ stack'[s] = Called[s]
        BY <2>5, <3>2
      <4>2. /\ s \in 1 .. Len(stack) /\ StoreFrame(s, p)
            /\ stack[s].message = stack'[s].message /\ stack[s].message # NoMessage
        BY <1>1, <2>3, <2>9, <4>1 DEF Keeps, StoreFrame, StoresKnown
      <4> QED
        BY <2>6, <2>7, <4>2 DEF Fresh
    <3> QED
      BY <3>1, <3>2
  <2> QED
    BY <2>8, <2>9
<1> QED
  BY <1>2, <1>3, <1>4 DEF Publish

LEMMA StepDistinct ==
  ASSUME ~SignalReentry, IInv, Distinct, [Next]_vars
  PROVE  Distinct'
<1>1. RingsTyped /\ stack \in Seq(Frame) /\ RingsCoherent /\ RoomKept /\ StoresKnown
  BY IInvParts
<1>2. ASSUME NEW q \in Queues, NEW m \in Messages[q] \cup {NoMessage}, Publish(q, m)
      PROVE  Distinct'
  BY <1>2, PublishDistinct
<1>3. ASSUME NEW q \in Queues, Flush(q)
      PROVE  Distinct'
  <2>1. DrainFrame(q, 0, <<>>, FALSE).kind # "store"
    BY DEF DrainFrame
  <2>2. Keeps(stack') /\ slot' = slot
    BY <1>1, <1>3, <2>1, PushKeeps DEF Flush, rings
  <2> QED
    BY <1>1, <2>2, ClearingDistinct
<1>4. ASSUME NEW idle \in BOOLEAN, DrainDeferredQueues(idle)
      PROVE  Distinct'
  <2>1. DrainFrame("event", TickLimit("event", idle), <<"command", "work">>, idle).kind # "store"
    BY DEF DrainFrame
  <2>2. Keeps(stack') /\ slot' = slot
    BY <1>1, <1>4, <2>1, PushKeeps DEF DrainDeferredQueues, rings
  <2> QED
    BY <1>1, <2>2, ClearingDistinct
<1>5. CASE DrainOne
  <2>1. stack # <<>> /\ Top \in Frame
    BY <1>1, <1>5, TopTyped DEF DrainOne, LoopRuns
  <2>2. RemoveHead(Top.queue) /\ Keeps(stack')
    BY <1>1, <1>5, <2>1, WithTopKeeps DEF DrainOne, Frame
  <2>3. \A p \in Queues : \A i \in Indices(p) : slot'[p][i] \in {slot[p][i], NoMessage}
    BY <1>1, <2>2 DEF RemoveHead, RingsTyped
  <2> QED
    BY <1>1, <2>2, <2>3, ClearingDistinct
<1>6. CASE DrainNextQueue \/ DrainEnds
  <2>1. Keeps(stack')
    BY <1>1, <1>6, WithTopKeeps, BelowKeeps DEF DrainNextQueue, DrainEnds, LoopRuns, DrainFrame
  <2>2. slot' = slot
    BY <1>6 DEF DrainNextQueue, DrainEnds, rings
  <2> QED
    BY <1>1, <2>1, <2>2, ClearingDistinct
<1>7. CASE StoreAfterDrop
  <2>1. stack # <<>> /\ Top \in Frame /\ Top.kind = "store" /\ stack' = Below
    BY <1>1, <1>7, TopTyped DEF StoreAfterDrop
  <2>2. /\ Len(stack) \in 1 .. Len(stack) /\ StoreFrame(Len(stack), Top.queue)
        /\ Top.queue \in Queues
    BY <1>1, <2>1, TopTyped DEF StoreFrame, Top, Frame
  <2>3. /\ \A j \in 1 .. Len(stack) : StoreFrame(j, Top.queue) => Len(stack) = j
        /\ Store(Top.queue, Top.message)
    BY <1>1, <1>7, <2>1, <2>2 DEF RoomKept, StoreAfterDrop
  <2>4. Keeps(stack')
    BY <1>1, <2>1, BelowKeeps
  <2>5. \A i \in 1 .. Len(stack') : stack'[i].kind = "store" => stack'[i].queue # Top.queue
    BY <1>1, <2>1, <2>3, BelowTyped DEF StoreFrame
  <2>6. Coalescing => Fresh(Top.queue, Top.message)
    BY <2>2 DEF Distinct, Top
  <2> QED
    BY <1>1, <2>2, <2>3, <2>4, <2>5, <2>6, StoringDistinct
<1>8. CASE ReturnToCaller
  <2>1. stack # <<>> /\ Top \in Frame
    BY <1>1, <1>8, TopTyped DEF ReturnToCaller
  <2>2. Keeps(WithTop([Top EXCEPT !.inHandler = FALSE, !.calls = 0])) /\ Keeps(Below)
    BY <1>1, <2>1, WithTopKeeps, BelowKeeps DEF Frame
  <2>3. Keeps(stack') /\ slot' = slot
    BY <1>8, <2>2 DEF ReturnToCaller, rings
  <2> QED
    BY <1>1, <2>3, ClearingDistinct
<1>9. CASE Reset
  <2>1. Keeps(stack') /\ \A q \in Queues : \A i \in Indices(q) : slot'[q][i] = NoMessage
    BY <1>1, <1>9, CalledKeeps DEF Reset
  <2> QED
    BY <1>1, <2>1, ClearingDistinct
<1>10. CASE UNCHANGED vars
  <2>1. Keeps(stack') /\ slot' = slot
    BY <1>10 DEF vars, Keeps
  <2> QED
    BY <1>1, <2>1, ClearingDistinct
<1> QED
  BY <1>2, <1>3, <1>4, <1>5, <1>6, <1>7, <1>8, <1>9, <1>10 DEF Next, KernelStep, HandlerReturns

\* With coalescing no queue holds two equal messages, nor one that a suspended
\* enqueue is about to store, for every build and depth of re-entrancy, under
\* the same condition on drop-signal handlers.
THEOREM CoalescingHolds ==
  ASSUME ~SignalReentry
  PROVE  Spec => []NoDuplicates
<1>1. Init => Distinct
  <2> SUFFICES ASSUME Init PROVE Distinct
    OBVIOUS
  <2>1. /\ \A q \in Queues : \A i \in Indices(q) : slot[q][i] = NoMessage
        /\ \A s \in 1 .. Len(stack) : FALSE
    BY DEF Init
  <2> QED
    BY <2>1 DEF Distinct
<1>2. IInv /\ Distinct /\ [Next]_vars => Distinct'
  BY StepDistinct
<1>3. IInv /\ Distinct => NoDuplicates
  BY IInvParts, DistinctSuffices
<1> QED
  BY <1>1, <1>2, <1>3, RingsInvariant, PTL DEF Spec

-------------------------------------------------------------------------------
(* The queues implement bounded channels.                                  *)

\* The n entries of ring s that start at h, oldest first.
Line(S, h, n, s) == [k \in 1 .. n |-> s[Reduced(S, h + (k - 1))]]

LEMMA LineTyped ==
  ASSUME NEW S \in 1 .. 255, NEW h \in 0 .. S - 1, NEW n \in 0 .. S,
         NEW s \in [0 .. S - 1 -> Stored]
  PROVE  /\ Line(S, h, n, s) \in Seq(Stored) /\ Len(Line(S, h, n, s)) = n
         /\ \A k \in 1 .. n : Line(S, h, n, s)[k] = s[Reduced(S, h + (k - 1))]
<1>1. \A k \in 1 .. n : Reduced(S, h + (k - 1)) \in 0 .. S - 1
  BY DEF Reduced
<1>2. Line(S, h, n, s) \in [1 .. n -> Stored]
  BY <1>1 DEF Line
<1>3. n \in Nat
  OBVIOUS
<1>4. Line(S, h, n, s) \in Seq(Stored) /\ Len(Line(S, h, n, s)) = n
  BY <1>2, <1>3
<1> QED
  BY <1>4 DEF Line

\* A message written behind the line joins it.
LEMMA LineGrows ==
  ASSUME NEW S \in 1 .. 255, NEW h \in 0 .. S - 1, NEW n \in 0 .. S - 1,
         NEW s \in [0 .. S - 1 -> Stored], NEW m \in Stored
  PROVE  Line(S, h, n + 1, [s EXCEPT ![Reduced(S, h + n)] = m]) = Append(Line(S, h, n, s), m)
<1> DEFINE t == [s EXCEPT ![Reduced(S, h + n)] = m]
           old == Line(S, h, n, s)
           new == Line(S, h, n + 1, t)
<1>1. n \in 0 .. S /\ n + 1 \in 0 .. S /\ n \in Nat
  OBVIOUS
<1>t. t \in [0 .. S - 1 -> Stored] /\ \A i \in 0 .. S - 1 :
        t[i] = IF i = Reduced(S, h + n) THEN m ELSE s[i]
  OBVIOUS
<1> HIDE DEF t
<1>2. /\ old \in Seq(Stored) /\ Len(old) = n
      /\ \A k \in 1 .. n : old[k] = s[Reduced(S, h + (k - 1))]
  BY <1>1, LineTyped
<1>3. /\ new \in Seq(Stored) /\ Len(new) = n + 1
      /\ \A k \in 1 .. n + 1 : new[k] = t[Reduced(S, h + (k - 1))]
  BY <1>1, <1>t, LineTyped
<1>4. \A k \in 1 .. n : /\ Reduced(S, h + (k - 1)) \in 0 .. S - 1
                        /\ Reduced(S, h + (k - 1)) # Reduced(S, h + n)
  BY DEF Reduced
<1>5. Reduced(S, h + n) \in 0 .. S - 1 /\ h + ((n + 1) - 1) = h + n
  BY DEF Reduced
<1>6. \A k \in 1 .. n : new[k] = old[k]
  <2> HIDE DEF old, new
  <2> SUFFICES ASSUME NEW k \in 1 .. n PROVE new[k] = old[k]
    OBVIOUS
  <2>1. k \in 1 .. n + 1
    BY <1>1
  <2> QED
    BY <1>2, <1>3, <1>4, <1>t, <2>1
<1>7. new[n + 1] = m
  <2> HIDE DEF old, new
  <2>1. n + 1 \in 1 .. n + 1 /\ h + ((n + 1) - 1) = h + n
    BY <1>1
  <2>2. new[n + 1] = t[Reduced(S, h + ((n + 1) - 1))]
    BY <1>3, <2>1
  <2> QED
    BY <1>5, <1>t, <2>1, <2>2
<1> HIDE DEF old, new
<1>8. new = Append(old, m)
  BY <1>2, <1>3, <1>6, <1>7
<1> QED
  BY <1>8 DEF old, new, t

\* The head that is removed is the first of the line.
LEMMA LineShrinks ==
  ASSUME NEW S \in 1 .. 255, NEW h \in 0 .. S - 1, NEW n \in 1 .. S,
         NEW s \in [0 .. S - 1 -> Stored], NEW m \in Stored
  PROVE  /\ Line(S, Successor(S, h), n - 1, [s EXCEPT ![h] = m]) = Tail(Line(S, h, n, s))
         /\ Line(S, h, n, s) # <<>> /\ Head(Line(S, h, n, s)) = s[h]
<1> DEFINE t == [s EXCEPT ![h] = m]
           next == Successor(S, h)
           old == Line(S, h, n, s)
           new == Line(S, next, n - 1, t)
<1>1. n \in 0 .. S /\ n - 1 \in 0 .. S /\ next \in 0 .. S - 1
  BY DEF Successor
<1>t. t \in [0 .. S - 1 -> Stored] /\ \A i \in 0 .. S - 1 : i # h => t[i] = s[i]
  OBVIOUS
<1>n. next = Successor(S, h)
  OBVIOUS
<1> HIDE DEF t, next
<1>2. /\ old \in Seq(Stored) /\ Len(old) = n
      /\ \A k \in 1 .. n : old[k] = s[Reduced(S, h + (k - 1))]
  BY <1>1, LineTyped
<1>3. /\ new \in Seq(Stored) /\ Len(new) = n - 1
      /\ \A k \in 1 .. n - 1 : new[k] = t[Reduced(S, next + (k - 1))]
  BY <1>1, <1>t, LineTyped
<1>4. \A k \in 1 .. n - 1 :
        /\ Reduced(S, next + (k - 1)) = Reduced(S, h + ((k + 1) - 1))
        /\ Reduced(S, next + (k - 1)) \in 0 .. S - 1
        /\ Reduced(S, next + (k - 1)) # h
        /\ k + 1 \in 1 .. n
  BY <1>n DEF Reduced, Successor
<1>5. Reduced(S, h + (1 - 1)) = h
  BY DEF Reduced
<1> HIDE DEF old, new
<1>6. \A k \in 1 .. n - 1 : new[k] = old[k + 1]
  BY <1>2, <1>3, <1>4, <1>t
<1>7. old[1] = s[h]
  BY <1>2, <1>5
<1>8. new = Tail(old) /\ old # <<>> /\ Head(old) = s[h]
  BY <1>2, <1>3, <1>6, <1>7
<1> QED
  BY <1>8 DEF old, new, t, next

\* The messages of queue q, as the channels see them, and without the modulus.
Buffer(q) == [k \in 1 .. count[q] |-> Pending(q)[k - 1]]

LEMMA LineIs ==
  ASSUME NEW S \in 1 .. 255, NEW h \in 0 .. S - 1, NEW n \in 0 .. S, NEW s
  PROVE  [k \in 1 .. n |-> [j \in 0 .. n - 1 |-> s[(h + j) % S]][k - 1]] = Line(S, h, n, s)
<1>1. ASSUME NEW k \in 1 .. n
      PROVE  k - 1 \in 0 .. n - 1 /\ (h + (k - 1)) % S = Reduced(S, h + (k - 1))
  <2> DEFINE j == k - 1
  <2>1. j \in 0 .. n - 1
    OBVIOUS
  <2> HIDE DEF j
  <2>2. (h + j) % S = Reduced(S, h + j)
    BY <2>1, PositionIs
  <2> QED
    BY <2>1, <2>2 DEF j
<1> QED
  BY <1>1 DEF Line

\* A ring that is coherent has these numbers; stated of any state's values, so
\* that it serves before and after a step.
RingNumbers(q, h, n, s) ==
  /\ Storage(q) \in 1 .. 255 /\ h \in 0 .. Storage(q) - 1 /\ n \in 0 .. Storage(q)
  /\ s \in [0 .. Storage(q) - 1 -> Stored]

LEMMA RingNumbersNow ==
  ASSUME RingsTyped, RingsCoherent, NEW q \in Queues
  PROVE  RingNumbers(q, head[q], count[q], slot[q])
<1> DEFINE S == Storage(q)
           n == count[q]
           c == Capacity[q]
<1>1. S \in 1 .. 255 /\ c \in 0 .. S /\ head[q] \in 0 .. S - 1 /\ n \in 0 .. 255 /\ n <= c
  BY CoherentNumbers, Zenon
<1>2. slot[q] \in [0 .. S - 1 -> Stored]
  BY DEF RingsTyped, Indices
<1> HIDE DEF S, n, c
<1>3. n \in 0 .. S
  BY <1>1
<1> QED
  BY <1>1, <1>2, <1>3 DEF RingNumbers, S, n

LEMMA RingNumbersNext ==
  ASSUME RingsTyped', RingsCoherent', NEW q \in Queues
  PROVE  RingNumbers(q, head'[q], count'[q], slot'[q])
<1> DEFINE S == Storage(q)
           n == count'[q]
           c == Capacity[q]
<1>1. S \in 1 .. 255 /\ c \in 0 .. S
  BY StorageSize
<1>2. head'[q] \in 0 .. S - 1 /\ n \in 0 .. 255 /\ n <= c /\ slot'[q] \in [0 .. S - 1 -> Stored]
  BY DEF RingsTyped, RingsCoherent, Bounded, Indices, Storage, Byte, Stored
<1> HIDE DEF S, n, c
<1>3. n \in 0 .. S
  BY <1>1, <1>2
<1> QED
  BY <1>1, <1>2, <1>3 DEF RingNumbers, S, n

LEMMA BufferIs ==
  ASSUME NEW q \in Queues, RingNumbers(q, head[q], count[q], slot[q])
  PROVE  Buffer(q) = Line(Storage(q), head[q], count[q], slot[q])
<1>1. Buffer(q) = [k \in 1 .. count[q] |->
         [j \in 0 .. count[q] - 1 |-> slot[q][(head[q] + j) % Storage(q)]][k - 1]]
  BY DEF Buffer, Pending
<1> DEFINE S == Storage(q)
           h == head[q]
           n == count[q]
           r == slot[q]
<1>2. S \in 1 .. 255 /\ h \in 0 .. S - 1 /\ n \in 0 .. S
  BY DEF RingNumbers
<1> HIDE DEF S, h, n, r
<1>3. [k \in 1 .. n |-> [j \in 0 .. n - 1 |-> r[(h + j) % S]][k - 1]] = Line(S, h, n, r)
  BY <1>2, LineIs
<1> QED
  BY <1>1, <1>3 DEF S, h, n, r

LEMMA BufferNext ==
  ASSUME NEW q \in Queues, RingNumbers(q, head'[q], count'[q], slot'[q])
  PROVE  Buffer(q)' = Line(Storage(q), head'[q], count'[q], slot'[q])
<1>1. Buffer(q)' = [k \in 1 .. count'[q] |->
         [j \in 0 .. count'[q] - 1 |-> slot'[q][(head'[q] + j) % Storage(q)]][k - 1]]
  BY DEF Buffer, Pending, Storage
<1> DEFINE S == Storage(q)
           h == head'[q]
           n == count'[q]
           r == slot'[q]
<1>2. S \in 1 .. 255 /\ h \in 0 .. S - 1 /\ n \in 0 .. S
  BY DEF RingNumbers
<1> HIDE DEF S, h, n, r
<1>3. [k \in 1 .. n |-> [j \in 0 .. n - 1 |-> r[(h + j) % S]][k - 1]] = Line(S, h, n, r)
  BY <1>2, LineIs
<1> QED
  BY <1>1, <1>3 DEF S, h, n, r

Buffers == [q \in Queues |-> Buffer(q)]

\* A queue whose ring does not change keeps its messages.
LEMMA BufferStays ==
  ASSUME NEW p \in Queues,
         head'[p] = head[p], count'[p] = count[p], slot'[p] = slot[p]
  PROVE  Buffer(p)' = Buffer(p)
<1>1. Buffer(p) = [k \in 1 .. count[p] |->
         [j \in 0 .. count[p] - 1 |-> slot[p][(head[p] + j) % Storage(p)]][k - 1]]
  BY DEF Buffer, Pending
<1>2. Buffer(p)' = [k \in 1 .. count'[p] |->
         [j \in 0 .. count'[p] - 1 |-> slot'[p][(head'[p] + j) % Storage(p)]][k - 1]]
  BY DEF Buffer, Pending, Storage
<1> QED
  BY <1>1, <1>2

LEMMA BuffersStay ==
  ASSUME UNCHANGED rings
  PROVE  Buffers' = Buffers
<1>1. \A q \in Queues : Buffer(q)' = Buffer(q)
  BY BufferStays DEF rings
<1> QED
  BY <1>1 DEF Buffers

LEMMA BufferLength ==
  ASSUME RingsTyped, RingsCoherent, NEW q \in Queues
  PROVE  /\ Len(Buffers[q]) = count[q] /\ Buffers[q] \in Seq(Stored)
         /\ \A k \in 1 .. count[q] : Buffers[q][k] = Pending(q)[k - 1]
<1>1. RingNumbers(q, head[q], count[q], slot[q])
  BY RingNumbersNow
<1>2. Buffer(q) = Line(Storage(q), head[q], count[q], slot[q])
  BY <1>1, BufferIs
<1>3. /\ Line(Storage(q), head[q], count[q], slot[q]) \in Seq(Stored)
      /\ Len(Line(Storage(q), head[q], count[q], slot[q])) = count[q]
  BY <1>1, LineTyped DEF RingNumbers
<1> QED
  BY <1>2, <1>3 DEF Buffers, Buffer

\* What a channel holds is what coalescing looks for.
LEMMA HoldsIsQueued ==
  ASSUME RingsTyped, RingsCoherent, NEW q \in Queues, NEW m
  PROVE  (\E k \in 1 .. Len(Buffers[q]) : Buffers[q][k] = m) <=> Queued(q, m)
<1> DEFINE n == count[q]
<1>1. n \in 0 .. 255
  BY CountTyped
<1>2. Len(Buffers[q]) = n /\ \A k \in 1 .. n : Buffers[q][k] = Pending(q)[k - 1]
  BY BufferLength
<1>3. DOMAIN Pending(q) = 0 .. n - 1
  BY PendingSlots
<1> HIDE DEF n
<1>4. ASSUME NEW k \in 1 .. n, Buffers[q][k] = m
      PROVE  Queued(q, m)
  <2>1. k - 1 \in DOMAIN Pending(q) /\ Pending(q)[k - 1] = m
    BY <1>1, <1>2, <1>3, <1>4
  <2> QED
    BY <2>1 DEF Queued
<1>5. ASSUME NEW j \in 0 .. n - 1, Pending(q)[j] = m
      PROVE  \E k \in 1 .. n : Buffers[q][k] = m
  <2>1. j + 1 \in 1 .. n /\ (j + 1) - 1 = j
    BY <1>1
  <2>2. Buffers[q][j + 1] = m
    BY <1>2, <1>5, <2>1
  <2> QED
    BY <2>1, <2>2
<1> QED
  BY <1>2, <1>3, <1>4, <1>5 DEF Queued

\* A store appends to one channel's buffer.
LEMMA StoreAppends ==
  ASSUME RingsTyped, RingsCoherent, RingsTyped', RingsCoherent', NEW q \in Queues,
         NEW m \in Stored, count[q] < Capacity[q], Store(q, m)
  PROVE  Buffers' = [Buffers EXCEPT ![q] = Append(@, m)]
<1>1. ASSUME NEW p \in Queues, p # q
      PROVE  Buffer(p)' = Buffer(p)
  <2>1. head'[p] = head[p] /\ count'[p] = count[p] /\ slot'[p] = slot[p]
    BY <1>1 DEF Store, RingsTyped
  <2> QED
    BY <2>1, BufferStays
<1>2. Buffer(q)' = Append(Buffer(q), m)
  <2> DEFINE S == Storage(q)
             c == Capacity[q]
             h == head[q]
             n == count[q]
             s == slot[q]
  <2>1. RingNumbers(q, h, n, s) /\ Buffer(q) = Line(S, h, n, s)
    BY RingNumbersNow, BufferIs
  <2>2. Buffer(q)' = Line(S, head'[q], count'[q], slot'[q])
    BY RingNumbersNext, BufferNext
  <2>3. /\ head'[q] = h /\ count'[q] = U8(n + 1)
        /\ slot'[q] = [s EXCEPT ![tail[q]] = m]
    BY DEF Store, RingsTyped
  <2>4. c \in 0 .. S /\ n < c /\ tail[q] = Reduced(S, h + n)
    BY CoherentNumbers, Zenon
  <2>5. /\ S \in 1 .. 255 /\ h \in 0 .. S - 1 /\ n \in 0 .. S
        /\ s \in [0 .. S - 1 -> Stored]
    BY <2>1 DEF RingNumbers
  <2> HIDE DEF S, c, h, n, s
  <2>6. n \in 0 .. S - 1 /\ U8(n + 1) = n + 1
    <3>1. n \in 0 .. 255
      BY <2>5
    <3> QED
      BY <2>4, <2>5, <3>1, GrowthArithmetic
  <2>7. Line(S, h, n + 1, [s EXCEPT ![Reduced(S, h + n)] = m]) = Append(Line(S, h, n, s), m)
    BY <2>5, <2>6, LineGrows
  <2> QED
    BY <2>1, <2>2, <2>3, <2>4, <2>6, <2>7
<1> QED
  BY <1>1, <1>2 DEF Buffers

\* Removing the head takes the first of one channel's buffer.
LEMMA RemovalTakes ==
  ASSUME RingsTyped, RingsCoherent, RingsTyped', RingsCoherent', NEW q \in Queues,
         count[q] > 0, RemoveHead(q)
  PROVE  /\ Buffers' = [Buffers EXCEPT ![q] = Tail(@)]
         /\ Buffers[q] # <<>> /\ Head(Buffers[q]) = slot[q][head[q]]
         /\ slot[q][head[q]] # NoMessage
<1>1. ASSUME NEW p \in Queues, p # q
      PROVE  Buffer(p)' = Buffer(p)
  <2>1. head'[p] = head[p] /\ count'[p] = count[p] /\ slot'[p] = slot[p]
    BY <1>1 DEF RemoveHead, RingsTyped
  <2> QED
    BY <2>1, BufferStays
<1>2. /\ Buffer(q)' = Tail(Buffer(q)) /\ Buffer(q) # <<>>
      /\ Head(Buffer(q)) = slot[q][head[q]] /\ slot[q][head[q]] # NoMessage
  <2> DEFINE S == Storage(q)
             h == head[q]
             n == count[q]
             s == slot[q]
  <2>1. RingNumbers(q, h, n, s) /\ Buffer(q) = Line(S, h, n, s)
    BY RingNumbersNow, BufferIs
  <2>2. Buffer(q)' = Line(S, head'[q], count'[q], slot'[q])
    BY RingNumbersNext, BufferNext
  <2>3. /\ head'[q] = NextIndex(q, h) /\ count'[q] = n - 1
        /\ slot'[q] = [s EXCEPT ![h] = NoMessage]
    BY DEF RemoveHead, RingsTyped
  <2>4. NextIndex(q, h) = Successor(S, h) /\ \A i \in 0 .. S - 1 : Within(S, h, n, i) => s[i] # NoMessage
    BY NextIndexValue, CoherentNumbers, Zenon DEF Successor, RingsTyped, Indices
  <2>5. /\ S \in 1 .. 255 /\ h \in 0 .. S - 1 /\ n \in 0 .. S /\ n > 0
        /\ s \in [0 .. S - 1 -> Stored] /\ NoMessage \in Stored
    BY <2>1 DEF RingNumbers, Stored
  <2> HIDE DEF S, h, n, s
  <2>6. n \in 1 .. S /\ Within(S, h, n, h)
    BY <2>5 DEF Within
  <2>7. /\ Line(S, Successor(S, h), n - 1, [s EXCEPT ![h] = NoMessage]) = Tail(Line(S, h, n, s))
        /\ Line(S, h, n, s) # <<>> /\ Head(Line(S, h, n, s)) = s[h]
    BY <2>5, <2>6, LineShrinks
  <2>8. s[h] # NoMessage
    BY <2>4, <2>5, <2>6
  <2> QED
    BY <2>1, <2>2, <2>3, <2>4, <2>7, <2>8 DEF S, h, n, s
<1> QED
  BY <1>1, <1>2 DEF Buffers

-------------------------------------------------------------------------------
(* What the channels owe.                                                  *)

\* The message stack s owes queue q.
StoreIn(s, i, q) == i \in 1 .. Len(s) /\ s[i].kind = "store" /\ s[i].queue = q
OwedIn(s, q) ==
  IF \E i \in 1 .. Len(s) : StoreIn(s, i, q)
    THEN s[CHOOSE i \in 1 .. Len(s) : StoreIn(s, i, q)].message ELSE NoMessage
Debts == [q \in Queues |-> Owed(q)]

LEMMA OwedIs ==
  ASSUME NEW q \in Queues
  PROVE  Owed(q) = OwedIn(stack, q) /\ Owed(q)' = OwedIn(stack', q)
<1>1. Owed(q) = OwedIn(stack, q)
  BY DEF Owed, OwedIn, Dropping, StoreFrame, StoreIn
<1>2. Owed(q)' = OwedIn(stack', q)
  BY DEF Owed, OwedIn, Dropping, StoreFrame, StoreIn
<1> QED
  BY <1>1, <1>2

\* It is the message of the only suspended enqueue of the queue, or none.
LEMMA OwedBy ==
  ASSUME NEW s, NEW q, NEW i, StoreIn(s, i, q),
         \A j \in 1 .. Len(s) : StoreIn(s, j, q) => i = j
  PROVE  OwedIn(s, q) = s[i].message
<1>1. i \in 1 .. Len(s)
  BY DEF StoreIn
<1>2. (CHOOSE j \in 1 .. Len(s) : StoreIn(s, j, q)) = i
  BY <1>1
<1> QED
  BY <1>1, <1>2 DEF OwedIn

\* The enqueues suspended in the current stack are suspended in stack s.
Preserves(s) ==
  \A i \in 1 .. Len(stack) :
    stack[i].kind = "store" => i \in 1 .. Len(s) /\ s[i].kind = "store"

\* The debt to q survives a step that suspends and resumes no enqueue of q.
LEMMA DebtStays ==
  ASSUME RoomKept, NEW q \in Queues,
         \A i : StoreIn(stack, i, q) <=> StoreIn(stack', i, q),
         \A i : StoreIn(stack, i, q) => stack'[i].message = stack[i].message
  PROVE  Owed(q)' = Owed(q)
<1>1. CASE \E i \in 1 .. Len(stack) : StoreIn(stack, i, q)
  <2>1. PICK i \in 1 .. Len(stack) : StoreIn(stack, i, q)
    BY <1>1
  <2>2. \A j \in 1 .. Len(stack) : StoreIn(stack, j, q) => i = j
    BY <2>1 DEF RoomKept, StoreFrame, StoreIn
  <2>3. OwedIn(stack, q) = stack[i].message
    BY <2>1, <2>2, OwedBy
  <2>4. StoreIn(stack', i, q) /\ \A j \in 1 .. Len(stack') : StoreIn(stack', j, q) => i = j
    BY <2>1, <2>2 DEF StoreIn
  <2>5. OwedIn(stack', q) = stack'[i].message
    BY <2>4, OwedBy
  <2> QED
    BY <2>1, <2>3, <2>5, OwedIs
<1>2. CASE ~\E i \in 1 .. Len(stack) : StoreIn(stack, i, q)
  <2>1. ~\E i \in 1 .. Len(stack') : StoreIn(stack', i, q)
    BY <1>2 DEF StoreIn
  <2> QED
    BY <1>2, <2>1, OwedIs DEF OwedIn
<1> QED
  BY <1>1, <1>2

LEMMA DebtsStay ==
  ASSUME RoomKept, Keeps(stack'), Preserves(stack')
  PROVE  Debts' = Debts
<1>1. ASSUME NEW q \in Queues
      PROVE  Owed(q)' = Owed(q)
  <2>1. \A i : StoreIn(stack, i, q) <=> StoreIn(stack', i, q)
    BY DEF Keeps, Preserves, StoreIn
  <2>2. \A i : StoreIn(stack, i, q) => stack'[i].message = stack[i].message
    BY DEF Keeps, Preserves, StoreIn
  <2> QED
    BY <2>1, <2>2, DebtStays
<1> QED
  BY <1>1 DEF Debts

LEMMA WithTopPreserves ==
  ASSUME stack \in Seq(Frame), stack # <<>>, NEW f, Top.kind = "store" => f.kind = "store"
  PROVE  Preserves(WithTop(f))
BY DEF Preserves, WithTop, Top

LEMMA CalledPreserves ==
  ASSUME stack \in Seq(Frame)
  PROVE  Preserves(Called)
<1>1. CASE stack = <<>>
  BY <1>1 DEF Called, Preserves
<1>2. CASE stack # <<>>
  <2> DEFINE f == [Top EXCEPT !.calls = @ + 1]
  <2>1. f.kind = Top.kind
    BY <1>2, TopTyped DEF Frame
  <2> QED
    BY <1>2, <2>1, WithTopPreserves DEF Called
<1> QED
  BY <1>1, <1>2

LEMMA PushPreserves ==
  ASSUME stack \in Seq(Frame), NEW call, MayCall(call), NEW f, Push(f)
  PROVE  Preserves(stack')
<1>1. Called \in Seq(Frame) /\ Preserves(Called) /\ stack' = Append(Called, f)
  BY CalledTyped, CalledPreserves DEF Push
<1>2. Len(stack') = Len(Called) + 1 /\ Len(Called) \in Nat
      /\ \A i \in 1 .. Len(Called) : stack'[i] = Called[i]
  BY <1>1
<1> QED
  BY <1>1, <1>2 DEF Preserves

LEMMA BelowPreserves ==
  ASSUME stack \in Seq(Frame), stack # <<>>, Top.kind # "store"
  PROVE  Preserves(Below)
<1>1. \A i \in 1 .. Len(stack) : stack[i].kind = "store" => i # Len(stack)
  BY DEF Top
<1>2. Len(stack) \in Nat /\ Len(Below) = Len(stack) - 1
      /\ \A i \in 1 .. Len(Below) : Below[i] = stack[i]
  BY BelowTyped DEF Below
<1>3. \A i \in 1 .. Len(stack) : i # Len(stack) => i \in 1 .. Len(Below)
  BY <1>2
<1> QED
  BY <1>1, <1>2, <1>3 DEF Preserves

\* Only a drain loop runs outside user code.
LoopsDrain ==
  \A i \in 1 .. Len(stack) : stack[i].kind = "store" => stack[i].inHandler

LEMMA LoopsInit == Init => LoopsDrain
BY DEF Init, LoopsDrain

LEMMA CalledLoops ==
  ASSUME stack \in Seq(Frame), LoopsDrain, NEW i \in 1 .. Len(Called),
         Called[i].kind = "store"
  PROVE  Called[i].inHandler
<1>1. CASE stack = <<>>
  BY <1>1 DEF Called, LoopsDrain
<1>2. CASE stack # <<>>
  <2> DEFINE f == [Top EXCEPT !.calls = @ + 1]
  <2>1. f.kind = Top.kind /\ f.inHandler = Top.inHandler
    BY <1>2, TopTyped DEF Frame
  <2>2. Called = WithTop(f)
    BY <1>2 DEF Called
  <2> HIDE DEF f
  <2>3. i \in 1 .. Len(stack) /\ Called[i] = IF i = Len(stack) THEN f ELSE stack[i]
    BY <2>2 DEF WithTop
  <2> QED
    BY <2>1, <2>3 DEF LoopsDrain, Top
<1> QED
  BY <1>1, <1>2

LEMMA PushLoops ==
  ASSUME stack \in Seq(Frame), LoopsDrain, NEW call, MayCall(call), NEW f, Push(f),
         f.kind = "store" => f.inHandler
  PROVE  LoopsDrain'
<1>1. Called \in Seq(Frame) /\ stack' = Append(Called, f)
  BY CalledTyped DEF Push
<1>2. Len(stack') = Len(Called) + 1 /\ Len(Called) \in Nat
      /\ \A i \in 1 .. Len(stack') :
           stack'[i] = IF i \in 1 .. Len(Called) THEN Called[i] ELSE f
  BY <1>1
<1> QED
  BY <1>2, CalledLoops DEF LoopsDrain

LEMMA WithTopLoops ==
  ASSUME stack \in Seq(Frame), stack # <<>>, LoopsDrain, NEW f, stack' = WithTop(f),
         f.kind = "store" => f.inHandler
  PROVE  LoopsDrain'
BY DEF WithTop, LoopsDrain

LEMMA BelowLoops ==
  ASSUME stack \in Seq(Frame), stack # <<>>, LoopsDrain, stack' = Below
  PROVE  LoopsDrain'
<1>1. Len(Below) = Len(stack) - 1 /\ \A i \in 1 .. Len(Below) : Below[i] = stack[i]
  BY BelowTyped
<1>2. Len(stack) \in Nat
  OBVIOUS
<1> QED
  BY <1>1, <1>2 DEF LoopsDrain

\* In a loop that runs, the top frame is that loop.
LEMMA LoopTop ==
  ASSUME stack \in Seq(Frame), LoopsDrain, LoopRuns
  PROVE  stack # <<>> /\ Top \in Frame /\ Top.kind # "store"
<1>1. stack # <<>> /\ Top \in Frame /\ Len(stack) \in 1 .. Len(stack)
  BY TopTyped DEF LoopRuns
<1> QED
  BY <1>1 DEF LoopRuns, LoopsDrain, Top

LEMMA LoopsStep ==
  ASSUME IInv, LoopsDrain, [Next]_vars
  PROVE  LoopsDrain'
<1>1. stack \in Seq(Frame)
  BY IInvParts
<1>2. ASSUME stack' = Called PROVE LoopsDrain'
  BY <1>1, <1>2, CalledLoops DEF LoopsDrain
<1>3. ASSUME NEW q \in Queues, NEW m \in Messages[q] \cup {NoMessage}, Publish(q, m)
      PROVE  LoopsDrain'
  <2>1. /\ SignalFrame("store", q, m).inHandler
        /\ SignalFrame("refuse", q, NoMessage).inHandler
    BY DEF SignalFrame
  <2> QED
    BY <1>1, <1>2, <1>3, <2>1, PushLoops
    DEF Publish, PublishCoalesced, PublishStored, PublishEvicts, PublishRefused, PublishAllowed
<1>4. ASSUME NEW q \in Queues, Flush(q)
      PROVE  LoopsDrain'
  <2>1. DrainFrame(q, 0, <<>>, FALSE).kind # "store"
    BY DEF DrainFrame
  <2> QED
    BY <1>1, <1>4, <2>1, PushLoops DEF Flush
<1>5. ASSUME NEW idle \in BOOLEAN, DrainDeferredQueues(idle)
      PROVE  LoopsDrain'
  <2>1. DrainFrame("event", TickLimit("event", idle), <<"command", "work">>, idle).kind # "store"
    BY DEF DrainFrame
  <2> QED
    BY <1>1, <1>5, <2>1, PushLoops DEF DrainDeferredQueues
<1>6. CASE DrainOne
  <2>1. stack # <<>> /\ Top \in Frame /\ Top.kind # "store"
    BY <1>1, <1>6, LoopTop DEF DrainOne
  <2> DEFINE f == [Top EXCEPT !.inHandler = (slot[Top.queue][head[Top.queue]] # NoMessage),
                              !.drained = IF Top.limit = 0 THEN 0 ELSE @ + 1]
  <2>2. stack' = WithTop(f) /\ f.kind = Top.kind
    BY <1>6, <2>1 DEF DrainOne, Frame
  <2> HIDE DEF f
  <2> QED
    BY <1>1, <2>1, <2>2, WithTopLoops
<1>7. CASE DrainNextQueue
  <2>1. stack # <<>>
    BY <1>7 DEF DrainNextQueue, LoopRuns
  <2>2. PICK f : stack' = WithTop(f) /\ f.kind # "store"
    BY <1>7 DEF DrainNextQueue, DrainFrame
  <2> QED
    BY <1>1, <2>1, <2>2, WithTopLoops
<1>8. CASE DrainEnds \/ StoreAfterDrop
  BY <1>1, <1>8, BelowLoops DEF DrainEnds, StoreAfterDrop, LoopRuns
<1>9. CASE ReturnToCaller
  <2>1. stack # <<>> /\ Top \in Frame /\ Top.kind # "store"
    BY <1>1, <1>9, TopTyped DEF ReturnToCaller
  <2> DEFINE f == [Top EXCEPT !.inHandler = FALSE, !.calls = 0]
  <2>2. f.kind # "store" /\ stack' \in {WithTop(f), Below}
    BY <1>9, <2>1 DEF ReturnToCaller, Frame
  <2> QED
    BY <1>1, <2>1, <2>2, WithTopLoops, BelowLoops
<1>10. CASE Reset
  BY <1>2, <1>10 DEF Reset
<1>11. CASE UNCHANGED vars
  BY <1>11 DEF vars, LoopsDrain
<1> QED
  BY <1>3, <1>4, <1>5, <1>6, <1>7, <1>8, <1>9, <1>10, <1>11
  DEF Next, KernelStep, HandlerReturns

-------------------------------------------------------------------------------
(* Each step is one of the channels', or none.                             *)

LEMMA ChannelOps ==
  ASSUME NEW q \in Queues, NEW v
  PROVE  /\ Channels!Put(q, v) <=>
              /\ Len(Buffers[q]) < Capacity[q]
              /\ Coalescing => ~\E k \in 1 .. Len(Buffers[q]) : Buffers[q][k] = v
              /\ Debts[q] = NoMessage
              /\ Buffers' = [Buffers EXCEPT ![q] = Append(@, v)]
              /\ Debts' = Debts /\ handed' = handed
         /\ Channels!Evict(q, v) <=>
              /\ q \in DropOldest /\ Len(Buffers[q]) = Capacity[q] /\ Capacity[q] > 0
              /\ Coalescing => ~\E k \in 1 .. Len(Buffers[q]) : Buffers[q][k] = v
              /\ Debts[q] = NoMessage
              /\ Buffers' = [Buffers EXCEPT ![q] = Tail(@)]
              /\ Debts' = [Debts EXCEPT ![q] = v] /\ handed' = handed
         /\ Channels!Settle(q) <=>
              /\ Debts[q] # NoMessage /\ Len(Buffers[q]) < Capacity[q]
              /\ Coalescing => ~\E k \in 1 .. Len(Buffers[q]) : Buffers[q][k] = Debts[q]
              /\ Buffers' = [Buffers EXCEPT ![q] = Append(@, Debts[q])]
              /\ Debts' = [Debts EXCEPT ![q] = NoMessage] /\ handed' = handed
         /\ Channels!Take(q) <=>
              /\ Buffers[q] # <<>>
              /\ Buffers' = [Buffers EXCEPT ![q] = Tail(@)]
              /\ handed' = [handed EXCEPT ![q] = Head(Buffers[q])]
              /\ Debts' = Debts
<1>1. /\ Buffers = [p \in Queues |-> [k \in 1 .. count[p] |-> Pending(p)[k - 1]]]
      /\ Debts = [p \in Queues |-> Owed(p)]
  BY DEF Buffers, Buffer, Debts
<1> QED
  BY <1>1, Zenon
  DEF Channels!Put, Channels!Evict, Channels!Settle, Channels!Take, Channels!Fresh,
      Channels!Holds, Buffers, Buffer, Debts

ChannelStep == [Channels!Next]_<<Buffers, Debts, handed>>

\* ChannelStep is a step of the refinement's specification.
LEMMA ChannelStepIs ==
  /\ \A q \in Queues : \A v \in Messages[q] :
       Channels!Put(q, v) \/ Channels!Evict(q, v) => ChannelStep
  /\ \A q \in Queues : Channels!Settle(q) \/ Channels!Take(q) => ChannelStep
  /\ Channels!Clear => ChannelStep
  /\ Buffers' = Buffers /\ Debts' = Debts /\ handed' = handed => ChannelStep
BY DEF ChannelStep, Channels!Next

\* A step that leaves the rings alone and neither suspends nor resumes an enqueue.
LEMMA QuietStep ==
  ASSUME RoomKept, UNCHANGED <<rings, handed>>, Keeps(stack'), Preserves(stack')
  PROVE  ChannelStep
<1>1. Buffers' = Buffers
  BY BuffersStay
<1>2. Debts' = Debts
  BY DebtsStay
<1> QED
  BY <1>1, <1>2, ChannelStepIs

LEMMA PublishMaps ==
  ASSUME ~SignalReentry, IInv, IInv', NEW q \in Queues,
         NEW m \in Messages[q] \cup {NoMessage}, Publish(q, m)
  PROVE  ChannelStep
<1>1. RingsTyped /\ stack \in Seq(Frame) /\ RingsCoherent /\ RoomKept /\ StoresKnown
  BY IInvParts
<1>2. RingsTyped' /\ RingsCoherent' /\ RoomKept' /\ stack' \in Seq(Frame)
  BY DEF IInv, TypeOK, RingsTyped, Stored
<1>3. CASE PublishCoalesced(q, m) \/ PublishRefused(q, m)
  <2>1. SignalFrame("refuse", q, NoMessage).kind # "store"
    BY DEF SignalFrame
  <2>2. Keeps(stack') /\ Preserves(stack')
    BY <1>1, <1>3, <2>1, CalledKeeps, PushKeeps, CalledPreserves, PushPreserves
    DEF PublishCoalesced, PublishRefused, PublishAllowed
  <2>3. UNCHANGED <<rings, handed>>
    BY <1>3 DEF PublishCoalesced, PublishRefused
  <2> QED
    BY <1>1, <2>2, <2>3, QuietStep
<1>4. CASE PublishStored(q, m)
  <2>1. /\ m # NoMessage /\ ~Coalesced(q, m) /\ Store(q, m) /\ count[q] < Capacity[q]
        /\ stack' = Called /\ ~Dropping(q) /\ handed' = handed
    BY <1>4 DEF PublishStored, PublishAllowed
  <2>2. m \in Messages[q] /\ m \in Stored
    BY <2>1 DEF Stored, AllMessages
  <2>3. Buffers' = [Buffers EXCEPT ![q] = Append(@, m)]
    BY <1>1, <1>2, <2>1, <2>2, StoreAppends
  <2>4. Debts' = Debts
    BY <1>1, <2>1, CalledKeeps, CalledPreserves, DebtsStay
  <2>5. Debts[q] = NoMessage
    BY <2>1 DEF Debts, Owed
  <2>6. Coalescing => ~\E k \in 1 .. Len(Buffers[q]) : Buffers[q][k] = m
    BY <1>1, <2>1, HoldsIsQueued DEF Coalesced
  <2>7. Len(Buffers[q]) < Capacity[q]
    BY <1>1, <2>1, BufferLength
  <2>8. Channels!Put(q, m)
    BY <2>1, <2>3, <2>4, <2>5, <2>6, <2>7, ChannelOps
  <2> QED
    BY <2>2, <2>8, ChannelStepIs
<1>5. CASE PublishEvicts(q, m)
  <2> DEFINE f == SignalFrame("store", q, m)
  <2>1. /\ m # NoMessage /\ ~Coalesced(q, m) /\ RemoveHead(q) /\ Push(f) /\ MayCall("publish")
        /\ ~Dropping(q) /\ handed' = handed /\ q \in DropOldest
        /\ count[q] >= Capacity[q] /\ count[q] # 0 /\ Capacity[q] # 0
    BY <1>5, Zenon DEF PublishEvicts, PublishAllowed, Refused
  <2>2. count[q] > 0 /\ Capacity[q] > 0 /\ count[q] = Capacity[q]
    <3> DEFINE n == count[q]
               c == Capacity[q]
    <3>1. n \in 0 .. 255 /\ c \in 0 .. 255 /\ n <= c
      BY <1>1, CountTyped, QueuesAssumption DEF RingsCoherent, Bounded, Byte
    <3>2. n >= c /\ n # 0 /\ c # 0
      BY <2>1
    <3> HIDE DEF n, c
    <3>3. n > 0 /\ c > 0 /\ n = c
      BY <3>1, <3>2
    <3> QED
      BY <3>3 DEF n, c
  <2>3. m \in Messages[q]
    BY <2>1
  <2>4. Buffers' = [Buffers EXCEPT ![q] = Tail(@)]
    BY <1>1, <1>2, <2>1, <2>2, RemovalTakes
  <2>5. f.kind = "store" /\ f.queue = q /\ f.message = m
    BY DEF SignalFrame
  <2>6. Called \in Seq(Frame) /\ Keeps(Called) /\ Preserves(Called) /\ stack' = Append(Called, f)
    BY <1>1, <2>1, CalledTyped, CalledKeeps, CalledPreserves DEF Push
  <2> HIDE DEF f
  <2>7. /\ Len(Called) \in Nat /\ Len(stack') = Len(Called) + 1
        /\ stack'[Len(Called) + 1] = f
        /\ \A i \in 1 .. Len(Called) : stack'[i] = Called[i]
    BY <2>6
  <2>8. Owed(q)' = m
    <3>1. StoreIn(stack', Len(Called) + 1, q)
      BY <2>5, <2>7 DEF StoreIn
    <3>2. \A j \in 1 .. Len(stack') : StoreIn(stack', j, q) => Len(Called) + 1 = j
      BY <1>2, <3>1 DEF RoomKept, StoreFrame, StoreIn
    <3>3. OwedIn(stack', q) = m
      BY <2>5, <2>7, <3>1, <3>2, OwedBy
    <3> QED
      BY <3>3, OwedIs
  <2>9. ASSUME NEW p \in Queues, p # q
        PROVE  Owed(p)' = Owed(p)
    <3>1. \A i : StoreIn(stack', i, p) => i \in 1 .. Len(Called) /\ stack'[i] = Called[i]
      BY <2>5, <2>7, <2>9 DEF StoreIn
    <3>2. \A i : StoreIn(stack, i, p) <=> StoreIn(stack', i, p)
      BY <2>6, <2>7, <3>1 DEF StoreIn, Keeps, Preserves
    <3>3. \A i : StoreIn(stack, i, p) => stack'[i].message = stack[i].message
      BY <2>6, <3>1, <3>2 DEF StoreIn, Keeps
    <3> QED
      BY <1>1, <3>2, <3>3, DebtStays
  <2>10. Debts' = [Debts EXCEPT ![q] = m]
    BY <2>8, <2>9 DEF Debts
  <2>11. Debts[q] = NoMessage
    BY <2>1 DEF Debts, Owed
  <2>12. Coalescing => ~\E k \in 1 .. Len(Buffers[q]) : Buffers[q][k] = m
    BY <1>1, <2>1, HoldsIsQueued DEF Coalesced
  <2>13. Len(Buffers[q]) = Capacity[q]
    BY <1>1, <2>2, BufferLength
  <2>14. Channels!Evict(q, m)
    BY <2>1, <2>2, <2>4, <2>10, <2>11, <2>12, <2>13, ChannelOps
  <2> QED
    BY <2>3, <2>14, ChannelStepIs
<1> QED
  BY <1>3, <1>4, <1>5 DEF Publish

LEMMA StoreMaps ==
  ASSUME IInv, IInv', Distinct, StoreAfterDrop
  PROVE  ChannelStep
<1>1. RingsTyped /\ stack \in Seq(Frame) /\ RingsCoherent /\ RoomKept /\ StoresKnown
  BY IInvParts
<1>2. RingsTyped' /\ RingsCoherent'
  BY DEF IInv, TypeOK, RingsTyped, Stored
<1>3. stack # <<>> /\ Top \in Frame /\ Top.kind = "store" /\ stack' = Below /\ handed' = handed
  BY <1>1, TopTyped DEF StoreAfterDrop
<1>q. PICK q \in Queues, m \in Stored : q = Top.queue /\ m = Top.message
  BY <1>3 DEF Frame, Stored
<1>4. /\ Len(stack) \in 1 .. Len(stack) /\ StoreFrame(Len(stack), q)
      /\ StoreIn(stack, Len(stack), q) /\ m = stack[Len(stack)].message
  BY <1>1, <1>3, <1>q, TopTyped DEF StoreFrame, StoreIn, Top
<1>5. /\ count[q] < Capacity[q]
      /\ \A j \in 1 .. Len(stack) : StoreFrame(j, q) => Len(stack) = j
      /\ m # NoMessage /\ Store(q, m)
  <2>1. /\ count[q] < Capacity[q]
        /\ \A j \in 1 .. Len(stack) : StoreFrame(j, q) => Len(stack) = j
    BY <1>1, <1>4 DEF RoomKept
  <2>2. m # NoMessage
    BY <1>1, <1>4 DEF StoresKnown, StoreFrame
  <2>3. Store(q, m)
    BY <1>q DEF StoreAfterDrop
  <2> QED
    BY <2>1, <2>2, <2>3
<1>6. Owed(q) = m
  <2>1. \A j \in 1 .. Len(stack) : StoreIn(stack, j, q) => Len(stack) = j
    BY <1>5 DEF StoreFrame, StoreIn
  <2> QED
    BY <1>4, <2>1, OwedBy, OwedIs
<1>7. /\ Len(Below) = Len(stack) - 1 /\ Len(stack) \in Nat
      /\ \A i \in 1 .. Len(Below) : Below[i] = stack[i]
  BY <1>1, <1>3, BelowTyped
<1>8. Owed(q)' = NoMessage
  <2>1. ~\E i \in 1 .. Len(stack') : StoreIn(stack', i, q)
    BY <1>3, <1>5, <1>7 DEF StoreIn, StoreFrame
  <2> QED
    BY <1>4, <2>1, OwedIs DEF OwedIn
<1>9. ASSUME NEW p \in Queues, p # q
      PROVE  Owed(p)' = Owed(p)
  <2>1. \A i : StoreIn(stack, i, p) => i # Len(stack)
    BY <1>4, <1>9 DEF StoreIn
  <2>2. \A i : StoreIn(stack, i, p) <=> StoreIn(stack', i, p)
    BY <1>3, <1>7, <2>1 DEF StoreIn
  <2>3. \A i : StoreIn(stack, i, p) => stack'[i].message = stack[i].message
    BY <1>3, <1>7, <2>2 DEF StoreIn
  <2> QED
    BY <1>1, <2>2, <2>3, DebtStays
<1>10. Debts' = [Debts EXCEPT ![q] = NoMessage]
  BY <1>8, <1>9 DEF Debts
<1>11. Debts[q] = m
  BY <1>4, <1>6 DEF Debts
<1>12. Coalescing => ~\E k \in 1 .. Len(Buffers[q]) : Buffers[q][k] = m
  <2>1. Coalescing => ~Queued(q, m)
    BY <1>1, <1>4, <1>5, <1>6, DistinctSuffices DEF NoDuplicates
  <2> QED
    BY <1>1, <1>4, <2>1, HoldsIsQueued
<1>13. Buffers' = [Buffers EXCEPT ![q] = Append(@, m)]
  BY <1>1, <1>2, <1>4, <1>5, StoreAppends
<1>14. Len(Buffers[q]) < Capacity[q]
  BY <1>1, <1>4, <1>5, BufferLength
<1>15. Channels!Settle(q)
  BY <1>3, <1>4, <1>5, <1>10, <1>11, <1>12, <1>13, <1>14, ChannelOps
<1> QED
  BY <1>4, <1>15, ChannelStepIs

LEMMA StepMaps ==
  ASSUME ~SignalReentry, IInv, IInv', Distinct, LoopsDrain, [Next]_vars
  PROVE  ChannelStep
<1>1. RingsTyped /\ stack \in Seq(Frame) /\ RingsCoherent /\ RoomKept /\ StoresKnown
  BY IInvParts
<1>2. RingsTyped' /\ RingsCoherent'
  BY DEF IInv, TypeOK, RingsTyped, Stored
<1>3. ASSUME NEW q \in Queues, NEW m \in Messages[q] \cup {NoMessage}, Publish(q, m)
      PROVE  ChannelStep
  BY <1>3, PublishMaps
<1>4. ASSUME NEW q \in Queues, Flush(q)
      PROVE  ChannelStep
  <2>1. DrainFrame(q, 0, <<>>, FALSE).kind # "store"
    BY DEF DrainFrame
  <2>2. Keeps(stack') /\ Preserves(stack')
    BY <1>1, <1>4, <2>1, PushKeeps, PushPreserves DEF Flush
  <2> QED
    BY <1>1, <1>4, <2>2, QuietStep DEF Flush
<1>5. ASSUME NEW idle \in BOOLEAN, DrainDeferredQueues(idle)
      PROVE  ChannelStep
  <2>1. DrainFrame("event", TickLimit("event", idle), <<"command", "work">>, idle).kind # "store"
    BY DEF DrainFrame
  <2>2. Keeps(stack') /\ Preserves(stack')
    BY <1>1, <1>5, <2>1, PushKeeps, PushPreserves DEF DrainDeferredQueues
  <2> QED
    BY <1>1, <1>5, <2>2, QuietStep DEF DrainDeferredQueues
<1>6. CASE DrainOne
  <2>1. stack # <<>> /\ Top \in Frame
    BY <1>1, <1>6, LoopTop DEF DrainOne
  <2>q. PICK q \in Queues : q = Top.queue
    BY <2>1 DEF Frame
  <2> DEFINE f == [Top EXCEPT !.inHandler = (slot[q][head[q]] # NoMessage),
                              !.drained = IF Top.limit = 0 THEN 0 ELSE @ + 1]
  <2>2. /\ count[q] > 0 /\ RemoveHead(q) /\ stack' = WithTop(f)
        /\ handed' = IF slot[q][head[q]] = NoMessage THEN handed
                       ELSE [handed EXCEPT ![q] = slot[q][head[q]]]
    BY <1>6, <2>1, <2>q DEF DrainOne
  <2>3. f.kind = Top.kind /\ f.queue = Top.queue /\ f.message = Top.message
    BY <2>1 DEF Frame
  <2> HIDE DEF f
  <2>4. Keeps(stack') /\ Preserves(stack')
    BY <1>1, <2>1, <2>2, <2>3, WithTopKeeps, WithTopPreserves
  <2>5. Debts' = Debts
    BY <1>1, <2>4, DebtsStay
  <2>6. /\ Buffers' = [Buffers EXCEPT ![q] = Tail(@)]
        /\ Buffers[q] # <<>> /\ Head(Buffers[q]) = slot[q][head[q]]
        /\ slot[q][head[q]] # NoMessage
    BY <1>1, <1>2, <2>2, RemovalTakes
  <2>7. Channels!Take(q)
    BY <2>2, <2>5, <2>6, ChannelOps
  <2> QED
    BY <2>2, <2>7, ChannelStepIs
<1>7. CASE DrainNextQueue
  <2>1. stack # <<>> /\ Top.kind # "store"
    BY <1>1, <1>7, LoopTop DEF DrainNextQueue
  <2>2. Keeps(stack') /\ Preserves(stack')
    BY <1>1, <1>7, <2>1, WithTopKeeps, WithTopPreserves DEF DrainNextQueue, DrainFrame
  <2> QED
    BY <1>1, <1>7, <2>2, QuietStep DEF DrainNextQueue
<1>8. CASE DrainEnds
  <2>1. stack # <<>> /\ Top.kind # "store"
    BY <1>1, <1>8, LoopTop DEF DrainEnds
  <2>2. Keeps(stack') /\ Preserves(stack')
    BY <1>1, <1>8, <2>1, BelowKeeps, BelowPreserves DEF DrainEnds
  <2> QED
    BY <1>1, <1>8, <2>2, QuietStep DEF DrainEnds
<1>9. CASE StoreAfterDrop
  BY <1>9, StoreMaps
<1>10. CASE ReturnToCaller
  <2>1. stack # <<>> /\ Top \in Frame /\ Top.kind # "store"
    BY <1>1, <1>10, TopTyped DEF ReturnToCaller
  <2> DEFINE f == [Top EXCEPT !.inHandler = FALSE, !.calls = 0]
  <2>2. f.kind # "store" /\ stack' \in {WithTop(f), Below}
    BY <1>10, <2>1 DEF ReturnToCaller, Frame
  <2> HIDE DEF f
  <2>3. Keeps(stack') /\ Preserves(stack')
    BY <1>1, <2>1, <2>2, WithTopKeeps, WithTopPreserves, BelowKeeps, BelowPreserves
  <2> QED
    BY <1>1, <1>10, <2>3, QuietStep DEF ReturnToCaller
<1>11. CASE Reset
  <2>1. Debts' = Debts
    BY <1>1, <1>11, CalledKeeps, CalledPreserves, DebtsStay DEF Reset
  <2>2. \A q \in Queues : Buffer(q)' = <<>>
    BY <1>11 DEF Reset, Buffer
  <2>3. Channels!Clear
    BY <1>11, <2>1, <2>2 DEF Channels!Clear, Buffer, Debts, Reset
  <2> QED
    BY <2>3, ChannelStepIs
<1>12. CASE UNCHANGED vars
  <2>1. Keeps(stack') /\ Preserves(stack')
    BY <1>12 DEF vars, Keeps, Preserves
  <2> QED
    BY <1>1, <1>12, <2>1, QuietStep DEF vars, rings
<1> QED
  BY <1>3, <1>4, <1>5, <1>6, <1>7, <1>8, <1>9, <1>10, <1>11, <1>12
  DEF Next, KernelStep, HandlerReturns

\* The three queues are bounded FIFO channels, for every capacity, drop policy,
\* drain budget and depth of re-entrancy: whatever user code does, short of a
\* drop-signal handler that publishes into the queue that drops, messages leave
\* in order and once, or by an eviction from a full queue.
THEOREM QueuesImplementChannels ==
  ASSUME ~SignalReentry
  PROVE  Spec => ImplementsChannels
<1>1. Init => Channels!Init
  <2> SUFFICES ASSUME Init PROVE Channels!Init
    OBVIOUS
  <2>1. \A q \in Queues : [k \in 1 .. count[q] |-> Pending(q)[k - 1]] = <<>>
    BY DEF Init
  <2>2. \A q \in Queues : Owed(q) = NoMessage
    BY DEF Init, Owed, Dropping
  <2> QED
    BY <2>1, <2>2 DEF Init, Channels!Init
<1>2. Init => Distinct /\ LoopsDrain
  <2>1. ASSUME Init PROVE Distinct
    BY <2>1 DEF Init, Distinct
  <2> QED
    BY <2>1, LoopsInit
<1>3. IInv /\ Distinct /\ LoopsDrain /\ [Next]_vars => (Distinct /\ LoopsDrain)'
  BY StepDistinct, LoopsStep
<1>4. IInv /\ IInv' /\ Distinct /\ LoopsDrain /\ [Next]_vars
        => [Channels!Next]_<<[q \in Queues |-> [k \in 1 .. count[q] |-> Pending(q)[k - 1]]],
                             [q \in Queues |-> Owed(q)], handed>>
  BY StepMaps DEF ChannelStep, Buffers, Buffer, Debts
<1> QED
  BY <1>1, <1>2, <1>3, <1>4, RingsInvariant, PTL
  DEF Spec, ImplementsChannels, Channels!Spec
===============================================================================
