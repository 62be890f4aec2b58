--------------------------- MODULE KernelParts_proofs ---------------------------
(***************************************************************************)
(* Proofs about the parts of the kernel, for every size of their tables,   *)
(* rings and sets.                                                         *)
(***************************************************************************)
EXTENDS KernelParts, WellFoundedInduction, SequenceTheorems, TLAPS

partsVars == <<vars, flagsVars, traceVars, budgetVars, moving>>

-------------------------------------------------------------------------------
(* The event flags.                                                        *)

\* A take clears only what it asked for; a flag of its mask that is set has
\* been captured, or was set after the load.
TakeSound ==
  /\ taking.captured \subseteq taking.mask
  /\ flags \cap taking.mask \subseteq taking.captured \cup raced
FlagsInv == EventFlags!FlagsKept /\ TakeSound

LEMMA FlagsInit == EventFlags!Init => FlagsInv
BY DEF EventFlags!Init, EventFlags!NoTake, EventFlags!FlagsKept, FlagsInv, TakeSound

LEMMA FlagsStep ==
  ASSUME FlagsInv, EventFlags!Next
  PROVE  FlagsInv'
<1> USE DEF FlagsInv, TakeSound, EventFlags!FlagsKept
<1>1. ASSUME NEW mask \in EventFlags!Masks, EventFlags!SetFlags(mask)
      PROVE  FlagsInv'
  BY <1>1 DEF EventFlags!SetFlags
<1>2. ASSUME NEW mask \in EventFlags!Masks, EventFlags!ClearFlags(mask)
      PROVE  FlagsInv'
  BY <1>2 DEF EventFlags!ClearFlags
<1>3. ASSUME NEW mask \in EventFlags!Masks, EventFlags!TakeLoads(mask)
      PROVE  FlagsInv'
  BY <1>3 DEF EventFlags!TakeLoads, EventFlags!NoTake
<1>4. ASSUME EventFlags!TakeClears
      PROVE  FlagsInv'
  BY <1>4 DEF EventFlags!TakeClears, EventFlags!NoTake
<1> QED
  BY <1>1, <1>2, <1>3, <1>4 DEF EventFlags!Next

-------------------------------------------------------------------------------
(* The handler tables.                                                     *)

\* A non-empty set of slots has a first one.
LEMMA FirstOf ==
  ASSUME NEW S \in SUBSET Nat, S # {}
  PROVE  First(S) \in S /\ \A j \in S : First(S) <= j
<1> DEFINE Less == {ss \in Nat \X Nat : ss[1] < ss[2]}
<1>0. IsWellFoundedOn(Less, Nat)
  BY NatLessThanWellFounded, Zenon DEF OpToRel
<1>1. PICK i \in S : \A j \in S : ~(<<j, i>> \in Less)
  BY <1>0, WFMin
<1>2. \A j \in S : ~(j < i)
  BY <1>1
<1>3. \A j \in S : i <= j
  BY <1>2
<1> QED
  BY <1>3 DEF First

\* The slots of the three tables lie one behind the other.
LEMMA SlotRanges ==
  /\ Slots \subseteq Nat
  /\ \A t \in Tables : SlotsOf(t) \subseteq Slots
  /\ \A t, u \in Tables : t # u => SlotsOf(t) \cap SlotsOf(u) = {}
  /\ \A t \in Tables : FirstSlot(t) \in Nat \ {0} /\ LastSlot(t) \in Nat /\ LastSlot(t) <= LastSlot("command")
<1> DEFINE e == Size["event"]
           d == Size["typed"]
           c == Size["command"]
<1>1. e \in Nat /\ d \in Nat /\ c \in Nat
  BY DispatchAssumption DEF Tables
<1>2. /\ FirstSlot("event") = 1 /\ LastSlot("event") = e
      /\ FirstSlot("typed") = e + 1 /\ LastSlot("typed") = e + d
      /\ FirstSlot("command") = e + d + 1 /\ LastSlot("command") = e + d + c
  BY <1>1 DEF FirstSlot, LastSlot
<1> HIDE DEF e, d, c
<1>3. Slots \subseteq Nat
  BY <1>1, <1>2 DEF Slots
<1>4. \A t \in Tables : SlotsOf(t) \subseteq Slots
  BY <1>1, <1>2 DEF Slots, SlotsOf, Tables
<1>5. \A t, u \in Tables : t # u => SlotsOf(t) \cap SlotsOf(u) = {}
  BY <1>1, <1>2 DEF SlotsOf, Tables
<1>6. \A t \in Tables :
        FirstSlot(t) \in Nat \ {0} /\ LastSlot(t) \in Nat /\ LastSlot(t) <= LastSlot("command")
  BY <1>1, <1>2 DEF Tables
<1> QED
  BY <1>3, <1>4, <1>5, <1>6

\* Matches for any contents of the tables.
MatchesIn(sl, i, topic) ==
  sl[i] # Free /\ sl[i].topic.key = topic.key /\ Compatible(sl[i].topic.label, topic.label)

DispatchFrames ==
  [call : {"dispatch"}, topic : Topics, at : Slots, last : Slots,
   owed : SUBSET Slots, done : SUBSET Slots]
RegisterFrames == [call : {"register"}, table : Tables, entry : Subscriptions]

\* What a suspended call relies on: a dispatch owes calls ahead of it and has
\* made those behind it; a registration met its collision.
Relies(f, sl, met) ==
  /\ f.call = "dispatch" =>
       /\ \A i \in f.owed : MatchesIn(sl, i, f.topic) /\ i \in f.at + 1 .. f.last
       /\ \A i \in f.done : i <= f.at
  /\ f.call = "register" =>
       f.entry.handler \in HandlersOf[f.table] /\ <<f.table, f.entry.topic.key>> \in met

SlotsTyped ==
  /\ DOMAIN slot = Slots
  /\ \A t \in Tables : \A i \in SlotsOf(t) :
       Used(i) => slot[i] \in Subscriptions /\ slot[i].handler \in HandlersOf[t]
  /\ collided \subseteq Tables \X Keys
StackSound ==
  /\ stack \in Seq(Frames) /\ Len(stack) <= MaxDepth
  /\ \A k \in 1 .. Len(stack) : Relies(stack[k], slot, collided)
TablesInv == SlotsTyped /\ StackSound /\ HandlersUnique

LEMMA FramesAre ==
  /\ Frames = DispatchFrames \cup RegisterFrames
  /\ \A f \in Frames : f.call = "dispatch" => f \in DispatchFrames
  /\ \A f \in Frames : f.call = "register" => f \in RegisterFrames
  /\ \A f \in Frames : f.call \in {"dispatch", "register"}
BY DEF Frames, DispatchFrames, RegisterFrames

LEMMA TablesInvTypes == TablesInv => TablesTypeOK
BY DEF TablesInv, SlotsTyped, StackSound, TablesTypeOK, Relies, Matches, MatchesIn, Used

\* A registration fills a free slot, or none.
LEMMA EnterFills ==
  ASSUME SlotsTyped, NEW t \in Tables, NEW s, Enter(t, s)
  PROVE  \/ slot' = slot
         \/ \E i \in SlotsOf(t) : ~Used(i) /\ slot' = [slot EXCEPT ![i] = s]
<1>1. CASE FreeSlots(t) = {}
  BY <1>1 DEF Enter
<1>2. CASE FreeSlots(t) # {}
  <2>1. FreeSlots(t) \in SUBSET Nat
    BY SlotRanges DEF FreeSlots
  <2>2. First(FreeSlots(t)) \in FreeSlots(t)
    BY <1>2, <2>1, FirstOf
  <2> QED
    BY <1>2, <2>2 DEF Enter, FreeSlots
<1> QED
  BY <1>1, <1>2

\* Filling a free slot disturbs no call in progress.
LEMMA FillKeepsFrames ==
  ASSUME NEW f, NEW sl, NEW i, ~(sl[i] # Free), i \in DOMAIN sl, NEW s, NEW met, NEW more,
         met \subseteq more, Relies(f, sl, met)
  PROVE  Relies(f, [sl EXCEPT ![i] = s], more)
BY DEF Relies, MatchesIn

LEMMA MoreKeepsFrames ==
  ASSUME NEW f, NEW sl, NEW met, NEW more, met \subseteq more, Relies(f, sl, met)
  PROVE  Relies(f, sl, more)
BY DEF Relies

\* An entry keeps its table typed and its handlers unique, if nothing equal is
\* there or the collision is on record.
LEMMA EnterKeepsTables ==
  ASSUME SlotsTyped, HandlersUnique, NEW t \in Tables, NEW s \in Subscriptions,
         s.handler \in HandlersOf[t], Enter(t, s),
         collided' = collided,
         \/ \A i \in SlotsOf(t) : ~Duplicate(i, s.handler, s.topic)
         \/ <<t, s.topic.key>> \in collided
  PROVE  SlotsTyped' /\ HandlersUnique'
<1>1. CASE slot' = slot
  BY <1>1 DEF SlotsTyped, HandlersUnique, Used, Duplicate
<1>2. ASSUME NEW i \in SlotsOf(t), ~Used(i), slot' = [slot EXCEPT ![i] = s]
      PROVE  SlotsTyped' /\ HandlersUnique'
  <2>1. /\ i \in Slots /\ slot'[i] = s
        /\ \A j \in Slots : j # i => slot'[j] = slot[j]
        /\ \A u \in Tables : u # t => i \notin SlotsOf(u)
        /\ \A u \in Tables : SlotsOf(u) \subseteq Slots
    BY <1>2, SlotRanges DEF SlotsTyped
  <2>2. SlotsTyped'
    <3>1. DOMAIN slot' = Slots
      BY <1>2 DEF SlotsTyped
    <3>2. ASSUME NEW u \in Tables, NEW j \in SlotsOf(u), slot'[j] # Free
          PROVE  slot'[j] \in Subscriptions /\ slot'[j].handler \in HandlersOf[u]
      BY <2>1, <3>2 DEF SlotsTyped, Used
    <3> QED
      BY <3>1, <3>2 DEF SlotsTyped, Used
  <2>3. HandlersUnique'
    <3> SUFFICES ASSUME NEW u \in Tables, NEW j \in SlotsOf(u), NEW k \in SlotsOf(u),
                        j < k, slot'[j] # Free, slot'[k] # Free,
                        slot'[k].handler = slot'[j].handler,
                        slot'[k].topic.key = slot'[j].topic.key,
                        Compatible(slot'[k].topic.label, slot'[j].topic.label)
                 PROVE  <<u, slot'[j].topic.key>> \in collided
      BY DEF HandlersUnique, Used, Duplicate
    <3>1. CASE j # i /\ k # i
      BY <3>1, <2>1 DEF HandlersUnique, Used, Duplicate
    <3>2. CASE j = i
      <4>1. k # i /\ u = t
        BY <3>2, <2>1, SlotRanges
      <4>2. slot'[j] = s /\ slot'[k] = slot[k] /\ Used(k)
        BY <4>1, <3>2, <2>1 DEF Used
      <4>3. Duplicate(k, s.handler, s.topic)
        BY <4>2 DEF Duplicate
      <4> QED
        BY <4>1, <4>2, <4>3
    <3>3. CASE k = i
      <4>1. j # i /\ u = t
        BY <3>3, <2>1, SlotRanges
      <4>2. slot'[k] = s /\ slot'[j] = slot[j] /\ Used(j)
        BY <4>1, <3>3, <2>1 DEF Used
      <4>3. Duplicate(j, s.handler, s.topic)
        BY <4>2 DEF Duplicate, Compatible
      <4> QED
        BY <4>1, <4>2, <4>3
    <3> QED
      BY <3>1, <3>2, <3>3
  <2> QED
    BY <2>2, <2>3
<1> QED
  BY <1>1, <1>2, EnterFills

\* The first elements of a sequence.
LEMMA FrontOf ==
  ASSUME NEW S, NEW s \in Seq(S), NEW n \in Nat, n <= Len(s)
  PROVE  /\ SubSeq(s, 1, n) \in Seq(S) /\ Len(SubSeq(s, 1, n)) = n
         /\ \A k \in 1 .. n : SubSeq(s, 1, n)[k] = s[k]
<1>1. \A k \in 1 .. n : s[k] \in S
  BY LenProperties
<1>2. n - 1 + 1 = n /\ (1 <= n \/ n = 0) /\ 1 \in Int /\ n \in Int
  OBVIOUS
<1>3. /\ SubSeq(s, 1, n) \in Seq(S)
      /\ Len(SubSeq(s, 1, n)) = IF 1 <= n THEN n - 1 + 1 ELSE 0
      /\ \A k \in 1 .. n - 1 + 1 : SubSeq(s, 1, n)[k] = s[1 + k - 1]
  BY <1>1, <1>2, SubSeqProperties
<1> QED
  BY <1>2, <1>3

\* The frames below the innermost call are sound.
LEMMA BelowSound ==
  ASSUME StackSound, stack # <<>>
  PROVE  /\ Top \in Frames /\ Relies(Top, slot, collided)
         /\ Below \in Seq(Frames) /\ Len(Below) = Len(stack) - 1
         /\ Len(stack) \in Nat /\ Len(stack) > 0
         /\ \A k \in 1 .. Len(Below) : Below[k] = stack[k]
<1>1. Len(stack) \in Nat /\ Len(stack) > 0
  BY EmptySeq, LenProperties DEF StackSound
<1>2. \A k \in 1 .. Len(stack) - 1 : stack[k] \in Frames
  BY <1>1, ElementOfSeq DEF StackSound
<1>3. Top \in Frames /\ Relies(Top, slot, collided)
  BY <1>1, ElementOfSeq DEF StackSound, Top
<1>4. /\ Below \in Seq(Frames) /\ Len(Below) = Len(stack) - 1
      /\ \A k \in 1 .. Len(Below) : Below[k] = stack[k]
  <2>1. stack \in Seq(Frames) /\ Len(stack) - 1 \in Nat /\ Len(stack) - 1 <= Len(stack)
    BY <1>1 DEF StackSound
  <2> QED
    BY <2>1, FrontOf DEF Below
<1> QED
  BY <1>1, <1>3, <1>4

\* What a push, a pop and a replacement of the innermost call owe the stack.
LEMMA PushSound ==
  ASSUME StackSound, NEW f \in Frames, Len(stack) < MaxDepth, stack' = Append(stack, f),
         Relies(f, slot', collided'),
         \A k \in 1 .. Len(stack) : Relies(stack[k], slot', collided')
  PROVE  StackSound' /\ Len(stack') >= Len(stack)
<1>1. Len(stack) \in Nat
  BY LenProperties DEF StackSound
<1>2. /\ stack' \in Seq(Frames) /\ Len(stack') = Len(stack) + 1
      /\ \A k \in 1 .. Len(stack) : stack'[k] = stack[k]
      /\ stack'[Len(stack) + 1] = f
  BY AppendProperties DEF StackSound
<1>3. MaxDepth \in Nat
  BY DispatchAssumption
<1> QED
  BY <1>1, <1>2, <1>3 DEF StackSound

LEMMA PopSound ==
  ASSUME StackSound, stack # <<>>, stack' = Below,
         \A k \in 1 .. Len(stack) : Relies(stack[k], slot', collided')
  PROVE  StackSound'
<1>1. /\ Below \in Seq(Frames) /\ Len(Below) = Len(stack) - 1 /\ Len(stack) \in Nat
      /\ \A k \in 1 .. Len(Below) : Below[k] = stack[k]
  BY BelowSound
<1>2. MaxDepth \in Nat /\ Len(stack) <= MaxDepth
  BY DispatchAssumption DEF StackSound
<1>3. Len(Below) <= MaxDepth
  BY <1>1, <1>2
<1>4. \A k \in 1 .. Len(Below) : Relies(Below[k], slot', collided')
  BY <1>1
<1> QED
  BY <1>1, <1>3, <1>4 DEF StackSound

LEMMA ReplaceSound ==
  ASSUME StackSound, stack # <<>>, NEW f \in Frames, stack' = Append(Below, f),
         Relies(f, slot', collided'), slot' = slot, collided' = collided
  PROVE  StackSound'
<1>1. /\ Below \in Seq(Frames) /\ Len(Below) = Len(stack) - 1 /\ Len(stack) \in Nat
      /\ Len(stack) > 0 /\ \A k \in 1 .. Len(Below) : Below[k] = stack[k]
  BY BelowSound
<1>2. /\ stack' \in Seq(Frames) /\ Len(stack') = Len(stack)
      /\ \A k \in 1 .. Len(Below) : stack'[k] = stack[k]
      /\ stack'[Len(stack)] = f
  BY <1>1, AppendProperties
<1> QED
  BY <1>1, <1>2 DEF StackSound

\* The subscriptions dispatch calls next.
LEMMA CalledNextFacts ==
  ASSUME NEW topic, NEW after \in Nat, NEW last \in Nat, last <= LastSlot("command")
  PROVE  /\ CalledNext(topic, after, last) \in SUBSET Slots
         /\ CalledNext(topic, after, last) \in SUBSET Nat
         /\ \A i \in CalledNext(topic, after, last) :
              MatchesIn(slot, i, topic) /\ after < i /\ i <= last
BY SlotRanges DEF CalledNext, Matches, MatchesIn, Used, Slots, Tables

LEMMA RangesFacts ==
  ASSUME NEW range \in Ranges
  PROVE  range[1] \in Nat \ {0} /\ range[2] \in Nat /\ range[2] <= LastSlot("command")
BY SlotRanges DEF Ranges, Tables

LEMMA PublishKeeps ==
  ASSUME TablesInv, NEW topic \in Topics, NEW range \in Ranges, Publish(topic, range)
  PROVE  TablesInv' /\ Len(stack') >= Len(stack)
<1> DEFINE called == CalledNext(topic, range[1] - 1, range[2])
           first == First(called)
           f == Frame(topic, first, range[2], called \ {first}, {first})
<1>1. /\ called # {} /\ Len(stack) < MaxDepth
      /\ stack' = Append(stack, f) /\ slot' = slot /\ collided' = collided
  BY DEF Publish
<1>2. range[1] - 1 \in Nat /\ range[2] \in Nat /\ range[2] <= LastSlot("command")
  BY RangesFacts
<1>3. /\ called \in SUBSET Slots /\ called \in SUBSET Nat
      /\ \A i \in called : MatchesIn(slot, i, topic) /\ i <= range[2]
  BY <1>2, CalledNextFacts
<1> HIDE DEF called
<1>4. first \in called /\ \A j \in called : first <= j
  BY <1>1, <1>3, FirstOf
<1> HIDE DEF first
<1>5. \A j \in called \ {first} : j \in first + 1 .. range[2]
  BY <1>2, <1>3, <1>4
<1>6. range[2] \in Slots
  BY <1>2, <1>3, <1>4, SlotRanges DEF Slots
<1>7. f \in DispatchFrames
  BY <1>3, <1>4, <1>6 DEF Frame, DispatchFrames
<1>8. Relies(f, slot, collided)
  <2>1. \A i \in {first} : i <= first
    BY <1>3, <1>4
  <2> QED
    BY <1>3, <1>5, <2>1 DEF Frame, Relies
<1>9. f \in Frames
  BY <1>7, FramesAre
<1> HIDE DEF f
<1>10. StackSound' /\ Len(stack') >= Len(stack)
  <2>1. \A k \in 1 .. Len(stack) : Relies(stack[k], slot', collided')
    BY <1>1 DEF TablesInv, StackSound
  <2> QED
    BY <1>1, <1>8, <1>9, <2>1, PushSound DEF TablesInv
<1>11. SlotsTyped' /\ HandlersUnique'
  BY <1>1 DEF TablesInv, SlotsTyped, HandlersUnique, Used, Duplicate
<1> QED
  BY <1>10, <1>11 DEF TablesInv

\* A dispatch that returns owes nothing; one that goes on calls a subscription
\* for the first time.
LEMMA HandlerReturnsKeeps ==
  ASSUME TablesInv, HandlerReturns
  PROVE  /\ TablesInv'
         /\ Len(stack') < Len(stack) => Top.owed = {}
         /\ Len(stack') = Len(stack) => stack'[Len(stack)].at \notin Top.done
<1> DEFINE called == CalledNext(Top.topic, Top.at, Top.last)
           next == First(called)
           after == IF next \in Top.owed THEN Top.done \cup {next} ELSE Top.done
           f == Frame(Top.topic, next, Top.last, Top.owed \ {next}, after)
<1>1. /\ stack # <<>> /\ Top.call = "dispatch"
      /\ stack' = IF called = {} THEN Below ELSE Append(Below, f)
      /\ slot' = slot /\ collided' = collided
  BY DEF HandlerReturns
<1>2. /\ Top \in DispatchFrames /\ Relies(Top, slot, collided)
      /\ Below \in Seq(Frames) /\ Len(Below) = Len(stack) - 1
      /\ Len(stack) \in Nat /\ Len(stack) > 0
  BY <1>1, BelowSound, FramesAre DEF TablesInv
<1>3. /\ Top.topic \in Topics /\ Top.at \in Slots /\ Top.last \in Slots
      /\ Top.owed \in SUBSET Slots /\ Top.done \in SUBSET Slots
  BY <1>2 DEF DispatchFrames
<1>4. /\ \A i \in Top.owed : MatchesIn(slot, i, Top.topic) /\ i \in Top.at + 1 .. Top.last
      /\ \A i \in Top.done : i <= Top.at
  BY <1>1, <1>2 DEF Relies
<1>5. Top.at \in Nat /\ Top.last \in Nat /\ Top.last <= LastSlot("command")
  BY <1>3, SlotRanges DEF Slots, Tables
<1>6. /\ called \in SUBSET Slots /\ called \in SUBSET Nat
      /\ \A i \in called : MatchesIn(slot, i, Top.topic) /\ Top.at < i /\ i <= Top.last
  BY <1>5, CalledNextFacts
<1>7. Top.owed \subseteq called
  BY <1>4 DEF CalledNext, Matches, MatchesIn, Used
<1> HIDE DEF called
<1>8. SlotsTyped' /\ HandlersUnique'
  BY <1>1 DEF TablesInv, SlotsTyped, HandlersUnique, Used, Duplicate
<1>9. CASE called = {}
  <2>1. StackSound'
    <3>1. \A k \in 1 .. Len(stack) : Relies(stack[k], slot', collided')
      BY <1>1 DEF TablesInv, StackSound
    <3> QED
      BY <1>1, <1>9, <3>1, PopSound DEF TablesInv
  <2>2. Top.owed = {} /\ Len(stack') = Len(stack) - 1
    BY <1>1, <1>2, <1>7, <1>9
  <2> QED
    BY <1>2, <1>8, <2>1, <2>2 DEF TablesInv
<1>10. CASE called # {}
  <2>1. next \in called /\ \A j \in called : next <= j
    BY <1>6, <1>10, FirstOf
  <2> HIDE DEF next
  <2>2. next \in Nat /\ Top.at < next /\ next <= Top.last /\ next \in Slots
    BY <1>6, <2>1
  <2>3. f \in DispatchFrames
    BY <1>3, <2>2 DEF Frame, DispatchFrames
  <2>4. \A i \in Top.owed \ {next} :
          MatchesIn(slot, i, Top.topic) /\ i \in next + 1 .. Top.last
    BY <1>4, <1>6, <1>7, <2>1, <2>2
  <2>5. \A i \in after : i <= next
    <3>1. \A i \in Top.done : i \in Nat /\ i <= Top.at
      BY <1>3, <1>4, SlotRanges
    <3>2. \A i \in Top.done : i <= next
      BY <1>5, <2>2, <3>1
    <3> QED
      BY <2>2, <3>2
  <2>6. Relies(f, slot, collided)
    BY <2>4, <2>5 DEF Frame, Relies
  <2>7. f \in Frames /\ f.at = next
    BY <2>3, FramesAre DEF Frame
  <2> HIDE DEF f
  <2>8. StackSound'
    BY <1>1, <1>10, <2>6, <2>7, ReplaceSound DEF TablesInv
  <2>9. stack' = Append(Below, f)
    BY <1>1, <1>10
  <2>10. Len(stack') = Len(stack) /\ stack'[Len(stack)] = f
    BY <1>2, <2>7, <2>9, AppendProperties
  <2>11. next \notin Top.done
    BY <1>4, <1>5, <2>2
  <2> QED
    BY <1>2, <1>8, <2>7, <2>8, <2>10, <2>11 DEF TablesInv
<1> QED
  BY <1>9, <1>10

\* Registration.  What stops the search is in the table.
LEMMA SubscribeKeeps ==
  ASSUME TablesInv, NEW t \in Tables, NEW h \in HandlersOf[t], NEW topic \in Topics,
         Subscribe(t, h, topic)
  PROVE  TablesInv'
<1> DEFINE s == [topic |-> topic, handler |-> h]
<1>1. /\ Stops(t, h, topic) = {} /\ Enter(t, s) /\ stack' = stack /\ collided' = collided
  BY DEF Subscribe
<1>2. s \in Subscriptions /\ s.handler = h /\ s.topic = topic
  BY DEF Subscriptions, Handlers
<1> HIDE DEF s
<1>3. \A i \in SlotsOf(t) : ~Duplicate(i, s.handler, s.topic)
  BY <1>1, <1>2 DEF Stops
<1>4. SlotsTyped' /\ HandlersUnique'
  BY <1>1, <1>2, <1>3, EnterKeepsTables DEF TablesInv
<1>5. \A k \in 1 .. Len(stack) : Relies(stack[k], slot', collided')
  <2>1. CASE slot' = slot
    BY <1>1, <2>1 DEF TablesInv, StackSound
  <2>2. ASSUME NEW i \in SlotsOf(t), ~Used(i), slot' = [slot EXCEPT ![i] = s]
        PROVE  \A k \in 1 .. Len(stack) : Relies(stack[k], slot', collided')
    BY <1>1, <2>2, SlotRanges, FillKeepsFrames DEF TablesInv, StackSound, SlotsTyped, Used
  <2> QED
    BY <1>1, <2>1, <2>2, EnterFills DEF TablesInv
<1> QED
  BY <1>1, <1>4, <1>5 DEF TablesInv, StackSound

LEMMA SubscribeWarnsKeeps ==
  ASSUME TablesInv, NEW t \in Tables, NEW h \in HandlersOf[t], NEW topic \in Topics,
         SubscribeWarns(t, h, topic)
  PROVE  TablesInv' /\ Len(stack') >= Len(stack)
<1> DEFINE s == [topic |-> topic, handler |-> h]
           f == [call |-> "register", table |-> t, entry |-> s]
           more == collided \cup {<<t, topic.key>>}
<1>1. /\ Len(stack) < MaxDepth /\ stack' = Append(stack, f)
      /\ slot' = slot /\ collided' = more
  BY DEF SubscribeWarns
<1>2. s \in Subscriptions /\ topic.key \in Keys
  BY DEF Subscriptions, Handlers, Topics, Keys
<1>3. f \in RegisterFrames
  BY <1>2 DEF RegisterFrames
<1>4. f \in Frames
  BY <1>3, FramesAre
<1>5. Relies(f, slot, more)
  BY DEF Relies
<1>6. \A k \in 1 .. Len(stack) : Relies(stack[k], slot, more)
  BY MoreKeepsFrames DEF TablesInv, StackSound
<1>7. SlotsTyped' /\ HandlersUnique'
  BY <1>1, <1>2 DEF TablesInv, SlotsTyped, HandlersUnique, Used, Duplicate
<1> HIDE DEF f, more
<1>8. StackSound' /\ Len(stack') >= Len(stack)
  BY <1>1, <1>4, <1>5, <1>6, PushSound DEF TablesInv
<1> QED
  BY <1>7, <1>8 DEF TablesInv

LEMMA SignalReturnsKeeps ==
  ASSUME TablesInv, SignalReturns
  PROVE  TablesInv'
<1> DEFINE t == Top.table
           s == Top.entry
<1>1. /\ stack # <<>> /\ Top.call = "register" /\ Enter(t, s)
      /\ stack' = Below /\ collided' = collided
  BY DEF SignalReturns
<1>2. Top \in RegisterFrames /\ Relies(Top, slot, collided)
  BY <1>1, BelowSound, FramesAre DEF TablesInv
<1>3. /\ t \in Tables /\ s \in Subscriptions /\ s.handler \in HandlersOf[t]
      /\ <<t, s.topic.key>> \in collided
  BY <1>1, <1>2 DEF RegisterFrames, Relies
<1> HIDE DEF t, s
<1>4. SlotsTyped' /\ HandlersUnique'
  BY <1>1, <1>3, EnterKeepsTables DEF TablesInv
<1>5. \A k \in 1 .. Len(stack) : Relies(stack[k], slot', collided')
  <2>1. CASE slot' = slot
    BY <1>1, <2>1 DEF TablesInv, StackSound
  <2>2. ASSUME NEW i \in SlotsOf(t), ~Used(i), slot' = [slot EXCEPT ![i] = s]
        PROVE  \A k \in 1 .. Len(stack) : Relies(stack[k], slot', collided')
    BY <1>1, <1>3, <2>2, SlotRanges, FillKeepsFrames DEF TablesInv, StackSound, SlotsTyped, Used
  <2> QED
    BY <1>1, <1>3, <2>1, <2>2, EnterFills DEF TablesInv
<1> QED
  BY <1>1, <1>4, <1>5, PopSound DEF TablesInv

\* An unsubscription empties slots, and is no longer owed to anyone.
LEMMA UnsubscribeKeeps ==
  ASSUME TablesInv, NEW t \in Tables, NEW h, NEW topic, Unsubscribe(t, h, topic)
  PROVE  TablesInv' /\ Len(stack') >= Len(stack)
<1> DEFINE gone == Leaving(t, h, topic)
<1>1. /\ slot' = [i \in Slots |-> IF i \in gone THEN Free ELSE slot[i]]
      /\ stack' = Forget(gone) /\ collided' = collided
  BY DEF Unsubscribe
<1> HIDE DEF gone
<1>2. \A i \in Slots : slot'[i] # Free => i \notin gone /\ slot'[i] = slot[i]
  BY <1>1
<1>3. SlotsTyped' /\ HandlersUnique'
  BY <1>1, <1>2, SlotRanges DEF TablesInv, SlotsTyped, HandlersUnique, Used, Duplicate
<1>4. Len(stack) \in Nat /\ DOMAIN stack = 1 .. Len(stack)
  BY LenProperties DEF TablesInv, StackSound
<1>5. ASSUME NEW k \in 1 .. Len(stack)
      PROVE  Forget(gone)[k] \in Frames /\ Relies(Forget(gone)[k], slot', collided')
  <2>1. stack[k] \in Frames /\ Relies(stack[k], slot, collided)
    BY <1>4, ElementOfSeq DEF TablesInv, StackSound
  <2>2. CASE stack[k].call = "dispatch"
    <3> DEFINE g == [stack[k] EXCEPT !.owed = @ \ gone, !.done = @ \ gone]
    <3>1. Forget(gone)[k] = g
      BY <2>2 DEF Forget
    <3>2. stack[k] \in DispatchFrames
      BY <2>1, <2>2, FramesAre
    <3>3. /\ g \in DispatchFrames /\ g.topic = stack[k].topic /\ g.call = "dispatch"
          /\ g.at = stack[k].at /\ g.last = stack[k].last
          /\ g.owed = stack[k].owed \ gone /\ g.done = stack[k].done \ gone
      BY <3>2 DEF DispatchFrames
    <3> HIDE DEF g
    <3>4. stack[k].owed \subseteq Slots
      BY <3>2 DEF DispatchFrames
    <3>5. \A i \in g.owed : MatchesIn(slot', i, g.topic) /\ i \in g.at + 1 .. g.last
      BY <1>1, <2>1, <2>2, <3>3, <3>4 DEF Relies, MatchesIn
    <3>6. \A i \in g.done : i <= g.at
      BY <2>1, <2>2, <3>3 DEF Relies
    <3> QED
      BY <3>1, <3>3, <3>5, <3>6, FramesAre DEF Relies
  <2>3. CASE stack[k].call # "dispatch"
    <3>1. Forget(gone)[k] = stack[k]
      BY <2>3 DEF Forget
    <3> QED
      BY <1>1, <2>1, <2>3, <3>1 DEF Relies
  <2> QED
    BY <2>2, <2>3
<1>6. Forget(gone) \in Seq(Frames) /\ Len(Forget(gone)) = Len(stack)
  <2>1. Forget(gone) \in [1 .. Len(stack) -> Frames]
    BY <1>5 DEF Forget
  <2> QED
    BY <1>4, <2>1
<1>7. StackSound' /\ Len(stack') >= Len(stack)
  BY <1>1, <1>5, <1>6 DEF TablesInv, StackSound
<1> QED
  BY <1>3, <1>7 DEF TablesInv

LEMMA TablesInit == Init => TablesInv
<1> SUFFICES ASSUME Init PROVE TablesInv
  OBVIOUS
<1>1. SlotsTyped /\ HandlersUnique
  BY SlotRanges DEF Init, SlotsTyped, HandlersUnique, Used
<1>2. StackSound
  BY EmptySeq, DispatchAssumption DEF Init, StackSound
<1> QED
  BY <1>1, <1>2 DEF TablesInv

LEMMA TablesStep ==
  ASSUME TablesInv, [Next]_vars
  PROVE  /\ TablesInv'
         /\ Returning => Top.owed = {}
<1>0. Len(stack) \in Nat /\ SlotsTyped
  BY LenProperties DEF TablesInv, StackSound
<1>1. ASSUME NEW topic \in Topics, NEW range \in Ranges, Publish(topic, range)
      PROVE  TablesInv' /\ Len(stack') >= Len(stack)
  BY <1>1, PublishKeeps DEF Publish
<1>2. ASSUME NEW topic \in Topics, NEW t \in Tables, NEW h \in HandlersOf[t],
             Subscribe(t, h, topic)
      PROVE  TablesInv' /\ Len(stack') >= Len(stack)
  BY <1>2, <1>0, SubscribeKeeps DEF Subscribe
<1>3. ASSUME NEW topic \in Topics, NEW t \in Tables, NEW h \in HandlersOf[t],
             SubscribeWarns(t, h, topic)
      PROVE  TablesInv' /\ Len(stack') >= Len(stack)
  BY <1>3, SubscribeWarnsKeeps DEF SubscribeWarns
<1>4. ASSUME NEW topic \in Topics, NEW t \in Tables, NEW h \in HandlersOf[t] \cup {NoHandler},
             Unsubscribe(t, h, topic)
      PROVE  TablesInv' /\ Len(stack') >= Len(stack)
  BY <1>4, <1>0, UnsubscribeKeeps DEF Unsubscribe
<1>5. ASSUME HandlerReturns
      PROVE  TablesInv' /\ (Len(stack') < Len(stack) => Top.owed = {})
  BY <1>5, HandlerReturnsKeeps DEF HandlerReturns
<1>6. ASSUME SignalReturns
      PROVE  TablesInv' /\ Top.call # "dispatch"
  <2>1. Top.table \in Tables
    BY <1>6, BelowSound, FramesAre DEF SignalReturns, RegisterFrames, TablesInv
  <2> QED
    BY <1>6, <1>0, <2>1, SignalReturnsKeeps DEF SignalReturns
<1>7. ASSUME UNCHANGED vars
      PROVE  TablesInv' /\ Len(stack') >= Len(stack)
  BY <1>7, <1>0 DEF vars, TablesInv, SlotsTyped, StackSound, HandlersUnique, Used, Duplicate
<1>8. \A n \in Nat : n < Len(stack) => ~(n >= Len(stack))
  BY <1>0
<1>9. TablesInv' => Len(stack') \in Nat
  BY LenProperties DEF TablesInv, StackSound
<1>10. TablesInv'
  BY <1>1, <1>2, <1>3, <1>4, <1>5, <1>6, <1>7 DEF Next, User
<1>11. Returning => Top.owed = {}
  BY <1>1, <1>2, <1>3, <1>4, <1>5, <1>6, <1>7, <1>8, <1>9, <1>10 DEF Next, User, Returning
<1> QED
  BY <1>10, <1>11

-------------------------------------------------------------------------------
(* The trace.                                                              *)

\* Position x of the ring, for x below twice its size.
Reduced(x) == IF x < Trace!Storage THEN x ELSE x - Trace!Storage

LEMMA Reduction ==
  ASSUME NEW x \in Nat, x < 2 * Trace!Storage
  PROVE  x % Trace!Storage = Reduced(x) /\ Trace!Storage \in 1 .. 255
<1> DEFINE S == Trace!Storage
<1>1. S \in 1 .. 255
  BY KernelPartsAssumption DEF Trace!Storage, Trace!Parameters
<1> HIDE DEF S
<1>2. CASE x < S
  BY <1>1, <1>2 DEF Reduced, S
<1>3. CASE x >= S
  <2>1. x = (x - S) + S /\ x - S \in 0 .. S - 1
    BY <1>1, <1>3 DEF S
  <2>2. x % S = x - S
    BY <1>1, <2>1
  <2> QED
    BY <1>1, <1>3, <2>2 DEF Reduced, S
<1> QED
  BY <1>1, <1>2, <1>3 DEF S

\* The window of the ring from head on holds the last entries traced.
TraceInv ==
  /\ recent \in Seq(Entries) /\ Len(recent) = count
  /\ count \in 0 .. MaxEntries
  /\ head \in Trace!Slots
  /\ tail = Reduced(head + count)
  /\ DOMAIN ring = Trace!Slots
  /\ \A k \in 1 .. count : ring[Reduced(head + k - 1)] = recent[k]

LEMMA TraceInit == Trace!Init => TraceInv
<1> SUFFICES ASSUME Trace!Init PROVE TraceInv
  OBVIOUS
<1>1. Trace!Storage \in 1 .. 255
  BY Reduction, KernelPartsAssumption DEF Trace!Storage, Trace!Parameters
<1>2. 0 \in Trace!Slots /\ Reduced(0) = 0
  BY <1>1 DEF Trace!Slots, Reduced
<1> QED
  BY <1>1, <1>2, KernelPartsAssumption DEF Trace!Init, Trace!Parameters, TraceInv

LEMMA PushTraceKeeps ==
  ASSUME TraceInv, NEW e \in Entries, Trace!PushTrace(e)
  PROVE  TraceInv'
<1> DEFINE S == Trace!Storage
<1>1. S = MaxEntries /\ S \in 1 .. 255 /\ MaxEntries > 0
  BY KernelPartsAssumption DEF Trace!PushTrace, Trace!Storage, Trace!Parameters
<1>2. /\ head \in 0 .. S - 1 /\ count \in 0 .. S /\ tail \in 0 .. S - 1
      /\ tail = Reduced(head + count) /\ Len(recent) = count
  BY <1>1 DEF TraceInv, Trace!Slots, Reduced
<1>3. /\ Trace!NextSlot(head) = Reduced(head + 1)
      /\ Trace!NextSlot(tail) = Reduced(tail + 1)
  BY <1>1, <1>2, Reduction DEF Trace!NextSlot
<1>4. /\ ring' = [ring EXCEPT ![tail] = e] /\ tail' = Reduced(tail + 1)
      /\ DOMAIN ring = 0 .. S - 1
  BY <1>3 DEF Trace!PushTrace, TraceInv, Trace!Slots
<1> HIDE DEF S
<1>5. CASE count = MaxEntries
  <2>1. head' = Reduced(head + 1) /\ count' = count /\ tail = head
    BY <1>1, <1>2, <1>3, <1>5 DEF Trace!PushTrace, Reduced, S
  <2>2. recent' = Append(Tail(recent), e) /\ recent # <<>>
    BY <1>1, <1>2, <1>5, EmptySeq DEF Trace!PushTrace
  <2>3. /\ Tail(recent) \in Seq(Entries) /\ Len(Tail(recent)) = count - 1
        /\ \A k \in 1 .. count - 1 : Tail(recent)[k] = recent[k + 1]
    BY <1>2, <2>2, HeadTailProperties DEF TraceInv
  <2>4. /\ recent' \in Seq(Entries) /\ Len(recent') = count
        /\ \A k \in 1 .. count - 1 : recent'[k] = recent[k + 1]
        /\ recent'[count] = e
    BY <1>2, <2>2, <2>3, AppendProperties
  <2>5. ASSUME NEW k \in 1 .. count
        PROVE  ring'[Reduced(head' + k - 1)] = recent'[k]
    <3>1. CASE k = count
      <4>1. Reduced(head' + k - 1) = tail
        BY <1>1, <1>2, <1>5, <2>1, <3>1 DEF Reduced, S
      <4> QED
        BY <1>2, <1>4, <2>4, <3>1, <4>1
    <3>2. CASE k < count
      <4>1. /\ Reduced(head' + k - 1) = Reduced(head + (k + 1) - 1)
            /\ Reduced(head' + k - 1) \in 0 .. S - 1 /\ Reduced(head' + k - 1) # tail
        BY <1>1, <1>2, <1>5, <2>1, <3>2 DEF Reduced, S
      <4>2. ring[Reduced(head + (k + 1) - 1)] = recent[k + 1]
        BY <1>2, <3>2 DEF TraceInv
      <4> QED
        BY <1>4, <2>4, <3>2, <4>1, <4>2
    <3> QED
      BY <1>2, <3>1, <3>2
  <2>6. head' \in 0 .. S - 1 /\ tail' = Reduced(head' + count')
    BY <1>1, <1>2, <1>4, <1>5, <2>1 DEF Reduced, S
  <2> QED
    BY <1>1, <1>2, <1>4, <2>1, <2>4, <2>5, <2>6 DEF TraceInv, Trace!Slots, S
<1>6. CASE count < MaxEntries
  <2>1. head' = head /\ count' = count + 1
    BY <1>1, <1>2, <1>6 DEF Trace!PushTrace
  <2>2. recent' = Append(recent, e)
    BY <1>1, <1>2, <1>6 DEF Trace!PushTrace
  <2>3. /\ recent' \in Seq(Entries) /\ Len(recent') = count + 1
        /\ \A k \in 1 .. count : recent'[k] = recent[k]
        /\ recent'[count + 1] = e
    BY <1>2, <2>2, AppendProperties DEF TraceInv
  <2>4. ASSUME NEW k \in 1 .. count + 1
        PROVE  ring'[Reduced(head + k - 1)] = recent'[k]
    <3>1. CASE k = count + 1
      <4>1. Reduced(head + k - 1) = tail
        BY <1>2, <3>1
      <4> QED
        BY <1>2, <1>4, <2>3, <3>1, <4>1
    <3>2. CASE k <= count
      <4>1. Reduced(head + k - 1) \in 0 .. S - 1 /\ Reduced(head + k - 1) # tail
        BY <1>1, <1>2, <1>6, <3>2 DEF Reduced, S
      <4>2. ring[Reduced(head + k - 1)] = recent[k]
        BY <1>2, <3>2 DEF TraceInv
      <4> QED
        BY <1>2, <1>4, <2>3, <3>2, <4>1, <4>2
    <3> QED
      BY <1>2, <3>1, <3>2
  <2>5. count' \in 0 .. MaxEntries /\ tail' = Reduced(head' + count')
    BY <1>1, <1>2, <1>4, <1>6, <2>1 DEF Reduced, S
  <2> QED
    BY <1>2, <1>4, <2>1, <2>3, <2>4, <2>5 DEF TraceInv, Trace!Slots, S
<1> QED
  BY <1>1, <1>2, <1>5, <1>6

LEMMA TraceStep ==
  ASSUME TraceInv, Trace!Next
  PROVE  TraceInv'
<1>1. Trace!ResetTrace => TraceInv'
  <2>1. Trace!ResetTrace => Trace!Init'
    BY DEF Trace!ResetTrace, Trace!Init
  <2> QED
    BY <2>1, TraceInit, PTL
<1> QED
  BY <1>1, PushTraceKeeps DEF Trace!Next

LEMMA SnapshotsInOrder ==
  ASSUME TraceInv
  PROVE  TraceKept
<1> SUFFICES ASSUME NEW capacity_ \in 1 .. MaxEntries + 1
             PROVE  \E skipped \in 0 .. Len(recent) - Trace!SnapshotSize(capacity_) :
                      Trace!SnapshotTrace(capacity_) =
                        SubSeq(recent, skipped + 1, skipped + Trace!SnapshotSize(capacity_))
  BY DEF TraceKept, Trace!TraceKept
<1> DEFINE n == IF capacity_ < count THEN capacity_ ELSE count
<1>1. MaxEntries \in Nat /\ count \in Nat /\ n \in Nat /\ n <= count /\ Len(recent) = count
  BY KernelPartsAssumption DEF TraceInv, Trace!Parameters
<1>2. Trace!SnapshotTrace(capacity_) = [k \in 1 .. n |-> ring[(head + k - 1) % Trace!Storage]]
  BY DEF Trace!SnapshotTrace
<1> HIDE DEF n
<1>3. /\ SubSeq(recent, 1, n) \in Seq(Entries) /\ Len(SubSeq(recent, 1, n)) = n
      /\ \A k \in 1 .. n : SubSeq(recent, 1, n)[k] = recent[k]
  BY <1>1, FrontOf DEF TraceInv
<1>4. ASSUME NEW k \in 1 .. n
      PROVE  ring[(head + k - 1) % Trace!Storage] = recent[k]
  <2>1. /\ head \in Nat /\ head < Trace!Storage /\ Trace!Storage \in Nat
        /\ count <= Trace!Storage
    BY <1>1, Reduction, KernelPartsAssumption
    DEF TraceInv, Trace!Slots, Trace!Storage, Trace!Parameters
  <2>2. head + k - 1 \in Nat /\ head + k - 1 < 2 * Trace!Storage
    BY <1>1, <2>1
  <2>3. (head + k - 1) % Trace!Storage = Reduced(head + k - 1)
    BY <2>2, Reduction
  <2> QED
    BY <1>1, <2>3 DEF TraceInv
<1>5. SubSeq(recent, 1, n) = [k \in 1 .. n |-> recent[k]]
  <2>1. SubSeq(recent, 1, n) = [k \in 1 .. n |-> SubSeq(recent, 1, n)[k]]
    BY <1>1, <1>3, LenProperties
  <2> QED
    BY <1>3, <2>1
<1>6. Trace!SnapshotTrace(capacity_) = SubSeq(recent, 1, n)
  BY <1>2, <1>4, <1>5
<1>7. Trace!SnapshotSize(capacity_) = n
  BY <1>1 DEF Trace!SnapshotSize, n
<1>8. /\ 0 \in 0 .. Len(recent) - n
      /\ Trace!SnapshotTrace(capacity_) = SubSeq(recent, 0 + 1, 0 + n)
  BY <1>1, <1>6
<1> QED
  BY <1>7, <1>8

-------------------------------------------------------------------------------
(* The drain budgets.                                                      *)

\* A multiplier of at least one does not lower the base budget.
LEMMA ScaledBase ==
  ASSUME NEW b \in Nat, NEW m \in Nat, m >= 1
  PROVE  b * m \in Nat /\ b * m >= b
<1>1. PICK k \in Nat : m = k + 1
  <2>1. m - 1 \in Nat /\ m = (m - 1) + 1
    OBVIOUS
  <2> QED
    BY <2>1
<1>2. b * (k + 1) = b * k + b
  OBVIOUS
<1>3. b * k \in Nat
  OBVIOUS
<1> QED
  BY <1>1, <1>2, <1>3

\* The adaptive budget, where its sum does not wrap: at least the base, or the
\* whole queue.
LEMMA RaisedLimitBounds ==
  ASSUME NEW c \in 1 .. 255, NEW b \in 1 .. c, NEW n \in 1 .. c,
         n > c \div 2 /\ n < (c * 3) \div 4 => b + n \div 2 <= 255
  PROVE  /\ Budget!RaisedLimit(n, b, c) \in 1 .. 255
         /\ Budget!RaisedLimit(n, b, c) >= b \/ Budget!RaisedLimit(n, b, c) = n
<1>1. CASE n >= (c * 3) \div 4
  BY <1>1 DEF Budget!RaisedLimit
<1>2. CASE n > c \div 2 /\ n < (c * 3) \div 4
  <2>1. b + n \div 2 \in b .. 255
    BY <1>2
  <2>2. Budget!U8(b + n \div 2) = b + n \div 2
    BY <2>1 DEF Budget!U8
  <2> QED
    BY <1>2, <2>1, <2>2 DEF Budget!RaisedLimit
<1>3. CASE ~(n >= (c * 3) \div 4) /\ ~(n > c \div 2 /\ n < (c * 3) \div 4)
  BY <1>3 DEF Budget!RaisedLimit
<1> QED
  BY <1>1, <1>2, <1>3

\* The budget of a tick that ran a task.
LEMMA NormalBounds ==
  ASSUME NEW c \in 1 .. 255, NEW b \in 0 .. c, NEW n \in 1 .. c,
         AdaptiveDrain /\ n > c \div 2 /\ n < (c * 3) \div 4 => b + n \div 2 <= 255
  PROVE  Budget!ResolveDrainLimit(n, b, c) \in Budget!AtMost(n, Budget!AtLeast(b, 1)) .. n
<1>1. CASE b = 0
  BY <1>1 DEF Budget!ResolveDrainLimit, Budget!AtMost, Budget!AtLeast
<1>2. CASE b # 0
  <2>0. b \in 1 .. c
    BY <1>2
  <2>1. AdaptiveDrain =>
          /\ Budget!RaisedLimit(n, b, c) \in 1 .. 255
          /\ Budget!RaisedLimit(n, b, c) >= b \/ Budget!RaisedLimit(n, b, c) = n
    BY <2>0, RaisedLimitBounds, Zenon
  <2> QED
    BY <1>2, <2>1, KernelPartsAssumption DEF Budget!ResolveDrainLimit, Budget!AtMost, Budget!AtLeast
<1> QED
  BY <1>1, <1>2

\* The budget of a tick that ran no task.
LEMMA IdleBounds ==
  ASSUME NEW c \in 1 .. 255, NEW b \in 0 .. c, NEW n \in 1 .. c
  PROVE  Budget!ResolveIdleDrainLimit(n, b, c) \in Budget!AtMost(n, Budget!AtLeast(b, 1)) .. n
<1>1. CASE b = 0
  BY <1>1 DEF Budget!ResolveIdleDrainLimit, Budget!AtMost, Budget!AtLeast
<1>2. CASE b # 0
  <2>1. b * IdleMultiplier \in Nat /\ b * IdleMultiplier >= b
    BY ScaledBase, KernelPartsAssumption
  <2> DEFINE product == b * IdleMultiplier
  <2>2. product \in Nat /\ product >= b
    BY <2>1
  <2> HIDE DEF product
  <2>3. Budget!AtMost(n, Budget!AtMost(Budget!AtMost(Budget!AtLeast(product, b), c), 255)) \in Budget!AtMost(n, Budget!AtLeast(b, 1)) .. n
    BY <1>2, <2>2 DEF Budget!AtMost, Budget!AtLeast
  <2> QED
    BY <1>2, <2>3 DEF Budget!ResolveIdleDrainLimit, product
<1> QED
  BY <1>1, <1>2

\* What a queue holds; its limits are in bounds.
Filled == capacity \in 0 .. 255 /\ base \in 0 .. capacity /\ queued \in 0 .. capacity

LEMMA FilledBounded ==
  ASSUME Filled
  PROVE  LimitsBounded
<1> SUFFICES ASSUME queued > 0
             PROVE  LimitsBounded
  BY DEF LimitsBounded, Budget!LimitsBounded
<1>1. capacity \in 1 .. 255 /\ queued \in 1 .. capacity /\ base \in 0 .. capacity
  BY DEF Filled
<1>2. \/ Budget!Wraps
      \/ Budget!Normal \in Budget!AtMost(queued, Budget!AtLeast(base, 1)) .. queued
  <2> SUFFICES ASSUME ~Budget!Wraps
               PROVE  Budget!Normal \in Budget!AtMost(queued, Budget!AtLeast(base, 1)) .. queued
    OBVIOUS
  <2>1. AdaptiveDrain /\ queued > capacity \div 2 /\ queued < (capacity * 3) \div 4
          => base + queued \div 2 <= 255
    BY <1>1 DEF Budget!Wraps
  <2> QED
    BY <1>1, <2>1, NormalBounds, Zenon DEF Budget!Normal
<1>3. Budget!Idle \in Budget!AtMost(queued, Budget!AtLeast(base, 1)) .. queued
  BY <1>1, IdleBounds, Zenon DEF Budget!Idle
<1> QED
  BY <1>2, <1>3 DEF LimitsBounded, Budget!LimitsBounded

-------------------------------------------------------------------------------
(* The parts side by side.                                                 *)

PartsInv == TablesInv /\ FlagsInv /\ TraceInv

LEMMA PartsInvInit == PartsInit => PartsInv
BY TablesInit, FlagsInit, TraceInit DEF PartsInit, PartsInv

LEMMA PartsInvStep ==
  ASSUME PartsInv, [PartsNext]_partsVars
  PROVE  PartsInv'
<1>1. TablesInv'
  <2>1. [Next]_vars
    BY DEF PartsNext, partsVars
  <2> QED
    BY <2>1, TablesStep DEF PartsInv
<1>2. FlagsInv'
  <2>1. EventFlags!Next \/ UNCHANGED flagsVars
    BY DEF PartsNext, partsVars
  <2>2. UNCHANGED flagsVars => FlagsInv'
    BY DEF flagsVars, PartsInv, FlagsInv, TakeSound, EventFlags!FlagsKept
  <2> QED
    BY <2>1, <2>2, FlagsStep DEF PartsInv
<1>3. TraceInv'
  <2>1. Trace!Next \/ UNCHANGED traceVars
    BY DEF PartsNext, partsVars
  <2>2. UNCHANGED traceVars => TraceInv'
    BY DEF traceVars, PartsInv, TraceInv
  <2> QED
    BY <2>1, <2>2, TraceStep DEF PartsInv
<1> QED
  BY <1>1, <1>2, <1>3 DEF PartsInv

LEMMA PartsInvariant == PartsSpec => []PartsInv
BY PartsInvInit, PartsInvStep, PTL DEF PartsSpec, partsVars

\* Whatever handlers do to the tables they are called from, a slot only holds a
\* handler of its table, and a dispatch owes calls only to subscriptions that
\* are still there and ahead of it (the tables of EventHub.cpp).
THEOREM TablesTyped == PartsSpec => []TablesTypeOK
<1>1. PartsInv => TablesTypeOK
  BY TablesInvTypes DEF PartsInv
<1> QED
  BY <1>1, PartsInvariant, PTL

\* No handler is in a table twice for one topic, unless a collision was
\* signalled for it, for every size of the tables and depth of re-entrancy.
THEOREM NoHandlerTwice == PartsSpec => []HandlersUnique
<1>1. PartsInv => HandlersUnique
  BY DEF PartsInv, TablesInv
<1> QED
  BY <1>1, PartsInvariant, PTL

\* A subscription present throughout a dispatch is called by it exactly once,
\* whatever the handlers before it did to the table.
THEOREM EachCalledOnce == PartsSpec => CalledOnce
<1>1. PartsInv /\ [PartsNext]_partsVars =>
        [ /\ Returning => Top.owed = {}
          /\ (HandlerReturns /\ Len(stack') = Len(stack))
               => stack'[Len(stack)].at \notin Top.done ]_vars
  <2> SUFFICES ASSUME PartsInv, [PartsNext]_partsVars
               PROVE  /\ Returning => Top.owed = {}
                      /\ (HandlerReturns /\ Len(stack') = Len(stack))
                           => stack'[Len(stack)].at \notin Top.done
    OBVIOUS
  <2>1. [Next]_vars
    BY DEF PartsNext, partsVars
  <2> QED
    BY <2>1, TablesStep, HandlerReturnsKeeps DEF PartsInv
<1> QED
  BY <1>1, PartsInvariant, PTL DEF PartsSpec, partsVars, CalledOnce

\* However interrupts fall between the two halves of a take, a flag that is set
\* stays set until it is cleared or returned, and is not seen again after that:
\* only a flag whose last setting, the first one included, came between the load
\* and the clear of a take of it may be lost, and that one may go unreturned.
THEOREM FlagsNotLost == PartsSpec => []FlagsKept
<1>1. PartsInv => FlagsKept
  BY DEF PartsInv, FlagsInv, FlagsKept
<1> QED
  BY <1>1, PartsInvariant, PTL

\* A snapshot of the trace shows consecutive entries that are left, in order and as
\* many as fit, for every size of the ring and of the buffer.  Nothing is claimed
\* of which ones a buffer gets that is shorter than the trace.
THEOREM SnapshotsSound == PartsSpec => []TraceKept
<1>1. PartsInv => TraceKept
  BY SnapshotsInOrder DEF PartsInv
<1> QED
  BY <1>1, PartsInvariant, PTL

\* In every build the compiler accepts a tick's drain limits lie between the base
\* budget and the length of the queue, and are never 0, except where the sum of
\* the raised budget exceeds 255: there the code wraps it and the limit of a tick
\* that ran a task is too small, or none.
THEOREM LimitsStayBounded == PartsSpec => []LimitsBounded
<1>1. PartsInit => Filled
  <2> SUFFICES ASSUME PartsInit PROVE Filled
    OBVIOUS
  <2>1. Budget!Init \/ (capacity = 0 /\ base = 0 /\ queued = 0)
    BY Zenon DEF PartsInit
  <2>2. CASE Budget!Init
    <3>1. capacity \in Capacities /\ base \in 0 .. capacity /\ queued = 0
      BY <2>2 DEF Budget!Init
    <3>2. capacity \in 0 .. 255
      BY <3>1, KernelPartsAssumption
    <3> QED
      BY <3>1, <3>2 DEF Filled
  <2>3. CASE capacity = 0 /\ base = 0 /\ queued = 0
    BY <2>3 DEF Filled
  <2> QED
    BY <2>1, <2>2, <2>3
<1>2. Filled /\ [PartsNext]_partsVars => Filled'
  BY DEF PartsNext, partsVars, budgetVars, Budget!Enqueue, Filled
<1>3. Filled => LimitsBounded
  BY FilledBounded
<1> QED
  BY <1>1, <1>2, <1>3, PTL DEF PartsSpec, partsVars
===============================================================================
