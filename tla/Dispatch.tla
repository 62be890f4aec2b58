-------------------------------- MODULE Dispatch --------------------------------
(***************************************************************************)
(* The three tables of handlers (event subscribers, typed subscribers,     *)
(* command handlers) and synchronous dispatch through them.  Dispatch      *)
(* walks a table while the handlers it calls publish, subscribe and        *)
(* unsubscribe in the same table; a subscription whose key collides with   *)
(* another label's calls the signal handler between its search of the      *)
(* table and its own entry.                                                *)
(*                                                                         *)
(* stack is the nesting of kernel calls that user code is running in:      *)
(* dispatches whose handler is running, and registrations whose signal     *)
(* handler is.  Payloads and counters are left out.                        *)
(***************************************************************************)
EXTENDS Integers, Sequences, FiniteSets

CONSTANTS
  Size,       \* table -> its number of slots
  HandlersOf, \* table -> the handlers user code registers there
  Labels,     \* topic and command names
  NoLabel,    \* the NULL label of the Fast functions
  KeyOf,      \* label -> its topicKey_; two labels may share one
  NoHandler,  \* the NULL of unsubscribe
  Warns,      \* ZEROKERNEL_ENABLE_DIAGNOSTICS: collisions are signalled
  MaxDepth    \* bound: nested kernel calls

Tables == {"event", "typed", "command"}
Keys == {KeyOf[l] : l \in Labels}
Handlers == UNION {HandlersOf[t] : t \in Tables}

ASSUME DispatchAssumption ==
  /\ Size \in [Tables -> Nat]
  /\ NoLabel \notin Labels
  /\ NoHandler \notin Handlers
  /\ Warns \in BOOLEAN /\ MaxDepth \in Nat

\* The slots are numbered through, in the order dispatch looks at them.
FirstSlot(t) ==
  CASE t = "event" -> 1
    [] t = "typed" -> Size["event"] + 1
    [] t = "command" -> Size["event"] + Size["typed"] + 1
LastSlot(t) == FirstSlot(t) + Size[t] - 1
SlotsOf(t) == FirstSlot(t) .. LastSlot(t)
Slots == 1 .. LastSlot("command")

\* How user code names a topic: by label, or by key alone.
Topics == {[key |-> KeyOf[l], label |-> l] : l \in Labels}
          \cup {[key |-> k, label |-> NoLabel] : k \in Keys}
Subscriptions == [topic : Topics, handler : Handlers]
Free == [free |-> TRUE]

VARIABLES
  slot,     \* subscribers_, typedSubscribers_, commandHandlers_
  stack,    \* the calls in progress, the innermost last
  collided  \* history: the tables and keys a collision was signalled for

vars == <<slot, stack, collided>>

Used(i) == slot[i] # Free
First(S) == CHOOSE i \in S : \A j \in S : i <= j

\* labelsEqual, where both labels are known.
Compatible(a, b) == a = NoLabel \/ b = NoLabel \/ a = b

\* The test of dispatch and unsubscribe; a call by key does not look at labels.
Matches(i, topic) ==
  Used(i) /\ slot[i].topic.key = topic.key /\ Compatible(slot[i].topic.label, topic.label)

-------------------------------------------------------------------------------
(* Dispatch.                                                               *)

\* A dispatch frame: the topic, the slot whose handler runs, the last slot it
\* looks at.  history: the subscriptions that have been there since it began,
\* not called yet (owed) and called (done).
Frame(topic, at, last, owed, done) ==
  [call |-> "dispatch", topic |-> topic, at |-> at, last |-> last, owed |-> owed, done |-> done]
Top == stack[Len(stack)]
Below == SubSeq(stack, 1, Len(stack) - 1)

CalledNext(topic, after, last) == {i \in after + 1 .. last : Matches(i, topic)}

\* publishTyped*, publish*, and each message a drain takes: a long value goes
\* to both tables of subscribers, another value to the typed ones only.
Ranges == {<<FirstSlot("event"), LastSlot("typed")>>,
           <<FirstSlot("typed"), LastSlot("typed")>>,
           <<FirstSlot("command"), LastSlot("command")>>}

Publish(topic, range) ==
  LET called == CalledNext(topic, range[1] - 1, range[2])
      first == First(called)
  IN  /\ Len(stack) < MaxDepth
      /\ called # {}
      /\ stack' = Append(stack, Frame(topic, first, range[2], called \ {first}, {first}))
      /\ UNCHANGED <<slot, collided>>

HandlerReturns ==
  /\ stack # <<>> /\ Top.call = "dispatch"
  /\ LET called == CalledNext(Top.topic, Top.at, Top.last)
         next == First(called)
     IN  stack' = IF called = {} THEN Below
                  ELSE Append(Below,
                         Frame(Top.topic, next, Top.last, Top.owed \ {next},
                               IF next \in Top.owed THEN Top.done \cup {next} ELSE Top.done))
  /\ UNCHANGED <<slot, collided>>

-------------------------------------------------------------------------------
(* Registration.                                                           *)

Duplicate(i, h, topic) ==
  /\ Used(i) /\ slot[i].handler = h
  /\ slot[i].topic.key = topic.key /\ Compatible(slot[i].topic.label, topic.label)

Collides(i, topic) ==
  /\ Warns /\ Used(i)
  /\ slot[i].topic.key = topic.key /\ ~Compatible(slot[i].topic.label, topic.label)

\* What the search of the table stops at.
Stops(t, h, topic) == {i \in SlotsOf(t) : Duplicate(i, h, topic) \/ Collides(i, topic)}

\* Mutant: the table is searched one slot too far.
FreeSlotsPastEnd(t) == {i \in FirstSlot(t) .. LastSlot(t) + 1 : i \in Slots /\ ~Used(i)}

\* findFreeSubscriberIndex_, findFreeTypedSubscriberIndex_, findFreeCommandHandlerIndex_.
FreeSlots(t) == {i \in SlotsOf(t) : ~Used(i)}

\* A full table refuses the registration.
Enter(t, s) ==
  slot' = IF FreeSlots(t) = {} THEN slot ELSE [slot EXCEPT ![First(FreeSlots(t))] = s]

\* Mutant: a NULL label is taken for a label of its own.
SubscribeComparingLabels(t, h, topic) ==
  /\ \A i \in SlotsOf(t) :
       slot[i] # [topic |-> topic, handler |-> h] /\ ~Collides(i, topic)
  /\ Enter(t, [topic |-> topic, handler |-> h])
  /\ UNCHANGED <<stack, collided>>

\* A handler that is there already is refused.
Subscribe(t, h, topic) ==
  /\ Stops(t, h, topic) = {}
  /\ Enter(t, [topic |-> topic, handler |-> h])
  /\ UNCHANGED <<stack, collided>>

\* A collision ends the search, duplicates behind it are not found; the signal
\* handler runs before the registration is entered.
SubscribeWarns(t, h, topic) ==
  /\ Len(stack) < MaxDepth
  /\ Stops(t, h, topic) # {}
  /\ Collides(First(Stops(t, h, topic)), topic)
  /\ stack' = Append(stack, [call |-> "register", table |-> t,
                             entry |-> [topic |-> topic, handler |-> h]])
  /\ collided' = collided \cup {<<t, topic.key>>}
  /\ UNCHANGED slot

SignalReturns ==
  /\ stack # <<>> /\ Top.call = "register"
  /\ Enter(Top.table, Top.entry)
  /\ stack' = Below
  /\ UNCHANGED collided

\* The frames without the subscriptions of the slots in gone.
Forget(gone) ==
  [k \in 1 .. Len(stack) |->
     IF stack[k].call = "dispatch"
       THEN [stack[k] EXCEPT !.owed = @ \ gone, !.done = @ \ gone] ELSE stack[k]]

\* Mutant: the table is kept without gaps.
UnsubscribeCompacting(t, h, topic) ==
  LET matching == {i \in SlotsOf(t) : Matches(i, topic) /\ h \in {NoHandler, slot[i].handler}}
  IN  /\ matching # {}
      /\ LET i == First(matching)
         IN  slot' = [j \in Slots |->
                        IF j \in i .. LastSlot(t) - 1 THEN slot[j + 1]
                        ELSE IF j = LastSlot(t) THEN Free ELSE slot[j]]
      /\ stack' = Forget({First(matching)})
      /\ UNCHANGED collided

\* Who leaves: the first slot of one handler, or, without one, all of the topic.
Leaving(t, h, topic) ==
  LET matching == {i \in SlotsOf(t) : Matches(i, topic) /\ h \in {NoHandler, slot[i].handler}}
  IN  IF h = NoHandler \/ matching = {} THEN matching ELSE {First(matching)}

Unsubscribe(t, h, topic) ==
  LET gone == Leaving(t, h, topic)
  IN  /\ gone # {}
      /\ slot' = [i \in Slots |-> IF i \in gone THEN Free ELSE slot[i]]
      /\ stack' = Forget(gone)
      /\ UNCHANGED collided

-------------------------------------------------------------------------------
Init ==
  /\ slot = [i \in Slots |-> Free]
  /\ stack = <<>>
  /\ collided = {}

\* User code: outside the kernel, in a handler, or in the signal handler.
User ==
  \E topic \in Topics :
    \/ \E range \in Ranges : Publish(topic, range)
    \/ \E t \in Tables : \E h \in HandlersOf[t] : Subscribe(t, h, topic) \/ SubscribeWarns(t, h, topic)
    \/ \E t \in Tables : \E h \in HandlersOf[t] \cup {NoHandler} : Unsubscribe(t, h, topic)

Next == User \/ HandlerReturns \/ SignalReturns

Spec == Init /\ [][Next]_vars
===============================================================================
