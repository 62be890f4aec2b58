----------------------------- MODULE DispatchProps -----------------------------
(***************************************************************************)
(* Properties of the handler tables and of dispatch.                       *)
(***************************************************************************)
EXTENDS Dispatch

Frames ==
  [call : {"dispatch"}, topic : Topics, at : Slots, last : Slots,
   owed : SUBSET Slots, done : SUBSET Slots]
  \cup [call : {"register"}, table : Tables, entry : Subscriptions]

\* Every variable keeps its type: a slot only holds a handler of its table, and
\* the subscriptions a dispatch owes a call lie ahead of it in its table.
TablesTypeOK ==
  /\ DOMAIN slot = Slots
  /\ \A t \in Tables : \A i \in SlotsOf(t) :
       Used(i) => slot[i] \in Subscriptions /\ slot[i].handler \in HandlersOf[t]
  /\ stack \in Seq(Frames) /\ Len(stack) <= MaxDepth
  /\ collided \subseteq Tables \X Keys
  /\ \A k \in 1 .. Len(stack) : stack[k].call = "dispatch" =>
       \A i \in stack[k].owed : Matches(i, stack[k].topic) /\ i \in stack[k].at + 1 .. stack[k].last

\* A subscription that is there when a dispatch begins and until it ends is
\* called exactly once by it, whatever the handlers before it subscribe,
\* unsubscribe or publish in the same table.
Returning == Len(stack') < Len(stack) /\ Top.call = "dispatch"
CalledOnce ==
  [][ /\ Returning => Top.owed = {}
      /\ (HandlerReturns /\ Len(stack') = Len(stack)) => stack'[Len(stack)].at \notin Top.done ]_vars

\* No handler is registered twice for one topic, unless two labels of the same
\* key met in its table: the collision warning ends the search for duplicates,
\* and its signal handler may register in between.
HandlersUnique ==
  \A t \in Tables : \A i, j \in SlotsOf(t) :
    i < j /\ Used(i) /\ Duplicate(j, slot[i].handler, slot[i].topic)
      => <<t, slot[i].topic.key>> \in collided
===============================================================================
