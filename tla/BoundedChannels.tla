---------------------------- MODULE BoundedChannels ----------------------------
(***************************************************************************)
(* What the deferred queues promise their users, without rings, counters   *)
(* or call stacks: a family of bounded FIFO channels.  A message put into  *)
(* a full channel is refused, or makes room by evicting the oldest one; in *)
(* the second case the channel owes its user the message until it is       *)
(* stored.  A coalescing channel never holds two equal messages.           *)
(***************************************************************************)
EXTENDS Naturals, Sequences

CONSTANTS Channels, Bound, Evicting, Coalescing, Values, NoValue

VARIABLES
  buffer,   \* channel -> the messages it holds, oldest first
  owed,     \* channel -> the message an eviction made room for, or NoValue
  handed    \* channel -> the message handed over last

Holds(c, v) == \E k \in 1 .. Len(buffer[c]) : buffer[c][k] = v
Fresh(c, v) == Coalescing => ~Holds(c, v)

Init ==
  /\ buffer = [c \in Channels |-> <<>>]
  /\ owed = [c \in Channels |-> NoValue]
  /\ handed = [c \in Channels |-> NoValue]

\* A message enters a channel that has room.
Put(c, v) ==
  /\ Len(buffer[c]) < Bound[c] /\ Fresh(c, v) /\ owed[c] = NoValue
  /\ buffer' = [buffer EXCEPT ![c] = Append(@, v)]
  /\ UNCHANGED <<owed, handed>>

\* The oldest message of a full channel is lost to make room for v.
Evict(c, v) ==
  /\ c \in Evicting /\ Len(buffer[c]) = Bound[c] /\ Bound[c] > 0
  /\ Fresh(c, v) /\ owed[c] = NoValue
  /\ buffer' = [buffer EXCEPT ![c] = Tail(@)]
  /\ owed' = [owed EXCEPT ![c] = v]
  /\ UNCHANGED handed

\* The message room was made for enters the channel.
Settle(c) ==
  /\ owed[c] # NoValue /\ Len(buffer[c]) < Bound[c] /\ Fresh(c, owed[c])
  /\ buffer' = [buffer EXCEPT ![c] = Append(@, owed[c])]
  /\ owed' = [owed EXCEPT ![c] = NoValue]
  /\ UNCHANGED handed

\* The oldest message is handed over.
Take(c) ==
  /\ buffer[c] # <<>>
  /\ buffer' = [buffer EXCEPT ![c] = Tail(@)]
  /\ handed' = [handed EXCEPT ![c] = Head(buffer[c])]
  /\ UNCHANGED owed

Clear ==
  /\ buffer' = [c \in Channels |-> <<>>]
  /\ UNCHANGED <<owed, handed>>

Next ==
  \/ \E c \in Channels : \E v \in Values[c] : Put(c, v) \/ Evict(c, v)
  \/ \E c \in Channels : Settle(c) \/ Take(c)
  \/ Clear

Spec == Init /\ [][Next]_<<buffer, owed, handed>>
===============================================================================
