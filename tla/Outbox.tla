-------------------------------- MODULE Outbox --------------------------------
(***************************************************************************)
(* What the MQTT pump promises of the messages it accepts, without times,  *)
(* connections and ticks: they are tried in order, one at a time; a        *)
(* message leaves only when it was sent, when its last try failed, when a  *)
(* full outbox displaces it to make room before it is tried, or when the   *)
(* outbox is emptied.                                                      *)
(***************************************************************************)
EXTENDS Integers, Sequences

CONSTANTS Messages, Room, Grants, Displacing

VARIABLES
  box,     \* the messages, with the retries each has left
  trying   \* the first one has been handed to the transport

vars == <<box, trying>>

Boxed(m) == \E k \in 1 .. Len(box) : box[k].id = m

Accept(m, grant) ==
  /\ ~Boxed(m)
  /\ LET e == [id |-> m, retries |-> grant]
     IN  \/ Len(box) < Room /\ box' = Append(box, e)
         \/ Len(box) = Room /\ Displacing /\ ~trying /\ box' = Append(Tail(box), e)
  /\ UNCHANGED trying

Try == box # <<>> /\ ~trying /\ trying' = TRUE /\ UNCHANGED box

Sent == trying /\ trying' = FALSE /\ box' = Tail(box)

Failed ==
  /\ trying /\ trying' = FALSE
  /\ box' = IF Head(box).retries = 0 THEN Tail(box) ELSE [box EXCEPT ![1].retries = @ - 1]

Empty == ~trying /\ box' = <<>> /\ UNCHANGED trying

Init == box = <<>> /\ trying = FALSE

Next ==
  \/ \E m \in Messages : \E g \in Grants : Accept(m, g)
  \/ Try \/ Sent \/ Failed \/ Empty

Spec == Init /\ [][Next]_vars
===============================================================================
