---------------------------- MODULE RequestService ----------------------------
(***************************************************************************)
(* What a request pump promises its users: a bounded line of requests,     *)
(* served one at a time in the order they were accepted.  Each request     *)
(* that is served is reported exactly once before the next one starts,     *)
(* unless the service is started over.                                     *)
(***************************************************************************)
EXTENDS Naturals, Sequences

CONSTANTS Requests, Room, Displacing, NoRequest

VARIABLES
  waiting,    \* the accepted requests, oldest first
  serving,    \* the request being served, or NoRequest
  reported,   \* has the request being served been reported?
  fresh       \* has the service done nothing since it was started?

vars == <<waiting, serving, reported, fresh>>

Present(r) == r = serving \/ \E k \in 1 .. Len(waiting) : waiting[k] = r

Init == waiting = <<>> /\ serving = NoRequest /\ reported = FALSE /\ fresh = TRUE

Accept(r) ==
  /\ ~Present(r) /\ Len(waiting) < Room
  /\ waiting' = Append(waiting, r)
  /\ UNCHANGED <<serving, reported, fresh>>

\* A full line loses its oldest request, which is never reported.
Displace(r) ==
  /\ Displacing /\ ~Present(r) /\ Len(waiting) = Room
  /\ waiting' = Append(Tail(waiting), r)
  /\ UNCHANGED <<serving, reported, fresh>>

Start ==
  /\ serving = NoRequest /\ waiting # <<>>
  /\ serving' = Head(waiting)
  /\ waiting' = Tail(waiting)
  /\ reported' = FALSE
  /\ UNCHANGED fresh

Report ==
  /\ serving # NoRequest /\ ~reported
  /\ reported' = TRUE
  /\ UNCHANGED <<waiting, serving, fresh>>

Finish ==
  /\ serving # NoRequest /\ reported
  /\ serving' = NoRequest /\ reported' = FALSE
  /\ UNCHANGED <<waiting, fresh>>

Work == fresh /\ fresh' = FALSE /\ UNCHANGED <<waiting, serving, reported>>

\* The service starts over: what waits or is being served is forgotten.
Restart ==
  waiting' = <<>> /\ serving' = NoRequest /\ reported' = FALSE /\ fresh' = TRUE

Next ==
  \/ \E r \in Requests : Accept(r) \/ Displace(r)
  \/ Start \/ Report \/ Finish
  \/ Work \/ Restart

Spec == Init /\ [][Next]_vars
===============================================================================
