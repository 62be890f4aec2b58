------------------------------ MODULE NetNodeProps ------------------------------
(***************************************************************************)
(* Properties of the network node.                                         *)
(***************************************************************************)
EXTENDS NetNode

\* Both components keep their types.
NodeTypeOK == TypeOK /\ WiFi!TypeOK /\ {joining, site, halfOpen, unseen} \subseteq BOOLEAN

\* Between the tasks the observers of the Wi-Fi state know what the maintainer
\* knows, whatever the link did between two polls: what they were told last is
\* what it acts on.
\* Only begin() on a running maintainer forgets that they were told of a link.
\* The network capability follows the maintainer's view of the link, and it
\* changes before the observers are told.
ObserversKnow == WiFi!ObserversKnow

\* Attempts to join the network keep their distance, which doubles while the
\* link stays down and starts again once it was seen.
AttemptsSpaced == WiFi!AttemptsSpaced

\* A link that is lost comes up only after the maintainer has noticed: the link
\* never flaps between two polls, so no loss goes without its disconnect step
\* and its notice.
LossNoticed == [][(~transport /\ transport') => ~online]_nodeVars

\* A session that has lost its link is closed with the maintainer's next look
\* at the link, unless the link was lost before the maintainer ever saw it:
\* then nothing runs the disconnect step, and the session stays half open until
\* the client notices.
HalfOpenClosed ==
  (session /\ ~transport) => online \/ wifiPc = "disconnect" \/ unseen

\* Once the network and the broker are back for good, telemetry that waits is
\* delivered or used up: the maintainer's polls, its backoff and the pump's do
\* not keep each other waiting.  Except across a wrap of the uptime.
Delivered ==
  \A m \in Messages :
    <>[]site => (Waiting(m) ~> (~Waiting(m) \/ Overlong \/ WiFi!Overlong))
===============================================================================
