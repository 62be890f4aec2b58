------------------------------ MODULE MCHttpNode ------------------------------
(***************************************************************************)
(* A small instance of the HTTP node.                                      *)
(***************************************************************************)
EXTENDS HttpNodeProps

CONSTANTS r1, r2, PhaseTimeout

MCRequests == {r1, r2}
MCTimeout == [p \in Phases |-> PhaseTimeout]
MCCounted ==
  {"connectAttempts", "connectSuccesses", "connectFailures",
   "sendAttempts", "sendSuccesses", "sendFailures"}
===============================================================================
