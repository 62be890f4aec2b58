------------------------------ MODULE MCHttpPump ------------------------------
(***************************************************************************)
(* Small instances of the HTTP pump.                                       *)
(***************************************************************************)
EXTENDS HttpPumpProps

CONSTANTS r1, r2, r3, PhaseTimeout

MCRequests == {r1, r2, r3}
MCTimeout == [p \in Phases |-> PhaseTimeout]
MCGrants == {0, 2}
===============================================================================
