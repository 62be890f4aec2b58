------------------------------- MODULE MCNetNode -------------------------------
(***************************************************************************)
(* Small instances of the network node.                                    *)
(***************************************************************************)
EXTENDS NetNodeProps

CONSTANTS m1

MCMessages == {m1}
===============================================================================
