----------------------------- MODULE MCKernelParts -----------------------------
(***************************************************************************)
(* Small instances of the kernel's parts: three slots for subscribers, one *)
(* for typed ones, two labels that share a key; three flags; a trace of    *)
(* three entries.                                                          *)
(***************************************************************************)
EXTENDS KernelParts, TLC

CONSTANTS a, b, h1, h2, shared

MCLabels == {a, b}
MCKeyOf == [l \in MCLabels |-> shared]
MCSize == [event |-> 3, typed |-> 1, command |-> 0]
MCHandlersOf == [event |-> {h1}, typed |-> {h2}, command |-> {}]
Symmetry == Permutations({a, b})
===============================================================================
