------------------------------ MODULE EventFlags ------------------------------
(***************************************************************************)
(* The event flags: one 32-bit word, set and cleared by single atomic      *)
(* operations from the loop and from interrupts, and taken by the loop in  *)
(* two of them: takeFlags loads the word and then clears the mask.  To the *)
(* loop a take is one step (docs/api.md:142); to an interrupt it is not.   *)
(***************************************************************************)
CONSTANT Flags   \* the bits of the word

VARIABLES
  flags,    \* eventFlags_
  taking,   \* takeFlags() between its two operations: its mask and what it
            \* captured; empty otherwise
  owed,     \* history: flags set, and since then neither cleared nor returned
  raced     \* history: the flags last set, first or again, between the two
            \* operations of a take of them

vars == <<flags, taking, owed, raced>>

Masks == SUBSET Flags \ {{}}
NoTake == [mask |-> {}, captured |-> {}]

SetFlags(mask) ==
  /\ flags' = flags \cup mask
  /\ owed' = owed \cup mask
  /\ raced' = (raced \ mask) \cup (mask \cap taking.mask)
  /\ UNCHANGED taking

ClearFlags(mask) ==
  /\ flags' = flags \ mask
  /\ owed' = owed \ mask /\ raced' = raced \ mask
  /\ UNCHANGED taking

TakeLoads(mask) ==
  /\ taking = NoTake
  /\ taking' = [mask |-> mask, captured |-> flags \cap mask]
  /\ UNCHANGED <<flags, owed, raced>>

\* Mutant: the whole word is cleared, not the mask.
TakeClearsAll ==
  /\ taking # NoTake
  /\ flags' = {}
  /\ owed' = owed \ (taking.captured \ raced) /\ UNCHANGED raced
  /\ taking' = NoTake

\* The captured flags are returned.  A flag of the mask that an interrupt has set
\* since the load is cleared with them: if it was captured its second setting is
\* lost, if not it is lost altogether, it was never returned and is not set.
TakeClears ==
  /\ taking # NoTake
  /\ flags' = flags \ taking.mask
  /\ owed' = owed \ (taking.captured \ raced) /\ UNCHANGED raced
  /\ taking' = NoTake

Init == flags = {} /\ taking = NoTake /\ owed = {} /\ raced = {}

Next ==
  \/ \E mask \in Masks : SetFlags(mask) \/ ClearFlags(mask) \/ TakeLoads(mask)
  \/ TakeClears

Spec == Init /\ [][Next]_vars

-------------------------------------------------------------------------------
\* A flag that is set stays set until it is cleared or returned, and none is seen
\* again after that.  The code keeps this for every setting but one: a flag set,
\* for the first time or again, between the load and the clear of a take of it
\* may be lost, returned to nobody.  takeFlags is atomic for the loop only.
FlagsKept ==
  /\ owed \subseteq flags \cup taking.captured \cup raced
  /\ flags \subseteq owed
===============================================================================
