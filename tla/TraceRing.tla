------------------------------ MODULE TraceRing ------------------------------
(***************************************************************************)
(* The trace: a ring that overwrites its oldest entry when it is full.     *)
(* Every kernel signal is traced, whether a signal handler is set or not.  *)
(***************************************************************************)
EXTENDS Integers, Sequences

CONSTANTS
  Entries,     \* what is traced: type, label, value and time
  MaxEntries,  \* kMaxTraceEntries
  NoEntry      \* TraceEntry()

\* kTraceStorage: a ring has at least one slot.
Storage == IF MaxEntries = 0 THEN 1 ELSE MaxEntries

\* What a model that instantiates this module assumes of its constants.
Parameters == MaxEntries \in 0 .. 255 /\ NoEntry \notin Entries

VARIABLES
  ring,              \* traceBuffer_
  head, tail, count, \* traceHead_, traceTail_, traceCount_
  recent             \* history: the last MaxEntries entries since the trace was cleared

vars == <<ring, head, tail, count, recent>>

Slots == 0 .. Storage - 1

NextSlot(i) == (i + 1) % Storage

\* Mutant: a full ring keeps its head.
PushTraceKeepingHead(e) ==
  /\ MaxEntries > 0
  /\ ring' = [ring EXCEPT ![tail] = e]
  /\ tail' = NextSlot(tail)
  /\ count' = IF count = MaxEntries THEN count ELSE count + 1
  /\ recent' = IF count = MaxEntries THEN Append(Tail(recent), e) ELSE Append(recent, e)
  /\ UNCHANGED head

\* pushTrace_, which emitSignal_ calls first.
PushTrace(e) ==
  /\ MaxEntries > 0
  /\ ring' = [ring EXCEPT ![tail] = e]
  /\ tail' = NextSlot(tail)
  /\ \/ count = MaxEntries /\ head' = NextSlot(head) /\ UNCHANGED count
     \/ count < MaxEntries /\ count' = count + 1 /\ UNCHANGED head
  /\ recent' = IF Len(recent) = MaxEntries THEN Append(Tail(recent), e) ELSE Append(recent, e)

\* resetTrace_, which clearTrace() and the constructor call.
ResetTrace ==
  /\ ring' = [i \in Slots |-> NoEntry]
  /\ head' = 0 /\ tail' = 0 /\ count' = 0
  /\ recent' = <<>>

\* What snapshotTrace copies into a buffer of the given capacity.
SnapshotTrace(capacity) ==
  [k \in 1 .. (IF capacity < count THEN capacity ELSE count) |-> ring[(head + k - 1) % Storage]]

Init ==
  /\ ring = [i \in Slots |-> NoEntry]
  /\ head = 0 /\ tail = 0 /\ count = 0
  /\ recent = <<>>

Next == (\E e \in Entries : PushTrace(e)) \/ ResetTrace

Spec == Init /\ [][Next]_vars

-------------------------------------------------------------------------------
SnapshotSize(capacity) == IF capacity < Len(recent) THEN capacity ELSE Len(recent)

\* Whatever has been overwritten, a snapshot shows entries traced since the last
\* clear in the order they were traced, without a gap or a stale one, and as many
\* as the buffer has room for.  Which ones a buffer gets that is shorter than the
\* trace it leaves open: see NewestShown.
TraceKept ==
  \A capacity \in 1 .. MaxEntries + 1 :
    \E skipped \in 0 .. Len(recent) - SnapshotSize(capacity) :
      SnapshotTrace(capacity) = SubSeq(recent, skipped + 1, skipped + SnapshotSize(capacity))

\* docs/api.md:163: a buffer gets the newest entries of the trace.
NewestShown ==
  \A capacity \in 1 .. MaxEntries + 1 :
    SnapshotTrace(capacity) = SubSeq(recent, Len(recent) - SnapshotSize(capacity) + 1, Len(recent))
===============================================================================
