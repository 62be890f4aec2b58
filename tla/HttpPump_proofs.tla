--------------------------- MODULE HttpPump_proofs ---------------------------
(***************************************************************************)
(* Proofs about the HTTP pump, for every set of requests, configuration    *)
(* and behaviour of the link, the steps and the completion handlers, as    *)
(* long as no callback calls begin() or reset().                           *)
(***************************************************************************)
EXTENDS HttpPumpProps, Doubling_proofs, SequenceTheorems, TLAPS

NoRestart == "restart" \notin CallbackMay

\* A tick that may still step a phase has budget left for it, and a request is
\* reported exactly while the subscribers of its completion event run.
BudgetLeft == pc \in {"body", "step"} => budget > 0
ReportedNow == reported = (pc = "complete")
RequestKnown == active => request.id # NoRequest
TickedNow == pc # "user" => ticked
IInv == TypeOK /\ BudgetLeft /\ ReportedNow /\ RequestKnown /\ TickedNow

LEMMA ModuloInTime ==
  ASSUME NEW n \in Int
  PROVE  n % Wrap \in Time
BY HttpPumpAssumption DEF Time

\* The parts of TypeOK.
QueueType == queue \in Seq(Entry) /\ Len(queue) <= Capacity
FlagType == active \in BOOLEAN /\ ticked \in BOOLEAN /\ stepped \in BOOLEAN /\ reported \in BOOLEAN
RequestType == request \in [id : Requests \cup {NoRequest}, retries : 0 .. 255]
TimeType ==
  phaseStarted \in Time /\ nextRetry \in Time /\ clock \in Time /\ now \in Time
CountType == retries \in 0 .. 255 /\ retryMs \in Nat /\ budget \in 0 .. 255
ControlType ==
  /\ phase \in Phases \cup {"Idle"}
  /\ pc \in {"user", "body", "step", "abort", "complete"}
  /\ active = (phase # "Idle")
  /\ InCallback => active

Typed == QueueType /\ FlagType /\ RequestType /\ TimeType /\ CountType /\ ControlType

LEMMA TypeParts == (TypeOK <=> Typed) /\ (TypeOK' <=> Typed')
BY DEF TypeOK, Typed, QueueType, FlagType, RequestType, TimeType, CountType, ControlType

LEMMA InitInv == Init => IInv
<1> SUFFICES ASSUME Init PROVE IInv
  OBVIOUS
<1>1. QueueType
  BY HttpPumpAssumption DEF Init, QueueType
<1>2. FlagType
  BY DEF Init, FlagType
<1>6. RequestType
  BY DEF Init, RequestType, Idle
<1>3. TimeType /\ CountType
  BY HttpPumpAssumption DEF Init, TimeType, CountType, Time
<1>4. ControlType
  BY DEF Init, ControlType, InCallback, Phases
<1>5. BudgetLeft /\ ReportedNow /\ RequestKnown /\ TickedNow
  BY DEF Init, BudgetLeft, ReportedNow, RequestKnown, TickedNow
<1> QED
  BY <1>1, <1>2, <1>3, <1>4, <1>5, <1>6, TypeParts DEF IInv, Typed

-------------------------------------------------------------------------------
(* Each step preserves the invariant.                                      *)

Others == BudgetLeft /\ ReportedNow /\ RequestKnown /\ TickedNow

LEMMA EnqueueInv ==
  ASSUME IInv, NEW r \in Requests, NEW g \in Grants, Enqueue(r, g)
  PROVE  IInv'
<1> DEFINE e == [id |-> r, retries |-> g]
<1>1. e \in Entry
  BY HttpPumpAssumption DEF Entry
<1>2. /\ queue \in Seq(Entry) /\ Len(queue) \in Nat
      /\ Len(queue) <= Capacity /\ Capacity \in Nat \ {0}
  BY HttpPumpAssumption DEF IInv, TypeOK
<1>3. QueueType'
  <2>1. CASE Len(queue) < Capacity /\ queue' = Append(queue, e)
    <3>1. queue' \in Seq(Entry) /\ Len(queue') = Len(queue) + 1
      BY <1>1, <1>2, <2>1, AppendProperties
    <3> QED
      BY <1>2, <2>1, <3>1 DEF QueueType
  <2>2. CASE Len(queue) = Capacity /\ queue' = Append(Tail(queue), e)
    <3>1. queue # <<>>
      BY <1>2, <2>2
    <3>2. Tail(queue) \in Seq(Entry) /\ Len(Tail(queue)) = Len(queue) - 1
      BY <1>2, <3>1, HeadTailProperties
    <3>3. queue' \in Seq(Entry) /\ Len(queue') = Len(Tail(queue)) + 1
      BY <1>1, <2>2, <3>2, AppendProperties
    <3> QED
      BY <1>2, <2>2, <3>2, <3>3 DEF QueueType
  <2> QED
    BY <2>1, <2>2 DEF Enqueue
<1>4. (FlagType /\ RequestType /\ TimeType /\ CountType)'
  BY TypeParts DEF IInv, Typed, Enqueue, job, FlagType, RequestType, TimeType, CountType
<1>5. (ControlType /\ Others)'
  BY TypeParts
     DEF IInv, Typed, Enqueue, job, ControlType, InCallback, Others, BudgetLeft, ReportedNow,
         RequestKnown, TickedNow
<1> QED
  BY <1>3, <1>4, <1>5, TypeParts DEF IInv, Typed, Others

LEMMA RestartInv ==
  ASSUME IInv, NoRestart, Restart
  PROVE  IInv'
<1>1. (QueueType /\ FlagType /\ RequestType)'
  <2>1. QueueType'
    BY TypeParts, HttpPumpAssumption DEF IInv, Typed, Restart, job, QueueType
  <2>2. FlagType'
    BY TypeParts DEF IInv, Typed, Restart, job, FlagType
  <2>3. RequestType'
    BY TypeParts DEF IInv, Typed, Restart, job, RequestType, Idle
  <2> QED
    BY <2>1, <2>2, <2>3
<1>2. (TimeType /\ CountType)'
  BY TypeParts, HttpPumpAssumption DEF IInv, Typed, Restart, MayCall, NoRestart, job, TimeType, CountType, Time
<1>3. (ControlType /\ Others)'
  BY TypeParts, HttpPumpAssumption DEF IInv, Typed, Restart, MayCall, NoRestart, job, Phases, ControlType, InCallback, Others,
         BudgetLeft, ReportedNow, RequestKnown, TickedNow
<1> QED
  BY <1>1, <1>2, <1>3, TypeParts DEF IInv, Typed, Others

LEMMA ElapseInv ==
  ASSUME IInv, Elapse
  PROVE  IInv'
<1>1. (QueueType /\ FlagType /\ RequestType)'
  BY TypeParts DEF IInv, Typed, Elapse, Plus, job, QueueType, FlagType, RequestType
<1>2. (TimeType /\ CountType)'
  <2>1. clock + 1 \in Int
    BY HttpPumpAssumption DEF IInv, TypeOK, Time
  <2>2. clock' \in Time
    BY <2>1, ModuloInTime DEF Elapse, Plus
  <2>3. TimeType'
    BY <2>2, TypeParts DEF IInv, Typed, Elapse, job, TimeType
  <2>4. CountType'
    BY TypeParts DEF IInv, Typed, Elapse, job, CountType
  <2> QED
    BY <2>3, <2>4
<1>3. (ControlType /\ Others)'
  BY TypeParts, HttpPumpAssumption DEF IInv, Typed, Elapse, Plus, job, Phases, ControlType, InCallback, Others,
         BudgetLeft, ReportedNow, RequestKnown, TickedNow
<1> QED
  BY <1>1, <1>2, <1>3, TypeParts DEF IInv, Typed, Others

LEMMA TickBeginsInv ==
  ASSUME IInv, TickBegins
  PROVE  IInv'
<1>1. (QueueType /\ FlagType /\ RequestType)'
  BY TypeParts DEF IInv, Typed, TickBegins, job, QueueType, FlagType, RequestType
<1>2. (TimeType /\ CountType)'
  <2>1. TimeType'
    BY TypeParts DEF IInv, Typed, TickBegins, job, TimeType
  <2>2. CountType'
    BY TypeParts, HttpPumpAssumption DEF IInv, Typed, TickBegins, job, CountType
  <2> QED
    BY <2>1, <2>2
<1>3. (ControlType /\ Others)'
  BY TypeParts, HttpPumpAssumption DEF IInv, Typed, TickBegins, job, Phases, ControlType, InCallback, Others,
         BudgetLeft, ReportedNow, RequestKnown, TickedNow
<1> QED
  BY <1>1, <1>2, <1>3, TypeParts DEF IInv, Typed, Others

LEMMA ReturnInv ==
  ASSUME IInv, pc \in {"body", "step"}, Return
  PROVE  IInv'
<1>1. (QueueType /\ FlagType /\ RequestType)'
  BY TypeParts DEF IInv, Typed, Return, job, QueueType, FlagType, RequestType
<1>2. (TimeType /\ CountType)'
  BY TypeParts, HttpPumpAssumption DEF IInv, Typed, Return, job, TimeType, CountType, Time
<1>3. (ControlType /\ Others)'
  BY TypeParts, HttpPumpAssumption DEF IInv, Typed, Return, job, Phases, ControlType, InCallback, Others,
         BudgetLeft, ReportedNow, RequestKnown, TickedNow
<1> QED
  BY <1>1, <1>2, <1>3, TypeParts DEF IInv, Typed, Others

LEMMA StepInv ==
  ASSUME IInv, StepCurrentPhase
  PROVE  IInv'
<1>1. (QueueType /\ FlagType /\ RequestType)'
  BY TypeParts DEF IInv, Typed, StepCurrentPhase, job, QueueType, FlagType, RequestType
<1>2. (TimeType /\ CountType)'
  BY TypeParts, HttpPumpAssumption DEF IInv, Typed, StepCurrentPhase, job, TimeType, CountType, Time
<1>3. (ControlType /\ Others)'
  BY TypeParts, HttpPumpAssumption DEF IInv, Typed, StepCurrentPhase, job, Phases, ControlType, InCallback, Others,
         BudgetLeft, ReportedNow, RequestKnown, TickedNow
<1> QED
  BY <1>1, <1>2, <1>3, TypeParts DEF IInv, Typed, Others

LEMMA CompleteInv ==
  ASSUME IInv, active, ~reported, ticked, Complete
  PROVE  IInv'
<1>1. (QueueType /\ FlagType /\ RequestType)'
  BY TypeParts DEF IInv, Typed, Complete, job, QueueType, FlagType, RequestType
<1>2. (TimeType /\ CountType)'
  BY TypeParts, HttpPumpAssumption DEF IInv, Typed, Complete, job, TimeType, CountType, Time
<1>3. (ControlType /\ Others)'
  BY TypeParts, HttpPumpAssumption DEF IInv, Typed, Complete, job, Phases, ControlType, InCallback, Others,
         BudgetLeft, ReportedNow, RequestKnown, TickedNow
<1> QED
  BY <1>1, <1>2, <1>3, TypeParts DEF IInv, Typed, Others

LEMMA CompletionReturnsInv ==
  ASSUME IInv, CompletionReturns
  PROVE  IInv'
<1>1. (QueueType /\ FlagType /\ RequestType)'
  <2>1. QueueType'
    BY TypeParts DEF IInv, Typed, CompletionReturns, job, QueueType
  <2>2. FlagType'
    BY TypeParts DEF IInv, Typed, CompletionReturns, job, FlagType
  <2>3. RequestType'
    BY TypeParts DEF IInv, Typed, CompletionReturns, job, RequestType, Idle
  <2> QED
    BY <2>1, <2>2, <2>3
<1>2. (TimeType /\ CountType)'
  BY TypeParts, HttpPumpAssumption DEF IInv, Typed, CompletionReturns, job, TimeType, CountType, Time
<1>3. (ControlType /\ Others)'
  BY TypeParts, HttpPumpAssumption DEF IInv, Typed, CompletionReturns, job, Phases, ControlType, InCallback, Others,
         BudgetLeft, ReportedNow, RequestKnown, TickedNow
<1> QED
  BY <1>1, <1>2, <1>3, TypeParts DEF IInv, Typed, Others

LEMMA StartInv ==
  ASSUME IInv, StartNextRequest
  PROVE  IInv'
<1>1. queue \in Seq(Entry) /\ queue # <<>>
  BY DEF IInv, TypeOK, StartNextRequest
<1>2. Head(queue) \in Entry /\ Tail(queue) \in Seq(Entry) /\ Len(Tail(queue)) = Len(queue) - 1
  BY <1>1, HeadTailProperties
<1>3. Head(queue).retries \in 0 .. 255 /\ Head(queue).id \in Requests
  BY <1>2 DEF Entry
<1>4. QueueType'
  BY <1>1, <1>2, HttpPumpAssumption DEF IInv, TypeOK, StartNextRequest, QueueType
<1>5. RequestType'
  BY <1>2 DEF StartNextRequest, RequestType, Entry
<1>6. (FlagType /\ TimeType)'
  <2>1. FlagType'
    BY TypeParts DEF IInv, Typed, StartNextRequest, FlagType
  <2>2. TimeType'
    BY TypeParts, HttpPumpAssumption DEF IInv, Typed, StartNextRequest, TimeType, Time
  <2> QED
    BY <2>1, <2>2
<1>7. CountType'
  BY TypeParts, HttpPumpAssumption, <1>3 DEF IInv, Typed, StartNextRequest, CountType
<1>8. (ControlType /\ Others)'
  BY TypeParts, HttpPumpAssumption, <1>3
     DEF IInv, Typed, StartNextRequest, Phases, ControlType, InCallback, Others,
         BudgetLeft, ReportedNow, RequestKnown, TickedNow
<1> QED
  BY <1>4, <1>5, <1>6, <1>7, <1>8, TypeParts DEF IInv, Typed, Others

\* A failed attempt starts from a step, a timeout, a lost link or a close step.
Failing == IInv /\ active /\ pc \in {"body", "step", "abort"}

LEMMA RetryInv ==
  ASSUME Failing, retries # 0, NEW jitter \in 0 .. RetryJitter, Retry(jitter)
  PROVE  IInv'
<1>1. Wait \in Nat
  BY HttpPumpAssumption DEF Failing, IInv, TypeOK, Wait
<1>2. Doubled(Wait) \in Nat
  BY <1>1, HttpPumpAssumption DEF Doubled
<1>3. (QueueType /\ FlagType /\ RequestType)'
  BY TypeParts DEF Failing, IInv, Typed, Retry, QueueType, FlagType, RequestType
<1>4. TimeType'
  <2>1. now + (Wait + jitter) \in Int
    BY <1>1, HttpPumpAssumption DEF Failing, IInv, TypeOK, Time
  <2> QED
    BY <2>1, ModuloInTime, TypeParts, HttpPumpAssumption
       DEF Failing, IInv, Typed, Retry, Plus, TimeType
<1>5. CountType'
  BY <1>2, TypeParts DEF Failing, IInv, Typed, Retry, CountType
<1>6. (ControlType /\ Others)'
  BY TypeParts
     DEF Failing, IInv, Typed, Retry, Phases, ControlType, InCallback, Others,
         BudgetLeft, ReportedNow, RequestKnown, TickedNow
<1> QED
  BY <1>3, <1>4, <1>5, <1>6, TypeParts DEF IInv, Typed, Others

LEMMA RetryOrGiveUpInv ==
  ASSUME Failing, RetryOrGiveUp
  PROVE  IInv'
<1>1. CASE retries = 0
  BY <1>1, CompleteInv DEF Failing, IInv, ReportedNow, TickedNow, RetryOrGiveUp
<1>2. CASE retries # 0
  BY <1>2, RetryInv DEF RetryOrGiveUp
<1> QED
  BY <1>1, <1>2

LEMMA HandlePhaseFailureInv ==
  ASSUME Failing, HandlePhaseFailure
  PROVE  IInv'
<1>1. CASE HasClose /\ phase # "Closing"
  <2>1. UNCHANGED <<queue, job, ticked, clock, now, budget, stepped, reported>> /\ pc' = "abort"
    BY <1>1 DEF HandlePhaseFailure
  <2>2. (QueueType /\ FlagType /\ RequestType /\ TimeType /\ CountType)'
    BY <2>1, TypeParts
       DEF Failing, IInv, Typed, job, QueueType, FlagType, RequestType, TimeType, CountType
  <2>3. (ControlType /\ Others)'
    BY <2>1, TypeParts
       DEF Failing, IInv, Typed, job, ControlType, InCallback, Others,
           BudgetLeft, ReportedNow, RequestKnown, TickedNow
  <2> QED
    BY <2>2, <2>3, TypeParts DEF IInv, Typed, Others
<1>2. CASE ~(HasClose /\ phase # "Closing")
  BY <1>2, RetryOrGiveUpInv DEF HandlePhaseFailure
<1> QED
  BY <1>1, <1>2

LEMMA StepCompletesInv ==
  ASSUME IInv, StepCompletes
  PROVE  IInv'
<1>1. active /\ ~reported /\ ticked /\ budget > 0 /\ pc = "step"
  BY DEF IInv, TypeOK, BudgetLeft, ReportedNow, TickedNow, InCallback, StepCompletes
<1>2. CASE NextPhase = "Idle"
  BY <1>1, <1>2, CompleteInv DEF StepCompletes
<1>3. CASE NextPhase # "Idle"
  <2>1. NextPhase \in Phases
    BY <1>3 DEF NextPhase, Phases
  <2>2. (QueueType /\ FlagType /\ RequestType)'
    BY <1>3, TypeParts DEF IInv, Typed, StepCompletes, QueueType, FlagType, RequestType
  <2>3. (TimeType /\ CountType)'
    BY <1>1, <1>3, TypeParts, HttpPumpAssumption
       DEF IInv, Typed, StepCompletes, TimeType, CountType, Time
  <2>4. (ControlType /\ Others)'
    BY <1>1, <1>3, <2>1, TypeParts
       DEF IInv, TypeOK, Typed, StepCompletes, Phases, ControlType, InCallback, Others,
           BudgetLeft, ReportedNow, RequestKnown, TickedNow
  <2> QED
    BY <2>2, <2>3, <2>4, TypeParts DEF IInv, Typed, Others
<1> QED
  BY <1>2, <1>3

LEMMA StutterInv ==
  ASSUME IInv, UNCHANGED vars
  PROVE  IInv'
<1>1. Typed'
  BY TypeParts
     DEF IInv, Typed, vars, job, QueueType, FlagType, RequestType, TimeType, CountType,
         ControlType, InCallback
<1>2. Others'
  BY DEF IInv, vars, job, Others, BudgetLeft, ReportedNow, RequestKnown, TickedNow
<1> QED
  BY <1>1, <1>2, TypeParts DEF IInv, Others

LEMMA NextInv ==
  ASSUME NoRestart, IInv, [Next]_vars
  PROVE  IInv'
<1>1. ASSUME NEW r \in Requests, NEW g \in Grants, Enqueue(r, g) PROVE IInv'
  BY <1>1, EnqueueInv
<1>2. CASE Restart
  BY <1>2, RestartInv
<1>3. CASE Elapse
  BY <1>3, ElapseInv
<1>4. CASE TickBegins
  BY <1>4, TickBeginsInv
<1>5. CASE Body
  <2>1. CASE NothingToStart \/ WaitForRetry
    BY <2>1, ReturnInv DEF NothingToStart, WaitForRetry
  <2>2. CASE StartNextRequest
    BY <2>2, StartInv
  <2>3. CASE LinkLost \/ PhaseTimesOut
    BY <2>3, HandlePhaseFailureInv DEF LinkLost, PhaseTimesOut, Failing
  <2>4. CASE StepCurrentPhase
    BY <2>4, StepInv
  <2> QED
    BY <1>5, <2>1, <2>2, <2>3, <2>4 DEF Body
<1>6. CASE CallbackReturns
  <2>1. InCallback => active
    BY DEF IInv, TypeOK
  <2>2. CASE StepIsPending
    BY <2>2, ReturnInv DEF StepIsPending
  <2>3. CASE StepFails
    BY <2>1, <2>3, HandlePhaseFailureInv DEF StepFails, Failing, InCallback
  <2>4. CASE StepCompletes
    BY <2>4, StepCompletesInv
  <2>5. CASE AbortReturns
    BY <2>1, <2>5, RetryOrGiveUpInv DEF AbortReturns, Failing, InCallback
  <2>6. CASE CompletionReturns
    BY <2>6, CompletionReturnsInv
  <2> QED
    BY <1>6, <2>2, <2>3, <2>4, <2>5, <2>6 DEF CallbackReturns
<1>7. CASE UNCHANGED vars
  BY <1>7, StutterInv
<1> QED
  BY <1>1, <1>2, <1>3, <1>4, <1>5, <1>6, <1>7 DEF Next

\* The pump's queue never exceeds its capacity, no counter leaves its type, and
\* a request is active exactly while it is in a phase: no timeout, retry, drop
\* or re-entrant enqueue leaves the pump busy without a request.
THEOREM PumpTypeCorrect ==
  ASSUME NoRestart
  PROVE  Spec => []TypeOK
<1>1. IInv /\ [Next]_vars => IInv'
  BY NextInv
<1>2. IInv => TypeOK
  BY DEF IInv
<1> QED
  BY InitInv, <1>1, <1>2, PTL DEF Spec

-------------------------------------------------------------------------------
(* The requests of a queue, and what queue operations do to them.          *)

LEMMA IdsType ==
  ASSUME NEW q \in Seq(Entry)
  PROVE  /\ Ids(q) \in Seq(Requests) /\ Len(Ids(q)) = Len(q) /\ Len(q) \in Nat
         /\ \A k \in 1 .. Len(q) : Ids(q)[k] = q[k].id
<1>1. Len(q) \in Nat /\ \A k \in 1 .. Len(q) : q[k] \in Entry
  OBVIOUS
<1>2. Ids(q) \in [1 .. Len(q) -> Requests]
  BY <1>1 DEF Ids, Entry
<1>3. Ids(q) \in Seq(Requests) /\ Len(Ids(q)) = Len(q)
  BY <1>1, <1>2, IsASeq
<1> QED
  BY <1>1, <1>3 DEF Ids

LEMMA IdsAppend ==
  ASSUME NEW q \in Seq(Entry), NEW e \in Entry
  PROVE  Ids(Append(q, e)) = Append(Ids(q), e.id)
<1> DEFINE a == Append(q, e)
           b == Append(Ids(q), e.id)
<1>1. /\ a \in Seq(Entry) /\ Len(a) = Len(q) + 1 /\ a[Len(q) + 1] = e
      /\ \A k \in 1 .. Len(q) : a[k] = q[k]
  BY AppendProperties
<1>2. e.id \in Requests
  BY DEF Entry
<1>3. /\ b \in Seq(Requests) /\ Len(b) = Len(q) + 1 /\ b[Len(q) + 1] = e.id
      /\ \A k \in 1 .. Len(q) : b[k] = q[k].id
  BY <1>2, IdsType, AppendProperties
<1>4. /\ Ids(a) \in Seq(Requests) /\ Len(Ids(a)) = Len(q) + 1 /\ Len(q) \in Nat
      /\ \A k \in 1 .. Len(q) + 1 : Ids(a)[k] = a[k].id
  BY <1>1, IdsType
<1> HIDE DEF a, b
<1>5. ASSUME NEW k \in 1 .. Len(Ids(a)) PROVE Ids(a)[k] = b[k]
  <2>1. k \in 1 .. Len(q) + 1 /\ Ids(a)[k] = a[k].id
    BY <1>4
  <2>2. CASE k = Len(q) + 1
    BY <1>1, <1>3, <2>1, <2>2
  <2>3. CASE k \in 1 .. Len(q)
    BY <1>1, <1>3, <2>1, <2>3
  <2> QED
    BY <1>4, <2>1, <2>2, <2>3
<1>6. Ids(a) = b
  BY <1>3, <1>4, <1>5, SeqEqual
<1> QED
  BY <1>6 DEF a, b

LEMMA IdsTail ==
  ASSUME NEW q \in Seq(Entry), q # <<>>
  PROVE  /\ Ids(Tail(q)) = Tail(Ids(q)) /\ Ids(q) # <<>>
         /\ Head(Ids(q)) = Head(q).id
<1> DEFINE t == Tail(q)
           u == Tail(Ids(q))
<1>1. Ids(q) \in Seq(Requests) /\ Len(Ids(q)) = Len(q) /\ Len(q) \in Nat \ {0}
  BY IdsType
<1>2. Ids(q) # <<>>
  BY <1>1
<1>3. /\ t \in Seq(Entry) /\ Len(t) = Len(q) - 1
      /\ \A k \in 1 .. Len(t) : t[k] = q[k + 1]
  BY HeadTailProperties
<1>4. /\ u \in Seq(Requests) /\ Len(u) = Len(q) - 1
      /\ \A k \in 1 .. Len(u) : u[k] = Ids(q)[k + 1]
  BY <1>1, <1>2, HeadTailProperties
<1>5. /\ Ids(t) \in Seq(Requests) /\ Len(Ids(t)) = Len(t)
      /\ \A k \in 1 .. Len(t) : Ids(t)[k] = t[k].id
  BY <1>3, IdsType
<1>6. \A k \in 1 .. Len(q) : Ids(q)[k] = q[k].id
  BY IdsType
<1>7. Head(Ids(q)) = Head(q).id
  BY <1>1, <1>2, <1>6
<1> HIDE DEF t, u
<1>8. ASSUME NEW k \in 1 .. Len(Ids(t)) PROVE Ids(t)[k] = u[k]
  <2>1. k \in 1 .. Len(t) /\ k \in 1 .. Len(u) /\ k + 1 \in 1 .. Len(q)
    BY <1>1, <1>3, <1>4, <1>5
  <2>2. Ids(t)[k] = t[k].id /\ t[k] = q[k + 1] /\ u[k] = Ids(q)[k + 1]
    BY <1>3, <1>4, <1>5, <2>1
  <2>3. Ids(q)[k + 1] = q[k + 1].id
    BY <1>6, <2>1
  <2> QED
    BY <2>2, <2>3
<1>9. Ids(t) = u
  BY <1>3, <1>4, <1>5, <1>8, SeqEqual
<1> QED
  BY <1>2, <1>7, <1>9 DEF t, u

LEMMA IdsEmpty == Ids(<<>>) = <<>>
<1>1. <<>> \in Seq(Entry) /\ Len(<<>>) = 0
  OBVIOUS
<1>2. Ids(<<>>) \in Seq(Requests) /\ Len(Ids(<<>>)) = 0
  BY <1>1, IdsType
<1> QED
  BY <1>2, EmptySeq

-------------------------------------------------------------------------------
(* Each step of the pump is a step of the service, or none.                *)

Maps == [Service!Next]_(Service!vars)

LEMMA SameMaps ==
  ASSUME UNCHANGED <<queue, active, request, reported, ticked>>
  PROVE  Maps
<1>1. Ids(queue)' = Ids(queue) /\ Serving' = Serving /\ (~ticked)' = ~ticked
  BY DEF Ids, Serving
<1> QED
  BY <1>1 DEF Maps, Service!vars

LEMMA InitMaps == Init => Service!Init
BY IdsEmpty DEF Init, Service!Init, Serving

LEMMA EnqueueMaps ==
  ASSUME IInv, NEW r \in Requests, NEW g \in Grants, Enqueue(r, g)
  PROVE  Maps
<1> DEFINE e == [id |-> r, retries |-> g]
<1>1. e \in Entry /\ e.id = r
  BY HttpPumpAssumption DEF Entry
<1>2. queue \in Seq(Entry) /\ Len(queue) \in Nat /\ Capacity \in Nat \ {0}
  BY HttpPumpAssumption DEF IInv, TypeOK
<1>3. /\ Ids(queue) \in Seq(Requests) /\ Len(Ids(queue)) = Len(queue)
      /\ \A k \in 1 .. Len(queue) : Ids(queue)[k] = queue[k].id
  BY <1>2, IdsType
<1>4. ~Service!Present(r)
  <2>1. r # Serving
    BY HttpPumpAssumption DEF Enqueue, Serving
  <2>2. \A k \in 1 .. Len(Ids(queue)) : Ids(queue)[k] # r
    BY <1>3 DEF Enqueue, Waiting
  <2> QED
    BY <2>1, <2>2 DEF Service!Present
<1>5. UNCHANGED <<Serving, reported, ~ticked>>
  BY DEF Enqueue, job, Serving
<1>6. CASE Len(queue) < Capacity /\ queue' = Append(queue, e)
  <2>1. Ids(queue)' = Append(Ids(queue), r)
    BY <1>1, <1>2, <1>6, IdsAppend
  <2>2. Service!Accept(r)
    BY <1>3, <1>4, <1>5, <1>6, <2>1 DEF Service!Accept
  <2> QED
    BY <2>2 DEF Maps, Service!Next
<1>7. CASE Len(queue) = Capacity /\ DropOldest /\ queue' = Append(Tail(queue), e)
  <2>1. queue # <<>>
    BY <1>2, <1>7
  <2>2. Tail(queue) \in Seq(Entry) /\ Ids(Tail(queue)) = Tail(Ids(queue))
    BY <1>2, <2>1, HeadTailProperties, IdsTail
  <2>3. Ids(queue)' = Append(Tail(Ids(queue)), r)
    BY <1>1, <1>7, <2>2, IdsAppend
  <2>4. Service!Displace(r)
    BY <1>3, <1>4, <1>5, <1>7, <2>3 DEF Service!Displace
  <2> QED
    BY <2>4 DEF Maps, Service!Next
<1> QED
  BY <1>6, <1>7 DEF Enqueue

LEMMA RestartMaps ==
  ASSUME Restart
  PROVE  Maps
<1>1. Ids(queue)' = <<>> /\ Serving' = NoRequest /\ reported' = FALSE /\ (~ticked)' = TRUE
  BY IdsEmpty DEF Restart, Serving
<1>2. Service!Restart
  BY <1>1 DEF Service!Restart
<1> QED
  BY <1>2 DEF Maps, Service!Next

LEMMA TickBeginsMaps ==
  ASSUME IInv, TickBegins
  PROVE  Maps
<1>1. UNCHANGED <<queue, active, request, reported>> /\ ticked' = TRUE
  BY DEF TickBegins, job
<1>2. CASE ticked
  <2>1. ticked' = ticked
    BY <1>1, <1>2 DEF IInv, TypeOK
  <2> QED
    BY <1>1, <2>1, SameMaps
<1>3. CASE ~ticked
  <2>1. /\ Ids(queue)' = Ids(queue) /\ Serving' = Serving /\ reported' = reported
        /\ ~ticked /\ (~ticked)' = FALSE
    BY <1>1, <1>3 DEF Ids, Serving
  <2>2. Service!Work
    BY <2>1 DEF Service!Work
  <2> QED
    BY <2>2 DEF Maps, Service!Next
<1> QED
  BY <1>2, <1>3

LEMMA StartMaps ==
  ASSUME IInv, StartNextRequest
  PROVE  Maps
<1>1. queue \in Seq(Entry) /\ queue # <<>> /\ queue' = Tail(queue)
  BY DEF IInv, TypeOK, StartNextRequest
<1>2. /\ Ids(queue)' = Tail(Ids(queue)) /\ Ids(queue) # <<>>
      /\ Head(Ids(queue)) = Head(queue).id
  BY <1>1, IdsTail
<1>3. Serving = NoRequest /\ Serving' = Head(queue).id
  BY DEF StartNextRequest, Serving
<1>4. reported' = FALSE /\ UNCHANGED ~ticked
  BY DEF StartNextRequest
<1>5. Service!Start
  BY <1>2, <1>3, <1>4 DEF Service!Start
<1> QED
  BY <1>5 DEF Maps, Service!Next

LEMMA CompleteMaps ==
  ASSUME IInv, active, pc # "complete", Complete
  PROVE  Maps
<1>1. Serving # NoRequest /\ ~reported
  BY DEF IInv, RequestKnown, ReportedNow, Serving
<1>2. UNCHANGED <<Ids(queue), Serving, ~ticked>> /\ reported' = TRUE
  BY DEF Complete, job, Ids, Serving
<1>3. Service!Report
  BY <1>1, <1>2 DEF Service!Report
<1> QED
  BY <1>3 DEF Maps, Service!Next

LEMMA CompletionReturnsMaps ==
  ASSUME IInv, CompletionReturns
  PROVE  Maps
<1>1. active /\ reported
  BY DEF IInv, TypeOK, ReportedNow, InCallback, CompletionReturns
<1>2. Serving # NoRequest /\ Serving' = NoRequest
  BY <1>1 DEF IInv, RequestKnown, CompletionReturns, Serving
<1>3. reported' = FALSE /\ UNCHANGED <<Ids(queue), ~ticked>>
  BY DEF CompletionReturns, Ids
<1>4. Service!Finish
  BY <1>1, <1>2, <1>3 DEF Service!Finish
<1> QED
  BY <1>4 DEF Maps, Service!Next

LEMMA RetryOrGiveUpMaps ==
  ASSUME Failing, RetryOrGiveUp
  PROVE  Maps
<1>1. CASE retries = 0
  BY <1>1, CompleteMaps DEF Failing, RetryOrGiveUp
<1>2. CASE retries # 0
  BY <1>2, SameMaps DEF RetryOrGiveUp, Retry
<1> QED
  BY <1>1, <1>2

LEMMA HandlePhaseFailureMaps ==
  ASSUME Failing, HandlePhaseFailure
  PROVE  Maps
<1>1. CASE HasClose /\ phase # "Closing"
  BY <1>1, SameMaps DEF HandlePhaseFailure, job
<1>2. CASE ~(HasClose /\ phase # "Closing")
  BY <1>2, RetryOrGiveUpMaps DEF HandlePhaseFailure
<1> QED
  BY <1>1, <1>2

LEMMA StepCompletesMaps ==
  ASSUME IInv, StepCompletes
  PROVE  Maps
<1>1. CASE NextPhase = "Idle"
  BY <1>1, CompleteMaps DEF IInv, TypeOK, InCallback, StepCompletes
<1>2. CASE NextPhase # "Idle"
  BY <1>2, SameMaps DEF StepCompletes
<1> QED
  BY <1>1, <1>2

LEMMA NextMaps ==
  ASSUME IInv, [Next]_vars
  PROVE  Maps
<1>1. ASSUME NEW r \in Requests, NEW g \in Grants, Enqueue(r, g) PROVE Maps
  BY <1>1, EnqueueMaps
<1>2. CASE Restart
  BY <1>2, RestartMaps
<1>3. CASE Elapse
  BY <1>3, SameMaps DEF Elapse, job
<1>4. CASE TickBegins
  BY <1>4, TickBeginsMaps
<1>5. CASE Body
  <2>1. CASE NothingToStart \/ WaitForRetry
    BY <2>1, SameMaps DEF NothingToStart, WaitForRetry, Return, job
  <2>2. CASE StartNextRequest
    BY <2>2, StartMaps
  <2>3. CASE LinkLost \/ PhaseTimesOut
    BY <2>3, HandlePhaseFailureMaps DEF LinkLost, PhaseTimesOut, Failing
  <2>4. CASE StepCurrentPhase
    BY <2>4, SameMaps DEF StepCurrentPhase, job
  <2> QED
    BY <1>5, <2>1, <2>2, <2>3, <2>4 DEF Body
<1>6. CASE CallbackReturns
  <2>1. InCallback => active
    BY DEF IInv, TypeOK
  <2>2. CASE StepIsPending
    BY <2>2, SameMaps DEF StepIsPending, Return, job
  <2>3. CASE StepFails
    BY <2>1, <2>3, HandlePhaseFailureMaps DEF StepFails, Failing, InCallback
  <2>4. CASE StepCompletes
    BY <2>4, StepCompletesMaps
  <2>5. CASE AbortReturns
    BY <2>1, <2>5, RetryOrGiveUpMaps DEF AbortReturns, Failing, InCallback
  <2>6. CASE CompletionReturns
    BY <2>6, CompletionReturnsMaps
  <2> QED
    BY <1>6, <2>2, <2>3, <2>4, <2>5, <2>6 DEF CallbackReturns
<1>7. CASE UNCHANGED vars
  BY <1>7, SameMaps DEF vars, job
<1> QED
  BY <1>1, <1>2, <1>3, <1>4, <1>5, <1>6, <1>7 DEF Next

\* The pump implements the request service: however its steps fail, time out
\* or are retried, and whatever is enqueued meanwhile, accepted requests are
\* served in order and each served request is reported exactly once.
THEOREM PumpImplementsService ==
  ASSUME NoRestart
  PROVE  Spec => ImplementsService
<1>1. IInv /\ [Next]_vars => IInv'
  BY NextInv
<1>2. IInv /\ [Next]_vars => [Service!Next]_(Service!vars)
  BY NextMaps DEF Maps
<1> QED
  BY InitInv, InitMaps, <1>1, <1>2, PTL DEF Spec, ImplementsService, Service!Spec

-------------------------------------------------------------------------------
(* The backoff.                                                            *)

\* How often the active request was retried.  The next wait is the one the
\* number of retries stands for, and a retry is planned that long, and a
\* jitter, after the failure; other phases than the first plan nothing.
Retried == request.retries - retries
Spaced ==
  active =>
    /\ Retried \in Nat
    /\ retryMs = Backoff(Retried + 1)
    /\ (Connecting /\ Retried > 0) =>
         \E jitter \in 0 .. RetryJitter : nextRetry = Plus(phaseStarted, Backoff(Retried) + jitter)

\* The code's doubling turns each wait into the next.
LEMMA BackoffDoubles ==
  ASSUME NEW k \in Nat \ {0}
  PROVE  /\ Backoff(k) \in Nat /\ Backoff(1) = RetryBase
         /\ Backoff(k + 1) = Doubled(Backoff(k))
         /\ Backoff(k) = 0 => RetryBase = 0
BY WaitsDouble, HttpPumpAssumption DEF Backoff, Doubled, OnceMore

LEMMA RetrySpaced ==
  ASSUME IInv, Spaced, active, retries # 0, NEW jitter \in 0 .. RetryJitter, Retry(jitter)
  PROVE  Spaced'
<1>1. PICK k \in Nat \ {0} : k = Retried + 1
  BY DEF Spaced
<1>2. retryMs = Backoff(k) /\ Wait = Backoff(k)
  BY <1>1, BackoffDoubles DEF Spaced, Wait
<1>3. Retried' = k
  <2>1. request.retries \in Nat /\ retries \in Nat
    BY TypeParts DEF IInv, Typed, RequestType, CountType
  <2>2. request' = request /\ retries' = retries - 1
    BY DEF Retry
  <2> QED
    BY <1>1, <2>1, <2>2 DEF Retried
<1>4. retryMs' = Backoff(k + 1)
  BY <1>2, BackoffDoubles DEF Retry
<1>5. nextRetry' = Plus(phaseStarted', Backoff(k) + jitter)
  BY <1>2 DEF Retry
<1> QED
  BY <1>3, <1>4, <1>5 DEF Spaced

\* The steps that leave the request's backoff as it is.
LEMMA QuietSpaced ==
  ASSUME Spaced, UNCHANGED <<active, request, retries, retryMs>>,
         UNCHANGED <<phase, phaseStarted, nextRetry>> \/ ~Connecting'
  PROVE  Spaced'
<1>1. Retried' = Retried
  BY DEF Retried
<1> QED
  BY <1>1 DEF Spaced, Connecting

LEMMA StartSpaced ==
  ASSUME IInv, StartNextRequest
  PROVE  Spaced'
<1>1. request' \in Entry /\ retries' = request'.retries
  BY HeadTailProperties DEF StartNextRequest, IInv, TypeOK
<1>2. Retried' = 0
  BY <1>1 DEF Retried, Entry
<1>3. retryMs' = Backoff(1)
  BY BackoffDoubles DEF StartNextRequest
<1> QED
  BY <1>2, <1>3 DEF Spaced

LEMMA RetryOrGiveUpSpaced ==
  ASSUME IInv, Spaced, active, RetryOrGiveUp
  PROVE  Spaced'
<1>1. CASE retries = 0
  BY <1>1, QuietSpaced DEF RetryOrGiveUp, Complete, job
<1>2. CASE retries # 0
  BY <1>2, RetrySpaced DEF RetryOrGiveUp
<1> QED
  BY <1>1, <1>2

LEMMA HandlePhaseFailureSpaced ==
  ASSUME IInv, Spaced, active, HandlePhaseFailure
  PROVE  Spaced'
<1>1. CASE HasClose /\ phase # "Closing"
  BY <1>1, QuietSpaced DEF HandlePhaseFailure, job
<1>2. CASE ~(HasClose /\ phase # "Closing")
  BY <1>2, RetryOrGiveUpSpaced DEF HandlePhaseFailure
<1> QED
  BY <1>1, <1>2

LEMMA SpacedStep ==
  ASSUME IInv, Spaced, [Next]_vars
  PROVE  Spaced'
<1>1. ASSUME NEW r \in Requests, NEW g \in Grants, Enqueue(r, g) PROVE Spaced'
  BY <1>1, QuietSpaced DEF Enqueue, job
<1>2. CASE Restart \/ CompletionReturns
  BY <1>2 DEF Restart, CompletionReturns, Spaced
<1>3. CASE Elapse \/ TickBegins \/ UNCHANGED vars
  BY <1>3, QuietSpaced DEF Elapse, TickBegins, vars, job
<1>4. CASE NothingToStart \/ WaitForRetry \/ StepCurrentPhase \/ StepIsPending
  BY <1>4, QuietSpaced
  DEF NothingToStart, WaitForRetry, StepCurrentPhase, StepIsPending, Return, job
<1>5. CASE StartNextRequest
  BY <1>5, StartSpaced
<1>6. InCallback => active
  BY DEF IInv, TypeOK
<1>7. CASE LinkLost \/ PhaseTimesOut \/ StepFails
  BY <1>6, <1>7, HandlePhaseFailureSpaced DEF LinkLost, PhaseTimesOut, StepFails, InCallback
<1>8. CASE AbortReturns
  BY <1>6, <1>8, RetryOrGiveUpSpaced DEF AbortReturns, InCallback
<1>9. CASE StepCompletes
  <2>1. CASE NextPhase = "Idle"
    BY <1>9, <2>1, QuietSpaced DEF StepCompletes, Complete, job
  <2>2. CASE NextPhase # "Idle"
    BY <1>9, <2>2, QuietSpaced DEF StepCompletes, NextPhase, Connecting
  <2> QED
    BY <2>1, <2>2
<1> QED
  BY <1>1, <1>2, <1>3, <1>4, <1>5, <1>7, <1>8, <1>9 DEF Next, Body, CallbackReturns

\* Only a step of a phase that is not deferred calls the connect step: a retry
\* is attempted no earlier than it was planned.
LEMMA AttemptedInTime ==
  ASSUME IInv, Spaced, [Next]_vars, pc = "body", pc' = "step", Connecting,
         retries < request.retries,
         phaseStarted + Backoff(Retried) + RetryJitter < Wrap
  PROVE  Minus(now, phaseStarted) >= Backoff(Retried)
<1>1. StepCurrentPhase
  BY DEF Next, vars, Enqueue, Restart, Elapse, TickBegins, Body, NothingToStart, StartNextRequest,
     WaitForRetry, LinkLost, PhaseTimesOut, HandlePhaseFailure, RetryOrGiveUp, Complete, Retry,
     Return, CallbackReturns, StepIsPending, StepFails, StepCompletes, AbortReturns,
     CompletionReturns
<1>2. active /\ (nextRetry = 0 \/ ~(now < nextRetry))
  BY <1>1 DEF StepCurrentPhase, Deferred
<1>3. Retried \in Nat \ {0}
  <2>1. request.retries \in Nat /\ retries \in Nat
    BY TypeParts DEF IInv, Typed, RequestType, CountType
  <2> QED
    BY <2>1 DEF Retried
<1>4. PICK b \in Nat : b = Backoff(Retried)
  BY <1>3, BackoffDoubles
<1>5. PICK jitter \in 0 .. RetryJitter : nextRetry = Plus(phaseStarted, b + jitter)
  BY <1>2, <1>3, <1>4 DEF Spaced
<1>6. now \in Time /\ phaseStarted \in Time /\ Wrap \in Nat \ {0} /\ RetryJitter \in Nat
  BY HttpPumpAssumption DEF IInv, TypeOK
<1> QED
  BY <1>2, <1>4, <1>5, <1>6, KeptApart DEF Plus, Minus, Time

\* No retry comes before its backoff, whichever phase failed and however: for
\* every base, maximum and jitter the waits double up to the maximum, except
\* where the uptime wraps meanwhile.
THEOREM BackoffAlwaysKept ==
  ASSUME NoRestart
  PROVE  Spec => BackoffKept
<1>1. Init => IInv /\ Spaced
  BY InitInv DEF Init, Spaced
<1>2. IInv /\ Spaced /\ [Next]_vars => (IInv /\ Spaced)'
  BY NextInv, SpacedStep
<1>3. IInv /\ Spaced /\ [Next]_vars =>
        [ (/\ pc = "body" /\ pc' = "step" /\ Connecting /\ retries < request.retries
           /\ phaseStarted + Backoff(request.retries - retries) + RetryJitter < Wrap)
          => Minus(now, phaseStarted) >= Backoff(request.retries - retries) ]_vars
  BY AttemptedInTime DEF Retried
<1> QED
  BY <1>1, <1>2, <1>3, PTL DEF Spec, BackoffKept
===============================================================================
