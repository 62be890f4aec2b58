---------------------------- MODULE WiFiMaintainer ----------------------------
(***************************************************************************)
(* The Wi-Fi maintainer polls the link, tells its observers what it sees,  *)
(* keeps a kernel capability in step with it, and asks for a connection    *)
(* with a backoff while the link is down.  tick() runs in steps that end   *)
(* where user code runs: the connect and disconnect steps and the          *)
(* observers (the state writer and the subscribers of the state topic).    *)
(*                                                                         *)
(* link is what probe_ answers; it changes behind the maintainer's back.   *)
(* Times are counted modulo Wrap; the statistics are left out.             *)
(***************************************************************************)
EXTENDS Integers

CONSTANTS
  Wrap,               \* the modulus of times
  Poll,               \* Config: pollIntervalMs
  StableMultiplier,   \* Config: stablePollMultiplier
  StableThreshold,    \* Config: stableThreshold
  StableMax,          \* 255, where consecutiveStablePolls_ stops
  RetryBase, RetryMax, RetryJitter,   \* Config: retryBaseMs, ...
  EmitChangesOnly,    \* Config: emitStateChangesOnly
  Manages,            \* Config: manageCapabilities
  HasConnect,         \* connectStep_ is not NULL
  HasDisconnect       \* disconnectStep_ is not NULL

Time == 0 .. Wrap - 1

\* What a model that instantiates this module assumes of its constants.
Parameters ==
  /\ Wrap \in Nat \ {0}
  /\ {Poll, StableMultiplier, RetryBase, RetryMax, RetryJitter} \subseteq Nat
  /\ StableMax \in Nat /\ StableThreshold \in 0 .. StableMax
  /\ {EmitChangesOnly, Manages, HasConnect, HasDisconnect} \subseteq BOOLEAN

VARIABLES
  link,       \* probe_()
  online,     \* connected_
  observed,   \* lastObservedConnected_
  stable,     \* consecutiveStablePolls_
  polled,     \* hasPolled_
  lastPoll,   \* lastPollAtMs_, and nowMs of the tick in progress
  nextRetry,  \* nextRetryAtMs_; 0 stands for none
  retryMs,    \* currentRetryMs_
  capable,    \* the kernel has the managed capability
  clock,      \* the kernel's uptime
  pc,         \* where tick() is; "user" outside
  told,       \* history: what the observers were told last
  forgot,     \* history: begin() forgot since then that they were told of a link
  triedAt,    \* history: when the connect step was last called, -1 if not since
  tries       \*          the link was last seen; how often, up to RetryMax

view == <<online, observed, stable>>
retry == <<nextRetry, retryMs, triedAt, tries>>
notices == <<told, forgot>>
vars == <<link, view, polled, lastPoll, retry, capable, clock, pc, notices>>

Plus(s, t) == (s + t) % Wrap
Minus(s, t) == (s - t) % Wrap

-------------------------------------------------------------------------------
LinkChanges ==
  /\ link' = ~link
  /\ UNCHANGED <<view, polled, lastPoll, retry, capable, clock, pc, notices>>

\* begin() again.  The kernel keeps the capability it has.
Begin ==
  /\ pc = "user"
  /\ online' = FALSE /\ observed' = FALSE /\ stable' = 0
  /\ polled' = FALSE /\ lastPoll' = 0
  /\ nextRetry' = 0 /\ retryMs' = RetryBase /\ triedAt' = -1 /\ tries' = 0
  /\ forgot' = (forgot \/ told) /\ UNCHANGED told
  /\ UNCHANGED <<link, capable, clock, pc>>

\* A link that has been stable for a while is polled less often.
EffectivePoll ==
  IF StableMultiplier > 1 /\ stable >= StableThreshold THEN Poll * StableMultiplier ELSE Poll

Due == pc = "user" /\ (polled => Minus(clock, lastPoll) >= EffectivePoll)

\* isStable().
Stable == online /\ (StableThreshold = 0 \/ stable >= StableThreshold)

\* Mutant: the last observation is not recorded when it is told.
NotifyForgetting(up, next) ==
  IF EmitChangesOnly /\ up = observed
    THEN pc' = next /\ UNCHANGED <<observed, notices>>
    ELSE pc' = "notify" /\ told' = up /\ forgot' = FALSE /\ UNCHANGED observed

\* notifyState_.
Notify(up, next) ==
  IF EmitChangesOnly /\ up = observed
    THEN pc' = next /\ UNCHANGED <<observed, notices>>
    ELSE pc' = "notify" /\ observed' = up /\ told' = up /\ forgot' = FALSE

\* applyNetworkCapabilities_.
ApplyNetworkCapabilities(up) == capable' = IF Manages THEN up ELSE capable

PollUp ==
  /\ Due /\ link
  /\ polled' = TRUE /\ lastPoll' = clock
  /\ online' = TRUE
  /\ stable' = IF ~online THEN 0 ELSE IF stable < StableMax THEN stable + 1 ELSE stable
  /\ nextRetry' = 0 /\ retryMs' = RetryBase /\ triedAt' = -1 /\ tries' = 0
  /\ ApplyNetworkCapabilities(TRUE)
  /\ Notify(TRUE, "user")
  /\ UNCHANGED <<link, clock>>

ReportDown == ApplyNetworkCapabilities(FALSE) /\ Notify(FALSE, "retry")

\* Mutants: a lost link stays stable; the capability is left when the
\* disconnect step was called.
PollDownStillStable ==
  /\ Due /\ ~link
  /\ polled' = TRUE /\ lastPoll' = clock
  /\ online' = FALSE
  /\ UNCHANGED stable
  /\ IF online /\ HasDisconnect
       THEN pc' = "disconnect" /\ UNCHANGED <<observed, capable, notices>>
       ELSE ReportDown
  /\ UNCHANGED <<link, retry, clock>>
DisconnectKeepsCapability ==
  /\ pc = "disconnect"
  /\ link' \in {link, FALSE}
  /\ Notify(FALSE, "retry")
  /\ UNCHANGED <<online, stable, polled, lastPoll, retry, capable, clock>>

PollDown ==
  /\ Due /\ ~link
  /\ polled' = TRUE /\ lastPoll' = clock
  /\ online' = FALSE
  /\ stable' = IF online THEN 0 ELSE stable
  /\ IF online /\ HasDisconnect
       THEN pc' = "disconnect" /\ UNCHANGED <<observed, capable, notices>>
       ELSE ReportDown
  /\ UNCHANGED <<link, retry, clock>>

\* The disconnect step may take down a link that has just come back.
DisconnectReturns ==
  /\ pc = "disconnect"
  /\ link' \in {link, FALSE}
  /\ ReportDown
  /\ UNCHANGED <<online, stable, polled, lastPoll, retry, clock>>

NotifyReturns ==
  /\ pc = "notify"
  /\ pc' = IF online THEN "user" ELSE "retry"
  /\ UNCHANGED <<link, view, polled, lastPoll, retry, capable, clock, notices>>

Deferred == nextRetry # 0 /\ lastPoll < nextRetry

NoConnect ==
  /\ pc = "retry" /\ (~HasConnect \/ Deferred)
  /\ pc' = "user"
  /\ UNCHANGED <<link, view, polled, lastPoll, retry, capable, clock, notices>>

CallConnectStep ==
  /\ pc = "retry" /\ HasConnect /\ ~Deferred
  /\ pc' = "connect"
  /\ UNCHANGED <<link, view, polled, lastPoll, retry, capable, clock, notices>>

Wait == IF retryMs = 0 THEN RetryBase ELSE retryMs
Doubled(ms) ==
  IF ms >= RetryMax THEN ms ELSE IF ms * 2 > RetryMax THEN RetryMax ELSE ms * 2

\* Mutant: the next attempt is never more than the base away.
ConnectReturnsAtBase ==
  /\ pc = "connect" /\ pc' = "user"
  /\ \E jitter \in 0 .. RetryJitter : nextRetry' = Plus(lastPoll, RetryBase + jitter)
  /\ retryMs' = Doubled(Wait)
  /\ triedAt' = lastPoll
  /\ tries' = IF tries < RetryMax THEN tries + 1 ELSE tries
  /\ UNCHANGED <<link, view, polled, lastPoll, capable, clock, notices>>

\* The connect step starts a connection; whether the link comes up is seen by
\* a later poll.
ConnectReturns ==
  /\ pc = "connect" /\ pc' = "user"
  /\ \E jitter \in 0 .. RetryJitter : nextRetry' = Plus(lastPoll, Wait + jitter)
  /\ retryMs' = Doubled(Wait)
  /\ triedAt' = lastPoll
  /\ tries' = IF tries < RetryMax THEN tries + 1 ELSE tries
  /\ UNCHANGED <<link, view, polled, lastPoll, capable, clock, notices>>

Steps ==
  \/ DisconnectReturns \/ NotifyReturns
  \/ NoConnect \/ CallConnectStep \/ ConnectReturns

-------------------------------------------------------------------------------
Init ==
  /\ link = FALSE
  /\ online = FALSE /\ observed = FALSE /\ stable = 0
  /\ polled = FALSE /\ lastPoll = 0
  /\ nextRetry = 0 /\ retryMs = RetryBase /\ triedAt = -1 /\ tries = 0
  /\ capable = FALSE
  /\ clock = 0
  /\ pc = "user"
  /\ told = FALSE /\ forgot = FALSE

\* What tick() does; LinkChanges and the passing of time are the environment's.
Tick == PollUp \/ PollDown \/ Steps
===============================================================================
