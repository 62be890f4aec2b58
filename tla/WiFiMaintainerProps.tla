-------------------------- MODULE WiFiMaintainerProps --------------------------
(***************************************************************************)
(* Properties of the Wi-Fi maintainer, whatever its link does.             *)
(***************************************************************************)
EXTENDS WiFiMaintainer, Doubling

\* Every variable keeps its type; a connection that is seen is observed, and
\* only a connected maintainer counts stable polls.
TypeOK ==
  /\ {link, online, observed, polled, capable, told, forgot} \subseteq BOOLEAN
  /\ stable \in 0 .. StableMax
  /\ {lastPoll, nextRetry, clock} \subseteq Time
  /\ retryMs \in Nat
  /\ triedAt \in Time \cup {-1} /\ tries \in 0 .. RetryMax
  /\ pc \in {"user", "disconnect", "notify", "retry", "connect"}
  /\ pc \in {"retry", "connect", "disconnect"} => ~online
  /\ stable > 0 => online

\* Outside of tick() the observers know what the maintainer knows, whatever
\* the link did between two polls: what they were told last is what it acts on.
\* Whether they were told of it once or more often is not looked at.  Only begin() on a running maintainer forgets silently that
\* they were told of a link.  The managed capability changes before they are
\* told: no observer finds the capability of a link it was told is lost.
ObserversKnow ==
  /\ pc = "user" => told = online \/ forgot
  /\ (Manages /\ polled /\ pc # "disconnect") => capable = online

\* The wait after the k-th attempt since the link was last seen.
Backoff(k) == DoubledWait(RetryBase, RetryMax, k)

\* Attempts to connect keep their distance, which doubles while the link stays
\* down and starts again once it was seen.  Except across a wrap of the uptime.
AttemptsSpaced ==
  [][ (pc = "retry" /\ pc' = "connect" /\ triedAt # -1
       /\ triedAt + Backoff(tries) + RetryJitter < Wrap)
      => Minus(lastPoll, triedAt) >= Backoff(tries) ]_vars

\* The retry time is further away than any backoff: the uptime wrapped.
Overlong == Deferred /\ nextRetry - lastPoll > RetryBase + RetryMax + RetryJitter
===============================================================================
