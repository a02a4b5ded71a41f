---------------------------- MODULE TurnProvider ----------------------------
(***************************************************************************)
(* The coordinator's TURN credentials: the goroutine of                    *)
(* TurnProvider.Start that renews them at Cloudflare ahead of their end    *)
(* and again after a failure, and the cache from which CreateLease hands   *)
(* them out.  Cloudflare is external: it may issue credentials whose reply *)
(* never arrives, and counts their life from when it issues them, while    *)
(* the coordinator counts from when the reply arrives.                     *)
(***************************************************************************)
EXTENDS Naturals

CONSTANTS
  TTL,         \* turnCredentialTTL
  Advance,     \* turnCredentialRefreshAdvance
  MinValidity, \* turnCredentialMinimumValidity
  RetryDelay,  \* turnCredentialRetryDelay
  MinDelay,    \* the minute a successful refresh waits at least
  Timeout,     \* the HTTP client's
  MaxTime      \* bound: the clock

ASSUME TurnAssumption ==
  /\ TTL \in Nat /\ Advance \in Nat /\ MinValidity \in Nat /\ RetryDelay \in Nat
  /\ MinDelay \in Nat /\ Timeout \in Nat /\ MaxTime \in Nat
  /\ Advance + MinDelay <= TTL

VARIABLES
  now,       \* the clock
  loop,      \* the goroutine: "sleep", or "request" (in refresh())
  wake,      \* when its timer fires, or when the request began
  cached,    \* p.cached, by its ExpiresAt: 0 for none
  end,       \* history: when Cloudflare ends the cached credentials
  issued,    \* when Cloudflare issued what the request asks for: 0 for not yet
  fails      \* history: refreshes that failed since the last one that did not

turnVars == <<now, loop, wake, cached, end, issued, fails>>

\* The clock starts at 1, as 0 stands for no time.
TurnInit ==
  /\ now = 1 /\ loop = "sleep" /\ wake = 1 /\ cached = 0 /\ end = 0 /\ issued = 0 /\ fails = 0

\* Time passes, but not past the timer or the timeout of the HTTP client.
Tick ==
  /\ now < MaxTime
  /\ now < (IF loop = "sleep" THEN wake ELSE wake + Timeout)
  /\ now' = now + 1
  /\ UNCHANGED <<loop, wake, cached, end, issued, fails>>

\* The timer fires, or there is no delay: refresh() sends its request.
Request ==
  /\ loop = "sleep" /\ now = wake
  /\ loop' = "request" /\ issued' = 0
  /\ UNCHANGED <<now, wake, cached, end, fails>>

Issue ==
  /\ loop = "request" /\ issued = 0
  /\ issued' = now
  /\ UNCHANGED <<now, loop, wake, cached, end, fails>>

\* Mutant: the renewal is scheduled for the end of the credentials.
Refreshed_noAdvance ==
  /\ loop = "request" /\ issued # 0
  /\ cached' = now + TTL /\ end' = issued + TTL
  /\ loop' = "sleep" /\ wake' = now + TTL
  /\ fails' = 0
  /\ UNCHANGED <<now, issued>>

\* A usable reply: the credentials are stored and the next refresh scheduled.
Refreshed ==
  /\ loop = "request" /\ issued # 0
  /\ cached' = now + TTL /\ end' = issued + TTL
  /\ loop' = "sleep"
  /\ wake' = IF TTL - Advance < MinDelay THEN now + MinDelay ELSE now + (TTL - Advance)
  /\ fails' = 0
  /\ UNCHANGED <<now, issued>>

\* No reply in time, an error status, or no UDP server in it.
RefreshFails ==
  /\ loop = "request"
  /\ loop' = "sleep" /\ wake' = now + RetryDelay /\ fails' = fails + 1
  /\ UNCHANGED <<now, cached, end, issued>>

TurnNext == Tick \/ Request \/ Issue \/ Refreshed \/ RefreshFails

TurnSpec == TurnInit /\ [][TurnNext]_turnVars

\* Mutant: what is cached is handed out until the coordinator believes it ends.
CachedCredentials_noMargin == cached # 0 /\ cached > now

\* CachedCredentials() returns credentials.
CachedCredentials == cached # 0 /\ cached > now + MinValidity

-----------------------------------------------------------------------------
TurnTypeOK ==
  /\ now \in Nat /\ loop \in {"sleep", "request"} /\ wake \in Nat /\ cached \in Nat
  /\ end \in Nat /\ issued \in Nat /\ fails \in Nat

\* Credentials handed out have at least MinValidity less one request's duration
\* to live, although the coordinator dates their end from the reply (turn.go:156)
\* and Cloudflare earlier.
HandedOutLives == CachedCredentials => end + Timeout > now + MinValidity

\* The types, and the life of what is handed out.
CredentialsInv == TurnTypeOK /\ HandedOutLives

\* Once there were credentials, relaying falls back to WebSockets for want of
\* them only after refreshes have failed, one after the other, for all of
\* Advance - MinValidity (turn.go:96): each takes at most a timeout and a delay,
\* and one more may be under way.
LapseNeedsFailures ==
  cached # 0 /\ ~CachedCredentials =>
    fails * (Timeout + RetryDelay) + Timeout + MinValidity >= Advance
=============================================================================
