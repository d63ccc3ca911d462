--------------------------- MODULE RefreshSchedule ---------------------------
(***************************************************************************)
(* When the credential of an auth is due for a refresh                     *)
(* (sdk/cliproxy/auth: Manager.shouldRefresh of conductor.go and            *)
(* nextRefreshCheckAt of auto_refresh_loop.go).  The two functions decide   *)
(* the same question twice, once for "now" and once for "when to look       *)
(* again", and must agree.                                                  *)
(*                                                                         *)
(* Times are positive integers; 0 is Go's zero time, and also the result    *)
(* "not scheduled" of nextRefreshCheckAt.  A preferred interval or a        *)
(* provider lead of 0 stands for none: the code treats both alike.          *)
(***************************************************************************)
EXTENDS Integers

CONSTANT CheckInterval  \* authAutoRefreshLoop.interval

ASSUME CheckIntervalIsPositive == CheckInterval \in Nat \ {0}

Times == Nat \ {0}

\* What the two functions read of an Auth.
HasSchedule(auth) ==
  /\ auth.unauthorized \in BOOLEAN      \* LastError is a 401
  /\ auth.apiKey \in BOOLEAN            \* AuthKind is AuthKindAPIKey
  /\ auth.nextRefreshAfter \in Nat
  /\ auth.evaluator \in BOOLEAN         \* Runtime is a RefreshEvaluator
  /\ auth.lastRefreshedAt \in Nat
  /\ auth.expiry \in Nat
  /\ auth.preferred \in Nat             \* authPreferredInterval
  /\ auth.lead \in Nat                  \* ProviderRefreshLead
  /\ auth.executor \in BOOLEAN          \* the provider has an executor

Later(s, t) == IF s >= t THEN s ELSE t
Earlier(s, t) == IF s <= t THEN s ELSE t

HeldBack(auth, now) == now < auth.nextRefreshAfter

\* Manager.shouldRefresh without a RefreshEvaluator, called with the time the caller
\* has read.  The lead of a provider is held against the clock itself.
ShouldRefresh(auth, now, clockNow) ==
  /\ ~auth.unauthorized
  /\ ~HeldBack(auth, now)
  /\ IF auth.preferred > 0
     THEN \/ auth.expiry # 0 /\ auth.expiry - now <= auth.preferred
          \/ auth.lastRefreshedAt = 0
          \/ now - auth.lastRefreshedAt >= auth.preferred
     ELSE /\ auth.lead > 0
          /\ IF auth.expiry # 0 THEN auth.expiry - clockNow <= auth.lead
             ELSE auth.lastRefreshedAt # 0
                  => now - auth.lastRefreshedAt >= auth.lead

\* The time at which the credential itself asks for a refresh: the earliest
\* candidate of the preferred interval, or the provider's lead.
DueAt(auth) ==
  IF auth.preferred > 0
  THEN IF auth.lastRefreshedAt = 0 THEN 0
       ELSE IF auth.expiry = 0 THEN auth.lastRefreshedAt + auth.preferred
            ELSE Earlier(auth.expiry - auth.preferred,
                         auth.lastRefreshedAt + auth.preferred)
  ELSE IF auth.expiry # 0 THEN auth.expiry - auth.lead
       ELSE IF auth.lastRefreshedAt # 0 THEN auth.lastRefreshedAt + auth.lead
            ELSE 0

\* Faulty variant: the check is scheduled for the expiry, without the lead.
NextRefreshCheckAtExpiry(now, auth) ==
  IF auth.unauthorized \/ auth.apiKey THEN 0
  ELSE IF HeldBack(auth, now) THEN auth.nextRefreshAfter
  ELSE IF auth.evaluator THEN now + CheckInterval
  ELSE IF auth.preferred = 0 /\ auth.lead = 0 THEN 0
  ELSE Later(now, Later(auth.expiry, DueAt(auth)))

\* nextRefreshCheckAt; 0 unschedules the auth.
NextRefreshCheckAt(now, auth) ==
  IF auth.unauthorized \/ auth.apiKey THEN 0
  ELSE IF HeldBack(auth, now) THEN auth.nextRefreshAfter
  ELSE IF auth.evaluator THEN now + CheckInterval
  ELSE IF auth.preferred = 0 /\ auth.lead = 0 THEN 0
  ELSE Later(now, DueAt(auth))

-----------------------------------------------------------------------------
\* Whoever sleeps until the next check misses no refresh: an auth that is due
\* at some time after now is scheduled for that time or an earlier one.
\* (nextRefreshCheckAt against shouldRefresh)
NeverLate(auth, now, time) ==
  (now <= time /\ ~auth.apiKey /\ ~auth.evaluator /\ ShouldRefresh(auth, time, time))
  => NextRefreshCheckAt(now, auth) \in 1..time

\* A check that finds nothing to do sleeps: the next one lies ahead of the time the
\* loop has read, however long ago, so that the loop does not spin.  (handleDueAuth,
\* the branch of !shouldRefresh)
NeverSpins(auth, now, clockNow) ==
  (now <= clockNow /\ ~auth.evaluator /\ ~ShouldRefresh(auth, now, clockNow)
     /\ NextRefreshCheckAt(now, auth) # 0)
  => NextRefreshCheckAt(now, auth) > now
=============================================================================
