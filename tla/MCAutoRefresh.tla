---------------------------- MODULE MCAutoRefresh ----------------------------
(* Credentials for the runs of AutoRefresh.                                 *)
EXTENDS AutoRefresh

Credential(expiry, preferred, lead) ==
  [token |-> 1, unauthorized |-> FALSE, apiKey |-> FALSE, disabled |-> FALSE,
   nextRefreshAfter |-> 0, evaluator |-> FALSE, lastRefreshedAt |-> 0,
   executor |-> TRUE, retryAfter |-> 0, expiry |-> expiry, preferred |-> preferred, lead |-> lead]

\* An OAuth credential about to expire.
Expiring == {Credential(2, 0, 1)}

\* Also an API key, one refreshed at an interval, one with an evaluator, and
\* one without an executor.
Mixed == Expiring \cup {Credential(0, 2, 0),
                        [Credential(2, 0, 1) EXCEPT !.apiKey = TRUE],
                        [Credential(2, 0, 1) EXCEPT !.evaluator = TRUE],
                        [Credential(2, 0, 1) EXCEPT !.executor = FALSE]}
=============================================================================
