----------------------------- MODULE MCComponents -----------------------------
\* The second model is registered for one of two credentials only.
EXTENDS Components

CONSTANTS a1, a2, m1, m2

Registrations == (a1 :> {m1, m2}) @@ (a2 :> {m1})

\* The automatic actions of an inspection: an invalid account is deleted.
DeleteInvalid == [invalid |-> "delete", request |-> "disable", limit |-> TRUE, recovery |-> TRUE]
=============================================================================
