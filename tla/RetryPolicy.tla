----------------------------- MODULE RetryPolicy ------------------------------
(***************************************************************************)
(* The RetryPolicy every SDK is configured with, and the gateway's errors  *)
(* up to what a retry loop may distinguish.                                *)
(***************************************************************************)
EXTENDS Integers

CONSTANTS
  MaxAttempts, InitialBackoff, MaxBackoff, RetryUpstream,   \* the fields of RetryPolicy
  Waits            \* the values of Retry-After the gateway sends

ASSUME PolicyAssumption ==
  /\ MaxAttempts \in Nat \ {0}
  /\ InitialBackoff \in Nat
  /\ MaxBackoff \in Nat
  /\ RetryUpstream \in BOOLEAN
  /\ Waits \subseteq Nat

\* A refusal has a wait, or none: the header is absent.
NoWait == -1

\* The problem+json errors, up to what the loops distinguish. "refused" stands for
\* rate-limit-exceeded-requests, rate-limiting-unavailable and usage-store-unavailable,
\* "final" for the catalogue's non-retryable errors and a failed token acquisition.
Kinds == {"backend-unavailable", "refused", "in-progress", "upstream-error", "final"}

Errors == [kind : Kinds, wait : Waits \union {NoWait}]

\* initial_backoff doubled per attempt, capped.
Capped(n) ==
  LET doubled == InitialBackoff * 2^(n - 1)
  IN  IF doubled < MaxBackoff THEN doubled ELSE MaxBackoff
===============================================================================
