---------------------------- MODULE PyRetryPolicy -----------------------------
(***************************************************************************)
(* python/src/axonium/transport/retry.py, class RetryPolicy: when an error *)
(* is worth another attempt, and how long to wait for it.                  *)
(***************************************************************************)
EXTENDS RetryPolicy

\* backoff_for: the jitter takes away up to half.
Backoffs(n) == {d \in 0..MaxBackoff : 2 * d >= Capped(n) /\ d <= Capped(n)}

\* Mutant: retryable errors are retried whether or not a generation occurred.
RetriesUpstream(e, n) == e.kind # "final" /\ n < MaxAttempts

\* Mutant: the bound is checked after the attempt it was meant to prevent.
OneAttemptMore(e, n) ==
  /\ n <= MaxAttempts
  /\ e.kind # "final"
  /\ e.kind = "upstream-error" => RetryUpstream /\ n = 1

\* delay_for, the decision: retryable, attempts left, and no generation occurred; an
\* upstream error only if opted in, and once.
WorthRetrying(e, n) ==
  /\ n < MaxAttempts
  /\ e.kind # "final"
  /\ e.kind = "upstream-error" => RetryUpstream /\ n = 1

\* Mutant: the backoff is used although the gateway named a wait.
BackoffAlways(e, n) == IF WorthRetrying(e, n) THEN Backoffs(n) ELSE {}

\* delay_for: how long to wait; the empty set is None. A Retry-After is used verbatim, unless
\* it is longer than max_backoff: then it is handed to the caller.
Delays(e, n) ==
  IF ~WorthRetrying(e, n) THEN {}
  ELSE IF e.wait = NoWait THEN Backoffs(n)
  ELSE {e.wait} \cap 0..MaxBackoff
===============================================================================
