------------------------------- MODULE PyErrors -------------------------------
(***************************************************************************)
(* python/src/axonium/errors.py with transport/dispatch.py: the error      *)
(* class each reply of the gateway becomes, what the error carries, and    *)
(* what RetryPolicy.delay_for makes of it.  A value that may be missing is *)
(* a set of at most one element; a class is named by its suffix, a family  *)
(* is what a caller's `except` clause names.                               *)
(***************************************************************************)
EXTENDS PyRetryPolicy, FiniteSets

Class(family, retryable, suffixes) ==
  {[suffix |-> s, family |-> family, retryable |-> retryable] : s \in suffixes}

\* The classes declared ahead of the sections, beside the fallbacks.
General ==
  Class("BadRequestError", FALSE,
        {"inconsistent-model-group", "invalid-date", "invalid-range", "range-too-large"}) \union
  Class("UnauthorizedError", FALSE, {"unauthorized"}) \union
  Class("APIError", FALSE, {"not-found", "unknown-route", "method-not-allowed"}) \union
  Class("ServerError", TRUE, {"upstream-unavailable"}) \union
  Class("ServerError", FALSE, {"not-configured"})

\* 400 and 422, and the 409s of the idempotency keys.
BadRequests ==
  Class("BadRequestError", FALSE,
        {"unknown-model", "modality-mismatch", "context-exceeded", "unknown-parameter",
         "unknown-instance", "invalid-idempotency-key", "validation-error"}) \union
  Class("APIError", FALSE, {"idempotency-key-reuse", "idempotency-response-not-retained"}) \union
  Class("APIError", TRUE, {"idempotency-in-progress"})

\* 401.
Unauthorized ==
  Class("UnauthorizedError", FALSE, {"missing-credentials", "invalid-token", "token-revoked"}) \union
  Class("UnauthorizedError", TRUE, {"token-expired"})

\* 402, 403 and 429.
Denied ==
  Class("APIError", FALSE, {"spend-cap-exceeded"}) \union
  Class("ForbiddenError", FALSE, {"forbidden"}) \union
  Class("APIError", TRUE, {"rate-limit-exceeded-requests"})

\* 5xx; ServerError is retryable unless the class says otherwise. Whether the refusal of an
\* engine behind predict is worth repeating depends on its status.
Unavailable ==
  Class("ServerError", TRUE,
        {"upstream-error", "capacity-exhausted", "backend-unavailable",
         "rate-limiting-unavailable", "usage-store-unavailable"}) \union
  Class("ServerError", FALSE, {"model-not-loaded", "rerank-dialect-unknown"}) \union
  Class("APIError", FALSE, {"predict-backend-rejected"})

\* _BY_SUFFIX.
Catalogue == General \union BadRequests \union Unauthorized \union Denied \union Unavailable

Familiar == {c.suffix : c \in Catalogue}

\* Mutant: an unfamiliar 5xx is taken for an unavailable backend.
FallsBackToOutage(status) ==
  IF status >= 500 THEN [family |-> "BackendUnavailableError", retryable |-> TRUE]
  ELSE [family |-> "BadRequestError", retryable |-> FALSE]

\* _fallback_for_status.
Fallback(status) ==
  CASE status = 401 -> [family |-> "UnauthorizedError", retryable |-> FALSE]
    [] status >= 500 -> [family |-> "ServerError", retryable |-> TRUE]
    [] OTHER -> [family |-> "BadRequestError", retryable |-> FALSE]

-------------------------------------------------------------------------------
(* Retry-After. *)

\* Whole seconds: the header's number, an HTTP date's distance from the Date header, or the
\* body's retry_after.
AtLeastZero(n) == IF n < 0 THEN 0 ELSE n

\* Mutant: a date in the past is a negative wait.
HeaderWaitRaw(h) == IF h.form \in {"number", "date"} THEN {h.value} ELSE {}

\* retry_after_seconds: a number, or a date if the server said what time it was; anything else,
\* NaN and infinities included, is discarded.
HeaderWait(h) == IF h.form \in {"number", "date"} THEN {AtLeastZero(h.value)} ELSE {}

\* Mutant: the body's field wins.
BodyWaitFirst(r) == IF r.bodyWait # {} THEN r.bodyWait ELSE HeaderWait(r.header)

\* The header wins over the body, whose number is taken as it is.
RetryAfter(r) == IF HeaderWait(r.header) # {} THEN HeaderWait(r.header) ELSE r.bodyWait

-------------------------------------------------------------------------------
(* error_from_response and raise_for_status. *)

\* Mutant: the scope is read off the header alone.
HeaderScopeOnly(r) == r.scope \cap {"header"}

\* with_scope_from: which source names the budget; the header wins.
Scope(r) == IF "header" \in r.scope THEN {"header"} ELSE r.scope

\* Which source names the request; the body wins.
RequestId(r) == IF "body" \in r.id THEN {"body"} ELSE r.id

Error(r) ==
  LET class == IF r.suffix \in Familiar THEN CHOOSE c \in Catalogue : c.suffix = r.suffix
               ELSE Fallback(r.status)
  IN  [suffix |-> r.suffix, status |-> r.status, family |-> class.family,
       retryable |-> IF r.suffix = "predict-backend-rejected" THEN r.status = 429
                     ELSE class.retryable,
       retryAfter |-> RetryAfter(r), scope |-> Scope(r), id |-> RequestId(r)]

-------------------------------------------------------------------------------
(* delay_for. *)

\* Mutant: a refusal for want of capacity is taken for one that reached no model.
CapacityReachesNoModel ==
  {"rate-limit-exceeded-requests", "backend-unavailable", "rate-limiting-unavailable",
   "usage-store-unavailable", "idempotency-in-progress", "capacity-exhausted"}

\* _NO_GENERATION_OCCURRED.
NoGenerationOccurred ==
  {"rate-limit-exceeded-requests", "backend-unavailable", "rate-limiting-unavailable",
   "usage-store-unavailable", "idempotency-in-progress"}

\* Mutant: what is retryable is retried.
RetriesRetryable(e, n) == n < MaxAttempts /\ e.retryable

MayRetry(e, n) ==
  /\ n < MaxAttempts
  /\ e.retryable
  /\ IF e.suffix = "upstream-error" THEN RetryUpstream /\ n <= 1
     ELSE e.suffix \in NoGenerationOccurred

\* Mutant: a wait is slept through however long it is.
DelayForUncapped(e, n) ==
  IF ~MayRetry(e, n) THEN {}
  ELSE IF e.retryAfter = {} THEN Backoffs(n) ELSE {AtLeastZero(w) : w \in e.retryAfter}

\* The waits delay_for may return; {} is None.
DelayFor(e, n) ==
  IF ~MayRetry(e, n) THEN {}
  ELSE IF e.retryAfter = {} THEN Backoffs(n)
  ELSE {AtLeastZero(w) : w \in e.retryAfter} \cap 0..MaxBackoff

-------------------------------------------------------------------------------
(* The token endpoint answers in another envelope. *)

\* _BY_OAUTH_CODE.
OAuthClasses == {"unsupported_grant_type", "invalid_scope", "invalid_client", "unauthorized_client"}

\* Mutant: every failure is read as an OAuth2 answer.
AlwaysOAuth(b) ==
  IF b.kind = "oauth" /\ b.name \in OAuthClasses THEN b.name ELSE "OAuthError"

\* _token_error, by the envelope; a body in neither is not the gateway's.
TokenError(b) ==
  CASE b.kind = "problem" -> "APIError"
    [] b.kind = "oauth" -> IF b.name \in OAuthClasses THEN b.name ELSE "OAuthError"
    [] b.kind = "other" -> "AuthTransportError"

-------------------------------------------------------------------------------
(* The loop of _send is modelled with errors of five kinds (RetryPolicy). *)

KindOf(e) ==
  CASE e.suffix = "backend-unavailable" -> "backend-unavailable"
    [] e.suffix = "idempotency-in-progress" -> "in-progress"
    [] e.suffix = "upstream-error" -> "upstream-error"
    [] e.suffix \in {"rate-limit-exceeded-requests", "rate-limiting-unavailable",
                     "usage-store-unavailable"} -> "refused"
    [] OTHER -> "final"

AsModelled(e) ==
  [kind |-> KindOf(e),
   wait |-> IF e.retryAfter = {} THEN NoWait ELSE AtLeastZero(CHOOSE w \in e.retryAfter : TRUE)]
===============================================================================
