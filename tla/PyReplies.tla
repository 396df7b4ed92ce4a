------------------------------ MODULE PyReplies -------------------------------
(***************************************************************************)
(* One call of the Python SDK against any sequence of replies: the loop of *)
(* client.py, _send, with the whole error catalogue where PyCalls has five *)
(* kinds of error.  Sleeping is instantaneous here; what it adds up to is  *)
(* counted.                                                                *)
(***************************************************************************)
EXTENDS PyErrors

CONSTANTS
  Replies,         \* the error replies of the gateway
  TokenReplies     \* and of the token endpoint

WellFormed(r) ==
  /\ r.suffix \in STRING
  /\ r.status \in Nat
  /\ r.header.form \in {"absent", "number", "date", "date without Date", "not finite", "garbage"}
  /\ r.header.value \in Int
  /\ r.bodyWait \subseteq Int /\ \A v, w \in r.bodyWait : v = w
  /\ r.scope \subseteq {"header", "body"}
  /\ r.id \subseteq {"header", "body"}

ASSUME RepliesAssumption == \A r \in Replies : WellFormed(r)

SuffixesOf(classes) == {c.suffix : c \in classes}

\* The catalogue the SDKs share: the status an error comes with, by its suffix. The refusal of
\* an engine behind predict keeps the engine's own 4xx; what else the engine says is a 502.
StatusesOf(suffix) ==
  CASE suffix \in SuffixesOf(Unauthorized) \union {"unauthorized"} -> {401}
    [] suffix = "spend-cap-exceeded" -> {402}
    [] suffix = "forbidden" -> {403}
    [] suffix \in {"not-found", "unknown-route"} -> {404}
    [] suffix = "method-not-allowed" -> {405}
    [] suffix \in {"idempotency-key-reuse", "idempotency-in-progress",
                   "idempotency-response-not-retained"} -> {409}
    [] suffix = "validation-error" -> {422}
    [] suffix = "rate-limit-exceeded-requests" -> {429}
    [] suffix = "predict-backend-rejected" -> (400..499) \union {502}
    [] suffix = "upstream-error" -> {502}
    [] suffix \in (SuffixesOf(Unavailable) \ {"upstream-error", "predict-backend-rejected"})
                   \union {"upstream-unavailable", "not-configured"} -> {503}
    [] OTHER -> {400}

\* The gateway keeps to the catalogue; an error outside it may have any status.
ASSUME CatalogueAssumption ==
  \A r \in Replies : r.suffix \in Familiar => r.status \in StatusesOf(r.suffix)

\* The two envelopes of the token endpoint, and everything else it may answer with.
ASSUME TokenAssumption ==
  /\ \A b \in TokenReplies : b.kind \in {"oauth", "problem", "other"}
  /\ TokenReplies \cap Replies = {}

VARIABLES
  pc,              \* "sending", "failed" (an error in hand), "raised" or "answered"
  attempt,
  slept,           \* the time slept in all
  reply,           \* the reply to the current attempt
  error            \* the exception made of it

vars == <<pc, attempt, slept, reply, error>>

None == [suffix |-> "", family |-> ""]

TypeOK ==
  /\ pc \in {"sending", "failed", "raised", "answered"}
  /\ attempt \in 1..MaxAttempts
  /\ slept \in Nat
  /\ pc = "failed" => WellFormed(reply) /\ error = Error(reply)

Init == pc = "sending" /\ attempt = 1 /\ slept = 0 /\ reply = None /\ error = None

\* The token manager could not get a token: whatever it raises leaves the call at once.
TokenRefused ==
  /\ pc = "sending"
  /\ \E b \in TokenReplies :
       /\ reply' = b
       /\ error' = [suffix |-> b.name, family |-> TokenError(b)]
  /\ pc' = "raised"
  /\ UNCHANGED <<attempt, slept>>

\* raise_for_status makes an error of the reply.
Receive ==
  /\ pc = "sending"
  /\ \E r \in Replies : reply' = r /\ error' = Error(r)
  /\ pc' = "failed"
  /\ UNCHANGED <<attempt, slept>>

Answered ==
  /\ pc = "sending"
  /\ pc' = "answered"
  /\ UNCHANGED <<attempt, slept, reply, error>>

\* _after_failure gives a delay: sleep, and go round again.
Retry ==
  /\ pc = "failed"
  /\ \E d \in DelayFor(error, attempt) : slept' = slept + d
  /\ attempt' = attempt + 1
  /\ pc' = "sending"
  /\ reply' = None /\ error' = None

\* _after_failure gives None.
Raise ==
  /\ pc = "failed"
  /\ DelayFor(error, attempt) = {}
  /\ pc' = "raised"
  /\ UNCHANGED <<attempt, slept, reply, error>>

Over == pc \in {"raised", "answered"} /\ UNCHANGED vars

Next == TokenRefused \/ Receive \/ Answered \/ Retry \/ Raise \/ Over

Spec == Init /\ [][Next]_vars

-------------------------------------------------------------------------------

\* A call blocks its caller for at most max_backoff per attempt it repeats, whatever waits the
\* gateway names: "the longest this SDK will block inside a single call" is one such wait.
BlockingIsBounded == slept <= (attempt - 1) * MaxBackoff

\* The five kinds of error the loop is modelled with (PyCalls) lose nothing: for every reply
\* of the catalogue, and for those outside it, the decision and the waits are the same.
KindsSuffice ==
  pc = "failed" => DelayFor(error, attempt) = Delays(AsModelled(error), attempt)

\* An error the SDK does not know is never repeated, although it may be a retryable 5xx: nobody
\* can say that no generation occurred.
UnfamiliarIsNotRetried ==
  [][pc = "failed" /\ pc' = "sending" => error.suffix \in Familiar]_vars

\* A call that is repeated waits what the Retry-After header asked for, neither more nor less,
\* though the body may name another wait.
HeaderIsHonoured ==
  [][pc = "failed" /\ pc' = "sending" =>
       \A w \in HeaderWait(reply.header) : slept' - slept = w]_vars

\* A refusal that names a budget in either place reaches the caller with a budget named, and a
\* reply with a request id with an id to take to the platform team.
NothingIsUnattributed ==
  pc = "failed" =>
    /\ reply.scope # {} => Cardinality(error.scope) = 1
    /\ reply.id # {} => Cardinality(error.id) = 1

\* Whoever catches by status catches every error of it, of the catalogue or not, that is the
\* gateway's own and not an engine's behind it: a 401 is an UnauthorizedError, a 5xx a
\* ServerError, and nothing else is.
FamilyFitsStatus ==
  pc = "failed" =>
    /\ reply.status = 401 /\ reply.suffix # "predict-backend-rejected"
         <=> error.family = "UnauthorizedError"
    /\ reply.status >= 500 /\ reply.suffix # "predict-backend-rejected"
         <=> error.family = "ServerError"

\* Only the auth-service's own verdict blames the credentials: a page from a proxy does not make
\* a caller "go and rotate a perfectly good secret" (auth.py).
OnlyVerdictsBlameCredentials ==
  pc = "raised" /\ reply \in TokenReplies =>
    (error.family \in OAuthClasses \union {"OAuthError"} <=> reply.kind = "oauth")

\* What a caller catches, shows and reports is what happened to the request.
ErrorsAreWellTold == NothingIsUnattributed /\ FamilyFitsStatus /\ OnlyVerdictsBlameCredentials
===============================================================================
