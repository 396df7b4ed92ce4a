--------------------------- MODULE PyRepliesProofs ----------------------------
(***************************************************************************)
(* Proofs about the error catalogue: for any retry policy and any replies, *)
(* the five kinds of error the other modules are written with decide as    *)
(* the whole catalogue does, and a call blocks for a bounded time.         *)
(***************************************************************************)
EXTENDS PyReplies, FiniteSetTheorems, TLAPS

LEMMA ClassHas ==
  ASSUME NEW family, NEW retryable, NEW suffixes, NEW s \in suffixes
  PROVE  \E c \in Class(family, retryable, suffixes) : c.suffix = s
<1>1. [suffix |-> s, family |-> family, retryable |-> retryable] \in Class(family, retryable, suffixes)
  BY DEF Class
<1>. QED
  BY <1>1

\* A class that reaches no model is retryable, and so is an upstream error.
LEMMA CatalogueOf ==
  /\ \A s \in NoGenerationOccurred \union {"upstream-error"} :
       s \in Familiar /\ \A c \in Catalogue : c.suffix = s => c.retryable = TRUE
  /\ "predict-backend-rejected" \notin NoGenerationOccurred \union {"upstream-error"}
<1>. DEFINE S == NoGenerationOccurred \union {"upstream-error"}
<1>1. \A c \in General \union Unauthorized : c.suffix \notin S
  BY DEF General, Unauthorized, Class, NoGenerationOccurred
<1>2. \A c \in BadRequests \union Denied : c.suffix \in S => c.retryable = TRUE
  BY DEF BadRequests, Denied, Class, NoGenerationOccurred
<1>3. \A c \in Unavailable : c.suffix \in S => c.retryable = TRUE
  BY DEF Unavailable, Class, NoGenerationOccurred
<1>4. \A s \in {"upstream-error", "backend-unavailable", "rate-limiting-unavailable",
                "usage-store-unavailable"} :
         [suffix |-> s, family |-> "ServerError", retryable |-> TRUE] \in Unavailable
  BY DEF Unavailable, Class
<1>5. [suffix |-> "rate-limit-exceeded-requests", family |-> "APIError", retryable |-> TRUE] \in Denied
  BY DEF Denied, Class
<1>6. [suffix |-> "idempotency-in-progress", family |-> "APIError", retryable |-> TRUE] \in BadRequests
  BY DEF BadRequests, Class
<1>7. \A s \in S : \E c \in Catalogue : c.suffix = s
  BY <1>4, <1>5, <1>6 DEF Catalogue, NoGenerationOccurred
<1>8. "predict-backend-rejected" \notin S
  BY DEF NoGenerationOccurred
<1>. QED
  BY <1>1, <1>2, <1>3, <1>7, <1>8 DEF Catalogue, Familiar

\* What the header or the body says is a number; the header's is not negative.
LEMMA WaitsAreNumbers ==
  ASSUME NEW r, WellFormed(r)
  PROVE  /\ HeaderWait(r.header) \subseteq Nat
         /\ RetryAfter(r) \subseteq Int
         /\ \A v, w \in RetryAfter(r) : v = w
         /\ HeaderWait(r.header) # {} => RetryAfter(r) = HeaderWait(r.header)
<1>1. r.header.value \in Int /\ r.bodyWait \subseteq Int /\ \A v, w \in r.bodyWait : v = w
  BY DEF WellFormed
<1>2. HeaderWait(r.header) \subseteq Nat /\ \A v, w \in HeaderWait(r.header) : v = w
  BY <1>1 DEF HeaderWait, AtLeastZero
<1>. QED
  BY <1>1, <1>2 DEF RetryAfter

\* delay_for: a delay is a wait of at most max_backoff, the header's if there is one.
LEMMA DelayForBounded ==
  ASSUME NEW r, WellFormed(r), NEW n \in 1..MaxAttempts, NEW d \in DelayFor(Error(r), n)
  PROVE  /\ d \in 0..MaxBackoff
         /\ n < MaxAttempts
         /\ \A w \in HeaderWait(r.header) : d = w
<1>1. d \in 0..MaxBackoff /\ n < MaxAttempts
  BY DEF DelayFor, MayRetry, Backoffs
<1>2. ASSUME NEW w \in HeaderWait(r.header) PROVE d = w
  <2>1. Error(r).retryAfter = {w} /\ w \in Nat
    BY <1>2, WaitsAreNumbers DEF Error
  <2>. QED
    BY <2>1 DEF DelayFor, AtLeastZero
<1>. QED
  BY <1>1, <1>2

\* Five kinds of error are enough for the loop: the decision ...
LEMMA SameDecision ==
  ASSUME NEW r, WellFormed(r), NEW n \in 1..MaxAttempts
  PROVE  MayRetry(Error(r), n) <=> WorthRetrying(AsModelled(Error(r)), n)
<1>. DEFINE e == Error(r)
<1>1. e.suffix = r.suffix
  BY DEF Error
<1>2. ASSUME r.suffix \in NoGenerationOccurred \union {"upstream-error"}
      PROVE  e.retryable = TRUE
  <2>. DEFINE c == CHOOSE c \in Catalogue : c.suffix = r.suffix
  <2>1. r.suffix \in Familiar
    BY <1>2, CatalogueOf
  <2>2. c \in Catalogue /\ c.suffix = r.suffix
    BY <2>1 DEF Familiar
  <2>3. c.retryable = TRUE
    BY <1>2, <2>2, CatalogueOf
  <2>4. r.suffix # "predict-backend-rejected"
    BY <1>2, CatalogueOf
  <2>5. e.retryable = c.retryable
    BY <2>1, <2>4 DEF Error
  <2>. QED
    BY <2>3, <2>5
<1>3. AsModelled(e).kind = KindOf(e)
  BY DEF AsModelled
<1>4. KindOf(e) # "final" <=> r.suffix \in NoGenerationOccurred \union {"upstream-error"}
  BY <1>1 DEF KindOf, NoGenerationOccurred
<1>5. KindOf(e) = "upstream-error" <=> r.suffix = "upstream-error"
  BY <1>1 DEF KindOf
<1>6. "upstream-error" \notin NoGenerationOccurred
  BY DEF NoGenerationOccurred
<1>. HIDE DEF e
<1>7. MayRetry(e, n) <=> WorthRetrying(AsModelled(e), n)
  <2>1. CASE r.suffix = "upstream-error"
    <3>1. e.retryable = TRUE /\ e.suffix = "upstream-error"
      BY <1>1, <1>2, <2>1
    <3>2. AsModelled(e).kind = "upstream-error"
      BY <1>3, <1>5, <2>1
    <3>3. n <= 1 <=> n = 1
      BY PolicyAssumption
    <3>. QED
      BY <3>1, <3>2, <3>3 DEF MayRetry, WorthRetrying
  <2>2. CASE r.suffix \in NoGenerationOccurred
    <3>1. e.retryable = TRUE /\ e.suffix \in NoGenerationOccurred /\ e.suffix # "upstream-error"
      BY <1>1, <1>2, <1>6, <2>2
    <3>2. AsModelled(e).kind # "upstream-error" /\ AsModelled(e).kind # "final"
      BY <1>3, <1>4, <1>5, <1>6, <2>2
    <3>. QED
      BY <3>1, <3>2 DEF MayRetry, WorthRetrying
  <2>3. CASE r.suffix \notin NoGenerationOccurred \union {"upstream-error"}
    BY <1>1, <1>3, <1>4, <2>3 DEF MayRetry, WorthRetrying
  <2>. QED
    BY <2>1, <2>2, <2>3
<1>. QED
  BY <1>7 DEF e

\* ... and the waits.
LEMMA SameDelays ==
  ASSUME NEW r, WellFormed(r), NEW n \in 1..MaxAttempts
  PROVE  DelayFor(Error(r), n) = Delays(AsModelled(Error(r)), n)
<1>. DEFINE e == Error(r)
<1>1. e.retryAfter = RetryAfter(r)
  BY DEF Error
<1>2. CASE e.retryAfter = {}
  <2>1. AsModelled(e).wait = NoWait
    BY <1>2 DEF AsModelled
  <2>. QED
    BY <1>2, <2>1, SameDecision DEF DelayFor, Delays
<1>3. CASE e.retryAfter # {}
  <2>. PICK w \in Int : e.retryAfter = {w}
    BY <1>1, <1>3, WaitsAreNumbers
  <2>1. AsModelled(e).wait = AtLeastZero(w)
    BY DEF AsModelled
  <2>2. AtLeastZero(w) # NoWait
    BY DEF AtLeastZero, NoWait
  <2>3. {AtLeastZero(v) : v \in e.retryAfter} = {AtLeastZero(w)}
    OBVIOUS
  <2>. HIDE DEF e
  <2>4. MayRetry(e, n) <=> WorthRetrying(AsModelled(e), n)
    BY SameDecision DEF e
  <2>5. DelayFor(e, n) = Delays(AsModelled(e), n)
    BY <1>3, <2>1, <2>2, <2>3, <2>4 DEF DelayFor, Delays
  <2>. QED
    BY <2>5 DEF e
<1>. QED
  BY <1>2, <1>3

\* Among the errors of the catalogue, 401 are the Unauthorized ones and 5xx the server's; an
\* engine's refusal aside, whose status is the engine's.
LEMMA StatusFitsFamily ==
  ASSUME NEW c \in Catalogue, NEW n \in StatusesOf(c.suffix)
  PROVE  /\ n = 401 /\ c.suffix # "predict-backend-rejected" <=> c.family = "UnauthorizedError"
         /\ n >= 500 /\ c.suffix # "predict-backend-rejected" <=> c.family = "ServerError"
<1>1. SuffixesOf(Unauthorized) =
        {"missing-credentials", "invalid-token", "token-revoked", "token-expired"}
  <2>1. \A s \in {"missing-credentials", "invalid-token", "token-revoked"} :
          [suffix |-> s, family |-> "UnauthorizedError", retryable |-> FALSE] \in Unauthorized
    BY DEF Unauthorized, Class
  <2>2. [suffix |-> "token-expired", family |-> "UnauthorizedError", retryable |-> TRUE]
          \in Unauthorized
    BY DEF Unauthorized, Class
  <2>3. \A s \in {"missing-credentials", "invalid-token", "token-revoked", "token-expired"} :
          \E d \in Unauthorized : d.suffix = s
    BY <2>1, <2>2
  <2>4. \A d \in Unauthorized : d.suffix \in
          {"missing-credentials", "invalid-token", "token-revoked", "token-expired"}
    BY DEF Unauthorized, Class
  <2>. QED
    BY <2>3, <2>4 DEF SuffixesOf
<1>2. \A s : s \in SuffixesOf(Unavailable) <=>
        s \in {"upstream-error", "capacity-exhausted", "backend-unavailable",
               "rate-limiting-unavailable", "usage-store-unavailable", "model-not-loaded",
               "rerank-dialect-unknown", "predict-backend-rejected"}
  <2>1. \A d \in Unavailable : d.suffix \in
          {"upstream-error", "capacity-exhausted", "backend-unavailable",
           "rate-limiting-unavailable", "usage-store-unavailable", "model-not-loaded",
           "rerank-dialect-unknown", "predict-backend-rejected"}
    BY DEF Unavailable, Class
  <2>2. \A s \in {"upstream-error", "capacity-exhausted", "backend-unavailable",
                  "rate-limiting-unavailable", "usage-store-unavailable"} :
          [suffix |-> s, family |-> "ServerError", retryable |-> TRUE] \in Unavailable
    BY DEF Unavailable, Class
  <2>3. \A s \in {"model-not-loaded", "rerank-dialect-unknown"} :
          [suffix |-> s, family |-> "ServerError", retryable |-> FALSE] \in Unavailable
    BY DEF Unavailable, Class
  <2>4. [suffix |-> "predict-backend-rejected", family |-> "APIError", retryable |-> FALSE]
          \in Unavailable
    BY DEF Unavailable, Class
  <2>5. \A s \in {"upstream-error", "capacity-exhausted", "backend-unavailable",
                  "rate-limiting-unavailable", "usage-store-unavailable", "model-not-loaded",
                  "rerank-dialect-unknown", "predict-backend-rejected"} :
          \E d \in Unavailable : d.suffix = s
    BY <2>2, <2>3, <2>4
  <2>. QED
    BY <2>1, <2>5 DEF SuffixesOf
<1>3. CASE c \in Unauthorized
  <2>1. c.suffix \in SuffixesOf(Unauthorized) /\ c.family = "UnauthorizedError"
    BY <1>3 DEF SuffixesOf, Unauthorized, Class
  <2>. QED
    BY <1>1, <1>2, <2>1 DEF StatusesOf
<1>4. CASE c \in Unavailable
  BY <1>1, <1>2, <1>4 DEF StatusesOf, Unavailable, Class
<1>5. CASE c \in Denied
  BY <1>1, <1>2, <1>5 DEF StatusesOf, Denied, Class
<1>6. CASE c \in BadRequests
  BY <1>1, <1>2, <1>6 DEF StatusesOf, BadRequests, Class
<1>7. CASE c \in General
  BY <1>1, <1>2, <1>7 DEF StatusesOf, General, Class
<1>. QED
  BY <1>3, <1>4, <1>5, <1>6, <1>7 DEF Catalogue

\* What a caller is told of a reply is what the reply says of itself.
LEMMA ErrorTellsReply ==
  ASSUME NEW r \in Replies
  PROVE  /\ r.scope # {} => Cardinality(Error(r).scope) = 1
         /\ r.id # {} => Cardinality(Error(r).id) = 1
         /\ r.status = 401 /\ r.suffix # "predict-backend-rejected"
              <=> Error(r).family = "UnauthorizedError"
         /\ r.status >= 500 /\ r.suffix # "predict-backend-rejected"
              <=> Error(r).family = "ServerError"
<1>1. WellFormed(r)
  BY RepliesAssumption
<1>2. r.scope # {} => Cardinality(Error(r).scope) = 1
  <2>1. r.scope # {} => \E x : Scope(r) = {x}
    <3>1. r.scope \subseteq {"header", "body"}
      BY <1>1 DEF WellFormed
    <3>2. "header" \notin r.scope /\ r.scope # {} => r.scope = {"body"}
      BY <3>1
    <3>. QED
      BY <3>2 DEF Scope
  <2>2. Error(r).scope = Scope(r)
    BY DEF Error
  <2>. QED
    BY <2>1, <2>2, FS_Singleton
<1>3. r.id # {} => Cardinality(Error(r).id) = 1
  <2>1. r.id # {} => \E x : RequestId(r) = {x}
    BY <1>1 DEF RequestId, WellFormed
  <2>2. Error(r).id = RequestId(r)
    BY DEF Error
  <2>. QED
    BY <2>1, <2>2, FS_Singleton
<1>4. /\ r.status = 401 /\ r.suffix # "predict-backend-rejected"
           <=> Error(r).family = "UnauthorizedError"
      /\ r.status >= 500 /\ r.suffix # "predict-backend-rejected"
           <=> Error(r).family = "ServerError"
  <2>1. CASE r.suffix \in Familiar
    <3>. DEFINE c == CHOOSE c \in Catalogue : c.suffix = r.suffix
    <3>1. c \in Catalogue /\ c.suffix = r.suffix
      BY <2>1 DEF Familiar
    <3>2. Error(r).family = c.family
      BY <2>1 DEF Error
    <3>3. r.status \in StatusesOf(c.suffix)
      BY <2>1, <3>1, CatalogueAssumption
    <3>. HIDE DEF c
    <3>. QED
      BY <3>1, <3>2, <3>3, StatusFitsFamily
  <2>2. CASE r.suffix \notin Familiar
    <3>1. Error(r).family = Fallback(r.status).family
      BY <2>2 DEF Error
    <3>2. r.suffix # "predict-backend-rejected"
      <4>1. [suffix |-> "predict-backend-rejected", family |-> "APIError", retryable |-> FALSE]
              \in Unavailable
        BY DEF Unavailable, Class
      <4>. QED
        BY <2>2, <4>1 DEF Familiar, Catalogue
    <3>3. r.status \in Nat
      BY <1>1 DEF WellFormed
    <3>. QED
      BY <3>1, <3>2, <3>3 DEF Fallback
  <2>. QED
    BY <2>1, <2>2
<1>. QED
  BY <1>2, <1>3, <1>4

\* What is raised is the error of the last reply, of the gateway or of the token endpoint.
ErrorIsReplys ==
  /\ pc = "failed" => reply \in Replies /\ error = Error(reply)
  /\ pc = "raised" =>
       \/ reply \in Replies
       \/ reply \in TokenReplies /\ error = [suffix |-> reply.name, family |-> TokenError(reply)]

IInv == TypeOK /\ BlockingIsBounded /\ ErrorIsReplys

LEMMA InitInvariant == Init => IInv
  BY PolicyAssumption DEF Init, IInv, TypeOK, BlockingIsBounded, ErrorIsReplys

LEMMA NextKeeps ==
  ASSUME IInv, [Next]_vars
  PROVE  IInv'
<1>1. CASE TokenRefused
  BY <1>1 DEF IInv, TypeOK, BlockingIsBounded, ErrorIsReplys, TokenRefused
<1>2. CASE Receive
  BY <1>2, RepliesAssumption DEF IInv, TypeOK, BlockingIsBounded, ErrorIsReplys, Receive
<1>3. CASE Answered
  BY <1>3 DEF IInv, TypeOK, BlockingIsBounded, ErrorIsReplys, Answered
<1>4. CASE Retry
  <2>. PICK d \in DelayFor(error, attempt) : slept' = slept + d
    BY <1>4 DEF Retry
  <2>1. d \in 0..MaxBackoff /\ attempt < MaxAttempts
    BY <1>4, DelayForBounded DEF IInv, TypeOK, Retry
  <2>2. attempt' = attempt + 1 /\ pc' = "sending"
    BY <1>4 DEF Retry
  <2>3. attempt \in Nat /\ slept \in Nat /\ slept <= (attempt - 1) * MaxBackoff
    BY DEF IInv, TypeOK, BlockingIsBounded, ErrorIsReplys
  <2>4. (attempt' - 1) * MaxBackoff = (attempt - 1) * MaxBackoff + MaxBackoff
    BY <2>2, <2>3, PolicyAssumption
  <2>5. slept' <= (attempt' - 1) * MaxBackoff
    <3>. DEFINE before == (attempt - 1) * MaxBackoff
                after == (attempt' - 1) * MaxBackoff
    <3>1. before \in Int /\ after = before + MaxBackoff /\ slept <= before /\ MaxBackoff \in Nat
      BY <2>3, <2>4, PolicyAssumption
    <3>. HIDE DEF before, after
    <3>2. slept + d <= after
      BY <2>1, <2>3, <3>1
    <3>. QED
      BY <3>2 DEF after
  <2>. QED
    BY <2>1, <2>2, <2>3, <2>5, PolicyAssumption DEF IInv, TypeOK, BlockingIsBounded, ErrorIsReplys
<1>5. CASE Raise
  BY <1>5 DEF IInv, TypeOK, BlockingIsBounded, ErrorIsReplys, Raise
<1>6. CASE Over \/ UNCHANGED vars
  BY <1>6 DEF IInv, TypeOK, BlockingIsBounded, ErrorIsReplys, Over, vars
<1>. QED
  BY <1>1, <1>2, <1>3, <1>4, <1>5, <1>6 DEF Next

LEMMA Invariant == Spec => []IInv
<1>. QED
  BY InitInvariant, NextKeeps, PTL DEF Spec

\* For any policy and any replies the loop's state is well typed, and the error in hand is the
\* one raise_for_status makes of the reply.
THEOREM TypesHold == Spec => []TypeOK
<1>1. IInv => TypeOK
  BY DEF IInv
<1>. QED
  BY <1>1, Invariant, PTL

\* For any policy, a call of the SDK blocks its caller for at most max_backoff per attempt it
\* repeats.
THEOREM BlockingHolds == Spec => []BlockingIsBounded
<1>1. IInv => BlockingIsBounded
  BY DEF IInv
<1>. QED
  BY <1>1, Invariant, PTL

\* For any reply, in the catalogue or not, the five kinds of error PyCalls and PyStreams are
\* written with decide, and wait, as errors.py and delay_for do.
THEOREM KindsHold == Spec => []KindsSuffice
<1>1. IInv => KindsSuffice
  BY SameDelays DEF IInv, TypeOK, KindsSuffice
<1>. QED
  BY <1>1, Invariant, PTL

\* For any policy and any reply, a repeated call waits exactly what the header asked for.
THEOREM HeaderHolds == Spec => HeaderIsHonoured
<1>1. ASSUME IInv, [Next]_vars, pc = "failed", pc' = "sending", NEW w \in HeaderWait(reply.header)
      PROVE  slept' - slept = w
  <2>1. Retry
    BY <1>1 DEF Next, vars, TokenRefused, Receive, Answered, Raise, Over
  <2>. PICK d \in DelayFor(error, attempt) : slept' = slept + d
    BY <2>1 DEF Retry
  <2>2. d = w /\ d \in Nat
    BY <1>1, DelayForBounded, PolicyAssumption DEF IInv, TypeOK
  <2>. QED
    BY <1>1, <2>2 DEF IInv, TypeOK
<1>2. IInv /\ [Next]_vars =>
        [pc = "failed" /\ pc' = "sending" =>
           \A w \in HeaderWait(reply.header) : slept' - slept = w]_vars
  BY <1>1
<1>. QED
  BY <1>2, Invariant, PTL DEF Spec, HeaderIsHonoured

\* For any policy, and whatever status it comes with, an error this SDK has no class for is not
\* repeated: the errors worth repeating are named one by one.
THEOREM UnfamiliarErrorsLeave == Spec => UnfamiliarIsNotRetried
<1>1. ASSUME [Next]_vars, pc = "failed", pc' = "sending"
      PROVE  error.suffix \in Familiar
  <2>1. Retry
    BY <1>1 DEF Next, vars, TokenRefused, Receive, Answered, Raise, Over
  <2>2. MayRetry(error, attempt)
    BY <2>1 DEF Retry, DelayFor
  <2>. QED
    BY <2>2, CatalogueOf DEF MayRetry
<1>2. [Next]_vars => [pc = "failed" /\ pc' = "sending" => error.suffix \in Familiar]_vars
  BY <1>1
<1>. QED
  BY <1>2, PTL DEF Spec, UnfamiliarIsNotRetried

\* For any replies that keep to the catalogue, what a caller catches, shows and reports is what
\* happened to the request: by status, by budget, by request id, and whose the blame is.
THEOREM ErrorsHold == Spec => []ErrorsAreWellTold
<1>1. ASSUME IInv PROVE NothingIsUnattributed /\ FamilyFitsStatus
  BY <1>1, ErrorTellsReply
  DEF IInv, ErrorIsReplys, NothingIsUnattributed, FamilyFitsStatus
<1>2. ASSUME IInv, pc = "raised", reply \in TokenReplies
      PROVE  error.family \in OAuthClasses \union {"OAuthError"} <=> reply.kind = "oauth"
  <2>1. error.family = TokenError(reply) /\ reply.kind \in {"oauth", "problem", "other"}
    BY <1>2, TokenAssumption DEF IInv, ErrorIsReplys
  <2>. QED
    BY <2>1 DEF TokenError, OAuthClasses
<1>3. IInv => ErrorsAreWellTold
  BY <1>1, <1>2 DEF ErrorsAreWellTold, OnlyVerdictsBlameCredentials
<1>. QED
  BY <1>3, Invariant, PTL
===============================================================================
