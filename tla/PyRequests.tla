------------------------------ MODULE PyRequests ------------------------------
(***************************************************************************)
(* What the Python SDK decides about one call before it is sent and after  *)
(* it is answered, without a state: models/requests.py, preflight.py,      *)
(* models/common.py, transport/dispatch.py, observability/*.  A value that *)
(* may be missing is a set of at most one element.                         *)
(***************************************************************************)
EXTENDS FiniteSets, Integers

Endpoints == {"chat", "embeddings", "images", "rerank", "predict"}

-------------------------------------------------------------------------------
(* Requests: [endpoint, model, stream, fields, listed, remoteImage, object].  `fields` are the *)
(* optional names given, `listed` whether messages or documents are non-empty, `remoteImage`   *)
(* whether an image is a link, `object` whether a predict body is a JSON object.               *)

\* build: what pydantic or the resource itself refuses, as InvalidRequestError.
ChatIsValid(r) ==
  /\ r.listed
  /\ ~r.remoteImage
  /\ "top_logprobs" \in r.fields => "logprobs" \in r.fields

RerankIsValid(r) == r.listed

\* _check_body.
PredictIsValid(r) == r.object

IsValid(r) ==
  CASE r.endpoint = "chat" -> ChatIsValid(r)
    [] r.endpoint = "rerank" -> RerankIsValid(r)
    [] r.endpoint = "predict" -> PredictIsValid(r)
    [] OTHER -> TRUE

-------------------------------------------------------------------------------
(* Preflight. *)

\* ENDPOINT_MODALITIES.
EndpointModalities ==
  [e \in Endpoints |->
     CASE e = "chat" -> {"text", "vision"}
       [] e = "embeddings" -> {"embedding"}
       [] e = "images" -> {"image"}
       [] e = "rerank" -> {"rerank"}
       [] e = "predict" -> {"classification", "zero_shot", "typed_decision"}]

KnownModalities == UNION {EndpointModalities[e] : e \in Endpoints}

\* check_model raises: the model is listed, and with a modality some other endpoint serves.
CheckModel(catalog, r) ==
  \E entry \in catalog :
    /\ entry.id = r.model
    /\ \E m \in entry.modality \cap KnownModalities : m \notin EndpointModalities[r.endpoint]

-------------------------------------------------------------------------------
(* Responses: [status, scope, numbers, body]. *)

\* RateLimitSnapshot.from_headers; it is empty if it has no numbers, whatever its label.
Snapshot(response) == [scope |-> response.scope, numbers |-> response.numbers]

IsEmpty(snapshot) == snapshot.numbers = {}

\* ResponseMeta.from_headers: the call's own snapshot, unless it is empty. There is no field for
\* X-Prometheus-Ignored-Parameters, the header that names the fields without effect.
Meta(response) == [rateLimit |-> IF IsEmpty(Snapshot(response)) THEN {} ELSE {Snapshot(response)}]

\* parse validates the body against the response model; parse_value, for predict, only decodes it.
Parses(endpoint, body) == body = "fits" \/ (endpoint = "predict" /\ body = "other JSON")

-------------------------------------------------------------------------------
(* Denials. *)

\* Mutant: streaming and reading are one scope.
RequiresRead(stream) == "inference:read"

Requires(stream) == IF stream THEN "inference:stream" ELSE "inference:read"

\* explain_forbidden: the scopes the hint names. Nothing is concluded from no scopes at all; a
\* scope is the string of an inference scope, or the pair of "model" and a model.
Explain(granted, r) ==
  IF granted = {} THEN {} ELSE {<<Requires(r.stream)>>, <<"model", r.model>>} \ granted
===============================================================================
