------------------------------ MODULE MCPyClient ------------------------------
(* A small platform for PyClient: four models, two callers, six requests. *)
EXTENDS PyClient, TLC

Symmetric == Permutations(Callers)

Call(endpoint, model, stream) ==
  [endpoint |-> endpoint, model |-> model, stream |-> stream, fields |-> {},
   listed |-> TRUE, remoteImage |-> FALSE, object |-> TRUE]

\* A chat, streamed or not, a wrong modality, a new modality, a body the engine answers as it
\* likes, and a request that is refused before it is sent.
SomeRequests ==
  { Call("chat", "writer", FALSE), Call("chat", "writer", TRUE),
    Call("chat", "reranker", FALSE), Call("chat", "speaker", FALSE),
    Call("predict", "classifier", FALSE),
    [Call("rerank", "reranker", FALSE) EXCEPT !.listed = FALSE] }

\* "audio" is a modality of a later platform, which serves it on chat.
SomeModality == [m \in {"writer", "reranker", "classifier", "speaker"} |->
                   CASE m = "writer" -> "text" [] m = "reranker" -> "rerank"
                     [] m = "classifier" -> "classification" [] OTHER -> "audio"]

SomeServes ==
  [e \in Endpoints |-> EndpointModalities[e] \union IF e = "chat" THEN {"audio"} ELSE {}]

Every == {<<"model", m>> : m \in DOMAIN SomeModality}
SomeGrants ==
  { Every \union {<<"inference:read">>, <<"inference:stream">>},
    {<<"model", "writer">>, <<"inference:read">>} }

\* Different limits tell the budgets apart.
SomeLimit == [s \in Endpoints |-> IF s = "chat" THEN 2 ELSE 1]

SomeSettings ==
  [url : {"absent", "relative"}, id : {"absent", "None", "given"}, secret : {"absent", "given"},
   config : {{}, {[id |-> TRUE, secret |-> TRUE]}, {[id |-> FALSE, secret |-> FALSE]}},
   provider : BOOLEAN]

SomeEnvironments ==
  [url : {"absent", "given", "relative"}, id : {"absent", "given"}, secret : {"absent", "given"}]
===============================================================================
