------------------------------- MODULE PyClient -------------------------------
(***************************************************************************)
(* One Python client, made from its settings and shared by several         *)
(* callers: what its calls leave behind for one another (the model         *)
(* catalogue, the rate-limit budgets, the scopes of the token), and what   *)
(* they give their callers (the resources). The loop around the gateway's  *)
(* answer is in PyCalls, the token's in PyTokenManager and PyGoverned.     *)
(***************************************************************************)
EXTENDS PyRequests, PyConfig

CONSTANTS
  Callers,
  Requests,        \* the calls they make
  Settings,        \* arguments of the constructor,
  Environments,    \* and environments it runs in
  Modality,        \* the gateway's models: id -> modality
  Unreported,      \* the models whose modality the gateway does not report
  Serves,          \* the modalities each endpoint of the gateway serves
  Grants,          \* the scope sets an operator may give the account
  Limit            \* the requests in each budget of the gateway: scope -> Nat

Scopes == DOMAIN Limit

ASSUME ClientAssumption ==
  /\ \A e \in Endpoints : EndpointModalities[e] \subseteq Serves[e]
  /\ \A m \in DOMAIN Modality, e \in Endpoints :
       Modality[m] \in Serves[e] /\ Modality[m] \in KnownModalities => Modality[m] \in EndpointModalities[e]
  /\ \A s \in Scopes : Limit[s] \in Nat
  /\ Endpoints \subseteq Scopes /\ "models" \notin Scopes

\* What callers write: requests for an endpoint and a model there are, one config or none.
ASSUME InputsAssumption ==
  /\ \A r \in Requests : r.endpoint \in Endpoints /\ r.model \in DOMAIN Modality
  /\ \A s \in Settings : \A k, l \in s.config : k = l

VARIABLES
  settings,        \* {}, or the settings and environment the client is being made from
  client,          \* {}, or the client's mode and what its config holds
  verify,          \* its config.verify_modality
  catalog,         \* _catalog: {}, or one set of [id, modality]
  last,            \* _last_rate_limit
  rates,           \* _rate_limits
  token,           \* the scopes of the token in use
  pc, request, outcome,              \* of each caller,
  carried,         \* with the scopes of its token
  answer           \* and its response, while it is dealt with

made == <<settings, client, verify>>
calls == <<pc, request, carried, answer, outcome>>
vars == <<made, catalog, last, rates, token, calls>>

Pending == [kind |-> "pending"]

CallsTypeOK ==
  /\ pc \in [Callers -> {"idle", "listing", "sending", "recording", "over"}]
  /\ request \in [Callers -> {{}} \union {{r} : r \in Requests}]
  /\ \A c \in Callers : pc[c] \in {"sending", "recording"} => request[c] # {}
  /\ outcome = [c \in Callers |-> outcome[c]] /\ answer = [c \in Callers |-> answer[c]]

TypeOK ==
  /\ settings \subseteq [args : Settings, env : Environments]
  /\ \A s, t \in settings : s = t
  /\ Cardinality(client) <= 1 /\ Cardinality(catalog) <= 1 /\ Cardinality(last) <= 1
  /\ \A s \in Scopes : Cardinality(rates[s]) <= 1
  /\ token \in Grants
  /\ CallsTypeOK

Init ==
  /\ settings = {} /\ client = {} /\ verify \in BOOLEAN /\ catalog = {} /\ last = {}
  /\ rates = [s \in Scopes |-> {}]
  /\ token \in Grants
  /\ pc = [c \in Callers |-> "idle"]
  /\ request = [c \in Callers |-> {}]
  /\ carried = [c \in Callers |-> {}]
  /\ answer = [c \in Callers |-> {}]
  /\ outcome = [c \in Callers |-> Pending]

\* Somebody sets out to make a client ...
Configure ==
  /\ client = {} /\ settings = {}
  /\ \E s \in Settings, env \in Environments : settings' = {[args |-> s, env |-> env]}
  /\ UNCHANGED <<client, verify, catalog, last, rates, token, calls>>

\* ... and __init__ makes one, or raises.
Construct ==
  /\ \E s \in settings : client' = Client(s.args, s.env)
  /\ settings' = {}
  /\ UNCHANGED <<verify, catalog, last, rates, token, calls>>

-------------------------------------------------------------------------------
(* A call, up to its request. *)

Over(c, result) ==
  /\ pc' = [pc EXCEPT ![c] = "over"]
  /\ outcome' = [outcome EXCEPT ![c] = result]
  /\ carried' = [carried EXCEPT ![c] = {}]
  /\ answer' = [answer EXCEPT ![c] = {}]

\* A request leaves, for the catalogue or for the call itself, with the token in use or with a
\* new one, whose scopes an operator may have changed.
Send(c, stage) ==
  /\ pc' = [pc EXCEPT ![c] = stage]
  /\ token' \in Grants
  /\ carried' = [carried EXCEPT ![c] = token']
  /\ UNCHANGED <<answer, outcome>>

\* check_model, against the catalogue in hand; then the request leaves.
CheckThenSend(c, r, known) ==
  IF \E k \in known : CheckModel(k, r)
  THEN Over(c, [kind |-> "refused here"]) /\ UNCHANGED token
  ELSE Send(c, "sending")

\* create, generate and stream: build the request, and then the preflight, which asks for the
\* catalogue if there is none.
Begin(c) ==
  /\ client # {} /\ pc[c] = "idle"
  /\ \E r \in Requests :
       /\ request' = [request EXCEPT ![c] = {r}]
       /\ CASE ~IsValid(r) -> Over(c, [kind |-> "invalid"]) /\ UNCHANGED token
            [] IsValid(r) /\ ~verify -> Send(c, "sending")
            [] IsValid(r) /\ verify /\ catalog = {} -> Send(c, "listing")
            [] IsValid(r) /\ verify /\ catalog # {} -> CheckThenSend(c, r, catalog)
  /\ UNCHANGED <<made, catalog, last, rates>>

-------------------------------------------------------------------------------
(* Its answer. *)

\* _record, its first write: the last snapshot, if there is one ...
Record(response) ==
  last' = IF IsEmpty(Snapshot(response)) THEN last ELSE {Snapshot(response)}

\* Mutant: a snapshot joins what is known of its budget.
FilesEvery(response) ==
  rates' = [s \in Scopes |->
              IF s \in response.scope /\ response.numbers # {}
              THEN rates[s] \union {Snapshot(response)} ELSE rates[s]]

\* Mutant: what is filed is read back from the client.
FilesLast(response) ==
  rates' = [s \in Scopes |->
              IF s \in response.scope /\ response.numbers # {} THEN last ELSE rates[s]]

\* ... and its second, which other callers' may come before: the same snapshot, filed under the
\* budget it is labelled with.
File(response) ==
  rates' = [s \in Scopes |->
              IF s \in response.scope /\ ~IsEmpty(Snapshot(response))
              THEN {Snapshot(response)} ELSE rates[s]]

\* An answer of the gateway on a route: on an inference endpoint it carries the numbers of that
\* endpoint's budget. The 429 of an older deployment is not labelled.
Responses(route, status) ==
  [status : {status}, scope : {{route}} \union IF status = 429 THEN {{}} ELSE {},
   numbers : {IF route \notin Scopes THEN {}
              ELSE {[limit |-> Limit[route], remaining |-> IF status = 429 THEN 0 ELSE Limit[route]]}},
   body : IF status = 200 THEN {"fits", "other JSON", "not JSON"} ELSE {"problem"}]

\* What a token needs, and what the gateway says of a request; 429 stands for what it says of none in particular.
Needs(r) == {<<IF r.stream THEN "inference:stream" ELSE "inference:read">>, <<"model", r.model>>}

Verdicts(c, r) ==
  IF ~(Needs(r) \subseteq carried[c]) THEN {403, 429}
  ELSE IF Modality[r.model] \notin Serves[r.endpoint] THEN {400, 429}
  ELSE {200, 429}

\* The models the token's scopes grant.
Catalogue(scopes) ==
  { [id |-> m, modality |-> IF m \in Unreported THEN {} ELSE {Modality[m]}] :
      m \in {n \in DOMAIN Modality : <<"model", n>> \in scopes} }

\* Mutant: a call fails with the catalogue it only wanted to look at.
ListingFailsCall(c, r) == Over(c, [kind |-> "error", status |-> 429]) /\ UNCHANGED token

\* The preflight swallows the error: the call goes on unchecked.
ListingFails(c, r) == Send(c, "sending")

\* models.list, called for its own sake: it loads the catalogue anew.
List(c) ==
  /\ client # {} /\ pc[c] = "idle"
  /\ Send(c, "listing")
  /\ UNCHANGED <<made, catalog, last, rates, request>>

\* Its answer, which has no numbers to record: a catalogue is remembered, a failure is not. A
\* preflight goes on to its call.
Listed(c) ==
  /\ pc[c] = "listing"
  /\ \E status \in {200, 429} :
       \E response \in Responses("models", status) :
         /\ catalog' = IF response.body = "fits" THEN {Catalogue(carried[c])} ELSE catalog
         /\ \/ request[c] = {} /\ Over(c, [kind |-> "listed"]) /\ UNCHANGED token
            \/ \E r \in request[c] :
                 IF response.body = "fits" THEN CheckThenSend(c, r, catalog') ELSE ListingFails(c, r)
  /\ UNCHANGED <<made, last, rates, request>>

\* _diagnose: a 403 is explained by the scopes of the token in use now. In governed mode these
\* are the scopes applied last.
Hint(status, r) == IF status = 403 THEN Explain(token, r) ELSE {}

\* What the caller gets. The body of a stream comes later (PyStreams).
Result(r, response) ==
  IF response.status # 200
  THEN [kind |-> "error", status |-> response.status, hint |-> Hint(response.status, r)]
  ELSE IF r.stream \/ Parses(r.endpoint, response.body)
  THEN [kind |-> "result", meta |-> Meta(response)]
  ELSE [kind |-> "error", status |-> 200, hint |-> {}]

\* The answer is here, and _send begins to record it; the opening of a stream records nothing.
Answer(c) ==
  /\ pc[c] = "sending"
  /\ \E r \in request[c] : \E status \in Verdicts(c, r) :
       \E response \in Responses(r.endpoint, status) :
         /\ answer' = [answer EXCEPT ![c] = {response}]
         /\ IF r.stream THEN UNCHANGED last ELSE Record(response)
  /\ pc' = [pc EXCEPT ![c] = "recording"]
  /\ UNCHANGED <<made, catalog, rates, token, request, carried, outcome>>

\* It has recorded it, and returns or raises; the resource parses.
Finish(c) ==
  /\ pc[c] = "recording"
  /\ \E r \in request[c], response \in answer[c] :
       /\ IF r.stream THEN UNCHANGED rates ELSE File(response)
       /\ Over(c, Result(r, response))
  /\ UNCHANGED <<made, catalog, last, token, request>>

\* The caller goes on.
Return(c) ==
  /\ pc[c] = "over"
  /\ pc' = [pc EXCEPT ![c] = "idle"]
  /\ request' = [request EXCEPT ![c] = {}]
  /\ outcome' = [outcome EXCEPT ![c] = Pending]
  /\ UNCHANGED <<made, catalog, last, rates, token, carried, answer>>

Next ==
  \/ Configure \/ Construct
  \/ \E c \in Callers : Begin(c) \/ List(c) \/ Listed(c) \/ Answer(c) \/ Finish(c) \/ Return(c)

Spec == Init /\ [][Next]_vars

-------------------------------------------------------------------------------

\* "A provider means the SDK never holds a secret": with one, no credential is left in the
\* client, wherever it came from; without one, the client has both. And credentials that merely
\* happen to be in the environment do not stop a governed host from starting (_select_auth), as
\* long as no credential is given as an argument, not even as None.
ModesAreUnambiguous ==
  [][\A s \in settings :
       /\ \A k \in client' :
            /\ s.args.provider => k.mode = "governed" /\ ~k.config.id /\ ~k.config.secret
            /\ ~s.args.provider => k.mode = "autonomous" /\ k.config.id /\ k.config.secret
       /\ s.args.provider /\ s.args.id = "absent" /\ s.args.secret = "absent"
            /\ s.args.config = {} /\ Config(s.args, s.env) # {}
            => client' # {}]_settings

\* "A guard rail that started rejecting valid requests ... would be worse than no guard rail at
\* all" (preflight.py): a call refused here is one the gateway refuses as well, whatever the
\* catalogue lacked, did not report, or named that this SDK does not know.
NoFalseRefusal ==
  \A c \in Callers : outcome[c].kind = "refused here" =>
    \A r \in request[c] : Modality[r.model] \notin Serves[r.endpoint]

\* And "a failure to load the catalog is not allowed to fail the call" (_preflight): a call ends
\* before it was sent only by its own fault, told from a catalogue.
GuardRailIsHarmless ==
  /\ []NoFalseRefusal
  /\ [][\A c \in Callers : pc[c] = "listing" /\ pc'[c] = "over" /\ request[c] # {} => catalog' # {}]_pc

\* A budget is never read off another bucket's numbers, in whatever order the callers' writes
\* come and however badly their answers are labelled; nor does a caller get another's snapshot
\* for its own. (The index and last_rate_limit may part: the writes of two callers may cross.)
BudgetsKeptApart ==
  /\ \A s \in Scopes : \A l \in rates[s] : \A n \in l.numbers : n.limit = Limit[s]
  /\ \A l \in last : \A s \in l.scope : \A n \in l.numbers : n.limit = Limit[s]
  /\ \A c \in Callers : outcome[c].kind = "result" =>
       \A r \in request[c], l \in outcome[c].meta.rateLimit : l.scope = {r.endpoint}

\* A 403 is explained by exactly what its token lacks, as long as that token is still the one
\* in use and its scopes are known: neither a scope it holds, nor silence.
DenialIsExplained ==
  [][\A c \in Callers :
       /\ pc[c] = "recording" /\ pc'[c] = "over" /\ token = carried[c] /\ token # {}
       /\ outcome'[c].kind = "error" /\ outcome'[c].status = 403
       => \A r \in request[c] : outcome'[c].hint = Needs(r) \ carried[c]]_pc

-------------------------------------------------------------------------------
(* Parts of the inductive invariant. *)

\* The catalogue in hand may be old or partial, but reports no model otherwise than it is.
CatalogIsTrue ==
  \A k \in catalog : \A entry \in k : entry.modality \subseteq {Modality[entry.id]}

\* The budgets as BudgetsKeptApart has them, but for the callers' own snapshots.
BudgetsAreOwn ==
  /\ \A s \in Scopes : \A l \in rates[s] : \A n \in l.numbers : n.limit = Limit[s]
  /\ \A l \in last : \A s \in l.scope : \A n \in l.numbers : n.limit = Limit[s]

\* What a caller is recording came from the endpoint it called.
AnswersAreOwn ==
  \A c \in Callers : pc[c] = "recording" =>
    \A r \in request[c], response \in answer[c] :
      response \in Responses(r.endpoint, response.status)

\* What a call may come to, given its request.
Sound(o, R) ==
  /\ o.kind = "result" =>
       \A r \in R, l \in o.meta.rateLimit : l.scope = {r.endpoint}
  /\ o.kind = "refused here" => \A r \in R : Modality[r.model] \notin Serves[r.endpoint]

OutcomesAreSound ==
  \A c \in Callers :
    /\ Sound(outcome[c], request[c])
    /\ pc[c] # "over" => outcome[c] = Pending

IInv == TypeOK /\ CatalogIsTrue /\ BudgetsAreOwn /\ AnswersAreOwn /\ OutcomesAreSound
===============================================================================
