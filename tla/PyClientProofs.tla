---------------------------- MODULE PyClientProofs -----------------------------
(***************************************************************************)
(* Proofs about PyClient: whatever the platform serves, whoever calls and  *)
(* in whatever order the answers arrive, budgets are not confused, the     *)
(* preflight refuses no call the gateway would serve, denials are          *)
(* explained by what the token lacks, and a client is in the mode it was   *)
(* asked to be in.                                                         *)
(***************************************************************************)
EXTENDS PyClient, FiniteSetTheorems, TLAPS

LEMMA AtMostOne ==
  ASSUME NEW S, \A x, y \in S : x = y
  PROVE  Cardinality(S) <= 1
<1>1. CASE S = {}
  BY <1>1, FS_EmptySet
<1>2. CASE S # {}
  <2>1. \E x : S = {x}
    BY <1>2
  <2>2. Cardinality(S) = 1
    BY <2>1, FS_Singleton
  <2>. QED
    BY <2>2
<1>. QED
  BY <1>1, <1>2

-------------------------------------------------------------------------------
(* Making a client. *)

\* The client Select makes of a config, if it makes one.
Chosen(k, s) == Select(k, s.provider, Explicit(s))

\* _select_auth makes of a config one client at most; with a provider it holds no credential,
\* without one it holds both.
LEMMA SelectIsUnambiguous ==
  ASSUME NEW k, NEW s
  PROVE  /\ \A a, b \in Chosen(k, s) : a = b
         /\ \A a \in Chosen(k, s) :
              /\ s.provider => a.mode = "governed" /\ ~a.config.id /\ ~a.config.secret
              /\ ~s.provider => a.mode = "autonomous" /\ a.config.id /\ a.config.secret
         /\ s.provider /\ ~Explicit(s) => Chosen(k, s) # {}
<1>1. CASE s.provider /\ ~((k.id \/ k.secret) /\ Explicit(s))
  <2>1. Chosen(k, s) = {[mode |-> "governed", config |-> [id |-> FALSE, secret |-> FALSE]]}
    BY <1>1 DEF Select, Chosen
  <2>2. \A a \in Chosen(k, s) : a.mode = "governed" /\ ~a.config.id /\ ~a.config.secret
    BY <2>1
  <2>3. Chosen(k, s) # {} /\ \A a, b \in Chosen(k, s) : a = b
    BY <2>1
  <2>. QED
    BY <1>1, <2>2, <2>3
<1>2. CASE s.provider /\ (k.id \/ k.secret) /\ Explicit(s)
  <2>1. Chosen(k, s) = {}
    BY <1>2 DEF Select, Chosen
  <2>. QED
    BY <1>2, <2>1
<1>3. CASE ~s.provider
  <2>1. Chosen(k, s) = IF k.id /\ k.secret THEN {[mode |-> "autonomous", config |-> k]} ELSE {}
    BY <1>3 DEF Select, Chosen
  <2>2. CASE k.id /\ k.secret
    BY <1>3, <2>1, <2>2
  <2>3. CASE ~(k.id /\ k.secret)
    BY <1>3, <2>1, <2>3
  <2>. QED
    BY <2>2, <2>3
<1>. QED
  BY <1>1, <1>2, <1>3

LEMMA ClientIsUnambiguous ==
  ASSUME NEW s \in Settings, NEW env \in Environments
  PROVE  /\ \A a, b \in Client(s, env) : a = b
         /\ \A a \in Client(s, env) :
              /\ s.provider => a.mode = "governed" /\ ~a.config.id /\ ~a.config.secret
              /\ ~s.provider => a.mode = "autonomous" /\ a.config.id /\ a.config.secret
         /\ s.provider /\ s.id = "absent" /\ s.secret = "absent" /\ s.config = {}
              /\ Config(s, env) # {} => Client(s, env) # {}
<1>. DEFINE K == IF s.config # {} THEN s.config ELSE Config(s, env)
<1>1. Client(s, env) = UNION {Chosen(k, s) : k \in K}
  BY DEF Client, Chosen
<1>2. \A k, l \in K : k = l
  BY InputsAssumption DEF Config
<1>3. s.config = {} => K = Config(s, env)
  OBVIOUS
<1>4. s.config = {} /\ s.id = "absent" /\ s.secret = "absent" => ~Explicit(s)
  BY DEF Explicit
<1>. HIDE DEF K
<1>5. \A a, b \in Client(s, env) : a = b
  BY <1>1, <1>2, SelectIsUnambiguous
<1>6. ASSUME NEW a \in Client(s, env)
      PROVE  /\ s.provider => a.mode = "governed" /\ ~a.config.id /\ ~a.config.secret
             /\ ~s.provider => a.mode = "autonomous" /\ a.config.id /\ a.config.secret
  BY <1>1, SelectIsUnambiguous
<1>7. ASSUME s.provider, s.id = "absent", s.secret = "absent", s.config = {},
             Config(s, env) # {}
      PROVE  Client(s, env) # {}
  <2>1. PICK k \in K : TRUE
    BY <1>3, <1>7
  <2>2. Chosen(k, s) # {}
    BY <1>4, <1>7, SelectIsUnambiguous
  <2>. QED
    BY <1>1, <2>2
<1>. QED
  BY <1>5, <1>6, <1>7

-------------------------------------------------------------------------------
(* Requests and answers. *)

\* check_model refuses, by a true catalogue, only what the gateway does not serve.
LEMMA RefusalIsTrue ==
  ASSUME NEW r \in Requests, NEW k,
         \A entry \in k : entry.modality \subseteq {Modality[entry.id]},
         CheckModel(k, r)
  PROVE  Modality[r.model] \notin Serves[r.endpoint]
<1>1. r.endpoint \in Endpoints /\ r.model \in DOMAIN Modality
  BY InputsAssumption
<1>2. PICK entry \in k :
        /\ entry.id = r.model
        /\ \E m \in entry.modality \cap KnownModalities : m \notin EndpointModalities[r.endpoint]
  BY DEF CheckModel
<1>3. Modality[r.model] \in KnownModalities \ EndpointModalities[r.endpoint]
  BY <1>2
<1>. QED
  BY <1>1, <1>3, ClientAssumption

LEMMA CatalogueIsTrue ==
  ASSUME NEW scopes, NEW entry \in Catalogue(scopes)
  PROVE  entry.modality \subseteq {Modality[entry.id]}
<1>. PICK m \in DOMAIN Modality :
       entry = [id |-> m, modality |-> IF m \in Unreported THEN {} ELSE {Modality[m]}]
  BY DEF Catalogue
<1>. QED
  OBVIOUS

\* An answer's numbers are those of the budget it is labelled with, or of the route's if it is
\* not labelled.
LEMMA ResponseIsOwn ==
  ASSUME NEW route, NEW status, NEW response \in Responses(route, status)
  PROVE  /\ response.status = status
         /\ response.scope \subseteq {route}
         /\ status = 200 => response.scope = {route}
         /\ \A n \in response.numbers : n.limit = Limit[route]
<1>1. /\ response.status = status
      /\ response.scope \in {{route}} \union IF status = 429 THEN {{}} ELSE {}
      /\ response.numbers =
           IF route \notin Scopes THEN {}
           ELSE {[limit |-> Limit[route], remaining |-> IF status = 429 THEN 0 ELSE Limit[route]]}
  BY DEF Responses
<1>2. \A n \in response.numbers : n.limit = Limit[route]
  <2>1. CASE route \in Scopes
    BY <1>1, <2>1
  <2>2. CASE route \notin Scopes
    BY <1>1, <2>2
  <2>. QED
    BY <2>1, <2>2
<1>. QED
  BY <1>1, <1>2

\* So is a snapshot of it.
LEMMA SnapshotIsOwn ==
  ASSUME NEW route, NEW status, NEW response \in Responses(route, status)
  PROVE  \A s \in Snapshot(response).scope :
           \A n \in Snapshot(response).numbers : n.limit = Limit[s]
BY ResponseIsOwn DEF Snapshot

\* Each of the two writes of _record keeps the budgets apart, whatever came between them.
LEMMA RecordKeeps ==
  ASSUME IInv, NEW route, NEW status, NEW response \in Responses(route, status),
         Record(response), UNCHANGED rates
  PROVE  /\ BudgetsAreOwn'
         /\ Cardinality(last') <= 1
         /\ \A s \in Scopes : Cardinality(rates'[s]) <= 1
<1>1. CASE IsEmpty(Snapshot(response))
  BY <1>1 DEF Record, IInv, TypeOK, BudgetsAreOwn
<1>2. CASE ~IsEmpty(Snapshot(response))
  <2>1. last' = {Snapshot(response)}
    BY <1>2 DEF Record
  <2>2. Cardinality(last') <= 1
    BY <2>1, AtMostOne
  <2>3. \A l \in last' : \A s \in l.scope : \A n \in l.numbers : n.limit = Limit[s]
    BY <2>1, SnapshotIsOwn
  <2>. QED
    BY <2>2, <2>3 DEF IInv, TypeOK, BudgetsAreOwn
<1>. QED
  BY <1>1, <1>2

LEMMA FileKeeps ==
  ASSUME IInv, NEW route, NEW status, NEW response \in Responses(route, status),
         File(response), UNCHANGED last
  PROVE  /\ BudgetsAreOwn'
         /\ Cardinality(last') <= 1
         /\ \A s \in Scopes : Cardinality(rates'[s]) <= 1
<1>1. ASSUME NEW s \in Scopes
      PROVE  /\ Cardinality(rates'[s]) <= 1
             /\ \A l \in rates'[s] : \A n \in l.numbers : n.limit = Limit[s]
  <2>1. CASE s \in response.scope /\ ~IsEmpty(Snapshot(response))
    <3>1. rates'[s] = {Snapshot(response)}
      BY <2>1 DEF File
    <3>2. s \in Snapshot(response).scope
      BY <2>1 DEF Snapshot
    <3>3. Cardinality(rates'[s]) <= 1
      BY <3>1, AtMostOne
    <3>. QED
      BY <3>1, <3>2, <3>3, SnapshotIsOwn
  <2>2. CASE ~(s \in response.scope /\ ~IsEmpty(Snapshot(response)))
    <3>1. rates'[s] = rates[s]
      BY <2>2 DEF File
    <3>. QED
      BY <3>1 DEF IInv, TypeOK, BudgetsAreOwn
  <2>. QED
    BY <2>1, <2>2
<1>. QED
  BY <1>1 DEF IInv, TypeOK, BudgetsAreOwn

\* Result gives the caller of an answered request its own snapshot.
LEMMA ResultIsSound ==
  ASSUME NEW r \in Requests, NEW status, NEW response \in Responses(r.endpoint, status)
  PROVE  /\ Sound(Result(r, response), {r})
         /\ Result(r, response) # Pending
<1>1. CASE response.status # 200
  <2>1. Result(r, response).kind = "error"
    BY <1>1 DEF Result
  <2>. QED
    BY <2>1 DEF Sound, Pending
<1>2. CASE response.status = 200 /\ (r.stream \/ Parses(r.endpoint, response.body))
  <2>1. Result(r, response) =
          [kind |-> "result", meta |-> Meta(response)]
    BY <1>2 DEF Result
  <2>2. response.scope = {r.endpoint}
    BY <1>2, ResponseIsOwn
  <2>3. \A l \in Meta(response).rateLimit : l.scope = {r.endpoint}
    BY <2>2 DEF Meta, Snapshot
  <2>. QED
    BY <2>1, <2>3 DEF Sound, Pending
<1>3. CASE response.status = 200 /\ ~(r.stream \/ Parses(r.endpoint, response.body))
  <2>1. Result(r, response).kind = "error"
    BY <1>3 DEF Result
  <2>. QED
    BY <2>1 DEF Sound, Pending
<1>. QED
  BY <1>1, <1>2, <1>3

-------------------------------------------------------------------------------
(* The invariant. *)

LEMMA InitInvariant == Init => IInv
<1>. SUFFICES ASSUME Init PROVE IInv
  OBVIOUS
<1>1. Cardinality({}) <= 1
  BY FS_EmptySet
<1>2. CallsTypeOK
  BY DEF Init, CallsTypeOK
<1>3. TypeOK
  BY <1>1, <1>2 DEF Init, TypeOK
<1>4. CatalogIsTrue /\ BudgetsAreOwn
  BY DEF Init, CatalogIsTrue, BudgetsAreOwn
<1>5. OutcomesAreSound /\ AnswersAreOwn
  BY DEF Init, OutcomesAreSound, AnswersAreOwn, Sound, Pending
<1>. QED
  BY <1>3, <1>4, <1>5 DEF IInv

\* What one caller does to its call leaves the others' as they are. `a` is the answer it is
\* recording, if any.
LEMMA CallMoves ==
  ASSUME IInv, NEW c \in Callers, NEW stage, NEW o, NEW R, NEW a,
         pc' = [pc EXCEPT ![c] = stage],
         request' = [request EXCEPT ![c] = R],
         answer' = [answer EXCEPT ![c] = a],
         outcome' = [outcome EXCEPT ![c] = o],
         stage \in {"idle", "listing", "sending", "recording", "over"},
         R \in {{}} \union {{r} : r \in Requests},
         stage \in {"sending", "recording"} => R # {},
         stage = "recording" =>
           \A r \in R, response \in a : response \in Responses(r.endpoint, response.status),
         stage # "over" => o = Pending,
         Sound(o, R)
  PROVE  CallsTypeOK' /\ AnswersAreOwn' /\ OutcomesAreSound'
<1>1. CallsTypeOK /\ AnswersAreOwn /\ OutcomesAreSound
  BY DEF IInv, TypeOK
<1>2. CallsTypeOK'
  BY <1>1 DEF CallsTypeOK
<1>3. ASSUME NEW d \in Callers
      PROVE  /\ Sound(outcome'[d], request'[d])
             /\ pc'[d] # "over" => outcome'[d] = Pending
             /\ pc'[d] = "recording" =>
                  \A r \in request'[d], response \in answer'[d] :
                    response \in Responses(r.endpoint, response.status)
  <2>1. CASE d = c
    <3>1. outcome'[d] = o /\ request'[d] = R /\ answer'[d] = a /\ pc'[d] = stage
      BY <1>1, <2>1 DEF CallsTypeOK
    <3>. QED
      BY <3>1
  <2>2. CASE d # c
    <3>1. /\ outcome'[d] = outcome[d] /\ request'[d] = request[d]
          /\ answer'[d] = answer[d] /\ pc'[d] = pc[d]
      BY <1>1, <2>2 DEF CallsTypeOK
    <3>. QED
      BY <1>1, <3>1 DEF OutcomesAreSound, AnswersAreOwn
  <2>. QED
    BY <2>1, <2>2
<1>4. OutcomesAreSound' /\ AnswersAreOwn'
  BY <1>3 DEF OutcomesAreSound, AnswersAreOwn, Sound
<1>. QED
  BY <1>2, <1>4

\* A call that goes on to its next stage, or is over with a sound outcome.
LEMMA SendMoves ==
  ASSUME IInv, NEW c \in Callers, NEW stage \in {"listing", "sending"},
         NEW R \in {{}} \union {{r} : r \in Requests}, stage = "sending" => R # {},
         pc[c] # "over", Send(c, stage), request' = [request EXCEPT ![c] = R]
  PROVE  CallsTypeOK' /\ AnswersAreOwn' /\ OutcomesAreSound' /\ token' \in Grants
<1>1. CallsTypeOK /\ outcome[c] = Pending
  BY DEF IInv, TypeOK, OutcomesAreSound
<1>2. /\ pc' = [pc EXCEPT ![c] = stage] /\ outcome' = outcome /\ answer' = answer
      /\ token' \in Grants
  BY DEF Send
<1>. PICK a : a = answer[c]
  OBVIOUS
<1>3. /\ outcome' = [outcome EXCEPT ![c] = Pending]
      /\ answer' = [answer EXCEPT ![c] = a]
  BY <1>1, <1>2 DEF CallsTypeOK
<1>4. Sound(Pending, R)
  BY DEF Sound, Pending
<1>. QED
  BY <1>2, <1>3, <1>4, CallMoves

LEMMA OverMoves ==
  ASSUME IInv, NEW c \in Callers, NEW o, NEW R \in {{}} \union {{r} : r \in Requests},
         Over(c, o), request' = [request EXCEPT ![c] = R], Sound(o, R)
  PROVE  CallsTypeOK' /\ AnswersAreOwn' /\ OutcomesAreSound'
BY CallMoves DEF Over

\* The same, of a call whose request is already there.
LEMMA RequestStays ==
  ASSUME IInv, NEW c \in Callers, UNCHANGED request
  PROVE  \E R \in {{}} \union {{r} : r \in Requests} :
           request[c] = R /\ request' = [request EXCEPT ![c] = R]
BY DEF IInv, TypeOK, CallsTypeOK

LEMMA OverStays ==
  ASSUME IInv, NEW c \in Callers, NEW o, Over(c, o), UNCHANGED request, Sound(o, request[c])
  PROVE  CallsTypeOK' /\ AnswersAreOwn' /\ OutcomesAreSound'
<1>. PICK R \in {{}} \union {{r} : r \in Requests} :
       request[c] = R /\ request' = [request EXCEPT ![c] = R]
  BY RequestStays
<1>1. Sound(o, R)
  OBVIOUS
<1>. QED
  BY <1>1, OverMoves

\* check_model refuses the call, truly, or sends it.
LEMMA CheckMoves ==
  ASSUME IInv, NEW c \in Callers, NEW r \in Requests, NEW known,
         \A k \in known : \A entry \in k : entry.modality \subseteq {Modality[entry.id]},
         pc[c] # "over", CheckThenSend(c, r, known), request' = [request EXCEPT ![c] = {r}]
  PROVE  CallsTypeOK' /\ AnswersAreOwn' /\ OutcomesAreSound' /\ token' \in Grants
<1>1. CASE \E k \in known : CheckModel(k, r)
  <2>1. Over(c, [kind |-> "refused here"]) /\ UNCHANGED token
    BY <1>1 DEF CheckThenSend
  <2>2. Modality[r.model] \notin Serves[r.endpoint]
    BY <1>1, RefusalIsTrue
  <2>3. Sound([kind |-> "refused here"], {r})
    BY <2>2 DEF Sound
  <2>4. {r} \in {{}} \union {{q} : q \in Requests}
    OBVIOUS
  <2>. QED
    BY <2>1, <2>3, <2>4, OverMoves DEF IInv, TypeOK
<1>2. CASE ~\E k \in known : CheckModel(k, r)
  <2>1. Send(c, "sending")
    BY <1>2 DEF CheckThenSend
  <2>2. {r} \in {{}} \union {{q} : q \in Requests} /\ {r} # {}
    OBVIOUS
  <2>. QED
    BY <2>1, <2>2, SendMoves
<1>. QED
  BY <1>1, <1>2

\* A step that leaves the calls alone.
LEMMA CallsStay ==
  ASSUME IInv, UNCHANGED <<pc, request, answer, outcome>>
  PROVE  CallsTypeOK' /\ AnswersAreOwn' /\ OutcomesAreSound'
BY DEF IInv, TypeOK, CallsTypeOK, AnswersAreOwn, OutcomesAreSound, Sound

\* A step that leaves the catalogue or the budgets alone.
LEMMA BudgetsStay ==
  ASSUME IInv, UNCHANGED <<last, rates>>
  PROVE  /\ BudgetsAreOwn' /\ Cardinality(last') <= 1
         /\ \A s \in Scopes : Cardinality(rates'[s]) <= 1
BY DEF IInv, TypeOK, BudgetsAreOwn

LEMMA CatalogStays ==
  ASSUME IInv, UNCHANGED catalog
  PROVE  CatalogIsTrue' /\ Cardinality(catalog') <= 1
BY DEF IInv, TypeOK, CatalogIsTrue

LEMMA ConfigureKeeps ==
  ASSUME IInv, Configure
  PROVE  IInv'
<1>1. /\ settings' \subseteq [args : Settings, env : Environments]
      /\ \A s, t \in settings' : s = t
  BY DEF Configure
<1>2. UNCHANGED <<client, catalog, last, rates, token, pc, request, answer, outcome>>
  BY DEF Configure, calls
<1>. QED
  BY <1>1, <1>2, CallsStay, BudgetsStay, CatalogStays DEF IInv, TypeOK

LEMMA ConstructKeeps ==
  ASSUME IInv, Construct
  PROVE  IInv'
<1>1. PICK s \in settings : client' = Client(s.args, s.env)
  BY DEF Construct
<1>2. s.args \in Settings /\ s.env \in Environments
  BY DEF IInv, TypeOK
<1>3. Cardinality(client') <= 1
  BY <1>1, <1>2, ClientIsUnambiguous, AtMostOne
<1>4. settings' = {} /\ UNCHANGED <<catalog, last, rates, token, pc, request, answer, outcome>>
  BY DEF Construct, calls
<1>. QED
  BY <1>3, <1>4, CallsStay, BudgetsStay, CatalogStays DEF IInv, TypeOK

LEMMA BeginKeeps ==
  ASSUME IInv, NEW c \in Callers, Begin(c)
  PROVE  IInv'
<1>1. PICK r \in Requests :
        /\ request' = [request EXCEPT ![c] = {r}]
        /\ CASE ~IsValid(r) -> Over(c, [kind |-> "invalid"]) /\ UNCHANGED token
             [] IsValid(r) /\ ~verify -> Send(c, "sending")
             [] IsValid(r) /\ verify /\ catalog = {} -> Send(c, "listing")
             [] IsValid(r) /\ verify /\ catalog # {} -> CheckThenSend(c, r, catalog)
  BY DEF Begin
<1>2. UNCHANGED <<settings, client, catalog, last, rates>> /\ pc[c] # "over"
  BY DEF Begin, made
<1>3. {r} \in {{}} \union {{q} : q \in Requests} /\ {r} # {}
  OBVIOUS
<1>4. CallsTypeOK' /\ AnswersAreOwn' /\ OutcomesAreSound' /\ token' \in Grants
  <2>1. CASE ~IsValid(r)
    <3>1. Sound([kind |-> "invalid"], {r})
      BY DEF Sound
    <3>2. Over(c, [kind |-> "invalid"]) /\ UNCHANGED token
      BY <1>1, <2>1
    <3>. QED
      BY <1>1, <1>3, <3>1, <3>2, OverMoves DEF IInv, TypeOK
  <2>2. CASE IsValid(r) /\ ~verify
    BY <1>1, <1>2, <1>3, <2>2, SendMoves
  <2>3. CASE IsValid(r) /\ verify /\ catalog = {}
    BY <1>1, <1>2, <1>3, <2>3, SendMoves
  <2>4. CASE IsValid(r) /\ verify /\ catalog # {}
    BY <1>1, <1>2, <2>4, CheckMoves DEF IInv, CatalogIsTrue
  <2>. QED
    BY <2>1, <2>2, <2>3, <2>4
<1>. QED
  BY <1>2, <1>4, BudgetsStay, CatalogStays DEF IInv, TypeOK

LEMMA ListKeeps ==
  ASSUME IInv, NEW c \in Callers, List(c)
  PROVE  IInv'
<1>1. /\ UNCHANGED <<settings, client, catalog, last, rates, request>>
      /\ pc[c] # "over" /\ Send(c, "listing")
  BY DEF List, made
<1>2. request' = [request EXCEPT ![c] = request[c]]
      /\ request[c] \in {{}} \union {{r} : r \in Requests}
  BY <1>1 DEF IInv, TypeOK, CallsTypeOK
<1>3. CallsTypeOK' /\ AnswersAreOwn' /\ OutcomesAreSound' /\ token' \in Grants
  BY <1>1, <1>2, SendMoves
<1>. QED
  BY <1>1, <1>3, BudgetsStay, CatalogStays DEF IInv, TypeOK

LEMMA ListedKeeps ==
  ASSUME IInv, NEW c \in Callers, Listed(c)
  PROVE  IInv'
<1>1. PICK status \in {200, 429} : \E response \in Responses("models", status) :
        /\ catalog' = IF response.body = "fits" THEN {Catalogue(carried[c])} ELSE catalog
        /\ \/ request[c] = {} /\ Over(c, [kind |-> "listed"]) /\ UNCHANGED token
           \/ \E r \in request[c] :
                IF response.body = "fits" THEN CheckThenSend(c, r, catalog') ELSE ListingFails(c, r)
  BY DEF Listed
<1>2. PICK response \in Responses("models", status) :
        /\ catalog' = IF response.body = "fits" THEN {Catalogue(carried[c])} ELSE catalog
        /\ \/ request[c] = {} /\ Over(c, [kind |-> "listed"]) /\ UNCHANGED token
           \/ \E r \in request[c] :
                IF response.body = "fits" THEN CheckThenSend(c, r, catalog') ELSE ListingFails(c, r)
  BY <1>1
<1>3. UNCHANGED <<settings, client, last, rates, request>> /\ pc[c] # "over"
  BY DEF Listed, made
<1>4. /\ \A k \in catalog' : \A entry \in k : entry.modality \subseteq {Modality[entry.id]}
      /\ Cardinality(catalog') <= 1
  <2>1. CASE response.body = "fits"
    BY <1>2, <2>1, CatalogueIsTrue, AtMostOne
  <2>2. CASE response.body # "fits"
    BY <1>2, <2>2 DEF IInv, TypeOK, CatalogIsTrue
  <2>. QED
    BY <2>1, <2>2
<1>5. CallsTypeOK' /\ AnswersAreOwn' /\ OutcomesAreSound' /\ token' \in Grants
  <2>1. CASE request[c] = {} /\ Over(c, [kind |-> "listed"]) /\ UNCHANGED token
    <3>1. Sound([kind |-> "listed"], request[c])
      BY DEF Sound
    <3>2. token' \in Grants
      BY <2>1 DEF IInv, TypeOK
    <3>3. Over(c, [kind |-> "listed"])
      BY <2>1
    <3>. QED
      BY <1>3, <3>1, <3>2, <3>3, OverStays
  <2>2. CASE \E r \in request[c] :
               IF response.body = "fits" THEN CheckThenSend(c, r, catalog') ELSE ListingFails(c, r)
    <3>. PICK R \in {{}} \union {{r} : r \in Requests} :
           request[c] = R /\ request' = [request EXCEPT ![c] = R]
      BY <1>3, RequestStays
    <3>. PICK r \in Requests :
           /\ R = {r}
           /\ IF response.body = "fits" THEN CheckThenSend(c, r, catalog') ELSE ListingFails(c, r)
      BY <2>2
    <3>1. CASE response.body = "fits"
      <4>. PICK known : known = catalog'
        OBVIOUS
      <4>1. CheckThenSend(c, r, known)
        BY <3>1
      <4>. QED
        BY <1>3, <1>4, <4>1, CheckMoves
    <3>2. CASE response.body # "fits"
      <4>1. Send(c, "sending")
        BY <3>2 DEF ListingFails
      <4>. QED
        BY <1>3, <4>1, SendMoves
    <3>. QED
      BY <3>1, <3>2
  <2>. QED
    BY <1>2, <2>1, <2>2
<1>6. Cardinality(catalog') <= 1 /\ CatalogIsTrue'
  BY <1>4 DEF CatalogIsTrue
<1>. QED
  BY <1>3, <1>5, <1>6, BudgetsStay DEF IInv, TypeOK

LEMMA AnswerKeeps ==
  ASSUME IInv, NEW c \in Callers, Answer(c)
  PROVE  IInv'
<1>. PICK r \in request[c] : \E status \in Verdicts(c, r) :
       \E response \in Responses(r.endpoint, status) :
         /\ answer' = [answer EXCEPT ![c] = {response}]
         /\ IF r.stream THEN UNCHANGED last ELSE Record(response)
  BY DEF Answer
<1>1. PICK status \in Verdicts(c, r) :
        \E response \in Responses(r.endpoint, status) :
          /\ answer' = [answer EXCEPT ![c] = {response}]
          /\ IF r.stream THEN UNCHANGED last ELSE Record(response)
  OBVIOUS
<1>2. PICK response \in Responses(r.endpoint, status) :
        /\ answer' = [answer EXCEPT ![c] = {response}]
        /\ IF r.stream THEN UNCHANGED last ELSE Record(response)
  BY <1>1
<1>3. /\ UNCHANGED <<settings, client, catalog, rates, token, request, outcome>>
      /\ pc[c] = "sending" /\ pc' = [pc EXCEPT ![c] = "recording"]
  BY DEF Answer, made
<1>. PICK R \in {{}} \union {{q} : q \in Requests} :
       request[c] = R /\ request' = [request EXCEPT ![c] = R]
  BY <1>3, RequestStays
<1>4. R = {r}
  OBVIOUS
<1>5. outcome' = [outcome EXCEPT ![c] = Pending] /\ Sound(Pending, R)
  BY <1>3 DEF IInv, TypeOK, CallsTypeOK, OutcomesAreSound, Sound, Pending
<1>6. response \in Responses(r.endpoint, response.status)
  BY ResponseIsOwn
<1>7. CallsTypeOK' /\ AnswersAreOwn' /\ OutcomesAreSound'
  <2>. PICK a : a = {response}
    OBVIOUS
  <2>. PICK o : o = Pending
    OBVIOUS
  <2>1. answer' = [answer EXCEPT ![c] = a]
    BY <1>2
  <2>2. outcome' = [outcome EXCEPT ![c] = o] /\ Sound(o, R)
    BY <1>5
  <2>3. \A q \in R, x \in a : x \in Responses(q.endpoint, x.status)
    BY <1>4, <1>6
  <2>4. R # {} /\ request' = [request EXCEPT ![c] = R]
    BY <1>4
  <2>. QED
    BY <1>3, <2>1, <2>2, <2>3, <2>4, CallMoves
<1>8. /\ BudgetsAreOwn' /\ Cardinality(last') <= 1
      /\ \A s \in Scopes : Cardinality(rates'[s]) <= 1
  <2>1. CASE r.stream
    BY <1>2, <1>3, <2>1, BudgetsStay
  <2>2. CASE ~r.stream
    BY <1>2, <1>3, <2>2, RecordKeeps
  <2>. QED
    BY <2>1, <2>2
<1>. QED
  BY <1>3, <1>7, <1>8, CatalogStays DEF IInv, TypeOK

LEMMA FinishKeeps ==
  ASSUME IInv, NEW c \in Callers, Finish(c)
  PROVE  IInv'
<1>. PICK r \in request[c], response \in answer[c] :
       /\ IF r.stream THEN UNCHANGED rates ELSE File(response)
       /\ Over(c, Result(r, response))
  BY DEF Finish
<1>1. UNCHANGED <<settings, client, catalog, last, token, request>> /\ pc[c] = "recording"
  BY DEF Finish, made
<1>. PICK R \in {{}} \union {{q} : q \in Requests} :
       request[c] = R /\ request' = [request EXCEPT ![c] = R]
  BY <1>1, RequestStays
<1>2. R = {r} /\ r \in Requests
  OBVIOUS
<1>3. response \in Responses(r.endpoint, response.status)
  BY <1>1 DEF IInv, AnswersAreOwn
<1>. PICK status : status = response.status
  OBVIOUS
<1>4. CallsTypeOK' /\ AnswersAreOwn' /\ OutcomesAreSound'
  BY <1>2, <1>3, ResultIsSound, OverMoves
<1>5. /\ BudgetsAreOwn' /\ Cardinality(last') <= 1
      /\ \A s \in Scopes : Cardinality(rates'[s]) <= 1
  <2>1. CASE r.stream
    BY <1>1, <2>1, BudgetsStay
  <2>2. CASE ~r.stream
    BY <1>1, <1>3, <2>2, FileKeeps
  <2>. QED
    BY <2>1, <2>2
<1>. QED
  BY <1>1, <1>4, <1>5, CatalogStays DEF IInv, TypeOK

LEMMA ReturnKeeps ==
  ASSUME IInv, NEW c \in Callers, Return(c)
  PROVE  IInv'
<1>1. /\ UNCHANGED <<settings, client, catalog, last, rates, token>>
      /\ pc' = [pc EXCEPT ![c] = "idle"]
      /\ request' = [request EXCEPT ![c] = {}]
      /\ outcome' = [outcome EXCEPT ![c] = Pending]
  BY DEF Return, made
<1>. PICK a : a = answer[c] /\ answer' = [answer EXCEPT ![c] = a]
  BY DEF Return, IInv, TypeOK, CallsTypeOK
<1>2. Sound(Pending, {})
  BY DEF Sound
<1>3. CallsTypeOK' /\ AnswersAreOwn' /\ OutcomesAreSound'
  BY <1>1, <1>2, CallMoves
<1>. QED
  BY <1>1, <1>3, BudgetsStay, CatalogStays DEF IInv, TypeOK

LEMMA StepInvariant == IInv /\ [Next]_vars => IInv'
<1>. SUFFICES ASSUME IInv, [Next]_vars PROVE IInv'
  OBVIOUS
<1>1. CASE Next
  BY <1>1, ConfigureKeeps, ConstructKeeps, BeginKeeps, ListKeeps, ListedKeeps, AnswerKeeps,
     FinishKeeps, ReturnKeeps
  DEF Next
<1>2. CASE UNCHANGED vars
  <2>1. UNCHANGED <<settings, client, catalog, last, rates, token, pc, request, answer, outcome>>
    BY <1>2 DEF vars, made, calls
  <2>. QED
    BY <2>1, CallsStay, BudgetsStay, CatalogStays DEF IInv, TypeOK
<1>. QED
  BY <1>1, <1>2

\* The stage of a call is changed by its own caller.
LEMMA ActsAlone ==
  ASSUME IInv, [Next]_vars, NEW c \in Callers, pc'[c] # pc[c]
  PROVE  Begin(c) \/ List(c) \/ Listed(c) \/ Answer(c) \/ Finish(c) \/ Return(c)
<1>1. PICK d \in Callers : Begin(d) \/ List(d) \/ Listed(d) \/ Answer(d) \/ Finish(d) \/ Return(d)
  BY DEF Next, Configure, Construct, vars, calls
<1>2. \E stage : pc' = [pc EXCEPT ![d] = stage]
  BY <1>1 DEF Begin, List, Listed, Answer, Finish, Return, Over, Send, CheckThenSend, ListingFails
<1>3. pc \in [Callers -> {"idle", "listing", "sending", "recording", "over"}]
  BY DEF IInv, TypeOK, CallsTypeOK
<1>. QED
  BY <1>1, <1>2, <1>3

-------------------------------------------------------------------------------
(* The theorems. *)

\* The inductive invariant holds of every client: its catalogue reports no model otherwise than
\* it is, its budgets are filed under their own names, and every outcome is one the request
\* deserved.
THEOREM Invariance == Spec => []IInv
BY InitInvariant, StepInvariant, PTL DEF Spec

\* Whatever the gateway's limits, however its answers are labelled and in whatever order they
\* are recorded, no budget is read off another bucket's numbers.
THEOREM BudgetsApart == Spec => []BudgetsKeptApart
<1>1. IInv => BudgetsKeptApart
  BY DEF IInv, BudgetsAreOwn, OutcomesAreSound, Sound, BudgetsKeptApart
<1>. QED
  BY <1>1, Invariance, PTL

\* The preflight refuses no call the gateway would serve, whatever models and modalities the
\* platform has, and no call ends with the listing it only wanted to look at.
THEOREM PreflightIsHarmless == Spec => GuardRailIsHarmless
<1>1. IInv => NoFalseRefusal
  BY DEF IInv, OutcomesAreSound, Sound, NoFalseRefusal
<1>2. ASSUME IInv, [Next]_vars, NEW c \in Callers, pc[c] = "listing", pc'[c] = "over",
             request[c] # {}
      PROVE  catalog' # {}
  <2>1. pc \in [Callers -> {"idle", "listing", "sending", "recording", "over"}]
    BY <1>2 DEF IInv, TypeOK, CallsTypeOK
  <2>2. Listed(c)
    BY <1>2, ActsAlone DEF Begin, List, Answer, Finish, Return
  <2>3. PICK status \in {200, 429} : \E response \in Responses("models", status) :
          /\ catalog' = IF response.body = "fits" THEN {Catalogue(carried[c])} ELSE catalog
          /\ response.body # "fits" => \E r \in request[c] : ListingFails(c, r)
    BY <1>2, <2>2 DEF Listed
  <2>4. ASSUME NEW r, ListingFails(c, r) PROVE FALSE
    BY <1>2, <2>1, <2>4 DEF ListingFails, Send
  <2>. QED
    BY <2>3, <2>4
<1>3. IInv /\ [Next]_vars =>
        [\A c \in Callers :
           pc[c] = "listing" /\ pc'[c] = "over" /\ request[c] # {} => catalog' # {}]_pc
  BY <1>2
<1>. QED
  BY <1>1, <1>3, Invariance, PTL DEF Spec, GuardRailIsHarmless

\* A 403 is explained by exactly the scopes the token lacks, whatever an operator grants or takes
\* away meanwhile, as long as the token was not replaced.
THEOREM DenialsExplained == Spec => DenialIsExplained
<1>1. ASSUME IInv, [Next]_vars, NEW c \in Callers, pc[c] = "recording", pc'[c] = "over",
             token = carried[c], token # {},
             outcome'[c].kind = "error", outcome'[c].status = 403, NEW r \in request[c]
      PROVE  outcome'[c].hint = Needs(r) \ carried[c]
  <2>1. /\ pc \in [Callers -> {"idle", "listing", "sending", "recording", "over"}]
        /\ outcome = [d \in Callers |-> outcome[d]]
        /\ \A q \in request[c] : q = r
    BY <1>1 DEF IInv, TypeOK, CallsTypeOK
  <2>2. Finish(c)
    BY <1>1, ActsAlone DEF Begin, List, Listed, Answer, Return
  <2>3. PICK response \in answer[c] : outcome'[c] = Result(r, response)
    BY <2>1, <2>2 DEF Finish, Over
  <2>4. response.status = 403 /\ outcome'[c].hint = Hint(403, r)
    BY <1>1, <2>3 DEF Result
  <2>. QED
    BY <1>1, <2>4 DEF Hint, Explain, Needs, Requires
<1>2. IInv /\ [Next]_vars =>
        [\A c \in Callers :
           /\ pc[c] = "recording" /\ pc'[c] = "over" /\ token = carried[c] /\ token # {}
           /\ outcome'[c].kind = "error" /\ outcome'[c].status = 403
           => \A r \in request[c] : outcome'[c].hint = Needs(r) \ carried[c]]_pc
  BY <1>1
<1>. QED
  BY <1>2, Invariance, PTL DEF Spec, DenialIsExplained

\* Whatever the arguments and the environment, a client with a provider holds no credential, one
\* without holds both, and credentials that are merely in the environment stop no governed one.
THEOREM ModesHold == Spec => ModesAreUnambiguous
<1>1. ASSUME IInv, [Next]_vars, settings' # settings, NEW s \in settings
      PROVE  /\ \A k \in client' :
                  /\ s.args.provider => k.mode = "governed" /\ ~k.config.id /\ ~k.config.secret
                  /\ ~s.args.provider => k.mode = "autonomous" /\ k.config.id /\ k.config.secret
             /\ s.args.provider /\ s.args.id = "absent" /\ s.args.secret = "absent"
                  /\ s.args.config = {} /\ Config(s.args, s.env) # {}
                  => client' # {}
  <2>1. Construct
    BY <1>1 DEF Next, Configure, Begin, List, Listed, Answer, Finish, Return, vars, made
  <2>2. \A x, y \in settings : x = y
    BY <1>1 DEF IInv, TypeOK
  <2>3. client' = Client(s.args, s.env)
    BY <1>1, <2>1, <2>2 DEF Construct
  <2>4. s.args \in Settings /\ s.env \in Environments
    BY <1>1 DEF IInv, TypeOK
  <2>. QED
    BY <2>3, <2>4, ClientIsUnambiguous
<1>2. IInv /\ [Next]_vars =>
        [\A s \in settings :
           /\ \A k \in client' :
                /\ s.args.provider => k.mode = "governed" /\ ~k.config.id /\ ~k.config.secret
                /\ ~s.args.provider => k.mode = "autonomous" /\ k.config.id /\ k.config.secret
           /\ s.args.provider /\ s.args.id = "absent" /\ s.args.secret = "absent"
                /\ s.args.config = {} /\ Config(s.args, s.env) # {}
                => client' # {}]_settings
  BY <1>1
<1>. QED
  BY <1>2, Invariance, PTL DEF Spec, ModesAreUnambiguous
===============================================================================
