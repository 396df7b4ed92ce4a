---------------------------- MODULE TsTokenManager ----------------------------
(***************************************************************************)
(* typescript/src/auth.ts: TokenManager, with the part of Transport.send   *)
(* that talks to it.  One event loop: a step runs from one await to the    *)
(* next.  `inFlight` is the promise of a token request; a caller that      *)
(* needs a token while it is pending joins it.  Settling the promise       *)
(* stores the token, clears inFlight and resumes everybody who joined,     *)
(* with no I/O in between, so it is one step.                              *)
(***************************************************************************)
EXTENDS TokenCallers

CONSTANT Nobody

ASSUME NobodyAssumption == Nobody \notin Callers

VARIABLES
  inFlight,    \* the caller whose obtain() started the pending request
  stored       \* history: id of the last token stored in `current`

vars == <<service, token, callers, inFlight, stored>>

TypeOK ==
  /\ CallersTypeOK
  /\ inFlight \in Callers \union {Nobody}
  /\ stored \in 0..issued

Init ==
  /\ CallersInit
  /\ inFlight = Nobody
  /\ stored = 0

-------------------------------------------------------------------------------
(* obtain().  These operators say what happens to a caller that needs a token; *)
(* they leave `token` and the history to the actions that call them.           *)

\* Mutant: every caller starts a request of its own.
ObtainAlone(c) ==
  /\ inFlight' = c
  /\ pc' = [pc EXCEPT ![c] = "requesting"]
  /\ issuedAt' = [issuedAt EXCEPT ![c] = now]
  /\ UNCHANGED <<held, reply>>

\* Join the request in flight, or start one.
Obtain(c) ==
  /\ IF inFlight # Nobody
     THEN /\ pc' = [pc EXCEPT ![c] = "wait"]
          /\ UNCHANGED <<inFlight, issuedAt>>
     ELSE /\ inFlight' = c
          /\ pc' = [pc EXCEPT ![c] = "requesting"]
          /\ issuedAt' = [issuedAt EXCEPT ![c] = now]
  /\ UNCHANGED <<held, reply>>

\* token(): the current token unless it needs a refresh.
Spendable == token.id # 0 /\ ~TsNeedsRefresh(token, now)

Begin(c) ==
  /\ pc[c] = "idle"
  /\ \/ Spendable /\ SendWith(c, token) /\ UNCHANGED inFlight
     \/ ~Spendable /\ Obtain(c)
  /\ UNCHANGED <<service, token, refused, refusals, stored>>

\* refreshAfterRejection(r): another token will do; otherwise drop the current one.
RefreshAfterRejection(c, r) ==
  \/ /\ token.id \notin {0, r}
     /\ SendWith(c, token)
     /\ UNCHANGED <<token, inFlight>>
  \/ /\ token.id \in {0, r}
     /\ token' = NoToken
     /\ Obtain(c)

-------------------------------------------------------------------------------
(* The token request settles. *)

Joined == {c \in Callers : pc[c] = "wait"}

\* Mutant: the promise is settled for the caller that started it, not for those who joined.
SettlesForOwner(c) ==
  /\ pc[c] = "answered"
  /\ token' = TokenFrom(reply[c], issuedAt[c])
  /\ stored' = reply[c].id
  /\ inFlight' = Nobody
  /\ SendWith(c, token')
  /\ UNCHANGED <<service, refused, refusals>>

\* then and finally: the answer is stored and goes to everybody who joined.
Settle(c) ==
  /\ pc[c] = "answered"
  /\ token' = TokenFrom(reply[c], issuedAt[c])
  /\ stored' = reply[c].id
  /\ inFlight' = Nobody
  /\ pc' = [d \in Callers |-> IF d = c \/ d \in Joined THEN "sending" ELSE pc[d]]
  /\ held' = [d \in Callers |-> IF d = c \/ d \in Joined THEN token' ELSE held[d]]
  /\ issuedAt' = [issuedAt EXCEPT ![c] = 0]
  /\ reply' = [reply EXCEPT ![c] = NoReply]
  /\ UNCHANGED <<service, refused, refusals>>

\* The calls of a set of callers end.
AllHome(S) ==
  /\ pc' = [d \in Callers |-> IF d \in S THEN "idle" ELSE pc[d]]
  /\ held' = [d \in Callers |-> IF d \in S THEN NoToken ELSE held[d]]
  /\ refused' = [d \in Callers |-> IF d \in S THEN 0 ELSE refused[d]]
  /\ issuedAt' = [d \in Callers |-> IF d \in S THEN 0 ELSE issuedAt[d]]
  /\ reply' = [d \in Callers |-> IF d \in S THEN NoReply ELSE reply[d]]

\* Mutant: then without finally: a failure leaves the dead promise in inFlight.
FailsInFlight(c) ==
  /\ Fetching(c)
  /\ AllHome({c} \union Joined)
  /\ UNCHANGED <<service, token, refusals, stored, inFlight>>

\* The request fails or times out: everybody who joined gets the same error.
FetchFails(c) ==
  /\ Fetching(c)
  /\ inFlight' = Nobody
  /\ AllHome({c} \union Joined)
  /\ UNCHANGED <<service, token, refusals, stored>>

-------------------------------------------------------------------------------
(* The API request, in Transport.send. *)

\* The first 401 of a call whose token has expired: rejectedToken is set, once.
Refused(c) ==
  /\ pc[c] = "sending"
  /\ refused[c] = 0
  /\ now >= deadline[held[c].id]
  /\ refused' = [refused EXCEPT ![c] = held[c].id]
  /\ refusals' = refusals \union {held[c].id}
  /\ RefreshAfterRejection(c, held[c].id)
  /\ UNCHANGED <<service, stored>>

\* A later attempt of a call that was refused once, after a retryable failure or another
\* 401: rejectedToken still names the first one.
Again(c) ==
  /\ pc[c] = "sending"
  /\ refused[c] # 0
  /\ \/ UNCHANGED refusals
     \/ /\ now >= deadline[held[c].id]
        /\ refusals' = refusals \union {held[c].id}
  /\ RefreshAfterRejection(c, refused[c])
  /\ UNCHANGED <<service, refused, stored>>

\* The call ends: answered, failed, aborted, or refused with no attempt left or with a 401
\* other than token-expired. A caller waiting for a token cannot be aborted.
End(c) ==
  /\ pc[c] = "sending"
  /\ refusals' \in {refusals} \union
                   (IF Refuses(held[c].id) THEN {refusals \union {held[c].id}} ELSE {})
  /\ AllHome({c})
  /\ UNCHANGED <<service, token, inFlight, stored>>

-------------------------------------------------------------------------------

FetchEnds(c) == Settle(c) \/ FetchFails(c)

Platform ==
  /\ PlatformStep \/ \E c \in Callers : Serve(c)
  /\ UNCHANGED <<inFlight, stored>>

Next ==
  \/ Platform
  \/ \E c \in Callers : Begin(c) \/ FetchEnds(c) \/ Refused(c) \/ Again(c) \/ End(c)

Spec == Init /\ [][Next]_vars

(* Fairness.  The token request has an abort timeout, so it settles.  An API request   *)
(* has one too, and a call makes at most maxAttempts of them: a call whose requests    *)
(* come back again and again ends.                                                     *)
Fairness == \A c \in Callers : WF_vars(FetchEnds(c)) /\ SF_vars(End(c))

FairSpec == Spec /\ Fairness

-------------------------------------------------------------------------------

\* inFlight names the one caller whose request is pending, and whoever waits has joined
\* it: a promise that is never settled, or settled and kept, would strand them.
JoinersShareOneRequest ==
  /\ \A c \in Callers : Fetching(c) <=> inFlight = c
  /\ Joined # {} => inFlight # Nobody

\* The manager implements the single-flight token cache: "concurrent callers share one
\* in-flight refresh". A rejected token leaves `current` before its replacement is there.
Cache == INSTANCE TokenCache
  WITH gen <- stored,
       due <- ~Spendable \/ token.id \in refusals,
       requesting <- inFlight # Nobody

ImplementsTokenCache == Cache!CacheSpec

-------------------------------------------------------------------------------
(* The inductive invariant, of these parts, of JoinersShareOneRequest and of parts stated in *)
(* TokenCallers.  That a 401 starts no request for a token that is still good rests on        *)
(* CacheSound: the gateway calls a token expired no earlier than the client does.              *)

\* The current token is the last one stored, unless a refusal dropped it.
CacheIsLatest == token.id \in {0, stored}

\* No caller ever held, or was refused with, a token newer than the last one stored, and a
\* refusal stays on record.
NothingAheadOfStored ==
  \A c \in Callers :
    /\ held[c].id <= stored
    /\ refused[c] <= stored
    /\ refused[c] # 0 => refused[c] \in refusals

\* An answer on its way carries the newest token, charged from before it was issued.
AnswerIsLatest ==
  \A c \in Callers :
    /\ pc[c] = "requesting" => issuedAt[c] <= now
    /\ pc[c] = "answered" =>
         /\ reply[c].id = issued
         /\ stored < issued
         /\ issuedAt[c] + Lifetime(reply[c]) <= deadline[issued]

IInv ==
  /\ TypeOK
  /\ JoinersShareOneRequest
  /\ CacheSound
  /\ CacheIsLatest
  /\ NothingAheadOfStored
  /\ AnswerIsLatest
  /\ IdleIsClean
  /\ ResendIsNewer
===============================================================================
