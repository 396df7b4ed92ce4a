------------------------- MODULE TsTokenManagerProofs -------------------------
(***************************************************************************)
(* The safety properties of TsTokenManager, for any number of callers and  *)
(* any lifetimes: IInv is shown inductive action by action, and every      *)
(* action is shown to be a step of TokenCache.  The facts about lifetimes  *)
(* and about the auth-service are those of TokenManagerProofs.             *)
(***************************************************************************)
EXTENDS TsTokenManager, TLAPS

Shared == INSTANCE TokenManagerProofs WITH lock <- inFlight

-------------------------------------------------------------------------------
(* Facts about TokenLease and AuthService. *)

\* The constants are those of the other managers.
LEMMA SameAssumptions ==
  Shared!LeaseAssumption /\ Shared!ServiceAssumption /\ Shared!NobodyAssumption
BY LeaseAssumption, ServiceAssumption, NobodyAssumption
DEF Shared!LeaseAssumption, Shared!ServiceAssumption, Shared!NobodyAssumption

\* The token made from a response is a token.
LEMMA TokenFromType ==
  ASSUME NEW r \in TokenReply, NEW at \in Nat
  PROVE  TokenFrom(r, at) \in TokenSet
BY SameAssumptions, Shared!TokenFromType
DEF TokenReply, Shared!TokenReply, TokenFrom, Shared!TokenFrom, Lifetime, Shared!Lifetime,
    EffectiveLifetime, Shared!EffectiveLifetime, Shorter, Shared!Shorter, TokenSet,
    Shared!TokenSet

\* The auth-service mints the next token, and no reading of its lifetime, counted from before
\* it was minted, outlives the server's.
LEMMA MintedToken ==
  ASSUME ServiceTypeOK, NEW r \in Replies, Issue(r)
  PROVE  /\ r \in TokenReply /\ r.id = issued + 1
         /\ issued \in Nat /\ issued' = issued + 1
         /\ UNCHANGED <<now, revoked>>
         /\ \A i \in 1..issued : deadline'[i] = deadline[i]
         /\ ServiceTypeOK'
         /\ \A at \in Nat : at <= now => at + Lifetime(r) <= deadline'[issued + 1]
BY SameAssumptions, Shared!MintedToken
DEF ServiceTypeOK, Shared!ServiceTypeOK, Tokens, Shared!Tokens, Replies, Shared!Replies, Issue,
    Shared!Issue, TokenReply, Shared!TokenReply, Lifetime, Shared!Lifetime, EffectiveLifetime,
    Shared!EffectiveLifetime, Shorter, Shared!Shorter

\* A token that is due stays due: time only runs against it.
LEMMA DueStaysDue ==
  ASSUME NEW t \in TokenSet, NEW n \in Nat, NEW m \in Nat, n <= m, TsNeedsRefresh(t, n)
  PROVE  TsNeedsRefresh(t, m)
<1>. DEFINE reserve == t.expiresIn * (100 - RatioPct)
<1>1. reserve \in Nat /\ t.expiresAt \in Nat /\ MinRemaining \in Nat
  <2>1. reserve \in Nat
    BY SameAssumptions, Shared!ReserveIsNatural DEF TokenSet, Shared!TokenSet
  <2>. QED
    BY <2>1, LeaseAssumption DEF TokenSet
<1>2. 100 * (t.expiresAt - n) <= reserve \/ t.expiresAt - n <= MinRemaining
  BY DEF TsNeedsRefresh, Remaining
<1>. HIDE DEF reserve
<1>3. 100 * (t.expiresAt - m) <= reserve \/ t.expiresAt - m <= MinRemaining
  BY <1>1, <1>2
<1>. QED
  BY <1>3 DEF TsNeedsRefresh, Remaining, reserve

\* A token whose time is over is due.
LEMMA ExpiredIsDue ==
  ASSUME NEW t \in TokenSet, NEW n \in Nat, t.expiresAt <= n
  PROVE  TsNeedsRefresh(t, n)
<1>1. t.expiresAt - n <= MinRemaining
  BY LeaseAssumption DEF TokenSet
<1>. QED
  BY <1>1 DEF TsNeedsRefresh, Remaining

-------------------------------------------------------------------------------
(* Each action keeps the invariant. *)

\* There is no token at first, and no request for one.
LEMMA InitInvariant == Init => IInv
<1>. SUFFICES ASSUME Init PROVE IInv
  OBVIOUS
<1>. USE DEF Init, CallersInit, ServiceInit, NoToken, NoReply
<1>1. TypeOK
  BY ServiceAssumption DEF TypeOK, CallersTypeOK, ServiceTypeOK, TokenSet, TokenReply, Stages
<1>2. JoinersShareOneRequest
  BY NobodyAssumption DEF JoinersShareOneRequest, Fetching, Joined
<1>3. /\ CacheSound /\ CacheIsLatest /\ NothingAheadOfStored
      /\ AnswerIsLatest /\ IdleIsClean /\ ResendIsNewer
  BY DEF CacheSound, CacheIsLatest, NothingAheadOfStored, AnswerIsLatest, IdleIsClean,
         ResendIsNewer
<1>. QED
  BY <1>1, <1>2, <1>3 DEF IInv

\* A caller sends the current token, which is not the one it was refused with.
LEMMA TakeKeeps ==
  ASSUME IInv, NEW c \in Callers, NEW r \in Nat,
         pc[c] \in {"idle", "sending"}, SendWith(c, token),
         UNCHANGED <<service, token, inFlight, stored>>,
         refused' = [refused EXCEPT ![c] = r], r \in {refused[c], held[c].id},
         refusals \subseteq refusals', refusals' \subseteq Nat,
         r # 0 => r \in refusals' /\ token.id \notin {0, r}
  PROVE  IInv'
<1>. USE DEF IInv
<1>1. UNCHANGED <<now, issued, deadline, revoked, token, inFlight, stored>>
  BY DEF service
<1>2. /\ pc'[c] = "sending" /\ held'[c] = token /\ refused'[c] = r
      /\ \A d \in Callers : d # c =>
           /\ pc'[d] = pc[d] /\ held'[d] = held[d] /\ refused'[d] = refused[d]
           /\ issuedAt'[d] = issuedAt[d] /\ reply'[d] = reply[d]
  BY DEF SendWith, TypeOK, CallersTypeOK
<1>3. /\ token.id \in Nat /\ token.id <= stored
      /\ r <= stored
  BY DEF CacheIsLatest, NothingAheadOfStored, TypeOK, CallersTypeOK, TokenSet
<1>4. TypeOK'
  BY <1>1 DEF SendWith, TypeOK, CallersTypeOK, ServiceTypeOK, Stages, NoReply, TokenReply
<1>5. JoinersShareOneRequest'
  BY <1>1, <1>2 DEF JoinersShareOneRequest, Fetching, Joined
<1>6. CacheSound' /\ CacheIsLatest' /\ AnswerIsLatest' /\ IdleIsClean'
  BY <1>1, <1>2 DEF CacheSound, CacheIsLatest, AnswerIsLatest, IdleIsClean
<1>7. NothingAheadOfStored'
  BY <1>1, <1>2, <1>3 DEF NothingAheadOfStored
<1>8. ResendIsNewer'
  <2>1. r # 0 => token.id > r
    BY <1>3 DEF CacheIsLatest
  <2>. QED
    BY <2>1, <1>1, <1>2 DEF ResendIsNewer
<1>. QED
  BY <1>4, <1>5, <1>6, <1>7, <1>8

\* A caller that needs a token joins the request in flight, or starts the only one.
LEMMA ObtainKeeps ==
  ASSUME IInv, NEW c \in Callers, NEW r \in Nat,
         pc[c] \in {"idle", "sending"}, Obtain(c),
         UNCHANGED <<service, stored>>, token' \in {token, NoToken},
         refused' = [refused EXCEPT ![c] = r], r \in {refused[c], held[c].id},
         refusals \subseteq refusals', refusals' \subseteq Nat, r # 0 => r \in refusals'
  PROVE  IInv'
<1>. USE DEF IInv
<1>1. UNCHANGED <<now, issued, deadline, revoked, stored, held, reply>>
  BY DEF service, Obtain
<1>2. /\ refused'[c] = r
      /\ \A d \in Callers : d # c =>
           pc'[d] = pc[d] /\ refused'[d] = refused[d] /\ issuedAt'[d] = issuedAt[d]
  BY DEF Obtain, TypeOK, CallersTypeOK
<1>3. \/ /\ inFlight # Nobody /\ inFlight' = inFlight /\ pc'[c] = "wait"
      \/ /\ inFlight = Nobody /\ inFlight' = c /\ pc'[c] = "requesting"
         /\ issuedAt'[c] = now
  BY DEF Obtain, TypeOK, CallersTypeOK
<1>4. r <= stored
  BY DEF NothingAheadOfStored
<1>5. token' \in TokenSet
  BY DEF TypeOK, CallersTypeOK, NoToken, TokenSet
<1>6. TypeOK'
  <2>1. /\ pc' \in [Callers -> Stages] /\ issuedAt' \in [Callers -> Nat]
        /\ inFlight' \in Callers \union {Nobody}
    BY DEF Obtain, TypeOK, CallersTypeOK, ServiceTypeOK, Stages
  <2>. QED
    BY <1>1, <1>5, <2>1 DEF TypeOK, CallersTypeOK, ServiceTypeOK
<1>7. JoinersShareOneRequest'
  <2>1. ~Fetching(c)
    BY DEF Fetching
  <2>. QED
    BY <2>1, <1>2, <1>3, NobodyAssumption DEF JoinersShareOneRequest, Fetching, Joined
<1>8. CacheSound' /\ CacheIsLatest'
  BY <1>1, ServiceAssumption
  DEF CacheSound, CacheIsLatest, NoToken, TypeOK, CallersTypeOK, ServiceTypeOK
<1>9. AnswerIsLatest'
  BY <1>1, <1>2, <1>3 DEF AnswerIsLatest, TypeOK, CallersTypeOK, ServiceTypeOK
<1>10. NothingAheadOfStored' /\ IdleIsClean' /\ ResendIsNewer'
  BY <1>1, <1>2, <1>3, <1>4 DEF NothingAheadOfStored, IdleIsClean, ResendIsNewer
<1>. QED
  BY <1>6, <1>7, <1>8, <1>9, <1>10

\* A call starts with the current token, or with a request for one.
LEMMA BeginKeeps ==
  ASSUME IInv, NEW c \in Callers, Begin(c)
  PROVE  IInv'
<1>1. /\ pc[c] = "idle" /\ refused[c] = 0 /\ 0 \in Nat /\ refusals \subseteq Nat
      /\ UNCHANGED <<service, token, refusals, stored>>
      /\ refused' = [refused EXCEPT ![c] = 0]
  BY DEF Begin, IInv, IdleIsClean, TypeOK, CallersTypeOK
<1>2. CASE SendWith(c, token) /\ UNCHANGED inFlight
  BY <1>1, <1>2, TakeKeeps
<1>3. CASE Obtain(c)
  BY <1>1, <1>3, ObtainKeeps
<1>. QED
  BY <1>2, <1>3 DEF Begin

\* A refused caller takes another token, or drops the current one and obtains the next.
LEMMA RejectionKeeps ==
  ASSUME IInv, NEW c \in Callers, NEW r \in Nat,
         pc[c] = "sending", RefreshAfterRejection(c, r),
         UNCHANGED <<service, stored>>,
         refused' = [refused EXCEPT ![c] = r], r \in {refused[c], held[c].id},
         refusals \subseteq refusals', refusals' \subseteq Nat, r # 0 => r \in refusals'
  PROVE  IInv'
<1>1. CASE token.id \notin {0, r} /\ SendWith(c, token) /\ UNCHANGED <<token, inFlight>>
  BY <1>1, TakeKeeps
<1>2. CASE token' = NoToken /\ Obtain(c)
  BY <1>2, ObtainKeeps
<1>. QED
  BY <1>1, <1>2 DEF RefreshAfterRejection

\* The two ways a caller comes to refreshAfterRejection.
LEMMA RefusalsKeep ==
  ASSUME IInv, NEW c \in Callers, Refused(c) \/ Again(c)
  PROVE  IInv'
<1>1. held[c].id \in Nat /\ refused[c] \in Nat /\ refusals \subseteq Nat
  BY DEF IInv, TypeOK, CallersTypeOK, TokenSet
<1>2. CASE Refused(c)
  <2>1. /\ pc[c] = "sending" /\ RefreshAfterRejection(c, held[c].id)
        /\ UNCHANGED <<service, stored>>
        /\ refused' = [refused EXCEPT ![c] = held[c].id]
        /\ refusals' = refusals \union {held[c].id}
    BY <1>2 DEF Refused
  <2>. QED
    BY <1>1, <2>1, RejectionKeeps
<1>3. CASE Again(c)
  <2>1. /\ pc[c] = "sending" /\ RefreshAfterRejection(c, refused[c])
        /\ UNCHANGED <<service, stored, refused>>
        /\ refusals' \in {refusals, refusals \union {held[c].id}}
    BY <1>3 DEF Again
  <2>2. refused' = [refused EXCEPT ![c] = refused[c]]
    BY <2>1 DEF IInv, TypeOK, CallersTypeOK
  <2>3. refused[c] # 0 => refused[c] \in refusals'
    BY <2>1 DEF IInv, NothingAheadOfStored
  <2>. QED
    BY <1>1, <2>1, <2>2, <2>3, RejectionKeeps
<1>. QED
  BY <1>2, <1>3

\* The answer is stored, and goes to its caller and to everybody who joined.
LEMMA SettleKeeps ==
  ASSUME IInv, NEW c \in Callers, Settle(c)
  PROVE  IInv'
<1>. USE DEF IInv
<1>1. /\ UNCHANGED <<now, issued, deadline, revoked, refused, refusals>>
      /\ pc[c] = "answered" /\ inFlight' = Nobody
      /\ token' = TokenFrom(reply[c], issuedAt[c])
      /\ stored' = reply[c].id
  BY DEF Settle, service
<1>2. token' \in TokenSet
  BY <1>1, TokenFromType DEF TypeOK, CallersTypeOK
<1>3. /\ token'.id = issued /\ stored' = issued
      /\ stored < issued
      /\ token'.expiresAt <= deadline[issued]
      /\ issued \in Nat /\ stored \in Nat
  BY <1>1, ServiceAssumption
  DEF AnswerIsLatest, TokenFrom, TypeOK, CallersTypeOK, ServiceTypeOK
<1>4. \A d \in Callers :
        \/ /\ d = c \/ pc[d] = "wait"
           /\ pc'[d] = "sending" /\ held'[d] = token'
        \/ /\ d # c /\ pc[d] # "wait"
           /\ pc'[d] = pc[d] /\ held'[d] = held[d]
  BY DEF Settle, Joined
<1>5. \A d \in Callers : Fetching(d) => d = c
  BY <1>1 DEF JoinersShareOneRequest, Fetching
<1>6. \A d \in Callers : ~Fetching(d)' /\ pc'[d] # "wait"
  BY <1>4, <1>5 DEF Fetching
<1>7. TypeOK'
  <2>1. pc' \in [Callers -> Stages] /\ held' \in [Callers -> TokenSet]
    BY <1>2 DEF Settle, TypeOK, CallersTypeOK, Stages
  <2>2. issuedAt' \in [Callers -> Nat] /\ reply' \in [Callers -> TokenReply]
    BY DEF Settle, TypeOK, CallersTypeOK, NoReply, TokenReply
  <2>. QED
    BY <1>1, <1>2, <1>3, <2>1, <2>2 DEF TypeOK, CallersTypeOK, ServiceTypeOK
<1>8. JoinersShareOneRequest' /\ AnswerIsLatest'
  BY <1>1, <1>6, NobodyAssumption DEF JoinersShareOneRequest, AnswerIsLatest, Fetching, Joined
<1>9. CacheSound' /\ CacheIsLatest'
  BY <1>1, <1>3 DEF CacheSound, CacheIsLatest
<1>10. NothingAheadOfStored'
  <2>1. \A d \in Callers : held[d].id \in Nat /\ refused[d] \in Nat
    BY DEF TypeOK, CallersTypeOK, TokenSet
  <2>. QED
    BY <2>1, <1>1, <1>3, <1>4 DEF NothingAheadOfStored
<1>11. IdleIsClean' /\ ResendIsNewer'
  <2>1. \A d \in Callers : refused[d] \in Nat /\ refused[d] < issued
    BY <1>3 DEF NothingAheadOfStored, TypeOK, CallersTypeOK
  <2>. QED
    BY <2>1, <1>1, <1>3, <1>4 DEF IdleIsClean, ResendIsNewer
<1>. QED
  BY <1>7, <1>8, <1>9, <1>10, <1>11

\* The calls of a set of callers end: of those of one request, or of one that has none.
LEMMA AllHomeKeeps ==
  ASSUME IInv, NEW S \in SUBSET Callers, AllHome(S),
         UNCHANGED <<service, token, stored>>,
         refusals \subseteq refusals', refusals' \subseteq Nat,
         inFlight' = IF inFlight \in S THEN Nobody ELSE inFlight,
         inFlight \in S => Joined \subseteq S
  PROVE  IInv'
<1>. USE DEF IInv
<1>1. UNCHANGED <<now, issued, deadline, revoked, token, stored>>
  BY DEF service
<1>2. \A d \in Callers :
        \/ d \in S /\ pc'[d] = "idle" /\ held'[d].id = 0 /\ refused'[d] = 0
        \/ /\ d \notin S /\ pc'[d] = pc[d] /\ held'[d] = held[d] /\ refused'[d] = refused[d]
           /\ issuedAt'[d] = issuedAt[d] /\ reply'[d] = reply[d]
  BY DEF AllHome, NoToken
<1>3. TypeOK'
  <2>1. /\ pc' \in [Callers -> Stages] /\ held' \in [Callers -> TokenSet]
        /\ refused' \in [Callers -> Nat] /\ issuedAt' \in [Callers -> Nat]
        /\ reply' \in [Callers -> TokenReply]
    BY DEF AllHome, TypeOK, CallersTypeOK, Stages, NoToken, NoReply, TokenSet, TokenReply
  <2>. QED
    BY <1>1, <2>1 DEF TypeOK, CallersTypeOK, ServiceTypeOK
<1>4. JoinersShareOneRequest'
  <2>1. \A d \in Callers : Fetching(d)' <=> inFlight' = d
    BY <1>2, NobodyAssumption DEF JoinersShareOneRequest, Fetching
  <2>2. Joined' # {} => inFlight' # Nobody
    BY <1>2, NobodyAssumption DEF JoinersShareOneRequest, Joined
  <2>. QED
    BY <2>1, <2>2 DEF JoinersShareOneRequest
<1>5. CacheSound' /\ CacheIsLatest' /\ AnswerIsLatest'
  BY <1>1, <1>2 DEF CacheSound, CacheIsLatest, AnswerIsLatest
<1>6. NothingAheadOfStored'
  <2>1. 0 <= stored
    BY ServiceAssumption DEF TypeOK, CallersTypeOK, ServiceTypeOK
  <2>. QED
    BY <2>1, <1>1, <1>2 DEF NothingAheadOfStored
<1>7. IdleIsClean' /\ ResendIsNewer'
  BY <1>1, <1>2 DEF IdleIsClean, ResendIsNewer
<1>. QED
  BY <1>3, <1>4, <1>5, <1>6, <1>7

\* A failed request takes home everybody who joined it; any other call ends by itself.
LEMMA EndingsKeep ==
  ASSUME IInv, NEW c \in Callers, FetchFails(c) \/ End(c)
  PROVE  IInv'
<1>1. CASE FetchFails(c)
  <2>1. inFlight = c
    BY <1>1 DEF FetchFails, IInv, JoinersShareOneRequest
  <2>2. {c} \union Joined \in SUBSET Callers
    BY DEF Joined
  <2>3. refusals \subseteq refusals' /\ refusals' \subseteq Nat
    BY <1>1 DEF FetchFails, IInv, TypeOK, CallersTypeOK
  <2>. QED
    BY <1>1, <2>1, <2>2, <2>3, AllHomeKeeps DEF FetchFails
<1>2. CASE End(c)
  <2>1. inFlight # c
    BY <1>2 DEF End, IInv, JoinersShareOneRequest, Fetching
  <2>2. held[c].id \in Nat /\ refusals \subseteq Nat
    BY DEF IInv, TypeOK, CallersTypeOK, TokenSet
  <2>3. refusals' \in {refusals, refusals \union {held[c].id}}
    BY <1>2 DEF End
  <2>. QED
    BY <1>2, <2>1, <2>2, <2>3, AllHomeKeeps DEF End
<1>. QED
  BY <1>1, <1>2

\* The clock, revocations, and the token endpoint.
LEMMA PlatformKeeps ==
  ASSUME IInv, Platform
  PROVE  IInv'
<1>. USE DEF IInv
<1>1. CASE PlatformStep
  <2>1. /\ now' \in Nat /\ now <= now'
        /\ UNCHANGED <<issued, deadline, token, callers, inFlight, stored>>
        /\ revoked' \subseteq 1..issued
    <3>1. UNCHANGED <<token, callers, inFlight, stored>>
      BY <1>1 DEF Platform, PlatformStep
    <3>2. CASE Tick
      BY <3>1, <3>2 DEF Tick, TypeOK, CallersTypeOK, ServiceTypeOK
    <3>3. CASE \E i \in Tokens : Revoke(i)
      BY <3>1, <3>3 DEF Revoke, TypeOK, CallersTypeOK, ServiceTypeOK
    <3>. QED
      BY <1>1, <3>2, <3>3 DEF PlatformStep
  <2>. QED
    BY <2>1
    DEF callers, TypeOK, CallersTypeOK, ServiceTypeOK, JoinersShareOneRequest, Fetching, Joined,
        CacheSound, CacheIsLatest, NothingAheadOfStored, AnswerIsLatest, IdleIsClean,
        ResendIsNewer
<1>2. ASSUME NEW c \in Callers, Serve(c)
      PROVE  IInv'
  <2>1. PICK r \in Replies : Issue(r) /\ reply' = [reply EXCEPT ![c] = r]
    BY <1>2 DEF Serve
  <2>2. ServiceTypeOK
    BY DEF TypeOK, CallersTypeOK
  <2>3. /\ r \in TokenReply /\ r.id = issued + 1
        /\ issued \in Nat /\ issued' = issued + 1
        /\ \A i \in 1..issued : deadline'[i] = deadline[i]
        /\ ServiceTypeOK'
        /\ \A at \in Nat : at <= now => at + Lifetime(r) <= deadline'[issued + 1]
    BY <2>1, <2>2, MintedToken
  <2>4. /\ UNCHANGED <<token, held, refused, issuedAt, refusals, now, inFlight, stored>>
        /\ pc[c] = "requesting" /\ pc' = [pc EXCEPT ![c] = "answered"]
    BY <1>2, <2>1 DEF Serve, Issue, Platform
  <2>5. TypeOK'
    BY <2>1, <2>3, <2>4 DEF TypeOK, CallersTypeOK, Stages
  <2>6. JoinersShareOneRequest'
    BY <2>4 DEF JoinersShareOneRequest, Fetching, Joined, TypeOK, CallersTypeOK
  <2>7. CacheSound'
    <3>1. token.id \in Nat /\ token.id <= issued
      BY DEF CacheSound, TypeOK, CallersTypeOK, TokenSet
    <3>. QED
      BY <3>1, <2>3, <2>4 DEF CacheSound
  <2>8. AnswerIsLatest'
    <3>1. issuedAt[c] + Lifetime(r) <= deadline'[issued + 1]
      BY <2>3, <2>4 DEF AnswerIsLatest, TypeOK, CallersTypeOK
    <3>2. stored < issued + 1
      BY <2>3 DEF TypeOK
    <3>3. \A d \in Callers : pc[d] = "answered" => d = c
      BY <2>4 DEF JoinersShareOneRequest, Fetching
    <3>4. SUFFICES ASSUME NEW d \in Callers
                   PROVE  /\ pc'[d] = "requesting" => issuedAt'[d] <= now'
                          /\ pc'[d] = "answered" =>
                               /\ reply'[d].id = issued'
                               /\ stored' < issued'
                               /\ issuedAt'[d] + Lifetime(reply'[d]) <= deadline'[issued']
      BY DEF AnswerIsLatest
    <3>5. CASE d = c
      <4>1. reply'[c] = r /\ pc'[c] = "answered"
        BY <2>1, <2>4 DEF TypeOK, CallersTypeOK
      <4>. QED
        BY <3>5, <4>1, <3>1, <3>2, <2>3, <2>4
    <3>6. CASE d # c
      BY <3>6, <3>3, <2>4 DEF AnswerIsLatest, TypeOK, CallersTypeOK
    <3>. QED
      BY <3>5, <3>6
  <2>9. CacheIsLatest' /\ NothingAheadOfStored' /\ IdleIsClean' /\ ResendIsNewer'
    BY <2>4
    DEF CacheIsLatest, NothingAheadOfStored, IdleIsClean, ResendIsNewer, TypeOK, CallersTypeOK
  <2>. QED
    BY <2>5, <2>6, <2>7, <2>8, <2>9
<1>. QED
  BY <1>1, <1>2 DEF Platform

\* The invariant is inductive.
LEMMA StepInvariant == IInv /\ [Next]_vars => IInv'
<1>1. ASSUME IInv, UNCHANGED vars
      PROVE  IInv'
  BY <1>1
  DEF vars, service, callers, IInv, TypeOK, CallersTypeOK, ServiceTypeOK,
      JoinersShareOneRequest, Fetching, Joined, CacheSound, CacheIsLatest,
      NothingAheadOfStored, AnswerIsLatest, IdleIsClean, ResendIsNewer
<1>2. ASSUME IInv, Next
      PROVE  IInv'
  BY <1>2, PlatformKeeps, BeginKeeps, SettleKeeps, EndingsKeep, RefusalsKeep
  DEF Next, FetchEnds
<1>. QED
  BY <1>1, <1>2

\* The inductive invariant holds of every state the manager reaches: whoever waits has joined
\* the one request in flight, and no resend carries a token that is not newer.
THEOREM Invariance == Spec => []IInv
BY InitInvariant, StepInvariant, PTL DEF Spec

\* A first send that takes the current token, rather than an answer it waited for, takes one
\* that is still good by the server's clock.
THEOREM CachedTokensAreLive == Spec => NeverKnowinglyExpired
<1>1. ASSUME IInv, [Next]_vars, NEW c \in Callers,
             pc[c] # "sending", pc'[c] = "sending", refused[c] = 0, ~Fetching(c), token' = token
      PROVE  now < deadline[held'[c].id]
  <2>. USE DEF IInv
  <2>1. \A d \in Callers : ~Settle(d)
    BY <1>1, ServiceAssumption
    DEF Settle, TokenFrom, AnswerIsLatest, CacheIsLatest, TypeOK, CallersTypeOK, ServiceTypeOK
  <2>2. Begin(c)
    BY <1>1, <2>1
    DEF Next, Platform, PlatformStep, callers, Serve, Begin, Obtain, FetchEnds, FetchFails,
        AllHome, Refused, Again, RefreshAfterRejection, SendWith, End, vars, Fetching, TypeOK,
        CallersTypeOK
  <2>3. Spendable /\ held'[c] = token
    BY <1>1, <2>2 DEF Begin, Obtain, SendWith, TypeOK, CallersTypeOK
  <2>4. now < token.expiresAt
    BY <1>1, <2>3, ExpiredIsDue DEF Spendable, TypeOK, CallersTypeOK, ServiceTypeOK, TokenSet
  <2>5. token.expiresAt <= deadline[token.id] /\ deadline[token.id] \in Nat
    BY <1>1, <2>3, ServiceAssumption
    DEF Spendable, CacheSound, TypeOK, CallersTypeOK, ServiceTypeOK, TokenSet, Tokens
  <2>. QED
    BY <1>1, <2>3, <2>4, <2>5 DEF TypeOK, CallersTypeOK, ServiceTypeOK, TokenSet
<1>2. IInv /\ [Next]_vars
        => [\A c \in Callers :
              pc[c] # "sending" /\ pc'[c] = "sending" /\ refused[c] = 0
                /\ ~Fetching(c) /\ token' = token
                => now < deadline[held'[c].id]]_<<pc, held>>
  BY <1>1
<1>. QED
  BY <1>2, Invariance, PTL DEF Spec, NeverKnowinglyExpired

-------------------------------------------------------------------------------
(* The manager implements the single-flight token cache: starting a request is       *)
(* Cache!Request, Settle is Cache!Answer, FetchFails is Cache!Fail; joining a request *)
(* is no step, and refusals and time at most make the token due.                      *)

\* Starting a request for a token that is due is Cache!Request; joining one that is in
\* flight is no step, or makes it due.
LEMMA ObtainRefines ==
  ASSUME IInv, NEW c \in Callers, Obtain(c), UNCHANGED <<now, stored>>,
         ~Spendable \/ token.id \in refusals, token' \in {token, NoToken},
         refusals \subseteq refusals'
  PROVE  [Cache!CacheNext]_(Cache!cache)
<1>. DEFINE due == ~Spendable \/ token.id \in refusals
            requesting == inFlight # Nobody
<1>1. due
  OBVIOUS
<1>2. due'
  <2>1. CASE token' = token
    <3>1. Spendable' <=> Spendable
      BY <2>1 DEF Spendable
    <3>. QED
      BY <2>1, <3>1
  <2>2. CASE token' = NoToken
    BY <2>2 DEF Spendable, NoToken
  <2>. QED
    BY <2>1, <2>2
<1>3. requesting' = requesting \/ (~requesting /\ requesting')
  BY NobodyAssumption DEF Obtain
<1>. HIDE DEF due
<1>4. requesting' = requesting => Cache!FallDue
  BY <1>2 DEF Cache!FallDue, due
<1>5. ~requesting /\ requesting' => Cache!Request
  BY <1>1, <1>2 DEF Cache!Request, due
<1>. QED
  BY <1>3, <1>4, <1>5 DEF Cache!CacheNext

\* Sending, ending, refusals and time leave the request alone; they at most make it due.
LEMMA QuietRefines ==
  ASSUME UNCHANGED <<inFlight, stored>>,
         ~Spendable \/ token.id \in refusals => (~Spendable \/ token.id \in refusals)'
  PROVE  [Cache!CacheNext]_(Cache!cache)
BY DEF Cache!CacheNext, Cache!FallDue, Cache!cache

\* What stays due when neither the clock nor the token moves.
LEMMA QuietKeepsDue ==
  ASSUME UNCHANGED <<now, token>>, refusals \subseteq refusals'
  PROVE  ~Spendable \/ token.id \in refusals => (~Spendable \/ token.id \in refusals)'
<1>1. Spendable' <=> Spendable
  BY DEF Spendable
<1>. QED
  BY <1>1

\* A refused token is due: its time is over, or it is on record as refused.
LEMMA RefusedIsDue ==
  ASSUME IInv, NEW c \in Callers,
         \/ Refused(c) /\ token.id \in {0, held[c].id}
         \/ Again(c) /\ token.id \in {0, refused[c]}
  PROVE  ~Spendable \/ token.id \in refusals
<1>1. CASE token.id = 0
  BY <1>1 DEF Spendable
<1>2. CASE Refused(c) /\ token.id = held[c].id /\ token.id # 0
  <2>1. /\ token.expiresAt <= deadline[token.id] /\ deadline[token.id] <= now
        /\ token \in TokenSet /\ now \in Nat
    <3>1. token.id \in Tokens
      BY <1>2, ServiceAssumption
      DEF IInv, CacheSound, TypeOK, CallersTypeOK, ServiceTypeOK, TokenSet, Tokens
    <3>2. deadline[token.id] \in Nat
      BY <3>1 DEF IInv, TypeOK, CallersTypeOK, ServiceTypeOK
    <3>. QED
      BY <1>2, <3>2 DEF Refused, IInv, CacheSound, TypeOK, CallersTypeOK, ServiceTypeOK
  <2>2. token.expiresAt <= now
    <3>1. deadline[token.id] \in Nat
      BY <1>2, ServiceAssumption
      DEF IInv, CacheSound, TypeOK, CallersTypeOK, ServiceTypeOK, TokenSet, Tokens
    <3>. QED
      BY <2>1, <3>1 DEF TokenSet
  <2>. QED
    BY <2>1, <2>2, ExpiredIsDue DEF Spendable
<1>3. CASE Again(c) /\ token.id = refused[c] /\ token.id # 0
  BY <1>3 DEF IInv, NothingAheadOfStored
<1>. QED
  BY <1>1, <1>2, <1>3

\* Every step is a step of the abstract cache, or leaves it unchanged.
LEMMA StepRefines ==
  ASSUME IInv, [Next]_vars
  PROVE  [Cache!CacheNext]_(Cache!cache)
<1>1. CASE UNCHANGED vars
  BY <1>1, QuietRefines, QuietKeepsDue DEF vars, service, callers
<1>2. CASE Platform
  <2>1. UNCHANGED <<token, refusals, inFlight, stored>>
    BY <1>2 DEF Platform, PlatformStep, Serve, callers
  <2>2. now' \in Nat /\ now \in Nat /\ now <= now' /\ token \in TokenSet
    BY <1>2
    DEF Platform, PlatformStep, Tick, Revoke, Serve, Issue, IInv, TypeOK, CallersTypeOK,
        ServiceTypeOK
  <2>3. ~Spendable => ~Spendable'
    BY <2>1, <2>2, DueStaysDue DEF Spendable
  <2>. QED
    BY <2>1, <2>3, QuietRefines
<1>3. ASSUME NEW c \in Callers, Begin(c)
      PROVE  [Cache!CacheNext]_(Cache!cache)
  <2>1. UNCHANGED <<now, token, refusals, stored>>
    BY <1>3 DEF Begin, service
  <2>2. CASE SendWith(c, token) /\ UNCHANGED inFlight
    BY <2>1, <2>2, QuietRefines, QuietKeepsDue
  <2>3. CASE ~Spendable /\ Obtain(c)
    BY <2>1, <2>3, ObtainRefines
  <2>. QED
    BY <1>3, <2>2, <2>3 DEF Begin
<1>4. ASSUME NEW c \in Callers, Settle(c)
      PROVE  Cache!Answer
  <2>1. inFlight = c /\ inFlight' = Nobody
    BY <1>4 DEF Settle, IInv, JoinersShareOneRequest, Fetching
  <2>2. stored' = issued /\ stored < issued /\ issued \in Nat
    BY <1>4, ServiceAssumption
    DEF Settle, IInv, AnswerIsLatest, TypeOK, CallersTypeOK, ServiceTypeOK
  <2>. QED
    BY <2>1, <2>2, NobodyAssumption DEF Cache!Answer
<1>5. ASSUME NEW c \in Callers, FetchFails(c)
      PROVE  Cache!Fail
  <2>1. inFlight = c /\ inFlight' = Nobody /\ UNCHANGED <<token, now, refusals, stored>>
    BY <1>5 DEF FetchFails, service, IInv, JoinersShareOneRequest
  <2>2. Spendable' <=> Spendable
    BY <2>1 DEF Spendable
  <2>. QED
    BY <2>1, <2>2, NobodyAssumption DEF Cache!Fail
<1>6. ASSUME NEW c \in Callers, Refused(c) \/ Again(c)
      PROVE  [Cache!CacheNext]_(Cache!cache)
  <2>1. /\ UNCHANGED <<now, stored>> /\ refusals \subseteq refusals'
        /\ \/ Refused(c) /\ RefreshAfterRejection(c, held[c].id)
           \/ Again(c) /\ RefreshAfterRejection(c, refused[c])
    BY <1>6 DEF Refused, Again, service
  <2>2. CASE UNCHANGED <<token, inFlight>>
    BY <2>1, <2>2, QuietRefines, QuietKeepsDue
  <2>3. CASE ~UNCHANGED <<token, inFlight>>
    <3>1. /\ Obtain(c) /\ token' = NoToken
          /\ \/ Refused(c) /\ token.id \in {0, held[c].id}
             \/ Again(c) /\ token.id \in {0, refused[c]}
      BY <2>1, <2>3 DEF RefreshAfterRejection
    <3>. QED
      BY <2>1, <3>1, RefusedIsDue, ObtainRefines
  <2>. QED
    BY <2>2, <2>3
<1>7. ASSUME NEW c \in Callers, End(c)
      PROVE  [Cache!CacheNext]_(Cache!cache)
  <2>1. UNCHANGED <<now, token, inFlight, stored>>
    BY <1>7 DEF End, service
  <2>2. refusals \subseteq refusals'
    BY <1>7 DEF End
  <2>. QED
    BY <2>1, <2>2, QuietRefines, QuietKeepsDue
<1>. QED
  BY <1>1, <1>2, <1>3, <1>4, <1>5, <1>6, <1>7 DEF Next, FetchEnds, Cache!CacheNext

\* TypeScript's manager implements the single-flight token cache.
THEOREM Refinement == Spec => ImplementsTokenCache
<1>1. Init => Cache!CacheInit
  <2>. SUFFICES ASSUME Init PROVE Cache!CacheInit
    OBVIOUS
  <2>. QED
    BY DEF Init, CallersInit, NoToken, Spendable, Cache!CacheInit
<1>2. IInv /\ [Next]_vars => [Cache!CacheNext]_(Cache!cache)
  BY StepRefines
<1>. QED
  BY <1>1, <1>2, Invariance, PTL DEF Spec, ImplementsTokenCache, Cache!CacheSpec
===============================================================================
