--------------------------- MODULE TokenManagerProofs ---------------------------
(***************************************************************************)
(* The safety properties of the token managers that share the callers'     *)
(* state, for any number of callers and any lifetimes.                     *)
(*                                                                         *)
(* Python: IInv is shown inductive action by action; the properties and    *)
(* the refinement of TokenCache follow from it.  Go: but for its first     *)
(* step the manager is the Python one, so every other step inherits what   *)
(* was proved.  Rust: no lock across the token request, so LockFreeInv, of *)
(* what is left, is shown inductive by itself.                             *)
(***************************************************************************)
EXTENDS PyTokenManager, TLAPS

Go == INSTANCE GoTokenManager

Rust == INSTANCE RustTokenManager

-------------------------------------------------------------------------------
(* Facts about the arithmetic of TokenLease. *)

\* A token's life is a natural number of seconds, clamped to what an operator can configure.
LEMMA LifetimeType ==
  ASSUME NEW r \in TokenReply
  PROVE  Lifetime(r) \in Nat /\ Lifetime(r) <= MaxTTL
BY LeaseAssumption DEF TokenReply, Lifetime, EffectiveLifetime, Shorter

\* A token is never believed to live longer than either reading of its lifetime says.
LEMMA LifetimeIsShortest ==
  ASSUME NEW r \in TokenReply
  PROVE  /\ Lifetime(r) <= r.expiresIn
         /\ r.dated /\ r.serverLeft >= 0 => Lifetime(r) <= r.serverLeft
         /\ r.dated /\ r.serverLeft < 0 => Lifetime(r) = 0
BY LeaseAssumption DEF TokenReply, Lifetime, EffectiveLifetime, Shorter

\* The token made from a response is a token.
LEMMA TokenFromType ==
  ASSUME NEW r \in TokenReply, NEW at \in Nat
  PROVE  TokenFrom(r, at) \in TokenSet
BY LifetimeType DEF TokenFrom, TokenSet, TokenReply

\* The share of the life that refresh-ahead keeps in reserve is never negative.
LEMMA ReserveIsNatural ==
  ASSUME NEW t \in TokenSet
  PROVE  t.expiresIn * (100 - RatioPct) \in Nat
<1>1. 100 - RatioPct \in Nat /\ t.expiresIn \in Nat
  BY LeaseAssumption DEF TokenSet
<1>2. \A m, n \in Nat : m * n \in Nat
  OBVIOUS
<1>. QED
  BY <1>1, <1>2

\* A token that is due stays due: time only runs against it.
LEMMA DueStaysDue ==
  ASSUME NEW t \in TokenSet, NEW n \in Nat, NEW m \in Nat, n <= m, NeedsRefresh(t, n)
  PROVE  NeedsRefresh(t, m)
<1>. DEFINE reserve == t.expiresIn * (100 - RatioPct)
<1>1. reserve \in Nat /\ t.expiresAt \in Nat /\ MinRemaining \in Nat
  BY ReserveIsNatural, LeaseAssumption DEF TokenSet
<1>2. 100 * (t.expiresAt - n) <= reserve \/ t.expiresAt - n < MinRemaining
  BY DEF NeedsRefresh, Remaining
<1>. HIDE DEF reserve
<1>3. 100 * (t.expiresAt - m) <= reserve \/ t.expiresAt - m < MinRemaining
  BY <1>1, <1>2
<1>. QED
  BY <1>3 DEF NeedsRefresh, Remaining, reserve

\* A token that is not due has time left.
LEMMA FreshHasTimeLeft ==
  ASSUME NEW t \in TokenSet, NEW n \in Nat, ~NeedsRefresh(t, n)
  PROVE  n < t.expiresAt
<1>. DEFINE reserve == t.expiresIn * (100 - RatioPct)
<1>1. reserve \in Nat /\ t.expiresAt \in Nat
  BY ReserveIsNatural DEF TokenSet
<1>2. ~(100 * (t.expiresAt - n) <= reserve)
  BY DEF NeedsRefresh, Remaining
<1>. HIDE DEF reserve
<1>. QED
  BY <1>1, <1>2

-------------------------------------------------------------------------------
(* Facts about the steps of TokenCallers and AuthService, for any manager. *)

\* A call that ends keeps the types.
LEMMA HomeTypes ==
  ASSUME CallersTypeOK, NEW c \in Callers, Home(c)
  PROVE  /\ pc' \in [Callers -> Stages]
         /\ held' \in [Callers -> TokenSet]
         /\ refused' \in [Callers -> Nat]
         /\ issuedAt' \in [Callers -> Nat]
         /\ reply' \in [Callers -> TokenReply]
BY DEF CallersTypeOK, Home, Stages, NoToken, NoReply, TokenSet, TokenReply

\* So does sending with a token.
LEMMA SendTypes ==
  ASSUME CallersTypeOK, NEW c \in Callers, NEW t \in TokenSet, SendWith(c, t)
  PROVE  /\ pc' \in [Callers -> Stages]
         /\ held' \in [Callers -> TokenSet]
         /\ issuedAt' \in [Callers -> Nat]
         /\ reply' \in [Callers -> TokenReply]
BY DEF CallersTypeOK, SendWith, Stages, NoReply, TokenReply

\* The auth-service mints the next token, and no reading of its lifetime, counted from before
\* it was minted, outlives the server's.
LEMMA MintedToken ==
  ASSUME ServiceTypeOK, NEW r \in Replies, Issue(r)
  PROVE  /\ r \in TokenReply /\ r.id = issued + 1
         /\ issued \in Nat /\ issued' = issued + 1 /\ issued' \in Tokens
         /\ UNCHANGED <<now, revoked>>
         /\ \A i \in 1..issued : deadline'[i] = deadline[i]
         /\ ServiceTypeOK'
         /\ \A at \in Nat : at <= now => at + Lifetime(r) <= deadline'[issued + 1]
<1>1. /\ r \in TokenReply
      /\ r.id = issued + 1
      /\ ~r.dated => r.serverLeft = r.expiresIn
  <2>1. issued + 1 \in Nat
    BY ServiceAssumption DEF ServiceTypeOK
  <2>2. /\ r \in [id : {issued + 1}, expiresIn : Lifetimes \ {0}, dated : BOOLEAN,
                  serverLeft : Lifetimes \union {-1}]
        /\ ~r.dated => r.serverLeft = r.expiresIn
    BY DEF Replies
  <2>3. /\ r = [id |-> r.id, expiresIn |-> r.expiresIn, dated |-> r.dated,
                serverLeft |-> r.serverLeft]
        /\ r.id = issued + 1
        /\ r.expiresIn \in Lifetimes
        /\ r.dated \in BOOLEAN
        /\ r.serverLeft \in Lifetimes \union {-1}
    BY <2>2
  <2>4. r.expiresIn \in Nat /\ r.serverLeft \in Int
    BY <2>3, ServiceAssumption
  <2>. QED
    BY <2>1, <2>2, <2>3, <2>4 DEF TokenReply
<1>2. /\ issued \in Nat /\ issued < MaxTokens /\ issued' = issued + 1
      /\ issued + 1 \in Tokens
      /\ UNCHANGED <<now, revoked>>
  BY ServiceAssumption DEF Issue, ServiceTypeOK, Tokens
<1>3. /\ deadline' \in [Tokens -> Nat]
      /\ deadline'[issued + 1] = IF r.serverLeft < 0 THEN now ELSE now + r.serverLeft
      /\ \A i \in Tokens : i # issued + 1 => deadline'[i] = deadline[i]
  BY <1>1, <1>2 DEF Issue, ServiceTypeOK, TokenReply
<1>4. ServiceTypeOK'
  BY <1>2, <1>3, ServiceAssumption DEF ServiceTypeOK
<1>5. \A i \in 1..issued : deadline'[i] = deadline[i]
  BY <1>2, <1>3, ServiceAssumption DEF Tokens
<1>6. ASSUME NEW at \in Nat, at <= now
      PROVE  at + Lifetime(r) <= deadline'[issued + 1]
  <2>1. Lifetime(r) \in Nat
    BY <1>1, LifetimeType
  <2>2. IF r.serverLeft < 0 THEN Lifetime(r) = 0 ELSE Lifetime(r) <= r.serverLeft
    BY <1>1, <2>1, LifetimeIsShortest DEF TokenReply
  <2>. QED
    BY <1>1, <1>3, <1>6, <2>1, <2>2 DEF ServiceTypeOK, TokenReply
<1>. QED
  BY <1>1, <1>2, <1>4, <1>5, <1>6

-------------------------------------------------------------------------------
(* Python. *)

\* The initial state satisfies the inductive invariant.
LEMMA InitInvariant == Init => IInv
<1>. SUFFICES ASSUME Init PROVE IInv
  OBVIOUS
<1>1. TypeOK
  BY ServiceAssumption
  DEF Init, CallersInit, ServiceInit, TypeOK, CallersTypeOK, ServiceTypeOK, NoToken, NoReply,
      TokenSet, TokenReply, Stages
<1>2. LockCoversFetch
  BY NobodyAssumption DEF Init, CallersInit, LockCoversFetch, Fetching
<1>3. /\ CacheSound /\ AnswerIsNewest /\ NothingAheadOfCache
      /\ IdleIsClean /\ FetchHasCause /\ ResendIsNewer
  BY DEF Init, CallersInit, ServiceInit, CacheSound, AnswerIsNewest, NothingAheadOfCache,
     IdleIsClean, FetchHasCause, ResendIsNewer, Fetching, NoToken
<1>. QED
  BY <1>1, <1>2, <1>3 DEF IInv

\* Time passes, or a token is revoked.
LEMMA PlatformStepKeeps ==
  ASSUME IInv, PlatformStep, UNCHANGED lock
  PROVE  IInv'
<1>. USE DEF IInv
<1>1. /\ now' \in Nat /\ now <= now'
      /\ UNCHANGED <<issued, deadline, token, callers, lock>>
      /\ revoked' \subseteq 1..issued
  <2>. UNCHANGED <<token, callers, lock>>
    BY DEF PlatformStep
  <2>1. CASE Tick
    BY <2>1 DEF Tick, TypeOK, CallersTypeOK, ServiceTypeOK
  <2>2. CASE \E i \in Tokens : Revoke(i)
    BY <2>2 DEF Revoke, TypeOK, CallersTypeOK, ServiceTypeOK
  <2>. QED
    BY <2>1, <2>2 DEF PlatformStep
<1>2. TypeOK'
  BY <1>1 DEF TypeOK, CallersTypeOK, ServiceTypeOK, callers
<1>3. LockCoversFetch' /\ CacheSound' /\ NothingAheadOfCache' /\ ResendIsNewer'
  BY <1>1 DEF LockCoversFetch, CacheSound, NothingAheadOfCache, ResendIsNewer, Fetching, callers
<1>i. IdleIsClean'
  BY <1>1 DEF IdleIsClean, callers
<1>4. AnswerIsNewest'
  BY <1>1 DEF AnswerIsNewest, callers, TypeOK, CallersTypeOK, ServiceTypeOK
<1>5. ~Fresh(token, now) => ~Fresh(token, now')
  BY <1>1, DueStaysDue DEF Fresh, TypeOK, CallersTypeOK, ServiceTypeOK
<1>6. FetchHasCause'
  <2>1. token' = token /\ refusals' = refusals /\ pc' = pc /\ refused' = refused
    BY <1>1 DEF callers
  <2>2. Fresh(token, now)' <=> Fresh(token, now')
    BY <2>1
  <2>. QED
    BY <2>1, <2>2, <1>5 DEF FetchHasCause, Fetching
<1>. QED
  BY <1>2, <1>3, <1>4, <1>6, <1>i

\* The platform serves a token request.
LEMMA ServeKeeps ==
  ASSUME IInv, NEW c \in Callers, Serve(c), UNCHANGED lock
  PROVE  IInv'
<1>. USE DEF IInv
<1>1. PICK r \in Replies : Issue(r) /\ reply' = [reply EXCEPT ![c] = r]
  BY DEF Serve
<1>2. ServiceTypeOK
  BY DEF TypeOK, CallersTypeOK
<1>3. /\ r \in TokenReply /\ r.id = issued + 1
      /\ issued \in Nat /\ issued' = issued + 1
      /\ \A i \in 1..issued : deadline'[i] = deadline[i]
      /\ ServiceTypeOK'
      /\ \A at \in Nat : at <= now => at + Lifetime(r) <= deadline'[issued + 1]
  BY <1>1, <1>2, MintedToken
<1>4. /\ UNCHANGED <<token, held, refused, issuedAt, refusals, now, revoked, lock>>
      /\ pc[c] = "requesting"
      /\ pc' = [pc EXCEPT ![c] = "answered"]
  BY <1>1 DEF Serve, Issue
<1>5. TypeOK'
  BY <1>1, <1>3, <1>4 DEF TypeOK, CallersTypeOK, Stages
<1>6. LockCoversFetch'
  BY <1>4 DEF LockCoversFetch, Fetching, TypeOK, CallersTypeOK
<1>7. CacheSound'
  <2>1. token.id \in Nat /\ token.id <= issued
    BY DEF CacheSound, TypeOK, CallersTypeOK, TokenSet
  <2>2. token.id # 0 => token.expiresAt <= deadline'[token.id]
    BY <2>1, <1>3 DEF CacheSound
  <2>. QED
    BY <2>1, <2>2, <1>3, <1>4 DEF CacheSound
<1>8. AnswerIsNewest'
  <2>1. issuedAt[c] + Lifetime(r) <= deadline'[issued + 1]
    BY <1>3, <1>4 DEF AnswerIsNewest, TypeOK, CallersTypeOK
  <2>2. token.id < issued + 1
    BY <1>3 DEF CacheSound, TypeOK, CallersTypeOK, TokenSet
  <2>3. \A d \in Callers : pc[d] = "answered" => d = c
    BY <1>4 DEF LockCoversFetch, Fetching
  <2>4. SUFFICES ASSUME NEW d \in Callers
                 PROVE  /\ pc'[d] = "requesting" => issuedAt'[d] <= now'
                        /\ pc'[d] = "answered" =>
                             /\ reply'[d].id = issued'
                             /\ token'.id < issued'
                             /\ issuedAt'[d] + Lifetime(reply'[d]) <= deadline'[issued']
    BY DEF AnswerIsNewest
  <2>5. CASE d = c
    <3>1. reply'[c] = r /\ pc'[c] = "answered"
      BY <1>1, <1>4 DEF TypeOK, CallersTypeOK
    <3>. QED
      BY <2>5, <3>1, <1>3, <1>4, <2>1, <2>2
  <2>6. CASE d # c
    BY <2>6, <2>3, <1>4 DEF AnswerIsNewest, TypeOK, CallersTypeOK
  <2>. QED
    BY <2>5, <2>6
<1>9. NothingAheadOfCache' /\ IdleIsClean' /\ FetchHasCause' /\ ResendIsNewer'
  <2>1. Fresh(token, now)' <=> Fresh(token, now)
    BY <1>4
  <2>. QED
    BY <2>1, <1>4
    DEF NothingAheadOfCache, IdleIsClean, FetchHasCause, ResendIsNewer, Fetching,
        TypeOK, CallersTypeOK
<1>. QED
  BY <1>5, <1>6, <1>7, <1>8, <1>9

\* A caller starts: it takes the cached token, or goes to wait for the lock.
LEMMA BeginKeeps ==
  ASSUME IInv, NEW c \in Callers, Begin(c)
  PROVE  IInv'
<1>. USE DEF IInv
<1>1. /\ UNCHANGED <<now, issued, deadline, revoked, token, refused, refusals, lock>>
      /\ pc[c] = "idle"
  BY DEF Begin, service
<1>2. /\ pc' \in [Callers -> Stages] /\ held' \in [Callers -> TokenSet]
      /\ issuedAt' \in [Callers -> Nat] /\ reply' \in [Callers -> TokenReply]
  BY SendTypes DEF Begin, TypeOK, CallersTypeOK, Stages
<1>3. /\ pc'[c] \in {"sending", "wait"}
      /\ held'[c] = token \/ held'[c] = held[c]
      /\ pc'[c] = "sending" => held'[c] = token
      /\ \A d \in Callers : d # c => /\ pc'[d] = pc[d] /\ held'[d] = held[d]
                                    /\ issuedAt'[d] = issuedAt[d] /\ reply'[d] = reply[d]
  BY DEF Begin, SendWith, TypeOK, CallersTypeOK
<1>4. TypeOK'
  BY <1>1, <1>2 DEF TypeOK, CallersTypeOK, ServiceTypeOK
<1>5. LockCoversFetch' /\ CacheSound' /\ AnswerIsNewest'
  BY <1>1, <1>3 DEF LockCoversFetch, CacheSound, AnswerIsNewest, Fetching
<1>6. NothingAheadOfCache'
  BY <1>1, <1>3 DEF NothingAheadOfCache, TypeOK, CallersTypeOK, TokenSet
<1>7. FetchHasCause' /\ IdleIsClean' /\ ResendIsNewer'
  <2>1. Fresh(token, now)' <=> Fresh(token, now)
    BY <1>1
  <2>2. FetchHasCause'
    BY <2>1, <1>1, <1>3 DEF FetchHasCause, Fetching
  <2>3. IdleIsClean' /\ ResendIsNewer'
    BY <1>1, <1>3 DEF IdleIsClean, ResendIsNewer
  <2>. QED
    BY <2>2, <2>3
<1>. QED
  BY <1>4, <1>5, <1>6, <1>7

\* A caller under the lock adopts the cached token: after a refusal, a later one.
LEMMA AdoptKeeps ==
  ASSUME IInv, NEW c \in Callers, Adopt(c)
  PROVE  IInv'
<1>. USE DEF IInv
<1>1. /\ UNCHANGED <<now, issued, deadline, revoked, token, refused, refusals, lock>>
      /\ pc[c] = "wait" /\ Usable(c)
  BY DEF Adopt, service
<1>2. /\ pc' \in [Callers -> Stages] /\ held' \in [Callers -> TokenSet]
      /\ issuedAt' \in [Callers -> Nat] /\ reply' \in [Callers -> TokenReply]
  BY SendTypes DEF Adopt, TypeOK, CallersTypeOK
<1>3. /\ pc'[c] = "sending" /\ held'[c] = token
      /\ \A d \in Callers : d # c => /\ pc'[d] = pc[d] /\ held'[d] = held[d]
                                    /\ issuedAt'[d] = issuedAt[d] /\ reply'[d] = reply[d]
  BY DEF Adopt, SendWith, TypeOK, CallersTypeOK
<1>4. TypeOK'
  BY <1>1, <1>2 DEF TypeOK, CallersTypeOK, ServiceTypeOK
<1>5. LockCoversFetch' /\ CacheSound' /\ AnswerIsNewest'
  BY <1>1, <1>3 DEF LockCoversFetch, CacheSound, AnswerIsNewest, Fetching
<1>6. NothingAheadOfCache' /\ IdleIsClean'
  BY <1>1, <1>3 DEF NothingAheadOfCache, IdleIsClean, TypeOK, CallersTypeOK, TokenSet
<1>7. FetchHasCause'
  <2>1. Fresh(token, now)' <=> Fresh(token, now)
    BY <1>1
  <2>. QED
    BY <2>1, <1>1, <1>3 DEF FetchHasCause, Fetching
<1>8. ResendIsNewer'
  <2>1. refused[c] # 0 => token.id > refused[c]
    <3>1. refused[c] # 0 => token.id # refused[c]
      BY <1>1 DEF Usable
    <3>2. refused[c] \in Nat /\ token.id \in Nat /\ refused[c] <= token.id
      BY DEF NothingAheadOfCache, TypeOK, CallersTypeOK, TokenSet
    <3>. QED
      BY <3>1, <3>2
  <2>. QED
    BY <2>1, <1>1, <1>3 DEF ResendIsNewer
<1>. QED
  BY <1>4, <1>5, <1>6, <1>7, <1>8

\* A caller under the lock sends a token request: nobody else has one in flight.
LEMMA FetchKeeps ==
  ASSUME IInv, NEW c \in Callers, Fetch(c)
  PROVE  IInv'
<1>. USE DEF IInv
<1>1. /\ UNCHANGED <<now, issued, deadline, revoked, token, held, refused, reply, refusals>>
      /\ pc[c] = "wait" /\ ~Usable(c) /\ lock = Nobody /\ lock' = c
  BY DEF Fetch, service
<1>2. /\ pc' \in [Callers -> Stages] /\ issuedAt' \in [Callers -> Nat]
      /\ pc'[c] = "requesting" /\ issuedAt'[c] = now
      /\ \A d \in Callers : d # c => pc'[d] = pc[d] /\ issuedAt'[d] = issuedAt[d]
  BY DEF Fetch, TypeOK, CallersTypeOK, ServiceTypeOK, Stages
<1>3. TypeOK'
  BY <1>1, <1>2 DEF TypeOK, CallersTypeOK, ServiceTypeOK
<1>4. LockCoversFetch'
  BY <1>1, <1>2, NobodyAssumption DEF LockCoversFetch, Fetching
<1>5. CacheSound' /\ NothingAheadOfCache' /\ IdleIsClean' /\ ResendIsNewer'
  BY <1>1, <1>2 DEF CacheSound, NothingAheadOfCache, IdleIsClean, ResendIsNewer
<1>6. AnswerIsNewest'
  BY <1>1, <1>2 DEF AnswerIsNewest, TypeOK, CallersTypeOK, ServiceTypeOK
<1>7. FetchHasCause'
  <2>1. ~Fresh(token, now) \/ token.id \in refusals
    <3>1. CASE refused[c] = 0
      BY <3>1, <1>1 DEF Usable
    <3>2. CASE refused[c] # 0
      <4>1. token.id \in {0, refused[c]}
        BY <3>2, <1>1 DEF Usable
      <4>. QED
        BY <3>2, <4>1 DEF FetchHasCause, Fresh
    <3>. QED
      BY <3>1, <3>2
  <2>2. Fresh(token, now)' <=> Fresh(token, now)
    BY <1>1
  <2>. QED
    BY <2>1, <2>2, <1>1, <1>2 DEF FetchHasCause, Fetching
<1>. QED
  BY <1>3, <1>4, <1>5, <1>6, <1>7

\* The answer of the one token request is stored, as the newest token.
LEMMA StoreKeeps ==
  ASSUME IInv, NEW c \in Callers, Store(c)
  PROVE  IInv'
<1>. USE DEF IInv
<1>1. /\ UNCHANGED <<now, issued, deadline, revoked, refused, refusals>>
      /\ pc[c] = "answered" /\ lock' = Nobody
      /\ token' = TokenFrom(reply[c], issuedAt[c])
  BY DEF Store, service
<1>2. token' \in TokenSet
  BY <1>1, TokenFromType DEF TypeOK, CallersTypeOK
<1>3. /\ pc' \in [Callers -> Stages] /\ held' \in [Callers -> TokenSet]
      /\ issuedAt' \in [Callers -> Nat] /\ reply' \in [Callers -> TokenReply]
  BY <1>2, SendTypes DEF Store, TypeOK
<1>4. /\ pc'[c] = "sending" /\ held'[c] = token'
      /\ \A d \in Callers : d # c => /\ pc'[d] = pc[d] /\ held'[d] = held[d]
                                    /\ issuedAt'[d] = issuedAt[d] /\ reply'[d] = reply[d]
  BY DEF Store, SendWith, TypeOK, CallersTypeOK
<1>5. /\ token'.id = issued
      /\ token.id < token'.id
      /\ token'.expiresAt <= deadline[issued]
  BY <1>1 DEF AnswerIsNewest, TokenFrom
<1>6. \A d \in Callers : Fetching(d) => d = c
  BY <1>1 DEF LockCoversFetch, Fetching
<1>7. \A d \in Callers : ~Fetching(d)'
  BY <1>4, <1>6 DEF Fetching
<1>8. TypeOK'
  BY <1>1, <1>2, <1>3 DEF TypeOK, CallersTypeOK, ServiceTypeOK
<1>9. LockCoversFetch' /\ FetchHasCause'
  <2>1. LockCoversFetch'
    BY <1>1, <1>7, NobodyAssumption DEF LockCoversFetch
  <2>2. FetchHasCause'
    BY <1>1, <1>7 DEF FetchHasCause
  <2>. QED
    BY <2>1, <2>2
<1>10. CacheSound'
  BY <1>1, <1>5 DEF CacheSound, TypeOK, CallersTypeOK, ServiceTypeOK
<1>11. AnswerIsNewest'
  BY <1>7 DEF AnswerIsNewest, Fetching
<1>12. NothingAheadOfCache'
  BY <1>1, <1>2, <1>4, <1>5 DEF NothingAheadOfCache, TypeOK, CallersTypeOK, TokenSet
<1>13. IdleIsClean'
  BY <1>1, <1>4 DEF IdleIsClean
<1>14. ResendIsNewer'
  <2>1. token'.id > refused[c]
    BY <1>2, <1>5 DEF NothingAheadOfCache, TypeOK, CallersTypeOK, TokenSet
  <2>. QED
    BY <2>1, <1>1, <1>4 DEF ResendIsNewer
<1>. QED
  BY <1>8, <1>9, <1>10, <1>11, <1>12, <1>13, <1>14

\* A call that ends leaves the cache, the lock of others and their requests alone.
LEMMA HomeKeeps ==
  ASSUME IInv, NEW c \in Callers, Home(c),
         UNCHANGED <<service, token>>,
         refusals \subseteq refusals', refusals' \subseteq Nat,
         lock' = IF lock = c THEN Nobody ELSE lock
  PROVE  IInv'
<1>. USE DEF IInv
<1>1. UNCHANGED <<now, issued, deadline, revoked, token>>
  BY DEF service
<1>2. /\ pc'[c] = "idle" /\ held'[c].id = 0 /\ refused'[c] = 0
      /\ \A d \in Callers : d # c =>
           /\ pc'[d] = pc[d] /\ held'[d] = held[d] /\ refused'[d] = refused[d]
           /\ issuedAt'[d] = issuedAt[d] /\ reply'[d] = reply[d]
  BY DEF Home, NoToken, TypeOK, CallersTypeOK
<1>3. TypeOK'
  BY <1>1, HomeTypes DEF TypeOK, CallersTypeOK, ServiceTypeOK
<1>4. LockCoversFetch'
  BY <1>2, NobodyAssumption DEF LockCoversFetch, Fetching
<1>5. CacheSound' /\ AnswerIsNewest'
  BY <1>1, <1>2 DEF CacheSound, AnswerIsNewest
<1>6. NothingAheadOfCache' /\ IdleIsClean' /\ ResendIsNewer'
  BY <1>1, <1>2
  DEF NothingAheadOfCache, IdleIsClean, ResendIsNewer, TypeOK, CallersTypeOK, TokenSet
<1>7. FetchHasCause'
  <2>1. Fresh(token, now)' <=> Fresh(token, now)
    BY <1>1
  <2>. QED
    BY <2>1, <1>1, <1>2 DEF FetchHasCause, Fetching
<1>. QED
  BY <1>3, <1>4, <1>5, <1>6, <1>7

\* The four ways a call ends.
LEMMA EndingsKeep ==
  ASSUME IInv, NEW c \in Callers, FetchFails(c) \/ SecondRefusal(c) \/ End(c)
  PROVE  IInv'
<1>. USE DEF IInv
<1>1. CASE FetchFails(c)
  <2>1. lock = c
    BY <1>1 DEF FetchFails, LockCoversFetch
  <2>. QED
    BY <1>1, <2>1, HomeKeeps DEF FetchFails, TypeOK, CallersTypeOK
<1>2. CASE SecondRefusal(c) \/ End(c)
  <2>1. lock # c
    BY <1>2 DEF SecondRefusal, End, LockCoversFetch, Fetching
  <2>2. /\ Home(c) /\ UNCHANGED <<service, token, lock>>
        /\ refusals \subseteq refusals' /\ refusals' \subseteq Nat
    BY <1>2 DEF SecondRefusal, End, TypeOK, CallersTypeOK, TokenSet
  <2>. QED
    BY <2>1, <2>2, HomeKeeps
<1>. QED
  BY <1>1, <1>2

\* The gateway refuses a first send: the refusal is on record before the caller waits.
LEMMA RefusedKeeps ==
  ASSUME IInv, NEW c \in Callers, Refused(c)
  PROVE  IInv'
<1>. USE DEF IInv
<1>1. /\ UNCHANGED <<now, issued, deadline, revoked, token, held, issuedAt, reply, lock>>
      /\ pc[c] = "sending"
      /\ refusals' = refusals \union {held[c].id}
  BY DEF Refused, service
<1>2. /\ pc'[c] = "wait" /\ refused'[c] = held[c].id
      /\ \A d \in Callers : d # c => pc'[d] = pc[d] /\ refused'[d] = refused[d]
  BY DEF Refused, TypeOK, CallersTypeOK
<1>3. TypeOK'
  BY <1>1 DEF Refused, TypeOK, CallersTypeOK, ServiceTypeOK, TokenSet, Stages
<1>4. LockCoversFetch' /\ CacheSound' /\ AnswerIsNewest'
  BY <1>1, <1>2 DEF LockCoversFetch, CacheSound, AnswerIsNewest, Fetching
<1>5. NothingAheadOfCache' /\ IdleIsClean' /\ ResendIsNewer'
  BY <1>1, <1>2 DEF NothingAheadOfCache, IdleIsClean, ResendIsNewer
<1>6. FetchHasCause'
  <2>1. Fresh(token, now)' <=> Fresh(token, now)
    BY <1>1
  <2>. QED
    BY <2>1, <1>1, <1>2 DEF FetchHasCause, Fetching
<1>. QED
  BY <1>3, <1>4, <1>5, <1>6

\* The invariant is inductive.
LEMMA StepInvariant == IInv /\ [Next]_vars => IInv'
<1>1. ASSUME IInv, UNCHANGED vars
      PROVE  IInv'
  <2>1. Fresh(token, now)' <=> Fresh(token, now)
    BY <1>1 DEF vars, service
  <2>. QED
    BY <1>1, <2>1
    DEF vars, service, callers, IInv, TypeOK, CallersTypeOK, ServiceTypeOK, LockCoversFetch,
        CacheSound, AnswerIsNewest, NothingAheadOfCache, IdleIsClean, FetchHasCause,
        ResendIsNewer, Fetching
<1>2. ASSUME IInv, Next
      PROVE  IInv'
  <2>1. CASE Platform
    BY <1>2, <2>1, PlatformStepKeeps, ServeKeeps DEF Platform
  <2>2. ASSUME NEW c \in Callers, CallerStep(c)
        PROVE  IInv'
    BY <1>2, <2>2, BeginKeeps, AdoptKeeps, FetchKeeps, StoreKeeps, EndingsKeep, RefusedKeeps
    DEF CallerStep, Acquire, FetchEnds
  <2>. QED
    BY <1>2, <2>1, <2>2 DEF Next
<1>. QED
  BY <1>1, <1>2

\* The inductive invariant holds of every state the manager reaches.
THEOREM Invariance == Spec => []IInv
BY InitInvariant, StepInvariant, PTL DEF Spec

\* Whatever the number of callers, at most one token request is in flight.
THEOREM OneFlight == Spec => []SingleFlight
<1>1. IInv => SingleFlight
  BY DEF IInv, LockCoversFetch, SingleFlight
<1>. QED
  BY <1>1, Invariance, PTL

\* The resend after a 401 always carries a token issued later than the refused one.
THEOREM ResendsWithNewerToken == Spec => []ResendIsNewer
<1>1. IInv => ResendIsNewer
  BY DEF IInv
<1>. QED
  BY <1>1, Invariance, PTL

-------------------------------------------------------------------------------
(* The action properties: only Store changes the cached token. *)

\* Steps of a caller other than Store keep the cached token.
LEMMA OnlyStoreReplaces ==
  ASSUME IInv, [Next]_vars, token' # token
  PROVE  \E c \in Callers : Store(c)
BY DEF Next, Platform, PlatformStep, Serve, CallerStep, Begin, Acquire, Adopt, Fetch, FetchEnds,
       FetchFails, Refused, SecondRefusal, End, vars

\* A late answer never takes the cache back to an earlier token.
THEOREM CacheMovesForward == Spec => OnlyForward
<1>1. ASSUME IInv, [Next]_vars
      PROVE  [token' # token => token'.id > token.id]_token
  <2>1. SUFFICES ASSUME token' # token
                 PROVE  token'.id > token.id
    OBVIOUS
  <2>2. PICK c \in Callers : Store(c)
    BY <1>1, <2>1, OnlyStoreReplaces
  <2>3. token'.id = issued /\ token.id < issued
    BY <1>1, <2>2 DEF Store, TokenFrom, IInv, AnswerIsNewest
  <2>4. token.id \in Nat /\ issued \in Nat
    BY <1>1, ServiceAssumption DEF IInv, TypeOK, CallersTypeOK, ServiceTypeOK, TokenSet
  <2>. QED
    BY <2>3, <2>4
<1>. QED
  BY <1>1, Invariance, PTL DEF Spec, OnlyForward

\* A token is replaced only when it is due or the gateway has refused it.
THEOREM NoNeedlessMint == Spec => ReplacedOnlyWithCause
<1>1. ASSUME IInv, [Next]_vars
      PROVE  [token.id # 0 /\ token' # token
                => NeedsRefresh(token, now) \/ token.id \in refusals]_token
  <2>1. SUFFICES ASSUME token.id # 0, token' # token
                 PROVE  NeedsRefresh(token, now) \/ token.id \in refusals
    OBVIOUS
  <2>2. PICK c \in Callers : Store(c)
    BY <1>1, <2>1, OnlyStoreReplaces
  <2>3. Fetching(c)
    BY <2>2 DEF Store, Fetching
  <2>. QED
    BY <1>1, <2>1, <2>3 DEF IInv, FetchHasCause, Fresh
<1>. QED
  BY <1>1, Invariance, PTL DEF Spec, ReplacedOnlyWithCause

\* The manager's and the callers' variables keep their types.
THEOREM Types == Spec => []TypeOK
<1>1. IInv => TypeOK
  BY DEF IInv
<1>. QED
  BY <1>1, Invariance, PTL

\* The lock is held exactly while its holder's token request is in flight.
THEOREM LockNeverLeaks == Spec => []LockCoversFetch
<1>1. IInv => LockCoversFetch
  BY DEF IInv
<1>. QED
  BY <1>1, Invariance, PTL

\* Fresh by the client's reckoning is live by the server's: a sound cache holds no token that
\* the client believes in for longer.
LEMMA FreshIsLive ==
  ASSUME CallersTypeOK, CacheSound, Fresh(token, now)
  PROVE  now < deadline[token.id]
<1>1. now < token.expiresAt
  BY FreshHasTimeLeft DEF Fresh, CallersTypeOK, ServiceTypeOK
<1>2. token.expiresAt <= deadline[token.id]
  BY DEF Fresh, CacheSound
<1>3. token.id \in Tokens
  BY ServiceAssumption DEF Fresh, CacheSound, CallersTypeOK, ServiceTypeOK, TokenSet, Tokens
<1>4. now \in Nat /\ token.expiresAt \in Nat /\ deadline[token.id] \in Nat
  BY <1>3 DEF CallersTypeOK, ServiceTypeOK, TokenSet
<1>. QED
  BY <1>1, <1>2, <1>4

\* A first send that takes the cached token takes a live one.
LEMMA FirstSendIsLive ==
  ASSUME IInv, [Next]_vars, NEW c \in Callers,
         pc[c] # "sending", pc'[c] = "sending", refused[c] = 0, ~Fetching(c)
  PROVE  now < deadline[held'[c].id]
<1>1. Begin(c) \/ Adopt(c)
  <2>1. pc \in [Callers -> Stages]
    BY DEF IInv, TypeOK, CallersTypeOK
  <2>. QED
    BY <2>1
    DEF Next, Platform, PlatformStep, callers, Serve, CallerStep, Begin, Acquire, Adopt, Fetch,
        FetchEnds, Store, FetchFails, Refused, SecondRefusal, End, Home, SendWith, vars,
        Fetching
<1>2. Fresh(token, now) /\ held'[c] = token
  BY <1>1 DEF Begin, Adopt, Usable, SendWith, IInv, TypeOK, CallersTypeOK
<1>. QED
  BY <1>2, FreshIsLive DEF IInv, TypeOK

\* A token taken from the cache for a first send is still good by the server's clock.
THEOREM CachedTokensAreLive == Spec => NeverKnowinglyExpired
<1>1. IInv /\ [Next]_vars
        => [\A c \in Callers :
              pc[c] # "sending" /\ pc'[c] = "sending" /\ refused[c] = 0
                /\ ~Fetching(c) /\ token' = token
                => now < deadline[held'[c].id]]_<<pc, held>>
  BY FirstSendIsLive
<1>. QED
  BY <1>1, Invariance, PTL DEF Spec, NeverKnowinglyExpired

-------------------------------------------------------------------------------
(* The manager implements the single-flight token cache: Fetch is Cache!Request,  *)
(* Store is Cache!Answer, FetchFails is Cache!Fail; time, revocations and refusals *)
(* are Cache!FallDue or stutter, and so is everything else.                        *)

\* Every step of a caller or the platform is a step of the abstract cache (request, answer,
\* failure, falling due) or leaves it unchanged.
LEMMA StepRefines ==
  ASSUME IInv, [Next]_vars
  PROVE  [Cache!CacheNext]_(Cache!cache)
<1>. DEFINE due == ~Fresh(token, now) \/ token.id \in refusals
            requesting == \E c \in Callers : Fetching(c)
<1>1. ASSUME NEW c \in Callers, Fetch(c)
      PROVE  Cache!Request
  <2>1. ~requesting
    BY <1>1, NobodyAssumption DEF IInv, LockCoversFetch, Fetch
  <2>2. requesting'
    BY <1>1 DEF Fetch, Fetching, IInv, TypeOK, CallersTypeOK
  <2>3. due /\ UNCHANGED <<token, now, refusals>>
    <3>1. Fetching(c)' /\ FetchHasCause'
      BY <1>1, FetchKeeps DEF Fetch, Fetching, IInv, TypeOK, CallersTypeOK
    <3>2. UNCHANGED <<token, now, refusals>>
      BY <1>1 DEF Fetch, service
    <3>3. (~Fresh(token, now) \/ token.id \in refusals)'
      BY <3>1 DEF FetchHasCause
    <3>4. Fresh(token, now)' <=> Fresh(token, now)
      BY <3>2
    <3>. QED
      BY <3>2, <3>3, <3>4
  <2>4. Fresh(token, now)' <=> Fresh(token, now)
    BY <2>3
  <2>. QED
    BY <2>1, <2>2, <2>3, <2>4 DEF Cache!Request
<1>2. ASSUME NEW c \in Callers, Store(c)
      PROVE  Cache!Answer
  <2>1. requesting
    BY <1>2 DEF Store, Fetching
  <2>2. ~requesting'
    <3>1. \A d \in Callers : Fetching(d) => d = c
      BY <1>2 DEF IInv, LockCoversFetch, Store, Fetching
    <3>. QED
      BY <1>2, <3>1 DEF Store, SendWith, Fetching, IInv, TypeOK, CallersTypeOK
  <2>3. token'.id = issued /\ token.id < issued /\ issued \in Nat
    BY <1>2, ServiceAssumption
    DEF Store, TokenFrom, IInv, AnswerIsNewest, TypeOK, CallersTypeOK, ServiceTypeOK
  <2>. QED
    BY <2>1, <2>2, <2>3 DEF Cache!Answer
<1>3. ASSUME NEW c \in Callers, FetchFails(c)
      PROVE  Cache!Fail
  <2>1. requesting
    BY <1>3 DEF FetchFails
  <2>2. ~requesting'
    <3>1. \A d \in Callers : Fetching(d) => d = c
      BY <1>3 DEF IInv, LockCoversFetch, FetchFails
    <3>. QED
      BY <1>3, <3>1 DEF FetchFails, Home, Fetching, IInv, TypeOK, CallersTypeOK
  <2>3. UNCHANGED <<token, now, refusals>>
    BY <1>3 DEF FetchFails, service
  <2>4. Fresh(token, now)' <=> Fresh(token, now)
    BY <2>3
  <2>. QED
    BY <2>1, <2>2, <2>3, <2>4 DEF Cache!Fail
<1>4. ASSUME token' = token, requesting' = requesting, due => due'
      PROVE  Cache!FallDue \/ UNCHANGED Cache!cache
  BY <1>4 DEF Cache!FallDue, Cache!cache
<1>5. ASSUME NEW c \in Callers,
             Begin(c) \/ Adopt(c) \/ Refused(c) \/ SecondRefusal(c) \/ End(c) \/ Serve(c)
      PROVE  token' = token /\ requesting' = requesting /\ (due => due')
  <2>1. UNCHANGED <<token, now>> /\ refusals \subseteq refusals'
    BY <1>5 DEF Begin, Adopt, Refused, SecondRefusal, End, Serve, Issue, service
  <2>2. \A d \in Callers : Fetching(d)' <=> Fetching(d)
    BY <1>5
    DEF Begin, Adopt, Refused, SecondRefusal, End, Serve, Home, SendWith, Fetching,
        IInv, TypeOK, CallersTypeOK
  <2>3. Fresh(token, now)' <=> Fresh(token, now)
    BY <2>1
  <2>. QED
    BY <2>1, <2>2, <2>3
<1>6. ASSUME PlatformStep
      PROVE  token' = token /\ requesting' = requesting /\ (due => due')
  <2>1. UNCHANGED <<token, pc, refusals>>
    BY <1>6 DEF PlatformStep, callers
  <2>2. now' \in Nat /\ now \in Nat /\ now <= now' /\ token \in TokenSet
    BY <1>6
    DEF PlatformStep, Tick, Revoke, IInv, TypeOK, CallersTypeOK, ServiceTypeOK
  <2>3. ~Fresh(token, now) => ~Fresh(token, now')
    BY <2>2, DueStaysDue DEF Fresh
  <2>4. Fresh(token, now)' <=> Fresh(token, now')
    BY <2>1
  <2>. QED
    BY <2>1, <2>3, <2>4 DEF Fetching
<1>7. CASE UNCHANGED vars
  <2>1. UNCHANGED <<token, now, refusals, pc>>
    BY <1>7 DEF vars, service, callers
  <2>2. Fresh(token, now)' <=> Fresh(token, now)
    BY <2>1
  <2>. QED
    BY <2>1, <2>2 DEF Cache!cache, Fetching
<1>8. CASE Next
  <2>1. \/ PlatformStep
        \/ \E c \in Callers : \/ Fetch(c) \/ Store(c) \/ FetchFails(c)
                             \/ Begin(c) \/ Adopt(c) \/ Refused(c) \/ SecondRefusal(c)
                             \/ End(c) \/ Serve(c)
    BY <1>8 DEF Next, Platform, CallerStep, Acquire, FetchEnds
  <2>. HIDE DEF due, requesting
  <2>. QED
    BY <2>1, <1>1, <1>2, <1>3, <1>4, <1>5, <1>6 DEF Cache!CacheNext
<1>. QED
  BY <1>7, <1>8

\* There is no token at first, and no request for one.
LEMMA InitRefines == Init => Cache!CacheInit
<1>. SUFFICES ASSUME Init PROVE Cache!CacheInit
  OBVIOUS
<1>. QED
  BY DEF Init, CallersInit, NoToken, Cache!CacheInit, Fresh, Fetching

\* The manager implements the abstract token cache.
THEOREM Refinement == Spec => ImplementsTokenCache
<1>1. IInv /\ [Next]_vars => [Cache!CacheNext]_(Cache!cache)
  BY StepRefines
<1>. QED
  BY <1>1, InitRefines, Invariance, PTL DEF Spec, ImplementsTokenCache, Cache!CacheSpec

-------------------------------------------------------------------------------
(* Go.  `Go` is that program over the state of this module. *)

\* The two managers start in one state.
LEMMA GoStartsAlike == Go!Init => Init
BY DEF Init, Go!Init, CallersInit, Go!CallersInit, ServiceInit, Go!ServiceInit, NoToken,
       Go!NoToken, NoReply, Go!NoReply, Tokens, Go!Tokens

\* A goroutine goes to wait for the mutex without a look at the token, and disturbs nothing.
LEMMA GoBeginKeeps ==
  ASSUME IInv, NEW c \in Callers, Go!Begin(c)
  PROVE  IInv'
<1>. USE DEF IInv
<1>1. /\ UNCHANGED <<now, issued, deadline, revoked, token, held, refused, issuedAt, reply,
                     refusals, lock>>
      /\ pc[c] = "idle" /\ pc'[c] = "wait" /\ pc' \in [Callers -> Stages]
      /\ \A d \in Callers : d # c => pc'[d] = pc[d]
  BY DEF Go!Begin, Go!service, TypeOK, CallersTypeOK, Stages
<1>2. TypeOK' /\ LockCoversFetch' /\ CacheSound' /\ AnswerIsNewest'
  BY <1>1
  DEF TypeOK, CallersTypeOK, ServiceTypeOK, LockCoversFetch, CacheSound, AnswerIsNewest,
      Fetching
<1>3. NothingAheadOfCache' /\ IdleIsClean' /\ ResendIsNewer'
  BY <1>1 DEF NothingAheadOfCache, IdleIsClean, ResendIsNewer
<1>4. FetchHasCause'
  <2>1. Fresh(token, now)' <=> Fresh(token, now)
    BY <1>1
  <2>. QED
    BY <2>1, <1>1 DEF FetchHasCause, Fetching
<1>. QED
  BY <1>2, <1>3, <1>4

\* The steps under the mutex are those under the lock.
LEMMA GoLockSteps ==
  ASSUME NEW c \in Callers
  PROVE  /\ Go!Take(c) => Adopt(c)
         /\ Go!FetchLocked(c) => Fetch(c)
         /\ Go!Store(c) => Store(c)
         /\ Go!FetchFails(c) => FetchFails(c)
<1>. USE DEF service, Go!service, Usable, Go!Usable, Fresh, Go!Fresh, NeedsRefresh,
             Go!NeedsRefresh, Remaining, Go!Remaining
<1>1. Go!Take(c) => Adopt(c)
  BY DEF Adopt, Go!Take, SendWith, Go!SendWith, NoReply, Go!NoReply
<1>2. Go!FetchLocked(c) => Fetch(c)
  BY DEF Fetch, Go!FetchLocked
<1>3. Go!Store(c) => Store(c)
  BY DEF Store, Go!Store, SendWith, Go!SendWith, NoReply, Go!NoReply, TokenFrom, Go!TokenFrom,
         Lifetime, Go!Lifetime, EffectiveLifetime, Go!EffectiveLifetime, Shorter, Go!Shorter
<1>4. Go!FetchFails(c) => FetchFails(c)
  BY DEF FetchFails, Go!FetchFails, Fetching, Go!Fetching, Home, Go!Home, NoToken, Go!NoToken,
         NoReply, Go!NoReply
<1>. QED
  BY <1>1, <1>2, <1>3, <1>4

\* The ways a request comes back are the same.
LEMMA GoSendEnds ==
  ASSUME NEW c \in Callers, Go!SendEnds(c)
  PROVE  CallerStep(c)
<1>. USE DEF service, Go!service, Refuses, Go!Refuses, Home, Go!Home, NoToken, Go!NoToken,
             NoReply, Go!NoReply
<1>1. Go!Refused(c) => Refused(c)
  BY DEF Refused, Go!Refused
<1>2. Go!SecondRefusal(c) => SecondRefusal(c)
  BY DEF SecondRefusal, Go!SecondRefusal
<1>3. Go!End(c) => End(c)
  BY DEF End, Go!End
<1>. QED
  BY <1>1, <1>2, <1>3 DEF Go!SendEnds, CallerStep

\* The platform is the same.
LEMMA GoPlatform == Go!Platform => Platform
<1>. USE DEF service, Go!service, callers, Go!callers, Tokens, Go!Tokens
<1>1. Go!PlatformStep => PlatformStep
  BY DEF PlatformStep, Go!PlatformStep, Tick, Go!Tick, Revoke, Go!Revoke
<1>2. ASSUME NEW c \in Callers, Go!Serve(c)
      PROVE  Serve(c)
  BY <1>2 DEF Serve, Go!Serve, Replies, Go!Replies, Issue, Go!Issue
<1>. QED
  BY <1>1, <1>2 DEF Platform, Go!Platform

\* So every step is a step of the Python manager, or a Begin.
LEMMA GoSteps ==
  ASSUME [Go!Next]_(Go!vars)
  PROVE  [Next]_vars \/ \E c \in Callers : Go!Begin(c)
<1>1. CASE UNCHANGED Go!vars
  BY <1>1 DEF vars, Go!vars, service, Go!service, callers, Go!callers
<1>2. CASE Go!Platform
  BY <1>2, GoPlatform DEF Next
<1>3. ASSUME NEW c \in Callers, Go!Lock(c) \/ Go!FetchEnds(c) \/ Go!SendEnds(c)
      PROVE  Next
  <2>1. CallerStep(c)
    BY <1>3, GoLockSteps, GoSendEnds DEF Go!Lock, Go!FetchEnds, CallerStep, Acquire, FetchEnds
  <2>. QED
    BY <2>1 DEF Next
<1>. QED
  BY <1>1, <1>2, <1>3 DEF Go!Next

\* In Go too the mutex covers the fetch, the cache moves forward, and the resend after a 401
\* carries a token later than the refused one, whatever the number of goroutines.
THEOREM GoInvariance == Go!Spec => []IInv
<1>1. IInv /\ [Go!Next]_(Go!vars) => IInv'
  BY GoSteps, StepInvariant, GoBeginKeeps
<1>. QED
  BY <1>1, GoStartsAlike, InitInvariant, PTL DEF Go!Spec

\* Go's manager implements the single-flight token cache too: for the abstract cache, a
\* Begin is no step at all.
THEOREM GoRefinement == Go!Spec => ImplementsTokenCache
<1>1. ASSUME IInv, NEW c \in Callers, Go!Begin(c)
      PROVE  UNCHANGED Cache!cache
  <2>1. UNCHANGED <<token, now, refusals>>
    BY <1>1 DEF Go!Begin, Go!service
  <2>2. \A d \in Callers : Fetching(d)' <=> Fetching(d)
    BY <1>1 DEF Go!Begin, Fetching, IInv, TypeOK, CallersTypeOK
  <2>3. Fresh(token, now)' <=> Fresh(token, now)
    BY <2>1
  <2>. QED
    BY <2>1, <2>2, <2>3 DEF Cache!cache
<1>2. IInv /\ [Go!Next]_(Go!vars) => [Cache!CacheNext]_(Cache!cache)
  BY <1>1, GoSteps, StepRefines
<1>3. Go!Init => Cache!CacheInit
  BY GoStartsAlike, InitRefines
<1>. QED
  BY <1>2, <1>3, GoInvariance, PTL DEF Go!Spec, ImplementsTokenCache, Cache!CacheSpec

\* In Go as in Python a first send from the cache takes a token the server still accepts: a
\* Begin sends nothing.
THEOREM GoCachedTokensAreLive == Go!Spec => NeverKnowinglyExpired
<1>1. ASSUME IInv, NEW b \in Callers, Go!Begin(b), NEW c \in Callers
      PROVE  pc'[c] = "sending" => pc'[c] = pc[c]
  BY <1>1 DEF Go!Begin, IInv, TypeOK, CallersTypeOK
<1>2. IInv /\ [Go!Next]_(Go!vars)
        => [\A c \in Callers :
              pc[c] # "sending" /\ pc'[c] = "sending" /\ refused[c] = 0
                /\ ~Fetching(c) /\ token' = token
                => now < deadline[held'[c].id]]_<<pc, held>>
  BY <1>1, GoSteps, FirstSendIsLive
<1>. QED
  BY <1>2, GoInvariance, PTL DEF Go!Spec, NeverKnowinglyExpired

-------------------------------------------------------------------------------
(* Rust.  `Rust` is that program over the state of this module, the lock apart. *)

\* A sent token was issued, and it is not the one this caller was refused with.
LEMMA RustSendKeeps ==
  ASSUME LockFreeInv, NEW c \in Callers, NEW t \in TokenSet, SendWith(c, t),
         t.id <= issued, t.id # refused[c],
         UNCHANGED <<service, refused, refusals>>, token' \in TokenSet, CacheSound'
  PROVE  LockFreeInv'
<1>. USE DEF LockFreeInv
<1>1. UNCHANGED <<now, issued, deadline, revoked, refused, refusals>>
  BY DEF service
<1>2. /\ pc'[c] = "sending" /\ held'[c] = t
      /\ \A d \in Callers : d # c => /\ pc'[d] = pc[d] /\ held'[d] = held[d]
                                    /\ issuedAt'[d] = issuedAt[d] /\ reply'[d] = reply[d]
  BY DEF SendWith, CallersTypeOK
<1>3. CallersTypeOK'
  BY <1>1, SendTypes DEF CallersTypeOK, ServiceTypeOK
<1>4. AnswersAreNewer' /\ HeldWereIssued' /\ IdleIsClean' /\ ReplayDiffers'
  BY <1>1, <1>2 DEF AnswersAreNewer, HeldWereIssued, IdleIsClean, ReplayDiffers
<1>. QED
  BY <1>3, <1>4

\* A call that ends leaves the requests of the others alone.
LEMMA RustHomeKeeps ==
  ASSUME LockFreeInv, NEW c \in Callers, Home(c), UNCHANGED <<service, token>>,
         refusals' \subseteq Nat
  PROVE  LockFreeInv'
<1>. USE DEF LockFreeInv
<1>1. UNCHANGED <<now, issued, deadline, revoked, token>>
  BY DEF service
<1>2. /\ pc'[c] = "idle" /\ held'[c].id = 0 /\ refused'[c] = 0
      /\ \A d \in Callers : d # c =>
           /\ pc'[d] = pc[d] /\ held'[d] = held[d] /\ refused'[d] = refused[d]
           /\ issuedAt'[d] = issuedAt[d] /\ reply'[d] = reply[d]
  BY DEF Home, NoToken, CallersTypeOK
<1>3. CallersTypeOK' /\ CacheSound'
  BY <1>1, HomeTypes DEF CallersTypeOK, ServiceTypeOK, CacheSound
<1>4. AnswersAreNewer' /\ IdleIsClean' /\ ReplayDiffers'
  BY <1>1, <1>2 DEF AnswersAreNewer, IdleIsClean, ReplayDiffers
<1>5. HeldWereIssued'
  BY <1>1, <1>2, ServiceAssumption DEF HeldWereIssued, CallersTypeOK, ServiceTypeOK
<1>. QED
  BY <1>3, <1>4, <1>5

\* The clock, revocations and the token endpoint: an answer is to a request sent after the
\* refusal, so its token is newer than the refused one.
LEMMA RustPlatformKeeps ==
  ASSUME LockFreeInv, Rust!Platform
  PROVE  LockFreeInv'
<1>. USE DEF LockFreeInv
<1>1. CASE Rust!PlatformStep
  <2>1. /\ now' \in Nat /\ now <= now'
        /\ UNCHANGED <<issued, deadline, token, callers>>
        /\ revoked' \subseteq 1..issued
    <3>1. UNCHANGED <<token, callers>>
      BY <1>1 DEF Rust!PlatformStep, Rust!callers, callers
    <3>2. CASE Rust!Tick
      BY <3>1, <3>2 DEF Rust!Tick, CallersTypeOK, ServiceTypeOK
    <3>3. CASE \E i \in Rust!Tokens : Rust!Revoke(i)
      BY <3>1, <3>3 DEF Rust!Revoke, CallersTypeOK, ServiceTypeOK
    <3>. QED
      BY <1>1, <3>2, <3>3 DEF Rust!PlatformStep
  <2>. QED
    BY <2>1
    DEF callers, CallersTypeOK, ServiceTypeOK, CacheSound, AnswersAreNewer, HeldWereIssued,
        IdleIsClean, ReplayDiffers
<1>2. ASSUME NEW c \in Callers, Rust!Serve(c)
      PROVE  LockFreeInv'
  <2>1. PICK r \in Replies : Issue(r) /\ reply' = [reply EXCEPT ![c] = r]
    BY <1>2 DEF Rust!Serve, Rust!Replies, Replies, Rust!Issue, Issue
  <2>2. ServiceTypeOK
    BY DEF CallersTypeOK
  <2>3. /\ r \in TokenReply /\ r.id = issued + 1
        /\ issued \in Nat /\ issued' = issued + 1
        /\ \A i \in 1..issued : deadline'[i] = deadline[i]
        /\ ServiceTypeOK'
        /\ \A at \in Nat : at <= now => at + Lifetime(r) <= deadline'[issued + 1]
    BY <2>1, <2>2, MintedToken
  <2>4. /\ UNCHANGED <<token, held, refused, issuedAt, refusals, now>>
        /\ pc[c] = "requesting" /\ pc' = [pc EXCEPT ![c] = "answered"]
    BY <1>2, <2>1 DEF Rust!Serve, Issue
  <2>5. CallersTypeOK'
    BY <2>1, <2>3, <2>4 DEF CallersTypeOK, Stages
  <2>6. CacheSound' /\ HeldWereIssued' /\ IdleIsClean' /\ ReplayDiffers'
    <3>1. token.id \in Nat /\ token.id <= issued
      BY DEF CacheSound, CallersTypeOK, TokenSet
    <3>2. CacheSound'
      BY <3>1, <2>3, <2>4 DEF CacheSound
    <3>3. IdleIsClean' /\ ReplayDiffers'
      BY <2>4 DEF IdleIsClean, ReplayDiffers, CallersTypeOK
    <3>4. \A d \in Callers : held[d].id \in Nat /\ refused[d] \in Nat
      BY DEF CallersTypeOK, TokenSet
    <3>5. HeldWereIssued'
      BY <3>4, <2>3, <2>4 DEF HeldWereIssued
    <3>. QED
      BY <3>2, <3>3, <3>5
  <2>7. AnswersAreNewer'
    <3>1. SUFFICES ASSUME NEW d \in Callers
                   PROVE  /\ pc'[d] = "requesting" => issuedAt'[d] <= now'
                          /\ pc'[d] = "answered" =>
                               /\ reply'[d].id \in 1..issued'
                               /\ reply'[d].id > refused'[d]
                               /\ issuedAt'[d] + Lifetime(reply'[d]) <= deadline'[reply'[d].id]
      BY DEF AnswersAreNewer
    <3>2. CASE d = c
      <4>1. reply'[c] = r /\ pc'[c] = "answered"
        BY <2>1, <2>4 DEF CallersTypeOK
      <4>2. issuedAt[c] + Lifetime(r) <= deadline'[issued + 1]
        BY <2>3, <2>4 DEF AnswersAreNewer, CallersTypeOK
      <4>3. refused[c] <= issued /\ refused[c] \in Nat
        BY DEF HeldWereIssued, CallersTypeOK
      <4>. QED
        BY <3>2, <4>1, <4>2, <4>3, <2>3, <2>4
    <3>3. CASE d # c
      <4>1. reply'[d] = reply[d] /\ pc'[d] = pc[d]
        BY <3>3, <2>1, <2>4 DEF CallersTypeOK
      <4>. QED
        BY <4>1, <2>3, <2>4 DEF AnswersAreNewer
    <3>. QED
      BY <3>2, <3>3
  <2>. QED
    BY <2>5, <2>6, <2>7
<1>. QED
  BY <1>1, <1>2 DEF Rust!Platform

\* A task that takes the cached token, or stores an answer, sends another than the refused.
LEMMA RustObtainKeeps ==
  ASSUME LockFreeInv, NEW c \in Callers, Rust!Take(c) \/ Rust!Store(c)
  PROVE  LockFreeInv'
<1>. USE DEF LockFreeInv
<1>. USE DEF Rust!service, service, Rust!SendWith, SendWith, Rust!NoReply, NoReply
<1>1. CASE Rust!Take(c)
  <2>1. SendWith(c, token) /\ UNCHANGED <<service, token, refused, refusals>>
    BY <1>1 DEF Rust!Take
  <2>2. token.id # refused[c]
    BY <1>1 DEF Rust!Take, Rust!Usable, Rust!Fresh
  <2>3. token \in TokenSet /\ token' \in TokenSet /\ token.id <= issued /\ CacheSound'
    BY <2>1 DEF CacheSound, CallersTypeOK
  <2>. QED
    BY <2>1, <2>2, <2>3, RustSendKeeps
<1>2. CASE Rust!Store(c)
  <2>1. /\ pc[c] = "answered" /\ UNCHANGED <<service, refused, refusals>>
        /\ SendWith(c, token')
    BY <1>2 DEF Rust!Store
  <2>2. token' = TokenFrom(reply[c], issuedAt[c])
    BY <1>2
    DEF Rust!Store, Rust!TokenFrom, TokenFrom, Rust!Lifetime, Lifetime, Rust!EffectiveLifetime,
        EffectiveLifetime, Rust!Shorter, Shorter
  <2>3. token' \in TokenSet
    BY <2>2, TokenFromType DEF CallersTypeOK
  <2>4. /\ token'.id \in 1..issued /\ token'.id # refused[c]
        /\ token'.expiresAt <= deadline[token'.id]
    BY <2>1, <2>2 DEF TokenFrom, AnswersAreNewer, CallersTypeOK, TokenReply
  <2>5. token'.id <= issued /\ CacheSound'
    BY <2>1, <2>4 DEF CacheSound, CallersTypeOK, ServiceTypeOK
  <2>. QED
    BY <2>1, <2>3, <2>4, <2>5, RustSendKeeps
<1>. QED
  BY <1>1, <1>2

\* A task looks at the cache, requests a token after whatever refusal it had, or is refused.
LEMMA RustMovesKeep ==
  ASSUME LockFreeInv, NEW c \in Callers, Rust!Begin(c) \/ Rust!Fetch(c) \/ Rust!Refused(c)
  PROVE  LockFreeInv'
<1>. USE DEF LockFreeInv
<1>1. /\ UNCHANGED <<now, issued, deadline, revoked, token, held, reply>>
      /\ \A d \in Callers : d # c =>
           pc'[d] = pc[d] /\ refused'[d] = refused[d] /\ issuedAt'[d] = issuedAt[d]
  BY DEF Rust!Begin, Rust!Fetch, Rust!Refused, Rust!service, CallersTypeOK
<1>2. /\ pc'[c] \in {"wait", "requesting"}
      /\ pc'[c] = "requesting" => issuedAt'[c] = now
      /\ refused'[c] \in {refused[c], held[c].id}
  BY DEF Rust!Begin, Rust!Fetch, Rust!Refused, CallersTypeOK
<1>3. /\ pc' \in [Callers -> Stages] /\ refused' \in [Callers -> Nat]
      /\ issuedAt' \in [Callers -> Nat] /\ refusals' \subseteq Nat
  BY DEF Rust!Begin, Rust!Fetch, Rust!Refused, CallersTypeOK, ServiceTypeOK, Stages, TokenSet
<1>4. CallersTypeOK' /\ CacheSound'
  BY <1>1, <1>3 DEF CallersTypeOK, ServiceTypeOK, CacheSound
<1>5. AnswersAreNewer' /\ HeldWereIssued' /\ IdleIsClean' /\ ReplayDiffers'
  BY <1>1, <1>2
  DEF AnswersAreNewer, HeldWereIssued, IdleIsClean, ReplayDiffers, CallersTypeOK, ServiceTypeOK
<1>. QED
  BY <1>4, <1>5

\* The three ways a call ends.
LEMMA RustEndingsKeep ==
  ASSUME LockFreeInv, NEW c \in Callers,
         Rust!FetchFails(c) \/ Rust!SecondRefusal(c) \/ Rust!End(c)
  PROVE  LockFreeInv'
<1>1. Home(c) /\ UNCHANGED <<service, token>>
  BY DEF Rust!FetchFails, Rust!SecondRefusal, Rust!End, Rust!Home, Home, Rust!NoToken, NoToken,
         Rust!NoReply, NoReply, Rust!service, service
<1>2. refusals' \subseteq Nat
  <2>1. held[c].id \in Nat /\ refusals \subseteq Nat
    BY DEF LockFreeInv, CallersTypeOK, TokenSet
  <2>2. refusals' \in {refusals, refusals \union {held[c].id}}
    BY DEF Rust!FetchFails, Rust!SecondRefusal, Rust!End
  <2>. QED
    BY <2>1, <2>2
<1>. QED
  BY <1>1, <1>2, RustHomeKeeps

\* Without a lock across the token request it is still true that the replay after a 401 never
\* carries the refused token, and that no cached token is believed in beyond its deadline.
THEOREM RustInvariance == Rust!Spec => []LockFreeInv
<1>1. Rust!Init => LockFreeInv
  <2>. SUFFICES ASSUME Rust!Init PROVE LockFreeInv
    OBVIOUS
  <2>. USE DEF Rust!Init, Rust!CallersInit, Rust!ServiceInit, Rust!NoToken, Rust!NoReply,
               Rust!Tokens
  <2>1. CallersTypeOK
    BY ServiceAssumption DEF CallersTypeOK, ServiceTypeOK, TokenSet, TokenReply, Stages, Tokens
  <2>2. CacheSound /\ AnswersAreNewer /\ HeldWereIssued /\ IdleIsClean
    BY DEF CacheSound, AnswersAreNewer, HeldWereIssued, IdleIsClean
  <2>3. ReplayDiffers
    BY DEF ReplayDiffers
  <2>. QED
    BY <2>1, <2>2, <2>3 DEF LockFreeInv
<1>2. ASSUME LockFreeInv, [Rust!Next]_(Rust!vars)
      PROVE  LockFreeInv'
  <2>1. CASE UNCHANGED Rust!vars
    BY <1>2, <2>1
    DEF Rust!vars, Rust!service, Rust!callers, LockFreeInv, CallersTypeOK, ServiceTypeOK,
        CacheSound, AnswersAreNewer, HeldWereIssued, IdleIsClean, ReplayDiffers
  <2>2. CASE Rust!Platform
    BY <1>2, <2>2, RustPlatformKeeps
  <2>3. ASSUME NEW c \in Callers,
               Rust!Begin(c) \/ Rust!Obtain(c) \/ Rust!FetchEnds(c) \/ Rust!SendEnds(c)
        PROVE  LockFreeInv'
    BY <1>2, <2>3, RustObtainKeeps, RustMovesKeep, RustEndingsKeep
    DEF Rust!Obtain, Rust!FetchEnds, Rust!SendEnds
  <2>. QED
    BY <1>2, <2>1, <2>2, <2>3 DEF Rust!Next
<1>. QED
  BY <1>1, <1>2, PTL DEF Rust!Spec

\* Nor does it take a token for a first send that the server calls expired, whichever answer
\* was stored last.
THEOREM RustCachedTokensAreLive == Rust!Spec => NeverKnowinglyExpired
<1>1. ASSUME LockFreeInv, [Rust!Next]_(Rust!vars), NEW c \in Callers,
             pc[c] # "sending", pc'[c] = "sending", refused[c] = 0, ~Fetching(c)
      PROVE  now < deadline[held'[c].id]
  <2>. USE DEF LockFreeInv
  <2>1. Rust!Take(c)
    BY <1>1
    DEF Rust!Next, Rust!Platform, Rust!PlatformStep, Rust!callers, Rust!Serve, Rust!Begin,
        Rust!Obtain, Rust!Take, Rust!Fetch, Rust!FetchEnds, Rust!Store, Rust!FetchFails,
        Rust!SendEnds, Rust!Refused, Rust!SecondRefusal, Rust!End, Rust!Home, Rust!SendWith,
        Rust!vars, Rust!Fetching, Fetching, CallersTypeOK
  <2>2. Fresh(token, now) /\ held'[c] = token
    BY <1>1, <2>1
    DEF Rust!Take, Rust!Usable, Rust!SendWith, Rust!Fresh, Fresh, Rust!NeedsRefresh,
        NeedsRefresh, Rust!Remaining, Remaining, CallersTypeOK
  <2>. QED
    BY <1>1, <2>2, FreshIsLive
<1>2. LockFreeInv /\ [Rust!Next]_(Rust!vars)
        => [\A c \in Callers :
              pc[c] # "sending" /\ pc'[c] = "sending" /\ refused[c] = 0
                /\ ~Fetching(c) /\ token' = token
                => now < deadline[held'[c].id]]_<<pc, held>>
  BY <1>1
<1>. QED
  BY <1>2, RustInvariance, PTL DEF Rust!Spec, NeverKnowinglyExpired
===============================================================================
