----------------------------- MODULE AuthService ------------------------------
(***************************************************************************)
(* The platform side of authentication, external to the SDKs: a clock, the *)
(* token endpoint that issues tokens and the gateway that refuses them.    *)
(* Modelled from how the SDKs use it: a token response carries expires_in  *)
(* and usually a Date; a token is refused with 401 once its life is over   *)
(* by the server's clock, or once it was revoked.                          *)
(***************************************************************************)
EXTENDS TokenLease

CONSTANTS
  MaxTime,     \* bound of the clock
  MaxTokens,   \* bound on the tokens the auth-service issues
  Lifetimes    \* the lifetimes an operator configured

ASSUME ServiceAssumption ==
  /\ MaxTime \in Nat
  /\ MaxTokens \in Nat
  /\ Lifetimes \subseteq Nat

VARIABLES
  now,         \* the monotonic clock of the client; the server's runs at the same rate
  issued,      \* how many tokens were issued: their ids are 1..issued
  deadline,    \* when the server stops accepting each token
  revoked      \* tokens withdrawn before their deadline

service == <<now, issued, deadline, revoked>>

Tokens == 1..MaxTokens

ServiceTypeOK ==
  /\ now \in Nat
  /\ issued \in 0..MaxTokens
  /\ deadline \in [Tokens -> Nat]
  /\ revoked \subseteq 1..issued

ServiceInit ==
  /\ now = 0
  /\ issued = 0
  /\ deadline = [i \in Tokens |-> 0]
  /\ revoked = {}

Tick ==
  /\ now < MaxTime
  /\ now' = now + 1
  /\ UNCHANGED <<issued, deadline, revoked>>

\* An operator rotates keys or disables the account: a live token stops being accepted.
Revoke(i) ==
  /\ i \in 1..issued
  /\ revoked' = revoked \union {i}
  /\ UNCHANGED <<now, issued, deadline>>

\* The gateway answers 401 to a request carrying this token.
Refuses(i) == i \in revoked \/ now >= deadline[i]

\* What the token endpoint may answer: expires_in is the life, or more than the life when
\* the response is dated and exp - Date tells the truth, down to a token already expired.
Replies ==
  { r \in [id : {issued + 1}, expiresIn : Lifetimes \ {0}, dated : BOOLEAN,
           serverLeft : Lifetimes \union {-1}] :
      IF r.dated THEN r.serverLeft <= r.expiresIn ELSE r.serverLeft = r.expiresIn }

\* The token endpoint mints the token of reply r.
Issue(r) ==
  /\ issued < MaxTokens
  /\ issued' = issued + 1
  /\ deadline' = [deadline EXCEPT ![r.id] =
                     IF r.serverLeft < 0 THEN now ELSE now + r.serverLeft]
  /\ UNCHANGED <<now, revoked>>
===============================================================================
