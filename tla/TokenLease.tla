------------------------------ MODULE TokenLease ------------------------------
(***************************************************************************)
(* The arithmetic of an access token's life, as the four SDKs compute it:  *)
(* what a token response says about the lifetime (`EffectiveLifetime`,     *)
(* `Lifetime`) and when a cached token is due for replacement              *)
(* (`NeedsRefresh`).  Time is an integer; ratios are percentages, so that  *)
(* `expires_in * (1 - ratio)` stays in the integers.                       *)
(*                                                                         *)
(* A cached token is a record [id, expiresAt, expiresIn].  `id` stands for *)
(* the access token string: the auth-service never issues one twice, so it *)
(* is the number of the token response that carried it.                    *)
(***************************************************************************)
EXTENDS Integers

CONSTANTS
  RatioPct,       \* refresh_ahead_ratio, in percent
  MinRemaining,   \* refresh_ahead_min_seconds
  MaxTTL          \* MAX_PLAUSIBLE_TTL

ASSUME LeaseAssumption ==
  /\ RatioPct \in 1..100
  /\ MinRemaining \in Nat
  /\ MaxTTL \in Nat \ {0}

-------------------------------------------------------------------------------
(* What a token response says.  `expiresIn` is the field of that name; when the *)
(* response is `dated` (it has a Date header and the token an exp claim),       *)
(* `serverLeft` is exp - Date, the lifetime by the server's own clock.          *)

TokenReply == [id : Nat, expiresIn : Nat, dated : BOOLEAN, serverLeft : Int]

NoReply == [id |-> 0, expiresIn |-> 0, dated |-> FALSE, serverLeft |-> 0]

Shorter(a, b) == IF a <= b THEN a ELSE b

\* Mutant: the longer of the two readings of the lifetime is believed.
LongerLifetime(r) ==
  IF ~r.dated \/ r.serverLeft <= r.expiresIn THEN r.expiresIn ELSE r.serverLeft

\* The shorter of the two readings wins; nothing is left of a token that the server's own
\* clock calls expired.
EffectiveLifetime(r) ==
  IF ~r.dated THEN r.expiresIn
  ELSE IF r.serverLeft <= 0 THEN 0
  ELSE Shorter(r.expiresIn, r.serverLeft)

\* ... and never longer than an operator can configure.
Lifetime(r) == Shorter(EffectiveLifetime(r), MaxTTL)

-------------------------------------------------------------------------------
(* The cached token. `NoToken` is Python's None, Go's nil, TypeScript's undefined. *)

TokenSet == [id : Nat, expiresAt : Nat, expiresIn : Nat]

NoToken == [id |-> 0, expiresAt |-> 0, expiresIn |-> 0]

\* issued_at is read before the request is sent: the round trip is charged to the token.
TokenFrom(r, issuedAt) ==
  [id |-> r.id, expiresAt |-> issuedAt + Lifetime(r), expiresIn |-> Lifetime(r)]

Remaining(t, at) == t.expiresAt - at

\* Two triggers, whichever fires first: a fraction of the life elapsed, or a floor.
NeedsRefresh(t, at) ==
  \/ 100 * Remaining(t, at) <= t.expiresIn * (100 - RatioPct)
  \/ Remaining(t, at) < MinRemaining

\* needsRefresh in TypeScript: the floor is inclusive.
TsNeedsRefresh(t, at) ==
  \/ 100 * Remaining(t, at) <= t.expiresIn * (100 - RatioPct)
  \/ Remaining(t, at) <= MinRemaining

\* "There is a token and it is not due": the test in front of every cached read.
Fresh(t, at) == t.id # 0 /\ ~NeedsRefresh(t, at)
===============================================================================
