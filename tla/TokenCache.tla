------------------------------ MODULE TokenCache ------------------------------
(***************************************************************************)
(* What a token manager promises its callers, apart from how it does it:   *)
(* "a burst of concurrent requests arriving on an expired token produces   *)
(* one token request, not one per caller" (auth.py, auth.go), "concurrent  *)
(* callers share one in-flight refresh" (auth.ts).                         *)
(*                                                                         *)
(* The cached token is its generation; it is `due` when there is none, it  *)
(* is near its expiry, or the gateway has refused it.  One token request   *)
(* at a time, only for a due token, and the cache only moves forward.      *)
(***************************************************************************)
EXTENDS Integers

VARIABLES
  gen,         \* generation of the cached token, 0 when there has been none
  due,         \* the cached token must be replaced
  requesting   \* a token request is in flight

cache == <<gen, due, requesting>>

CacheInit == gen = 0 /\ due = TRUE /\ requesting = FALSE

\* Time passes, or the gateway refuses the token.
FallDue == due' = TRUE /\ UNCHANGED <<gen, requesting>>

Request ==
  /\ due
  /\ ~requesting
  /\ requesting' = TRUE
  /\ UNCHANGED <<gen, due>>

\* The answer replaces the token by a later one (which may be due at once, when its life
\* is shorter than the refresh-ahead window).
Answer ==
  /\ requesting
  /\ requesting' = FALSE
  /\ gen' \in Nat
  /\ gen' > gen
  /\ due' \in BOOLEAN

\* A failed request leaves the cached token alone.
Fail == requesting /\ requesting' = FALSE /\ UNCHANGED <<gen, due>>

CacheNext == FallDue \/ Request \/ Answer \/ Fail

CacheSpec == CacheInit /\ [][CacheNext]_cache
===============================================================================
