---------------------------- MODULE LockedCallers -----------------------------
(***************************************************************************)
(* What the managers that hold one lock across the whole token request     *)
(* have in common: the lock (threading.Lock or asyncio.Lock in Python,     *)
(* sync.Mutex in Go), the invariant that explains why the lock is enough,  *)
(* and the promise it keeps.  Each SDK's module adds its own steps.        *)
(***************************************************************************)
EXTENDS TokenCallers

CONSTANT Nobody      \* the holder of the free lock

ASSUME NobodyAssumption == Nobody \notin Callers

VARIABLE lock        \* who holds the lock across a token request

vars == <<service, token, callers, lock>>

TypeOK == CallersTypeOK /\ lock \in Callers \union {Nobody}

\* The lock is held exactly while its holder's token request is in flight: it is never
\* leaked by a failure, a cancellation or an error envelope, no request runs without it, and
\* nobody waits for a caller that is not itself bounded by the token request's timeout.
LockCoversFetch ==
  \A c \in Callers : Fetching(c) <=> lock = c

\* The inductive invariant, of the parts stated in TokenCallers: the resend after a 401, say,
\* carries a newer token because the lock keeps everybody else's answer from coming between.
IInv ==
  /\ TypeOK
  /\ LockCoversFetch
  /\ CacheSound
  /\ AnswerIsNewest
  /\ NothingAheadOfCache
  /\ IdleIsClean
  /\ FetchHasCause
  /\ ResendIsNewer

Cache == INSTANCE TokenCache
  WITH gen <- token.id,
       due <- ~Fresh(token, now) \/ token.id \in refusals,
       requesting <- \E c \in Callers : Fetching(c)

\* The manager implements the single-flight token cache: "a burst of concurrent requests
\* arriving on an expired token produces one token request" (auth.py; auth.go alike).
ImplementsTokenCache == Cache!CacheSpec
===============================================================================
