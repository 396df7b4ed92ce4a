---------------------------- MODULE PyTokenManager ----------------------------
(***************************************************************************)
(* python/src/axonium/auth.py: TokenManager, as one client's threads or    *)
(* tasks use it.  The cached token is read without the lock; a caller that *)
(* finds it missing or due takes the lock, looks again, and only then      *)
(* requests a token, holding the lock until the answer is stored.  The     *)
(* sync half (threading.Lock) and the async half (asyncio.Lock) are the    *)
(* same program; a client uses one of the two.                             *)
(***************************************************************************)
EXTENDS LockedCallers

Init == CallersInit /\ lock = Nobody

-------------------------------------------------------------------------------

\* Mutant: the lock is taken, but the cache is not read again under it.
NotReread(c) == FALSE

\* What a caller under the lock may take instead of fetching.  A first acquisition looks
\* at the token again; a refresh only asks whether it is still the refused one.
Usable(c) ==
  IF refused[c] = 0 THEN Fresh(token, now) ELSE token.id \notin {0, refused[c]}

\* sync_auth_flow begins: the lock-free read, or on to the lock.
Begin(c) ==
  /\ pc[c] = "idle"
  /\ \/ Fresh(token, now) /\ SendWith(c, token)
     \/ /\ ~Fresh(token, now)
        /\ pc' = [pc EXCEPT ![c] = "wait"]
        /\ UNCHANGED <<held, issuedAt, reply>>
  /\ UNCHANGED <<service, token, refused, refusals, lock>>

\* Under the lock: another caller's token will do.  Nothing happens between taking the
\* lock and leaving it, so it is one step.
Adopt(c) ==
  /\ pc[c] = "wait"
  /\ lock = Nobody
  /\ Usable(c)
  /\ SendWith(c, token)
  /\ UNCHANGED <<service, token, refused, refusals, lock>>

\* Under the lock: _fetch reads the clock and sends the token request.
Fetch(c) ==
  /\ pc[c] = "wait"
  /\ lock = Nobody
  /\ ~Usable(c)
  /\ lock' = c
  /\ pc' = [pc EXCEPT ![c] = "requesting"]
  /\ issuedAt' = [issuedAt EXCEPT ![c] = now]
  /\ UNCHANGED <<service, token, held, refused, reply, refusals>>

\* Mutant: the lifetime counts from the arrival of the response.
StoreFromArrival(c) ==
  /\ pc[c] = "answered"
  /\ token' = TokenFrom(reply[c], now)
  /\ SendWith(c, token')
  /\ lock' = Nobody
  /\ UNCHANGED <<service, refused, refusals>>

\* The token response arrives: _store, leave the lock, put the token on the request.
Store(c) ==
  /\ pc[c] = "answered"
  /\ token' = TokenFrom(reply[c], issuedAt[c])
  /\ SendWith(c, token')
  /\ lock' = Nobody
  /\ UNCHANGED <<service, refused, refusals>>

\* Mutant: a failed request does not give the lock back.
FailsHoldingLock(c) ==
  /\ Fetching(c)
  /\ Home(c)
  /\ UNCHANGED <<service, token, refusals, lock>>

\* The token request fails (unreachable, timed out, an error envelope, an unusable body)
\* or the task is cancelled in it: the error leaves the call, the cached token stays.
FetchFails(c) ==
  /\ Fetching(c)
  /\ lock' = Nobody
  /\ Home(c)
  /\ UNCHANGED <<service, token, refusals>>

\* The gateway refuses the first send with 401: the caller goes to _refresh(stale=token).
Refused(c) ==
  /\ pc[c] = "sending"
  /\ refused[c] = 0
  /\ Refuses(held[c].id)
  /\ refused' = [refused EXCEPT ![c] = held[c].id]
  /\ refusals' = refusals \union {held[c].id}
  /\ pc' = [pc EXCEPT ![c] = "wait"]
  /\ UNCHANGED <<service, token, held, issuedAt, reply, lock>>

\* The resend is refused too: the 401 is surfaced, never refreshed again.
SecondRefusal(c) ==
  /\ pc[c] = "sending"
  /\ refused[c] # 0
  /\ Refuses(held[c].id)
  /\ refusals' = refusals \union {held[c].id}
  /\ Home(c)
  /\ UNCHANGED <<service, token, lock>>

\* The call ends with an answer or a transport failure, or is cancelled on its way.
End(c) ==
  /\ pc[c] \in {"sending", "wait"}
  /\ Home(c)
  /\ UNCHANGED <<service, token, refusals, lock>>

-------------------------------------------------------------------------------

Acquire(c) == Adopt(c) \/ Fetch(c)

FetchEnds(c) == Store(c) \/ FetchFails(c)

SendEnds(c) == Refused(c) \/ SecondRefusal(c) \/ (pc[c] = "sending" /\ End(c))

CallerStep(c) ==
  Begin(c) \/ Acquire(c) \/ FetchEnds(c) \/ Refused(c) \/ SecondRefusal(c) \/ End(c)

Platform == (PlatformStep \/ \E c \in Callers : Serve(c)) /\ UNCHANGED lock

Next == Platform \/ \E c \in Callers : CallerStep(c)

Spec == Init /\ [][Next]_vars

(* Fairness.  Token and API requests have read timeouts, so each comes back: an    *)
(* answer, a failure or an end.  asyncio.Lock wakes its waiters in the order they  *)
(* came, so a caller for which the lock is free again and again gets it.  Nothing  *)
(* makes callers begin, the clock run or the platform answer.                      *)
Fairness ==
  \A c \in Callers :
    WF_vars(FetchEnds(c)) /\ WF_vars(SendEnds(c)) /\ SF_vars(Acquire(c))

FairSpec == Spec /\ Fairness

===============================================================================
