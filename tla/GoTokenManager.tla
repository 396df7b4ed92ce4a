---------------------------- MODULE GoTokenManager ----------------------------
(***************************************************************************)
(* go/axonium/auth.go: tokenManager.  Every read of the token is made      *)
(* under the mutex, and a caller that must fetch keeps it for the whole    *)
(* token request.  A goroutine blocked on the mutex cannot be cancelled:   *)
(* its context is looked at only once it holds it.                         *)
(***************************************************************************)
EXTENDS LockedCallers

Init == CallersInit /\ lock = Nobody

-------------------------------------------------------------------------------

\* apply -> current, and refresh: both begin by taking the mutex.
Begin(c) ==
  /\ pc[c] = "idle"
  /\ pc' = [pc EXCEPT ![c] = "wait"]
  /\ UNCHANGED <<service, token, held, refused, issuedAt, reply, refusals, lock>>

\* Mutant: refresh returns the cached token, whichever it is.
RefreshesNever(c) == IF refused[c] = 0 THEN Fresh(token, now) ELSE token.id # 0

Usable(c) ==
  IF refused[c] = 0 THEN Fresh(token, now) ELSE token.id \notin {0, refused[c]}

\* current or refresh returns the cached token and unlocks.
Take(c) ==
  /\ pc[c] = "wait"
  /\ lock = Nobody
  /\ Usable(c)
  /\ SendWith(c, token)
  /\ UNCHANGED <<service, token, refused, refusals, lock>>

\* Mutant: the mutex is given up while the token request is in flight.
FetchUnlocked(c) ==
  /\ pc[c] = "wait"
  /\ lock = Nobody
  /\ ~Usable(c)
  /\ pc' = [pc EXCEPT ![c] = "requesting"]
  /\ issuedAt' = [issuedAt EXCEPT ![c] = now]
  /\ UNCHANGED <<service, token, held, refused, reply, refusals, lock>>

\* fetchLocked sends the token request; the mutex stays locked.
FetchLocked(c) ==
  /\ pc[c] = "wait"
  /\ lock = Nobody
  /\ ~Usable(c)
  /\ lock' = c
  /\ pc' = [pc EXCEPT ![c] = "requesting"]
  /\ issuedAt' = [issuedAt EXCEPT ![c] = now]
  /\ UNCHANGED <<service, token, held, refused, reply, refusals>>

\* fetchLocked stores the answer; the deferred Unlock runs.
Store(c) ==
  /\ pc[c] = "answered"
  /\ token' = TokenFrom(reply[c], issuedAt[c])
  /\ SendWith(c, token')
  /\ lock' = Nobody
  /\ UNCHANGED <<service, refused, refusals>>

\* Mutant: an early return leaves the mutex locked.
FailsHoldingMutex(c) ==
  /\ Fetching(c)
  /\ Home(c)
  /\ UNCHANGED <<service, token, refusals, lock>>

\* Any error return of fetchLocked, its context's end among them; the deferred Unlock runs.
FetchFails(c) ==
  /\ Fetching(c)
  /\ lock' = Nobody
  /\ Home(c)
  /\ UNCHANGED <<service, token, refusals>>

\* attempt: the first 401 goes to refresh(rejected).
Refused(c) ==
  /\ pc[c] = "sending"
  /\ refused[c] = 0
  /\ Refuses(held[c].id)
  /\ refused' = [refused EXCEPT ![c] = held[c].id]
  /\ refusals' = refusals \union {held[c].id}
  /\ pc' = [pc EXCEPT ![c] = "wait"]
  /\ UNCHANGED <<service, token, held, issuedAt, reply, lock>>

\* attempt: the resend is refused as well, and its 401 surfaces.
SecondRefusal(c) ==
  /\ pc[c] = "sending"
  /\ refused[c] # 0
  /\ Refuses(held[c].id)
  /\ refusals' = refusals \union {held[c].id}
  /\ Home(c)
  /\ UNCHANGED <<service, token, lock>>

\* The request is answered, fails in transport, or its context ends. Not while it waits.
End(c) ==
  /\ pc[c] = "sending"
  /\ Home(c)
  /\ UNCHANGED <<service, token, refusals, lock>>

-------------------------------------------------------------------------------

Lock(c) == Take(c) \/ FetchLocked(c)

FetchEnds(c) == Store(c) \/ FetchFails(c)

SendEnds(c) == Refused(c) \/ SecondRefusal(c) \/ End(c)

Platform == (PlatformStep \/ \E c \in Callers : Serve(c)) /\ UNCHANGED lock

Next ==
  \/ Platform
  \/ \E c \in Callers : Begin(c) \/ Lock(c) \/ FetchEnds(c) \/ SendEnds(c)

Spec == Init /\ [][Next]_vars

(* Fairness.  fetchLocked runs under a context that ends after Timeouts.Auth, and the *)
(* API request under one of its own, so each comes back.  sync.Mutex hands itself to  *)
(* the longest waiter once one has waited a millisecond, so a goroutine for which it  *)
(* is free again and again gets it.                                                   *)
Fairness ==
  \A c \in Callers :
    WF_vars(FetchEnds(c)) /\ WF_vars(SendEnds(c)) /\ SF_vars(Lock(c))

FairSpec == Spec /\ Fairness

===============================================================================
