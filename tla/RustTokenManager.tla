--------------------------- MODULE RustTokenManager ---------------------------
(***************************************************************************)
(* rust/src/auth.rs: Auth::Autonomous, as the tasks of one client use it.  *)
(* The mutex guards single reads and writes of the cached token; nothing   *)
(* guards the fetch between them, so every task that finds the token due   *)
(* requests one of its own, and the last answer to be stored stays.        *)
(* Dropping a call's future abandons it at any await.                      *)
(***************************************************************************)
EXTENDS TokenCallers

vars == <<service, token, callers>>

Init == CallersInit

-------------------------------------------------------------------------------

\* attempt: the task is about to look at the cached token.
Begin(c) ==
  /\ pc[c] = "idle"
  /\ pc' = [pc EXCEPT ![c] = "wait"]
  /\ UNCHANGED <<service, token, held, refused, issuedAt, reply, refusals>>

\* token(rejected): what the cached copy must satisfy to be returned.
Usable(c) ==
  IF refused[c] = 0 THEN Fresh(token, now) ELSE token.id \notin {0, refused[c]}

Take(c) ==
  /\ pc[c] = "wait"
  /\ Usable(c)
  /\ SendWith(c, token)
  /\ UNCHANGED <<service, token, refused, refusals>>

\* Otherwise fetch reads the clock and sends the token request, whoever else does.
Fetch(c) ==
  /\ pc[c] = "wait"
  /\ ~Usable(c)
  /\ pc' = [pc EXCEPT ![c] = "requesting"]
  /\ issuedAt' = [issuedAt EXCEPT ![c] = now]
  /\ UNCHANGED <<service, token, held, refused, reply, refusals>>

\* Mutant: the lifetime counts from the arrival of the response.
StoreFromArrival(c) ==
  /\ pc[c] = "answered"
  /\ token' = TokenFrom(reply[c], now)
  /\ SendWith(c, token')
  /\ UNCHANGED <<service, refused, refusals>>

\* The answer replaces whatever is cached, a newer token included.
Store(c) ==
  /\ pc[c] = "answered"
  /\ token' = TokenFrom(reply[c], issuedAt[c])
  /\ SendWith(c, token')
  /\ UNCHANGED <<service, refused, refusals>>

\* Mutant: the token request has no timeout, it fails only on an answer.
FailsOnAnswer(c) ==
  /\ pc[c] = "answered"
  /\ Home(c)
  /\ UNCHANGED <<service, token, refusals>>

\* Unreachable, timed out, an error envelope, an unusable body, or the future is dropped.
FetchFails(c) ==
  /\ Fetching(c)
  /\ Home(c)
  /\ UNCHANGED <<service, token, refusals>>

\* attempt: the first 401 asks for a token other than the rejected one.
Refused(c) ==
  /\ pc[c] = "sending"
  /\ refused[c] = 0
  /\ Refuses(held[c].id)
  /\ refused' = [refused EXCEPT ![c] = held[c].id]
  /\ refusals' = refusals \union {held[c].id}
  /\ pc' = [pc EXCEPT ![c] = "wait"]
  /\ UNCHANGED <<service, token, held, issuedAt, reply>>

\* attempt: the replay is refused as well, and its 401 becomes the call's error.
SecondRefusal(c) ==
  /\ pc[c] = "sending"
  /\ refused[c] # 0
  /\ Refuses(held[c].id)
  /\ refusals' = refusals \union {held[c].id}
  /\ Home(c)
  /\ UNCHANGED <<service, token>>

\* The request is answered or fails in transport, or the future is dropped.
End(c) ==
  /\ pc[c] = "sending"
  /\ Home(c)
  /\ UNCHANGED <<service, token, refusals>>

-------------------------------------------------------------------------------

Obtain(c) == Take(c) \/ Fetch(c)

FetchEnds(c) == Store(c) \/ FetchFails(c)

SendEnds(c) == Refused(c) \/ SecondRefusal(c) \/ End(c)

Platform == PlatformStep \/ \E c \in Callers : Serve(c)

Next ==
  \/ Platform
  \/ \E c \in Callers : Begin(c) \/ Obtain(c) \/ FetchEnds(c) \/ SendEnds(c)

Spec == Init /\ [][Next]_vars

(* Fairness.  A task that is ready runs, and both requests have timeouts.  No lock is *)
(* held across an await, so weak fairness is enough.                                  *)
Fairness ==
  \A c \in Callers :
    WF_vars(Obtain(c)) /\ WF_vars(FetchEnds(c)) /\ WF_vars(SendEnds(c))

FairSpec == Spec /\ Fairness

===============================================================================
