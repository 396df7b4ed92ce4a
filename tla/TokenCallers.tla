----------------------------- MODULE TokenCallers -----------------------------
(***************************************************************************)
(* The callers of a token manager, and what every SDK's manager owes them. *)
(* A caller is a thread, task, goroutine or promise that runs one request  *)
(* at a time through its SDK's auth flow:                                  *)
(*                                                                         *)
(*   idle -> [wait ->] [requesting -> answered ->] sending -> idle         *)
(*                                                                         *)
(* `wait` is waiting for the manager (a lock, or another caller's fetch),  *)
(* `requesting` and `answered` are the two halves of a token request (the  *)
(* POST travels; its response travels) and `sending` is the API request.   *)
(* A 401 sends a caller round once more, with `refused` holding the token  *)
(* the gateway rejected.  This module holds the state, the steps of the    *)
(* platform, and the properties; each SDK's module adds its own steps.     *)
(***************************************************************************)
EXTENDS AuthService, FiniteSets

CONSTANT Callers

VARIABLES
  token,       \* the cached token
  pc,          \* where each caller is
  held,        \* the token each caller put on its request
  refused,     \* id of the token this caller's request was refused with, or 0
  issuedAt,    \* when each caller's token request was sent
  reply,       \* the token response on its way to each caller
  refusals     \* ids of all tokens some caller was refused with

callers == <<pc, held, refused, issuedAt, reply, refusals>>

Stages == {"idle", "wait", "requesting", "answered", "sending"}

CallersTypeOK ==
  /\ ServiceTypeOK
  /\ token \in TokenSet
  /\ pc \in [Callers -> Stages]
  /\ held \in [Callers -> TokenSet]
  /\ refused \in [Callers -> Nat]
  /\ issuedAt \in [Callers -> Nat]
  /\ reply \in [Callers -> TokenReply]
  /\ refusals \subseteq Nat

CallersInit ==
  /\ ServiceInit
  /\ token = NoToken
  /\ pc = [c \in Callers |-> "idle"]
  /\ held = [c \in Callers |-> NoToken]
  /\ refused = [c \in Callers |-> 0]
  /\ issuedAt = [c \in Callers |-> 0]
  /\ reply = [c \in Callers |-> NoReply]
  /\ refusals = {}

Fetching(c) == pc[c] \in {"requesting", "answered"}

\* A call ends: its local variables are gone.
Home(c) ==
  /\ pc' = [pc EXCEPT ![c] = "idle"]
  /\ held' = [held EXCEPT ![c] = NoToken]
  /\ refused' = [refused EXCEPT ![c] = 0]
  /\ issuedAt' = [issuedAt EXCEPT ![c] = 0]
  /\ reply' = [reply EXCEPT ![c] = NoReply]

\* A caller sends its API request with token t.
SendWith(c, t) ==
  /\ pc' = [pc EXCEPT ![c] = "sending"]
  /\ held' = [held EXCEPT ![c] = t]
  /\ issuedAt' = [issuedAt EXCEPT ![c] = 0]
  /\ reply' = [reply EXCEPT ![c] = NoReply]

-------------------------------------------------------------------------------
(* Steps of the platform. *)

\* Time passes, or a token is revoked: nothing of the client's changes.
PlatformStep ==
  /\ Tick \/ \E i \in Tokens : Revoke(i)
  /\ UNCHANGED <<token, callers>>

\* The token endpoint serves the request of c; the response has yet to arrive.
Serve(c) ==
  /\ pc[c] = "requesting"
  /\ \E r \in Replies :
       /\ Issue(r)
       /\ reply' = [reply EXCEPT ![c] = r]
  /\ pc' = [pc EXCEPT ![c] = "answered"]
  /\ UNCHANGED <<token, held, refused, issuedAt, refusals>>

-------------------------------------------------------------------------------
(* The properties.  They are the same for the four SDKs; each module says which *)
(* of them its manager keeps.                                                   *)

\* At most one token request is in flight, whatever the number of callers.
SingleFlight ==
  \A c, d \in Callers : Fetching(c) /\ Fetching(d) => c = d

\* A token leaves the cache only when it is due or the gateway has refused it: a burst of
\* callers, or of 401s on one token, costs one mint.
ReplacedOnlyWithCause ==
  [][token.id # 0 /\ token' # token
       => NeedsRefresh(token, now) \/ token.id \in refusals]_token

\* The cache never goes back to an earlier token, nor is it emptied: an answer that
\* arrives late does not undo a refresh that overtook it.
OnlyForward == [][token' # token => token'.id > token.id]_token

\* The one resend after a 401 carries a token issued later than the refused one: never the
\* refused token again, nor an older one still lying in the cache.
ResendIsNewer ==
  \A c \in Callers : pc[c] = "sending" /\ refused[c] # 0 => held[c].id > refused[c]

\* A token taken from the cache for a first send is one the server still accepts, unless
\* it was revoked: the client's reading of the lifetime never outlives the server's.
NeverKnowinglyExpired ==
  [][\A c \in Callers :
       pc[c] # "sending" /\ pc'[c] = "sending" /\ refused[c] = 0
         /\ ~Fetching(c) /\ token' = token
         => now < deadline[held'[c].id]]_<<pc, held>>

\* Every call ends: it never waits for the manager, or for a token, for ever.
EveryCallEnds == \A c \in Callers : pc[c] # "idle" ~> pc[c] = "idle"

-------------------------------------------------------------------------------
(* Parts of the inductive invariant of a manager that holds a lock across its fetch.  None *)
(* of the properties is inductive alone: that the cache only moves forward, say, rests on   *)
(* the answer in flight being the newest token there is, which rests on there being one     *)
(* request at a time.                                                                        *)

\* The cached token was issued, and the client expects it to end no later than the server.
CacheSound ==
  /\ token.id <= issued
  /\ token.id # 0 => token.expiresAt <= deadline[token.id]

\* An answer on its way carries the newest token, charged from before it was issued.
AnswerIsNewest ==
  \A c \in Callers :
    /\ pc[c] = "requesting" => issuedAt[c] <= now
    /\ pc[c] = "answered" =>
         /\ reply[c].id = issued
         /\ token.id < issued
         /\ issuedAt[c] + Lifetime(reply[c]) <= deadline[issued]

\* No caller ever held, or was refused with, a token newer than the cached one.
NothingAheadOfCache ==
  \A c \in Callers : held[c].id <= token.id /\ refused[c] <= token.id

\* A call starts afresh: it remembers no refusal of an earlier one.
IdleIsClean == \A c \in Callers : pc[c] = "idle" => refused[c] = 0

\* A token request in flight has a cause that has not gone away.
FetchHasCause ==
  \A c \in Callers :
    /\ refused[c] # 0 => refused[c] \in refusals
    /\ Fetching(c) => ~Fresh(token, now) \/ token.id \in refusals

-------------------------------------------------------------------------------
(* The same for a manager that requests without a lock: answers overtake each other, so  *)
(* the cache may go back to an older token, and all that is left is what follows.          *)

\* The replay after a 401 never carries the refused token, whichever answers were stored in
\* the meantime and in whatever order. (It may carry an older one.)
ReplayDiffers ==
  \A c \in Callers : pc[c] = "sending" => held[c].id # refused[c]

\* Every answer on its way is to a request sent after the refusal it is to make good, and its
\* token is charged from before it was issued.
AnswersAreNewer ==
  \A c \in Callers :
    /\ pc[c] = "requesting" => issuedAt[c] <= now
    /\ pc[c] = "answered" =>
         /\ reply[c].id \in 1..issued
         /\ reply[c].id > refused[c]
         /\ issuedAt[c] + Lifetime(reply[c]) <= deadline[reply[c].id]

\* Callers hold, and were refused with, issued tokens only.
HeldWereIssued == \A c \in Callers : held[c].id <= issued /\ refused[c] <= issued

\* An answer that is stored late may put an older token back (CacheSound), yet never one the
\* client believes in for longer than the server does, nor the one the gateway refused.
LockFreeInv ==
  /\ CallersTypeOK
  /\ CacheSound
  /\ AnswersAreNewer
  /\ HeldWereIssued
  /\ IdleIsClean
  /\ ReplayDiffers
===============================================================================
