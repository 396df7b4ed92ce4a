------------------------------ MODULE PyGoverned ------------------------------
(***************************************************************************)
(* python/src/axonium/providers.py: the governed mode.  The SDK has no     *)
(* token cache here; each attempt asks the host's provider for a token,    *)
(* and a 401 sends the rejected token back to it, once.  The host (a       *)
(* contract, providers.py:15-19; external) mints under its own lock, and   *)
(* only if what it holds is the rejected token.                            *)
(***************************************************************************)
EXTENDS Integers

CONSTANTS
  Callers,       \* threads or tasks, one call each at a time
  Nobody,
  MaxTokens,     \* bound on the tokens the host mints
  MaxAttempts    \* RetryPolicy.max_attempts

ASSUME GovernedAssumption ==
  Nobody \notin Callers /\ MaxTokens \in Nat /\ MaxAttempts \in Nat \ {0}

VARIABLES
  host,          \* the token the host holds, 0 for none: tokens are numbered as minted
  minting,       \* who the host is minting for: it holds the host's lock
  dead,          \* the tokens the gateway no longer accepts
  pc,            \* of each caller: "idle", "asking" (in the provider), "provided" (it has
                 \* returned, and nothing is sent yet) or "sending"
  attempt,
  carried,       \* the token its provider returned, and its request carries
  rejected,      \* the token its provider call reports, 0 for None
  scopes,        \* _scopes: the token last applied, by whichever caller
  heldThen       \* history: what the host held when the caller last asked it

vars == <<host, minting, dead, pc, attempt, carried, rejected, scopes, heldThen>>

TypeOK ==
  /\ host \in 0..MaxTokens
  /\ minting \in Callers \union {Nobody}
  /\ dead \subseteq 1..host
  /\ pc \in [Callers -> {"idle", "asking", "provided", "sending"}]
  /\ attempt \in [Callers -> 1..MaxAttempts]
  /\ carried \in [Callers -> 0..MaxTokens]
  /\ rejected \in [Callers -> 0..MaxTokens]
  /\ scopes \in 0..MaxTokens
  /\ heldThen \in [Callers -> 0..MaxTokens]

Init ==
  /\ host = 0 /\ minting = Nobody /\ dead = {} /\ scopes = 0
  /\ pc = [c \in Callers |-> "idle"]
  /\ attempt = [c \in Callers |-> 1]
  /\ carried = [c \in Callers |-> 0]
  /\ rejected = [c \in Callers |-> 0]
  /\ heldThen = [c \in Callers |-> 0]

-------------------------------------------------------------------------------
(* The host and the gateway. *)

\* A token expires or is revoked.
Kill(t) ==
  /\ t \in 1..host
  /\ dead' = dead \union {t}
  /\ UNCHANGED <<host, minting, pc, attempt, carried, rejected, scopes, heldThen>>

\* The host rotates the token it holds on its own account; the old one may still live.
Rotate ==
  /\ minting = Nobody
  /\ host \in 1..(MaxTokens - 1)
  /\ host' = host + 1
  /\ UNCHANGED <<minting, dead, pc, attempt, carried, rejected, scopes, heldThen>>

\* Nothing held, or exactly what the caller says was rejected.
MustMint(c) == host = rejected[c]

Mint(c) ==
  /\ pc[c] = "asking" /\ minting = Nobody
  /\ MustMint(c)
  /\ host < MaxTokens
  /\ minting' = c
  /\ UNCHANGED <<host, dead, pc, attempt, carried, rejected, scopes, heldThen>>

-------------------------------------------------------------------------------
(* The auth flow. *)

\* The provider is called: _call_sync, _call_async.
Asks(c) ==
  /\ pc' = [pc EXCEPT ![c] = "asking"]
  /\ heldThen' = [heldThen EXCEPT ![c] = host]

\* The call's locals are gone.
Home(c) ==
  /\ pc' = [pc EXCEPT ![c] = "idle"]
  /\ attempt' = [attempt EXCEPT ![c] = 1]
  /\ carried' = [carried EXCEPT ![c] = 0]
  /\ rejected' = [rejected EXCEPT ![c] = 0]
  /\ heldThen' = [heldThen EXCEPT ![c] = 0]

\* A call, sync or async, begins by asking the provider, rejecting nothing.
Begin(c) ==
  /\ pc[c] = "idle"
  /\ Asks(c)
  /\ UNCHANGED <<host, minting, dead, attempt, carried, rejected, scopes>>

\* The provider returns what the host holds ...
Provided(c) ==
  /\ pc[c] = "asking" /\ minting = Nobody
  /\ ~MustMint(c)
  /\ pc' = [pc EXCEPT ![c] = "provided"]
  /\ carried' = [carried EXCEPT ![c] = host]
  /\ UNCHANGED <<host, minting, dead, attempt, rejected, scopes, heldThen>>

\* ... or has minted.
Minted(c) ==
  /\ minting = c
  /\ host' = host + 1
  /\ minting' = Nobody
  /\ pc' = [pc EXCEPT ![c] = "provided"]
  /\ carried' = [carried EXCEPT ![c] = host + 1]
  /\ UNCHANGED <<dead, attempt, rejected, scopes, heldThen>>

\* Mutant: the token applied last, by whichever call, is put in the place of the provider's.
AppliesLast(c) ==
  /\ pc[c] = "provided"
  /\ carried' = [carried EXCEPT ![c] = IF scopes # 0 THEN scopes ELSE @]
  /\ scopes' = carried'[c]
  /\ pc' = [pc EXCEPT ![c] = "sending"]
  /\ UNCHANGED <<host, minting, dead, attempt, rejected, heldThen>>

\* _apply, and the request leaves. No lock of the host's is held: it may have rotated since.
Apply(c) ==
  /\ pc[c] = "provided"
  /\ scopes' = carried[c]
  /\ pc' = [pc EXCEPT ![c] = "sending"]
  /\ UNCHANGED <<host, minting, dead, attempt, carried, rejected, heldThen>>

\* It raises, or gives the async client a plain value or the sync client an awaitable:
\* nothing has been sent.
ProviderFails(c) ==
  /\ pc[c] = "asking"
  /\ minting' = IF minting = c THEN Nobody ELSE minting
  /\ Home(c)
  /\ UNCHANGED <<host, dead, scopes>>

\* Mutant: the provider is told of the token applied last.
RejectsLatest(c) ==
  /\ pc[c] = "sending" /\ rejected[c] = 0 /\ carried[c] \in dead
  /\ rejected' = [rejected EXCEPT ![c] = scopes]
  /\ Asks(c)
  /\ UNCHANGED <<host, minting, dead, attempt, carried, scopes>>

\* Mutant: the provider is told of a refusal, and not of which token.
RejectsNothing(c) ==
  /\ pc[c] = "sending" /\ carried[c] \in dead
  /\ Asks(c)
  /\ UNCHANGED <<host, minting, dead, attempt, carried, rejected, scopes>>

\* The first 401: the provider is told which token was refused.
Reject(c) ==
  /\ pc[c] = "sending" /\ rejected[c] = 0 /\ carried[c] \in dead
  /\ rejected' = [rejected EXCEPT ![c] = carried[c]]
  /\ Asks(c)
  /\ UNCHANGED <<host, minting, dead, attempt, carried, scopes>>

\* An error worth retrying: _send goes round, and the flow begins anew.
Retry(c) ==
  /\ pc[c] = "sending"
  /\ attempt[c] < MaxAttempts
  /\ attempt' = [attempt EXCEPT ![c] = @ + 1]
  /\ Asks(c)
  /\ carried' = [carried EXCEPT ![c] = 0]
  /\ rejected' = [rejected EXCEPT ![c] = 0]
  /\ UNCHANGED <<host, minting, dead, scopes>>

\* Any other answer: a result, an error, a second 401.
End(c) ==
  /\ pc[c] = "sending"
  /\ Home(c)
  /\ UNCHANGED <<host, minting, dead, scopes>>

ProviderReturns(c) == Provided(c) \/ Minted(c) \/ ProviderFails(c)

Next ==
  \/ Rotate
  \/ \E t \in 1..MaxTokens : Kill(t)
  \/ \E c \in Callers :
       \/ Mint(c) \/ Begin(c) \/ ProviderReturns(c) \/ Apply(c)
       \/ Reject(c) \/ Retry(c) \/ End(c)

Spec == Init /\ [][Next]_vars

(* Fairness.  A provider call ends, by returning or raising; the host owes that. A caller *)
(* that has its token goes on. A request has its timeouts, so it comes back, and a loop   *)
(* that may end again and again is ended by the attempts' bound.                          *)
Fairness ==
  \A c \in Callers :
    WF_vars(ProviderReturns(c)) /\ WF_vars(Apply(c)) /\ WF_vars(End(c) \/ Reject(c))

FairSpec == Spec /\ Fairness

-------------------------------------------------------------------------------

\* The resend after a 401 carries a token minted after the refused one, for every schedule of
\* the callers' refusals and of the host's own rotations.
ResendIsNewer ==
  \A c \in Callers : pc[c] = "sending" /\ rejected[c] # 0 => carried[c] > rejected[c]

\* "only if they match does it mint, once": however many requests a dead token fails, their
\* 401s make the host replace that token and never the replacement.
LiveTokenIsKept ==
  [][\A c \in Callers :
       minting # c /\ minting' = c => host = 0 \/ host \in dead]_minting

\* "Two caches for one token is how a client ends up sending a token its owner already
\* retired" (providers.py). The owner may retire a token while it is on its way to the request;
\* but none that it had retired before this attempt asked for one is ever sent, and no resend
\* is older than what the owner held when it was told of the refusal.
NothingRetiredIsSent ==
  \A c \in Callers : pc[c] = "sending" => carried[c] \in heldThen[c]..host

\* Every call ends, as far as it depends on the SDK.
EveryCallEnds == \A c \in Callers : pc[c] # "idle" ~> pc[c] = "idle"

-------------------------------------------------------------------------------
(* The inductive invariant. *)

\* A caller reports a token that was refused, and no caller is ahead of the host.
ReportsTheDead ==
  \A c \in Callers :
    /\ carried[c] <= host
    /\ rejected[c] \in dead \union {0}
    /\ pc[c] = "idle" => rejected[c] = 0
    /\ pc[c] \in {"provided", "sending"} => carried[c] # 0

\* What a provider returned is what the host has held since it was asked.
ProvidedIsRecent ==
  \A c \in Callers :
    /\ heldThen[c] <= host
    /\ pc[c] \in {"provided", "sending"} =>
         carried[c] >= heldThen[c] /\ (rejected[c] # 0 => carried[c] > rejected[c])

\* While the host mints, its lock keeps what it decided on.
MintHasCause ==
  \A c \in Callers :
    minting = c => pc[c] = "asking" /\ host = rejected[c] /\ host < MaxTokens

IInv == TypeOK /\ ReportsTheDead /\ ProvidedIsRecent /\ MintHasCause
===============================================================================
