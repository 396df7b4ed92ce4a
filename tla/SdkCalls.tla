------------------------------- MODULE SdkCalls -------------------------------
(***************************************************************************)
(* The retry loops and cooldown registries of the Go, Rust and TypeScript  *)
(* SDKs (go transport.go and retry.go, rust client.rs and retry.rs,        *)
(* typescript transport.ts and retry.ts), over the gateway of GatewayCalls.*)
(* They are one loop with five differences, each guarded by `sdk`: when an *)
(* error is retried, when a transport failure is, the jitter, what a wait  *)
(* does to an earlier one, and whether an answer ends it.                  *)
(***************************************************************************)
EXTENDS GatewayCalls

CONSTANT Sdks            \* those this instance looks at

ASSUME SdkAssumption == Sdks \subseteq {"go", "rust", "typescript"}

VARIABLES
  sdk,             \* the SDK all calls go through
  refreshed        \* the calls that have had their reactive refresh (TypeScript)

vars == <<sdk, refreshed, loop, cooling, gateway, history>>

TypeOK ==
  /\ sdk \in Sdks
  /\ refreshed \subseteq Calls
  /\ \A c \in Calls : attempt[c] \in 1..(MaxAttempts + IF c \in refreshed THEN 1 ELSE 0)
  /\ \A c \in Calls : pause[c] \in 0..MaxBackoff

Init ==
  /\ sdk \in Sdks
  /\ refreshed = {}
  /\ CallsInit

-------------------------------------------------------------------------------
(* The policies. *)

\* backoff. Go and Rust take away up to half, TypeScript up to all. Go's product overflows after
\* some 33 attempts, far beyond any bound here.
Backoffs(n) ==
  {d \in 0..MaxBackoff : d <= Capped(n) /\ (sdk # "typescript" => 2 * d >= Capped(n))}

\* Mutant: Go and Rust, too, retry whatever is retryable.
RetriesRetryable(e, n) == n < MaxAttempts /\ e.kind # "final"

\* delayFor, the decision. TypeScript asks only whether the error is retryable.
WorthRetrying(e, n) ==
  /\ n < MaxAttempts
  /\ e.kind # "final"
  /\ e.kind = "upstream-error" => sdk = "typescript" \/ (RetryUpstream /\ n = 1)

\* retryAfterMs: a Retry-After of 0 reads as absent in TypeScript.
WaitOf(e) == IF sdk = "typescript" /\ e.wait = 0 THEN NoWait ELSE e.wait

\* Mutant: a wait the SDK would not sit through is cut to the longest it would.
DelaysCut(e, n) ==
  IF ~WorthRetrying(e, n) THEN {}
  ELSE IF WaitOf(e) = NoWait THEN Backoffs(n)
  ELSE {IF WaitOf(e) <= MaxBackoff THEN WaitOf(e) ELSE MaxBackoff}

Delays(e, n) ==
  IF ~WorthRetrying(e, n) THEN {}
  ELSE IF WaitOf(e) = NoWait THEN Backoffs(n)
  ELSE {WaitOf(e)} \cap 0..MaxBackoff

\* Mutant: the last wait named counts in every SDK.
NotesLatest(c, e) ==
  cooling' = IF e.kind = "backend-unavailable" /\ e.wait > 0
             THEN [cooling EXCEPT ![model[c]] = e.wait] ELSE cooling

\* Mutant: a wait is added to the one that is running.
NotesInFull(c, e) ==
  IF e.kind = "backend-unavailable" /\ e.wait > 0
  THEN cooling' = [cooling EXCEPT ![model[c]] = @ + e.wait]
  ELSE UNCHANGED cooling

\* note, and in TypeScript record, which never shortens a wait.
Note(c, e) ==
  IF e.kind = "backend-unavailable" /\ e.wait > 0 /\ (sdk = "typescript" => e.wait > cooling[model[c]])
  THEN cooling' = [cooling EXCEPT ![model[c]] = e.wait]
  ELSE UNCHANGED cooling

-------------------------------------------------------------------------------
(* The loop: send in Go and TypeScript, run in Rust. *)

Over(c) == Home(c) /\ refreshed' = refreshed \ {c} /\ UNCHANGED sdk

\* The cooldown is looked at once; then the first attempt is made.
Begin(c) ==
  /\ pc[c] = "idle"
  /\ \E m \in Models, k \in BOOLEAN :
       /\ cooling[m] = 0
       /\ model' = [model EXCEPT ![c] = m]
       /\ keyed' = [keyed EXCEPT ![c] = k]
  /\ pc' = [pc EXCEPT ![c] = "sending"]
  /\ UNCHANGED <<sdk, refreshed, attempt, pause, cooling, gateway, history>>

\* A 200. Go leaves the cooldown to run out.
Succeeds(c) ==
  /\ pc[c] = "sending" /\ work[c] = "done"
  /\ cooling' = IF sdk = "go" THEN cooling ELSE [cooling EXCEPT ![model[c]] = 0]
  /\ Over(c) /\ Leaves(c)

\* Mutant: the refresh is not counted.
RefreshesAgain(c) ==
  /\ sdk = "typescript" /\ pc[c] = "sending" /\ work[c] \in {"none", "detached"}
  /\ attempt' = [attempt EXCEPT ![c] = @ + 1]
  /\ UNCHANGED <<sdk, refreshed, pc, model, keyed, pause, cooling, gateway, history>>

\* A 401 token-expired in TypeScript: the loop goes round with a new token, which costs an
\* attempt and asks for none to be left. In Go and Rust this is within the attempt.
Refreshes(c) ==
  /\ sdk = "typescript" /\ pc[c] = "sending" /\ work[c] \in {"none", "detached"}
  /\ c \notin refreshed
  /\ refreshed' = refreshed \union {c}
  /\ attempt' = [attempt EXCEPT ![c] = @ + 1]
  /\ UNCHANGED <<sdk, pc, model, keyed, pause, cooling, gateway, history>>

\* An error answer is noted, slept over and followed by another attempt ...
RetriesError(c) ==
  /\ pc[c] = "sending"
  /\ \E e \in Answers(c) :
       /\ Note(c, e)
       /\ \E d \in Delays(e, attempt[c]) : SleepFor(c, d, WaitOf(e))
       /\ AfterError(c, e)
       /\ Remember(c, e)
  /\ UNCHANGED <<sdk, refreshed>>

\* ... or returned.
ReturnsError(c) ==
  /\ pc[c] = "sending"
  /\ \E e \in Answers(c) : Note(c, e) /\ Delays(e, attempt[c]) = {} /\ Remember(c, e)
  /\ Over(c)

\* No answer. Go and Rust retry a timeout, under a key; TypeScript retries no timeout, but every
\* other failure: a connection that broke, and a caller that aborted.
RetriesSilence(c) ==
  /\ pc[c] = "sending"
  /\ sdk # "typescript" => keyed[c]
  /\ attempt[c] < MaxAttempts
  /\ \E d \in Backoffs(attempt[c]) : SleepFor(c, d, NoWait)
  /\ work' = [work EXCEPT ![c] = Abandoned(c)]
  /\ Leaves(c)
  /\ UNCHANGED <<sdk, refreshed, cooling, bills>>

\* A failure the loop does not retry, or the caller's context ends or its future is dropped.
\* TypeScript sleeps on: its timer does not listen to the caller's signal.
GivesUp(c) ==
  /\ pc[c] = "sending" \/ (pc[c] = "sleeping" /\ sdk # "typescript")
  /\ Over(c) /\ Leaves(c)
  /\ UNCHANGED cooling

\* Mutant: the loop goes round without counting.
WakesUncounted(c) ==
  /\ pc[c] = "sleeping" /\ pause[c] = 0
  /\ pc' = [pc EXCEPT ![c] = "sending"]
  /\ UNCHANGED <<sdk, refreshed, model, keyed, attempt, pause, cooling, gateway, history>>

Wakes(c) ==
  /\ pc[c] = "sleeping" /\ pause[c] = 0
  /\ pc' = [pc EXCEPT ![c] = "sending"]
  /\ attempt' = [attempt EXCEPT ![c] = @ + 1]
  /\ UNCHANGED <<sdk, refreshed, model, keyed, pause, cooling, gateway, history>>

-------------------------------------------------------------------------------

AttemptEnds(c) ==
  \/ Succeeds(c) \/ RetriesError(c) \/ ReturnsError(c) \/ RetriesSilence(c)
  \/ pc[c] = "sending" /\ GivesUp(c)

TimePasses == Tick /\ UNCHANGED <<sdk, refreshed>>

Next ==
  \/ TimePasses
  \/ GatewayStep /\ UNCHANGED <<sdk, refreshed>>
  \/ \E c \in Calls :
       Begin(c) \/ Refreshes(c) \/ AttemptEnds(c) \/ Wakes(c) \/ GivesUp(c)

\* Every attempt ends: a request that is not streamed has a timeout, and TypeScript's streams
\* have one too. Go and Rust bound the opening of a stream by nothing: it is not meant here.
Fairness == WF_vars(TimePasses) /\ \A c \in Calls : WF_vars(AttemptEnds(c)) /\ WF_vars(Wakes(c))

Spec == Init /\ [][Next]_vars
FairSpec == Spec /\ Fairness

-------------------------------------------------------------------------------

\* A call is billed for one generation however its attempts fail: with Go and Rust always, with
\* TypeScript under a key.
BilledOnceAsPromised ==
  \A c \in Calls :
    sdk # "typescript" \/ keyed[c] => bills[c] <= IF RetryUpstream /\ sdk # "typescript" THEN 2 ELSE 1

\* A call is billed as promised and leaves after as many attempts as it may; and only refusals of
\* a model make the calls for it wait.
Safety == TypeOK /\ BilledOnceAsPromised /\ OnlyNamedWaits

\* "Two concurrent failures should not let the second one's smaller wait override the first one's
\* larger" (retry.ts): in TypeScript only a success ends a model's wait early.
FailuresNeverShorten ==
  [][sdk = "typescript" =>
       \A m \in Models : cooling'[m] < Down(cooling[m]) =>
         \E c \in Calls : model[c] = m /\ work[c] = "done" /\ pc'[c] = "idle"]_vars

\* "The default retries only what the platform says did not reach a model" (retry.ts:4): so no
\* call without a key can start two generations.
RetriesStartNoSecondGeneration == \A c \in Calls : bills[c] <= 1
-------------------------------------------------------------------------------
(* The inductive invariant.  In Go and Rust, as in Python, only an attempt whose generation *)
(* did not occur or can be reached again is followed by another; in TypeScript that holds   *)
(* of calls that carry a key.                                                               *)

\* CallsTypeOK, but for the attempt that the refresh may add.
LoopTypeOK ==
  /\ TypeOK
  /\ pc \in [Calls -> {"idle", "sending", "sleeping"}]
  /\ model \in [Calls -> Models \union {NoModel}]
  /\ keyed \in [Calls -> BOOLEAN]
  /\ attempt \in [Calls -> Nat]
  /\ pause \in [Calls -> 0..MaxBackoff]
  /\ cooling \in [Models -> Nat]
  /\ work \in [Calls -> Fates]
  /\ bills \in [Calls -> Nat]
  /\ asked \in [Calls -> Nat]
  /\ named \in [Models -> Nat]
  /\ older \subseteq Calls

\* The bills an attempt may leave behind without an answer to come for them.
Spare == IF RetryUpstream /\ sdk # "typescript" THEN 1 ELSE 0

\* How the bills of a call that is promised a single one go with its generation.
BillsFollowWork ==
  \A c \in Calls :
    /\ work[c] \in {"running", "detached"} => bills[c] >= 1
    /\ pc[c] = "idle" => work[c] = "none" /\ bills[c] = 0 /\ attempt[c] = 1 /\ c \notin refreshed
    /\ sdk # "typescript" \/ keyed[c] =>
         /\ bills[c] <= Spare + 1
         /\ work[c] = "none" => bills[c] <= Spare
         /\ sdk # "typescript" /\ pc[c] = "sending" /\ attempt[c] = 1 =>
              work[c] # "detached" /\ bills[c] <= 1 /\ (work[c] = "none" => bills[c] = 0)

SleepsLongEnough ==
  \A c \in Calls : pc[c] = "sleeping" => pause[c] >= asked[c] /\ attempt[c] < MaxAttempts

IInv == LoopTypeOK /\ BillsFollowWork /\ SleepsLongEnough /\ OnlyNamedWaits
===============================================================================
