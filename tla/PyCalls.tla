------------------------------- MODULE PyCalls --------------------------------
(***************************************************************************)
(* python/src/axonium/client.py, _send: the retry loop around one call,    *)
(* with RetryPolicy and CooldownRegistry of transport/retry.py.  The sync  *)
(* and the async client run the same loop; the registry is shared by all   *)
(* calls of the client.  A stream is opened by the same decisions.         *)
(***************************************************************************)
EXTENDS GatewayCalls, PyRetryPolicy

vars == <<loop, cooling, gateway, history>>

TypeOK == CallsTypeOK

Init == CallsInit

-------------------------------------------------------------------------------
(* CooldownRegistry. *)

\* Mutant: the wait is recorded for the whole gateway.
NotesEveryModel(c, e) ==
  cooling' = IF e.kind = "backend-unavailable" /\ e.wait > 0
             THEN [m \in Models |-> e.wait] ELSE cooling

\* note: a wait that came with backend-unavailable replaces the one recorded for the model.
Note(c, e) ==
  cooling' = IF e.kind = "backend-unavailable" /\ e.wait > 0
             THEN [cooling EXCEPT ![model[c]] = e.wait] ELSE cooling

-------------------------------------------------------------------------------
(* _send. *)

\* _check_cooldown lets the call through; the loop makes its first attempt.
Begin(c) ==
  /\ pc[c] = "idle"
  /\ \E m \in Models, k \in BOOLEAN :
       /\ cooling[m] = 0
       /\ model' = [model EXCEPT ![c] = m]
       /\ keyed' = [keyed EXCEPT ![c] = k]
  /\ pc' = [pc EXCEPT ![c] = "sending"]
  /\ UNCHANGED <<attempt, pause, cooling, gateway, history>>

\* A 200: the generation's answer, or its replay. The model's cooldown is cleared.
Succeeds(c) ==
  /\ pc[c] = "sending"
  /\ work[c] = "done"
  /\ cooling' = [cooling EXCEPT ![model[c]] = 0]
  /\ Home(c)
  /\ Leaves(c)

\* An error answer, and _after_failure: note the cooldown, then sleep and try again ...
RetriesError(c) ==
  /\ pc[c] = "sending"
  /\ \E e \in Answers(c) :
       /\ Note(c, e)
       /\ \E d \in Delays(e, attempt[c]) : SleepFor(c, d, e.wait)
       /\ AfterError(c, e)
       /\ Remember(c, e)

\* ... or raise it.
RaisesError(c) ==
  /\ pc[c] = "sending"
  /\ \E e \in Answers(c) :
       /\ Note(c, e)
       /\ Delays(e, attempt[c]) = {}
       /\ Remember(c, e)
  /\ Home(c)

\* Mutant: a timed-out request is retried with or without a key.
RetriesAnyTimeout(c) ==
  /\ pc[c] = "sending"
  /\ attempt[c] < MaxAttempts
  /\ \E d \in Backoffs(attempt[c]) : SleepFor(c, d, NoWait)
  /\ work' = [work EXCEPT ![c] = Abandoned(c)]
  /\ Leaves(c)
  /\ UNCHANGED <<cooling, bills>>

\* _after_transport_failure: a timeout is retried under an idempotency key, and only then.
RetriesTimeout(c) ==
  /\ pc[c] = "sending"
  /\ keyed[c]
  /\ attempt[c] < MaxAttempts
  /\ \E d \in Backoffs(attempt[c]) : SleepFor(c, d, NoWait)
  /\ work' = [work EXCEPT ![c] = Abandoned(c)]
  /\ Leaves(c)
  /\ UNCHANGED <<cooling, bills>>

\* A timeout without a key or attempts left, any other transport failure, an error of the
\* token manager, or the task's cancellation, awake or asleep: it leaves the call.
GivesUp(c) ==
  /\ pc[c] # "idle"
  /\ Home(c)
  /\ Leaves(c)
  /\ UNCHANGED cooling

\* Mutant: the loop goes round without counting the attempt.
WakesUncounted(c) ==
  /\ pc[c] = "sleeping"
  /\ pause[c] = 0
  /\ pc' = [pc EXCEPT ![c] = "sending"]
  /\ UNCHANGED <<model, keyed, attempt, pause, cooling, gateway, history>>

\* The sleep is over. The next attempt does not look at the cooldown again.
Wakes(c) ==
  /\ pc[c] = "sleeping"
  /\ pause[c] = 0
  /\ pc' = [pc EXCEPT ![c] = "sending"]
  /\ attempt' = [attempt EXCEPT ![c] = @ + 1]
  /\ UNCHANGED <<model, keyed, pause, cooling, gateway, history>>

-------------------------------------------------------------------------------

AttemptEnds(c) ==
  \/ Succeeds(c) \/ RetriesError(c) \/ RaisesError(c) \/ RetriesTimeout(c)
  \/ pc[c] = "sending" /\ GivesUp(c)

Next ==
  \/ Tick
  \/ GatewayStep
  \/ \E c \in Calls : Begin(c) \/ AttemptEnds(c) \/ Wakes(c) \/ GivesUp(c)

Spec == Init /\ [][Next]_vars

(* Fairness.  Every attempt has a read timeout, so it comes to an end; time passes, so *)
(* a sleep is over, and then its thread or task runs.                                  *)
Fairness == WF_vars(Tick) /\ \A c \in Calls : WF_vars(AttemptEnds(c)) /\ WF_vars(Wakes(c))

FairSpec == Spec /\ Fairness

-------------------------------------------------------------------------------
(* The inductive invariant. That a call is billed once follows from what an attempt *)
(* may leave behind it: only an attempt whose generation did not occur, or can be    *)
(* reached again under the key, is followed by another.                              *)

\* The bills an unfinished attempt may leave behind: one, where upstream errors are retried.
Spare == IF RetryUpstream THEN 1 ELSE 0

\* How the bills of a call go with its generation, and with the number of its attempt.
BillsFollowWork ==
  \A c \in Calls :
    /\ bills[c] <= Spare + 1
    /\ work[c] = "none" => bills[c] <= Spare
    /\ work[c] \in {"running", "detached"} => bills[c] >= 1
    /\ pc[c] = "idle" => work[c] = "none" /\ bills[c] = 0 /\ attempt[c] = 1
    /\ pc[c] = "sending" /\ attempt[c] = 1 =>
         work[c] # "detached" /\ bills[c] <= 1 /\ (work[c] = "none" => bills[c] = 0)

\* A sleep lasts at least as long as the gateway asked, and there is another attempt to make.
SleepsLongEnough ==
  \A c \in Calls : pc[c] = "sleeping" => pause[c] >= asked[c] /\ attempt[c] < MaxAttempts

IInv == TypeOK /\ BillsFollowWork /\ SleepsLongEnough /\ OnlyNamedWaits
===============================================================================
