----------------------------- MODULE GatewayCalls -----------------------------
(***************************************************************************)
(* Inference calls through one client, and the gateway that serves them.   *)
(* A call is one request as its caller sees it; the SDK's retry loop turns *)
(* it into one or more attempts:                                           *)
(*                                                                         *)
(*   idle -> sending -> [sleeping -> sending ->]* idle                     *)
(*                                                                         *)
(* What matters of the gateway is which attempts start a generation, for   *)
(* "a retried generation is a new billable one".  An attempt is refused    *)
(* before dispatch, or starts a generation, or (with an idempotency key)   *)
(* is answered out of the generation an earlier attempt started.  The      *)
(* client may give up on an attempt; the generation goes on.               *)
(*                                                                         *)
(* Waits are countdown timers, so nothing here grows with time.  This      *)
(* module holds the state, the gateway and the properties; the module of   *)
(* each SDK adds the steps of its retry loop.                              *)
(***************************************************************************)
EXTENDS RetryPolicy

CONSTANTS
  Calls,           \* the concurrent callers of one client
  Models,          \* the models they ask for
  NoModel          \* what an idle call asks for

ASSUME ModelAssumption == NoModel \notin Models

VARIABLES
  pc,          \* where each call is
  model,       \* the model a call asks for
  keyed,       \* it carries an Idempotency-Key
  attempt,     \* the number of the current attempt, from 1
  pause,       \* what is left of the sleep before the next attempt
  cooling,     \* CooldownRegistry: what is left of the wait of each model
  work,        \* the gateway's side of a call: the generation it is answered from
  bills,       \* how many generations of a call are, or may yet be, billed
  asked,       \* history: what is left of the Retry-After the call was last sent
  named,       \* history: what is left of the longest wait named for each model
  older        \* history: attempts that were in flight when their model's wait was named

loop == <<pc, model, keyed, attempt, pause>>

gateway == <<work, bills>>

history == <<asked, named, older>>

\* What became of the call's generation: there is none; it runs, and the attempt waits for
\* it; it runs, and no attempt waits for it (`detached`); it is done; it failed and the
\* gateway kept the error under the key.
Fates == {"none", "running", "detached", "done", "failed"}

CallsTypeOK ==
  /\ pc \in [Calls -> {"idle", "sending", "sleeping"}]
  /\ model \in [Calls -> Models \union {NoModel}]
  /\ keyed \in [Calls -> BOOLEAN]
  /\ attempt \in [Calls -> 1..MaxAttempts]
  /\ pause \in [Calls -> 0..MaxBackoff]
  /\ cooling \in [Models -> Nat]
  /\ work \in [Calls -> Fates]
  /\ bills \in [Calls -> Nat]
  /\ asked \in [Calls -> Nat]
  /\ named \in [Models -> Nat]
  /\ older \subseteq Calls

CallsInit ==
  /\ pc = [c \in Calls |-> "idle"]
  /\ model = [c \in Calls |-> NoModel]
  /\ keyed = [c \in Calls |-> FALSE]
  /\ attempt = [c \in Calls |-> 1]
  /\ pause = [c \in Calls |-> 0]
  /\ cooling = [m \in Models |-> 0]
  /\ work = [c \in Calls |-> "none"]
  /\ bills = [c \in Calls |-> 0]
  /\ asked = [c \in Calls |-> 0]
  /\ named = [m \in Models |-> 0]
  /\ older = {}

-------------------------------------------------------------------------------
(* Time and the gateway. *)

Down(n) == IF n = 0 THEN 0 ELSE n - 1

Tick ==
  /\ pause' = [c \in Calls |-> Down(pause[c])]
  /\ cooling' = [m \in Models |-> Down(cooling[m])]
  /\ asked' = [c \in Calls |-> Down(asked[c])]
  /\ named' = [m \in Models |-> Down(named[m])]
  /\ UNCHANGED <<pc, model, keyed, attempt, gateway, older>>

\* The request reaches a model: from here on it costs a generation.
Dispatch(c) ==
  /\ pc[c] = "sending"
  /\ work[c] = "none"
  /\ work' = [work EXCEPT ![c] = "running"]
  /\ bills' = [bills EXCEPT ![c] = @ + 1]
  /\ UNCHANGED <<loop, cooling, history>>

\* The generation ends well, whether or not an attempt is still waiting for it.
Generated(c) ==
  /\ work[c] \in {"running", "detached"}
  /\ work' = [work EXCEPT ![c] = "done"]
  /\ UNCHANGED <<loop, cooling, bills, history>>

\* A generation nobody waits for fails: it is not billed, and whether the key is released
\* or keeps the error is the gateway's choice.
DetachedFails(c) ==
  /\ work[c] = "detached"
  /\ \E fate \in {"none", "failed"} : work' = [work EXCEPT ![c] = fate]
  /\ bills' = [bills EXCEPT ![c] = @ - 1]
  /\ UNCHANGED <<loop, cooling, history>>

GatewayStep == \E c \in Calls : Dispatch(c) \/ Generated(c) \/ DetachedFails(c)

\* The errors with which the gateway can answer the current attempt of c.
Answers(c) ==
  { e \in Errors :
      CASE e.kind \in {"backend-unavailable", "refused"} -> work[c] \in {"none", "detached"}
        [] e.kind = "in-progress" -> keyed[c] /\ work[c] = "detached"
        [] e.kind = "upstream-error" -> work[c] \in {"running", "failed"} /\ e.wait = NoWait
        [] e.kind = "final" -> e.wait = NoWait }

\* What an error answer does to the generation: a 502 may have been billed or not.
AfterError(c, e) ==
  \/ /\ e.kind = "upstream-error" /\ work[c] = "running"
     /\ work' = [work EXCEPT ![c] = "none"]
     /\ bills' = [bills EXCEPT ![c] = @ - 1]
  \/ /\ e.kind = "upstream-error" /\ work[c] = "running"
     /\ work' = [work EXCEPT ![c] = IF keyed[c] THEN "failed" ELSE "none"]
     /\ UNCHANGED bills
  \/ /\ ~(e.kind = "upstream-error" /\ work[c] = "running")
     /\ UNCHANGED gateway

\* The client gives up on the attempt. Only a key leads a later attempt back to its work.
Abandoned(c) ==
  IF ~keyed[c] THEN "none" ELSE IF work[c] = "running" THEN "detached" ELSE work[c]

-------------------------------------------------------------------------------
(* Steps all retry loops share. *)

\* The call is over; so is its attempt.
Home(c) ==
  /\ pc' = [pc EXCEPT ![c] = "idle"]
  /\ model' = [model EXCEPT ![c] = NoModel]
  /\ keyed' = [keyed EXCEPT ![c] = FALSE]
  /\ attempt' = [attempt EXCEPT ![c] = 1]
  /\ pause' = [pause EXCEPT ![c] = 0]
  /\ work' = [work EXCEPT ![c] = "none"]
  /\ bills' = [bills EXCEPT ![c] = 0]
  /\ asked' = [asked EXCEPT ![c] = 0]

\* The loop sleeps for d before the next attempt; the gateway asked for w.
SleepFor(c, d, w) ==
  /\ pc' = [pc EXCEPT ![c] = "sleeping"]
  /\ pause' = [pause EXCEPT ![c] = d]
  /\ asked' = [asked EXCEPT ![c] = IF w = NoWait THEN 0 ELSE w]
  /\ UNCHANGED <<model, keyed, attempt>>

\* The attempt of c ends and names no wait.
Leaves(c) == older' = older \ {c} /\ UNCHANGED named

\* The attempt of c ends with error e, which may name a wait: whatever else is in flight for
\* the model was sent before it was named.
Remember(c, e) ==
  IF e.kind = "backend-unavailable" /\ e.wait > 0
  THEN LET ofModel == {d \in Calls : model[d] = model[c]}
           inFlight == {d \in ofModel : pc[d] = "sending"}
       IN  /\ named' = [named EXCEPT ![model[c]] = IF @ < e.wait THEN e.wait ELSE @]
           /\ older' = ((older \ ofModel) \union inFlight) \ {c}
  ELSE Leaves(c)

-------------------------------------------------------------------------------
(* The properties. *)

\* One call is billed for one generation, however its attempts fail; with
\* retry_upstream_errors, which accepts the trade, for two at most.
BilledOnce == \A c \in Calls : bills[c] <= IF RetryUpstream THEN 2 ELSE 1

\* A model is refused locally only while a wait that the gateway named for that very model
\* is running: never for another model's outage, never longer than was asked.
OnlyNamedWaits == \A m \in Models : cooling[m] <= named[m]

\* A call never goes back to the gateway before the Retry-After it was sent has run out.
HonoursRetryAfter ==
  [][\A c \in Calls : pc[c] = "sleeping" /\ pc'[c] = "sending" => asked[c] = 0]_pc

\* While a model's wait is running, an answer to a request that was sent before the wait was
\* named does not let calls through: "further calls to that model fail locally until it
\* expires" (docs/03-failure.md).
WaitSurvivesOlderAnswers ==
  [][\A c \in older : pc'[c] = "idle" => cooling'[model[c]] >= cooling[model[c]]]_<<pc, older>>

\* Every call ends, with an answer or an error.
EveryCallEnds == \A c \in Calls : pc[c] # "idle" ~> pc[c] = "idle"
===============================================================================
