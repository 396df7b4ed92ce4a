------------------------------ MODULE PyStreams -------------------------------
(***************************************************************************)
(* python/src/axonium/streaming.py and transport/sse.py: a streamed chat   *)
(* completion, from stream() to the end of its `with` block.               *)
(*                                                                         *)
(*   idle -> described -> connecting -> [sleeping -> connecting ->]* open  *)
(*                                                                         *)
(* An open stream becomes "ended" ([DONE]), "cut" (the connection closed), *)
(* "broken" (an in-band error), "escaped" (an exception that is not this   *)
(* SDK's), or "shut" (close()); leaving the block makes it "left".         *)
(*                                                                         *)
(* The model answers with text (content, reasoning) and tool calls, and    *)
(* the gateway sends them in pieces, the parts interleaved as it likes.    *)
(* Pieces are numbered within their part, so what the caller reads can be  *)
(* compared with what was generated.  The sync and the async stream run    *)
(* the same loop; the environment is the client's other calls, which       *)
(* record and clear cooldowns.                                             *)
(***************************************************************************)
EXTENDS PyRetryPolicy, Sequences, FiniteSets

CONSTANT
  Answers          \* what the model may generate

VARIABLES
  pc,
  attempt, pause, waited,   \* the loop of __enter__
  cooling,                  \* what is left of the wait recorded for the model
  socket,                   \* a connection is held
  span,                     \* the OpenTelemetry span: "none", "live" or "ended"
  meta,                     \* ResponseMeta: attempts and waited_s
  text, calls, figures,     \* StreamAccumulator: what was read of each kind
  partial,                  \* StreamInterruptedError.partial_content
  answer,                   \* the gateway: what the model generates,
  textSent, callsSent,      \* and how much of it has been sent
  bills,                    \* history: generations this stream may be billed for
  slept,                    \* history: the time spent asleep
  garbled                   \* history: a chunk arrived that is not JSON

opening == <<attempt, pause, waited>>

read == <<text, calls, figures>>

sent == <<textSent, callsSent>>

gateway == <<answer, sent, bills>>

vars == <<pc, opening, cooling, socket, span, meta, read, partial, gateway, slept, garbled>>

Texts == {"content", "reasoning"}

Figures == {"usage", "timings"}

\* calls[i + 1] is the number of fragments of the tool call with index i; a backend that sends
\* no index can only make one call.
ASSUME AnswerAssumption ==
  \A a \in Answers :
    /\ a.text \in [Texts -> Nat]
    /\ a.calls \in Seq(Nat \ {0})
    /\ a.figures \subseteq Figures
    /\ a.indexed \in BOOLEAN
    /\ ~a.indexed => Len(a.calls) <= 1

CallsOf(a) == 0..(Len(a.calls) - 1)

NoId == -1

Loop == {"connecting", "sleeping"}

Over == {"ended", "cut", "broken", "escaped", "shut"}

Begun == {"open", "left"} \union Over

TypeOK ==
  /\ pc \in {"idle", "described", "raised"} \union Loop \union Begun
  /\ attempt \in 1..MaxAttempts
  /\ pause \in 0..MaxBackoff
  /\ waited \in Nat
  /\ cooling \in Nat
  /\ socket \in BOOLEAN
  /\ span \in {"none", "live", "ended"}
  /\ meta \in [attempts : 1..MaxAttempts, waited_s : Nat]
  /\ text \in [Texts -> Seq(Nat)] /\ figures \subseteq answer.figures
  /\ partial \in Seq(Nat)
  /\ answer \in Answers
  /\ textSent \in [Texts -> Nat] /\ callsSent \in [CallsOf(answer) -> Nat]
  /\ bills \in Nat
  /\ slept \in Nat
  /\ garbled \in BOOLEAN

Init ==
  /\ pc = "idle"
  /\ attempt = 1 /\ pause = 0 /\ waited = 0
  /\ cooling = 0
  /\ socket = FALSE
  /\ span = "none"
  /\ meta = [attempts |-> 1, waited_s |-> 0]
  /\ text = [p \in Texts |-> <<>>] /\ calls = <<>> /\ figures = {}
  /\ partial = <<>>
  /\ answer \in Answers
  /\ textSent = [p \in Texts |-> 0] /\ callsSent = [i \in CallsOf(answer) |-> 0]
  /\ bills = 0 /\ slept = 0 /\ garbled = FALSE

-------------------------------------------------------------------------------
(* The environment. *)

Down(n) == IF n = 0 THEN 0 ELSE n - 1

\* One unit of time passes.
Tick ==
  /\ pause' = Down(pause)
  /\ cooling' = Down(cooling)
  /\ slept' = slept + (pause - Down(pause))
  /\ UNCHANGED <<pc, attempt, waited, socket, span, meta, read, partial, gateway, garbled>>

\* Another call for the model notes a wait, or is answered and clears it.
OtherCall ==
  /\ cooling' \in Waits \union {0}
  /\ UNCHANGED <<pc, opening, socket, span, meta, read, partial, gateway, slept, garbled>>

-------------------------------------------------------------------------------
(* Opening. *)

\* _open_stream: the cooldown is looked at here, once, and the opener is bundled.
Describe ==
  /\ pc = "idle"
  /\ cooling = 0
  /\ pc' = "described"
  /\ UNCHANGED <<opening, cooling, socket, span, meta, read, partial, gateway, slept, garbled>>

\* __enter__: the span is entered before the first attempt.
Enter ==
  /\ pc = "described"
  /\ pc' = "connecting"
  /\ socket' = TRUE
  /\ span' = "live"
  /\ UNCHANGED <<opening, cooling, meta, read, partial, gateway, slept, garbled>>

\* Mutant: what _begin leaves out, the attempt it took.
BeginsAsFirst ==
  /\ meta' = [attempts |-> 1, waited_s |-> waited]
  /\ cooling' = 0
  /\ UNCHANGED <<read, partial>>

\* _begin: the response is stamped with the attempt and the wait; the cooldown is cleared.
Begin ==
  /\ meta' = [attempts |-> attempt, waited_s |-> waited]
  /\ cooling' = 0
  /\ UNCHANGED <<read, partial>>

\* A response that is no error: nothing past this point reopens anything.
Opens ==
  /\ pc = "connecting"
  /\ pc' = "open"
  /\ Begin
  /\ bills' = bills + 1
  /\ UNCHANGED <<opening, socket, span, answer, sent, slept, garbled>>

\* CooldownRegistry.note, for the model of the stream.
Note(e) ==
  cooling' = IF e.kind = "backend-unavailable" /\ e.wait > 0 THEN e.wait ELSE cooling

\* An upstream error may have been billed.
MayBeBilled(e) == bills' = IF e.kind = "upstream-error" THEN bills + 1 ELSE bills

\* Mutant: the refused connection is kept for the length of the wait.
SleepsConnected(d) ==
  /\ pc' = "sleeping"
  /\ pause' = d
  /\ waited' = waited + d
  /\ UNCHANGED <<attempt, socket>>

\* Mutant: only the last wait is counted.
SleepsAfresh(d) ==
  /\ pc' = "sleeping"
  /\ pause' = d
  /\ waited' = d
  /\ socket' = FALSE
  /\ UNCHANGED attempt

\* The refused connection is released, then the loop sleeps.
Sleeps(d) ==
  /\ pc' = "sleeping"
  /\ pause' = d
  /\ waited' = waited + d
  /\ socket' = FALSE
  /\ UNCHANGED attempt

\* An error response, and after_failure: reopen after a wait ...
Refused ==
  /\ pc = "connecting"
  /\ \E e \in Errors :
       /\ Note(e)
       /\ MayBeBilled(e)
       /\ \E d \in Delays(e, attempt) : Sleeps(d)
  /\ UNCHANGED <<span, meta, read, partial, answer, sent, slept, garbled>>

\* ... or raise out of __enter__: the block is never entered, nor left.
RefusedForGood ==
  /\ pc = "connecting"
  /\ \E e \in Errors :
       /\ Note(e)
       /\ MayBeBilled(e)
       /\ Delays(e, attempt) = {}
  /\ pc' = "raised"
  /\ socket' = FALSE
  /\ UNCHANGED <<opening, span, meta, read, partial, answer, sent, slept, garbled>>

\* preflight refuses the model, or the open ends without a response: a timeout, a failed
\* connection, a cancellation, also of the sleep. None of them is retried, key or no key.
FailsToOpen ==
  /\ pc \in {"described"} \union Loop
  /\ pc' = "raised"
  /\ pause' = 0
  /\ socket' = FALSE
  /\ UNCHANGED <<attempt, waited, cooling, span, meta, read, partial, gateway, slept, garbled>>

\* Mutant: the loop goes round without counting the attempt.
WakesUncounted ==
  /\ pc = "sleeping"
  /\ pause = 0
  /\ pc' = "connecting"
  /\ socket' = TRUE
  /\ UNCHANGED <<opening, cooling, span, meta, read, partial, gateway, slept, garbled>>

\* The sleep is over: another connection is opened.
Wakes ==
  /\ pc = "sleeping"
  /\ pause = 0
  /\ pc' = "connecting"
  /\ attempt' = attempt + 1
  /\ socket' = TRUE
  /\ UNCHANGED <<pause, waited, cooling, span, meta, read, partial, gateway, slept, garbled>>

-------------------------------------------------------------------------------
(* Reading: what __iter__ does with the next line. *)

\* A line changes nothing but what is said of it.
Line == UNCHANGED <<opening, cooling, socket, span, meta, answer, bills, slept>>

\* A chunk with a piece of text. Content and reasoning are assembled apart.
ReadsText ==
  /\ pc = "open"
  /\ \E p \in Texts :
       LET k == textSent[p] + 1
       IN  /\ k <= answer.text[p]
           /\ textSent' = [textSent EXCEPT ![p] = k]
           /\ text' = [text EXCEPT ![p] = Append(@, k)]
  /\ Line
  /\ UNCHANGED <<pc, calls, figures, callsSent, partial, garbled>>

\* The index the fragment of call i bears, or the slot for one that bears none.
Slot(i) == IF answer.indexed THEN i ELSE 0

\* Mutant: a later id replaces the first.
AbsorbLatest(i, id, k) ==
  LET held == IF i \in DOMAIN calls THEN calls[i] ELSE [id |-> NoId, pieces |-> <<>>]
      next == [id |-> IF id = NoId THEN held.id ELSE id, pieces |-> Append(held.pieces, k)]
  IN  [j \in DOMAIN calls \union {i} |-> IF j = i THEN next ELSE calls[j]]

\* _absorb_tool_call and absorb: the identity is the first one seen; pieces are appended.
Absorb(i, id, k) ==
  LET held == IF i \in DOMAIN calls THEN calls[i] ELSE [id |-> NoId, pieces |-> <<>>]
      next == [id |-> IF held.id = NoId THEN id ELSE held.id, pieces |-> Append(held.pieces, k)]
  IN  [j \in DOMAIN calls \union {i} |-> IF j = i THEN next ELSE calls[j]]

\* A chunk with a fragment of a tool call. The first fragment of a call carries its identity;
\* a later one carries none, or another call's.
ReadsFragment ==
  /\ pc = "open"
  /\ \E i \in CallsOf(answer) :
       LET k == callsSent[i] + 1
       IN  /\ k <= answer.calls[i + 1]
           /\ callsSent' = [callsSent EXCEPT ![i] = k]
           /\ \E id \in IF k = 1 THEN {i} ELSE {NoId, i + 1} : calls' = Absorb(Slot(i), id, k)
  /\ Line
  /\ UNCHANGED <<pc, text, figures, textSent, partial, garbled>>

\* A chunk with token counts: `usage`, or a llama.cpp backend's `timings`.
ReadsFigures ==
  /\ pc = "open"
  /\ \E f \in answer.figures \ figures : figures' = figures \union {f}
  /\ Line
  /\ UNCHANGED <<pc, text, calls, sent, partial, garbled>>

\* Mutant: a chunk that cannot be decoded passes unnoticed by the history.
SkipsUnseen ==
  /\ pc = "open"
  /\ \E p \in Texts :
       /\ textSent[p] < answer.text[p]
       /\ textSent' = [textSent EXCEPT ![p] = @ + 1]
  /\ Line
  /\ UNCHANGED <<pc, read, callsSent, partial, garbled>>

\* A line that is not JSON is skipped (decode_line), and the piece of text in it is lost.
SkipsGarbled ==
  /\ pc = "open"
  /\ \E p \in Texts :
       /\ textSent[p] < answer.text[p]
       /\ textSent' = [textSent EXCEPT ![p] = @ + 1]
  /\ garbled' = TRUE
  /\ Line
  /\ UNCHANGED <<pc, read, callsSent, partial>>

AllSent ==
  /\ textSent = answer.text
  /\ \A i \in CallsOf(answer) : callsSent[i] = answer.calls[i + 1]
  /\ figures = answer.figures

\* [DONE]: the iteration returns.
ReadsDone ==
  /\ pc = "open"
  /\ AllSent
  /\ pc' = "ended"
  /\ Line
  /\ UNCHANGED <<read, partial, sent, garbled>>

\* Mutant: an interrupted stream hands over the reasoning for the content.
InterruptsWithReasoning == partial' = text["reasoning"]

\* feed: the error carries everything received so far.
Interrupts == partial' = text["content"]

\* A chunk with an `error` key: StreamInterruptedError.
ReadsError ==
  /\ pc = "open"
  /\ Interrupts
  /\ pc' = "broken"
  /\ Line
  /\ UNCHANGED <<read, sent, garbled>>

\* The connection closes, which ends the iteration as [DONE] does; or the read fails or times
\* out, or a chunk is of an unexpected shape, and httpx's or pydantic's exception is raised.
ReadFails ==
  /\ pc = "open"
  /\ pc' \in {"cut", "escaped"}
  /\ Line
  /\ UNCHANGED <<read, partial, sent, garbled>>

\* close: the response is closed inside the block.
Close ==
  /\ pc = "open"
  /\ pc' = "shut"
  /\ socket' = FALSE
  /\ UNCHANGED <<opening, cooling, span, meta, read, partial, gateway, slept, garbled>>

\* __exit__, after the iteration or out of the middle of it: the connection and the span end.
Leave ==
  /\ pc \in {"open"} \union Over
  /\ pc' = "left"
  /\ socket' = FALSE
  /\ span' = "ended"
  /\ UNCHANGED <<opening, cooling, meta, read, partial, gateway, slept, garbled>>

-------------------------------------------------------------------------------

Attempt == Opens \/ Refused \/ RefusedForGood \/ (pc = "connecting" /\ FailsToOpen)

Next ==
  \/ Tick \/ OtherCall
  \/ Describe \/ Enter \/ Attempt \/ FailsToOpen \/ Wakes
  \/ ReadsText \/ ReadsFragment \/ ReadsFigures \/ SkipsGarbled
  \/ ReadsDone \/ ReadsError \/ ReadFails \/ Close \/ Leave

Spec == Init /\ [][Next]_vars

(* Fairness.  Connecting has timeouts, so an attempt ends; time passes, so a sleep does. *)
FairSpec == Spec /\ WF_vars(Tick) /\ WF_vars(Attempt) /\ WF_vars(Wakes)

-------------------------------------------------------------------------------
(* What the caller reads. *)

\* tool_calls: ordered by index, whatever the order of arrival.
ToolCalls ==
  [n \in 1..Cardinality(DOMAIN calls) |->
     calls[CHOOSE i \in DOMAIN calls : Cardinality({j \in DOMAIN calls : j < i}) = n - 1]]

\* usage(): a reported count wins; one derived from timings is marked as estimated.
UsageIs ==
  IF "usage" \in figures THEN "reported"
  ELSE IF "timings" \in figures THEN "estimated" ELSE "none"

Pieces(n) == [k \in 1..n |-> k]

\* A stream that ended with [DONE] has handed over what the model generated: the text in order,
\* each tool call whole, under its own identity and in the order the model asked for, however
\* the fragments were interleaved; with nothing lost but what arrived garbled.
CompleteIsTheAnswer ==
  pc = "ended" /\ ~garbled =>
    /\ \A p \in Texts : text[p] = Pieces(answer.text[p])
    /\ ToolCalls = [n \in 1..Len(answer.calls) |-> [id |-> n - 1, pieces |-> Pieces(answer.calls[n])]]
    /\ UsageIs = IF "usage" \in answer.figures THEN "reported"
                 ELSE IF "timings" \in answer.figures THEN "estimated" ELSE "none"

\* "partial_content holds everything successfully received before the failure" (errors.py).
InterruptedLosesNothing ==
  pc = "broken" /\ ~garbled => partial = Pieces(textSent["content"])

\* A stream is billed for one generation, however often it is reopened: one that has begun
\* never is, and an open is repeated only when no generation occurred, or once if opted in.
StreamBilledOnce == bills <= IF RetryUpstream THEN 2 ELSE 1

\* meta tells a caller how many connections were made and for how long the SDK slept.
MetaTellsTheWait ==
  pc \in Begun => meta.waited_s = slept /\ meta.attempts = attempt

\* No connection is held through a wait, nor after the stream was left or failed to open.
SocketIsReleased == socket => pc \in {"connecting", "open"} \union Over

\* Every attempt to enter the block ends, with a stream or an exception.
OpeningEnds == pc \in Loop ~> pc \notin Loop

-------------------------------------------------------------------------------
(* Parts of the inductive invariant. *)

\* What was read of a part is what was sent of it.
ReadIsSent ==
  /\ ~garbled => \A p \in Texts : text[p] = Pieces(textSent[p])
  /\ calls = [i \in {j \in CallsOf(answer) : callsSent[j] > 0} |->
                [id |-> i, pieces |-> Pieces(callsSent[i])]]

\* The time asleep, and what is left of it, is the time the loop has counted.
SleptIsWaited == pc # "raised" => slept + pause = waited

\* Before a stream begins nothing was billed, or one upstream error that was to be repeated.
BilledSoFar ==
  /\ bills <= 2 /\ (~RetryUpstream => bills <= 1)
  /\ pc \in {"idle", "described"} => attempt = 1
  /\ pc \in {"idle", "described", "connecting"} /\ attempt = 1 => bills = 0
  /\ pc \in Loop => bills <= 1 /\ (~RetryUpstream => bills = 0)
  /\ pc = "sleeping" => attempt < MaxAttempts

\* [DONE] comes last.
EndedIsComplete == pc = "ended" => AllSent

MetaIsStamped == pc \in Begun => meta = [attempts |-> attempt, waited_s |-> waited] /\ pause = 0

IInv ==
  /\ TypeOK
  /\ ReadIsSent
  /\ EndedIsComplete
  /\ SleptIsWaited
  /\ BilledSoFar
  /\ MetaIsStamped
  /\ SocketIsReleased
  /\ pc \in {"idle", "described", "connecting"} => pause = 0
  /\ InterruptedLosesNothing
===============================================================================
