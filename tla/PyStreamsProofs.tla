---------------------------- MODULE PyStreamsProofs ----------------------------
(***************************************************************************)
(* Proofs about PyStreams: whatever the model generates, however the       *)
(* gateway cuts it up and whatever other calls do to the cooldown, a       *)
(* stream is billed once, its metadata tell the truth, its connection is   *)
(* given back, and an interrupted one hands over all that was received.    *)
(***************************************************************************)
EXTENDS PyStreams, FiniteSetTheorems, TLAPS

\* Pieces(n) is a sequence, and the next piece makes it Pieces(n + 1).
LEMMA NextPiece ==
  ASSUME NEW n \in Nat
  PROVE  /\ Pieces(n) \in Seq(Nat)
         /\ Append(Pieces(n), n + 1) = Pieces(n + 1)
<1>1. Pieces(n) \in Seq(Nat) /\ Len(Pieces(n)) = n
  BY DEF Pieces
<1>2. /\ Append(Pieces(n), n + 1) \in Seq(Nat)
      /\ Len(Append(Pieces(n), n + 1)) = n + 1
      /\ \A k \in 1..(n + 1) : Append(Pieces(n), n + 1)[k] = k
  BY <1>1 DEF Pieces
<1>3. Append(Pieces(n), n + 1) = [k \in 1..(n + 1) |-> k]
  BY <1>2
<1>. QED
  BY <1>1, <1>3 DEF Pieces

\* The fragments of a call land in the slot of that call: a backend that sends no index makes
\* one call at most.
LEMMA SlotIsIndex ==
  ASSUME answer \in Answers, NEW i \in CallsOf(answer)
  PROVE  Slot(i) = i /\ i \in Nat
<1>1. answer.calls \in Seq(Nat \ {0}) /\ (~answer.indexed => Len(answer.calls) <= 1)
  BY AnswerAssumption
<1>2. Len(answer.calls) \in Nat
  BY <1>1
<1>. QED
  BY <1>1, <1>2 DEF Slot, CallsOf

\* Among the calls 0..(n - 1), the one with m - 1 calls before it is the call m - 1.
LEMMA RankIsIndex ==
  ASSUME NEW n \in Nat
  PROVE  /\ Cardinality(0..(n - 1)) = n
         /\ \A m \in 1..n :
              (CHOOSE i \in 0..(n - 1) : Cardinality({j \in 0..(n - 1) : j < i}) = m - 1) = m - 1
<1>1. Cardinality(0..(n - 1)) = n
  BY FS_Interval
<1>2. ASSUME NEW i \in 0..(n - 1)
      PROVE  Cardinality({j \in 0..(n - 1) : j < i}) = i
  <2>1. {j \in 0..(n - 1) : j < i} = 0..(i - 1)
    OBVIOUS
  <2>2. Cardinality(0..(i - 1)) = i
    BY FS_Interval
  <2>. QED
    BY <2>1, <2>2
<1>3. ASSUME NEW m \in 1..n
      PROVE  (CHOOSE i \in 0..(n - 1) : Cardinality({j \in 0..(n - 1) : j < i}) = m - 1) = m - 1
  <2>1. m - 1 \in 0..(n - 1)
    OBVIOUS
  <2>2. \A i \in 0..(n - 1) : Cardinality({j \in 0..(n - 1) : j < i}) = m - 1 <=> i = m - 1
    BY <1>2
  <2>. QED
    BY <2>1, <2>2
<1>. QED
  BY <1>1, <1>3

\* What delay_for returns is at most max_backoff, and comes with a licence to try again.
LEMMA DelaysBounded ==
  ASSUME NEW e \in Errors, NEW n \in Nat, NEW d \in Delays(e, n)
  PROVE  d \in 0..MaxBackoff /\ WorthRetrying(e, n)
BY DEF Delays, Backoffs

LEMMA NoteTypes ==
  ASSUME cooling \in Nat, NEW e \in Errors, Note(e)
  PROVE  cooling' \in Nat
BY PolicyAssumption DEF Note, Errors, NoWait

LEMMA InitInvariant == Init => IInv
<1>. SUFFICES ASSUME Init PROVE IInv
  OBVIOUS
<1>1. answer \in Answers /\ \A i \in CallsOf(answer) : callsSent[i] = 0
  BY DEF Init
<1>2. TypeOK
  <2>1. /\ text \in [Texts -> Seq(Nat)] /\ partial \in Seq(Nat)
        /\ textSent \in [Texts -> Nat] /\ callsSent \in [CallsOf(answer) -> Nat]
    BY DEF Init
  <2>2. /\ attempt \in 1..MaxAttempts /\ pause \in 0..MaxBackoff
        /\ meta \in [attempts : 1..MaxAttempts, waited_s : Nat]
    BY PolicyAssumption DEF Init
  <2>. QED
    BY <2>1, <2>2 DEF Init, TypeOK
<1>3. ReadIsSent
  <2>1. Pieces(0) = <<>>
    BY DEF Pieces
  <2>2. calls = [i \in {j \in CallsOf(answer) : callsSent[j] > 0} |->
                   [id |-> i, pieces |-> Pieces(callsSent[i])]]
    <3>1. {j \in CallsOf(answer) : callsSent[j] > 0} = {}
      BY <1>1
    <3>. QED
      BY <3>1 DEF Init
  <2>. QED
    BY <2>1, <2>2 DEF Init, ReadIsSent, Texts
<1>4. SleptIsWaited /\ BilledSoFar /\ MetaIsStamped /\ SocketIsReleased /\ pause = 0
      /\ InterruptedLosesNothing /\ EndedIsComplete
  BY PolicyAssumption
  DEF Init, SleptIsWaited, BilledSoFar, MetaIsStamped, SocketIsReleased, Begun, Over, Loop,
      InterruptedLosesNothing, EndedIsComplete
<1>. QED
  BY <1>2, <1>3, <1>4 DEF IInv

-------------------------------------------------------------------------------
(* Steps that read nothing. *)

\* The parts of the invariant about what was read hold on while nothing is read.
LEMMA NothingRead ==
  ASSUME IInv, UNCHANGED <<read, partial, answer, sent, garbled>>,
         pc' \in {"broken", "ended"} => pc = pc'
  PROVE  ReadIsSent' /\ EndedIsComplete' /\ InterruptedLosesNothing'
<1>1. UNCHANGED <<text, calls, figures, partial, answer, textSent, callsSent, garbled>>
  BY DEF read, sent
<1>. QED
  BY <1>1 DEF IInv, ReadIsSent, EndedIsComplete, AllSent, InterruptedLosesNothing, CallsOf

LEMMA EnvironmentKeeps ==
  ASSUME IInv, Tick \/ OtherCall
  PROVE  IInv'
<1>1. UNCHANGED <<pc, attempt, waited, socket, span, meta, text, calls, figures, partial,
                  answer, textSent, callsSent, bills, garbled>>
  BY DEF Tick, OtherCall, opening, read, gateway, sent
<1>2. /\ cooling' \in Nat /\ pause' \in 0..MaxBackoff /\ slept' \in Nat
      /\ slept' + pause' = slept + pause /\ (pause = 0 => pause' = 0)
  <2>1. pause \in 0..MaxBackoff /\ slept \in Nat /\ cooling \in Nat /\ MaxBackoff \in Nat
    BY PolicyAssumption DEF IInv, TypeOK
  <2>2. CASE Tick
    BY <2>1, <2>2 DEF Tick, Down
  <2>3. CASE OtherCall
    BY <2>1, <2>3, PolicyAssumption DEF OtherCall, opening
  <2>. QED
    BY <2>2, <2>3
<1>3. TypeOK'
  BY <1>1, <1>2 DEF IInv, TypeOK, CallsOf
<1>4. ReadIsSent' /\ EndedIsComplete' /\ InterruptedLosesNothing'
  BY <1>1, NothingRead DEF read, sent
<1>5. SleptIsWaited'
  BY <1>1, <1>2 DEF IInv, SleptIsWaited
<1>6. BilledSoFar' /\ MetaIsStamped' /\ SocketIsReleased'
  BY <1>1, <1>2 DEF IInv, BilledSoFar, MetaIsStamped, SocketIsReleased
<1>. QED
  BY <1>1, <1>2, <1>3, <1>4, <1>5, <1>6 DEF IInv

\* Steps on the way into the block, but for the answers of the gateway.
LEMMA EnteringKeeps ==
  ASSUME IInv, Describe \/ Enter \/ FailsToOpen \/ Wakes
  PROVE  IInv'
<1>1. /\ UNCHANGED <<waited, cooling, meta, text, calls, figures, partial, answer, textSent,
                     callsSent, bills, slept, garbled>>
      /\ socket' \in BOOLEAN /\ span' \in {"none", "live", "ended"}
  BY DEF Describe, Enter, FailsToOpen, Wakes, opening, read, gateway, sent, IInv, TypeOK
<1>2. /\ attempt \in 1..MaxAttempts /\ MaxAttempts \in Nat /\ MaxBackoff \in Nat
      /\ pause \in 0..MaxBackoff
  BY PolicyAssumption DEF IInv, TypeOK
<1>3. CASE Describe
  BY <1>1, <1>2, <1>3, NothingRead
  DEF Describe, opening, read, sent, IInv, TypeOK, CallsOf, SleptIsWaited, BilledSoFar,
      MetaIsStamped, SocketIsReleased, Loop, Begun, Over
<1>4. CASE Enter
  BY <1>1, <1>2, <1>4, NothingRead
  DEF Enter, opening, read, sent, IInv, TypeOK, CallsOf, SleptIsWaited, BilledSoFar,
      MetaIsStamped, SocketIsReleased, Loop, Begun, Over
<1>5. CASE FailsToOpen
  BY <1>1, <1>2, <1>5, NothingRead
  DEF FailsToOpen, read, sent, IInv, TypeOK, CallsOf, SleptIsWaited, BilledSoFar,
      MetaIsStamped, SocketIsReleased, Loop, Begun, Over
<1>6. CASE Wakes
  BY <1>1, <1>2, <1>6, NothingRead
  DEF Wakes, read, sent, IInv, TypeOK, CallsOf, SleptIsWaited, BilledSoFar,
      MetaIsStamped, SocketIsReleased, Loop, Begun, Over
<1>. QED
  BY <1>3, <1>4, <1>5, <1>6

\* The stream begins: whatever was retried before it, it is the first generation, or the second
\* of a caller who opted in.
LEMMA OpensKeeps ==
  ASSUME IInv, Opens
  PROVE  IInv'
<1>1. /\ UNCHANGED <<attempt, pause, waited, socket, span, text, calls, figures, partial,
                     answer, textSent, callsSent, slept, garbled>>
      /\ pc = "connecting" /\ pc' = "open" /\ bills' = bills + 1 /\ cooling' = 0
      /\ meta' = [attempts |-> attempt, waited_s |-> waited]
  BY DEF Opens, Begin, opening, read, sent
<1>2. /\ attempt \in 1..MaxAttempts /\ waited \in Nat /\ bills \in Nat
      /\ pause = 0 /\ bills <= 1 /\ (~RetryUpstream => bills = 0)
  BY <1>1 DEF IInv, TypeOK, BilledSoFar, Loop
<1>3. TypeOK'
  <2>1. meta' \in [attempts : 1..MaxAttempts, waited_s : Nat] /\ bills' \in Nat /\ cooling' \in Nat
    BY <1>1, <1>2
  <2>. QED
    BY <1>1, <2>1 DEF IInv, TypeOK, CallsOf, Begun
<1>4. ReadIsSent' /\ EndedIsComplete' /\ InterruptedLosesNothing'
  BY <1>1, NothingRead DEF read, sent
<1>5. SleptIsWaited' /\ BilledSoFar' /\ MetaIsStamped' /\ SocketIsReleased'
  BY <1>1, <1>2 DEF IInv, SleptIsWaited, BilledSoFar, MetaIsStamped, SocketIsReleased, Loop
<1>. QED
  BY <1>1, <1>3, <1>4, <1>5 DEF IInv

\* An error after which the loop goes on was not billed, or is the one that may be.
LEMMA RefusedKeeps ==
  ASSUME IInv, Refused
  PROVE  IInv'
<1>1. PICK e \in Errors :
        Note(e) /\ MayBeBilled(e) /\ \E d \in Delays(e, attempt) : Sleeps(d)
  BY DEF Refused
<1>2. PICK d \in Delays(e, attempt) : Sleeps(d)
  BY <1>1
<1>3. /\ UNCHANGED <<attempt, span, meta, text, calls, figures, partial, answer, textSent,
                     callsSent, slept, garbled>>
      /\ pc = "connecting" /\ pc' = "sleeping"
      /\ pause' = d /\ waited' = waited + d /\ socket' = FALSE
  BY <1>2 DEF Refused, Sleeps, read, sent
<1>4. /\ attempt \in 1..MaxAttempts /\ MaxAttempts \in Nat /\ MaxBackoff \in Nat
      /\ waited \in Nat /\ bills \in Nat /\ slept \in Nat /\ cooling \in Nat
      /\ pause = 0 /\ bills <= 1 /\ (~RetryUpstream => bills = 0) /\ (attempt = 1 => bills = 0)
      /\ slept = waited
  BY <1>3, PolicyAssumption DEF IInv, TypeOK, BilledSoFar, Loop, SleptIsWaited
<1>5. d \in 0..MaxBackoff /\ WorthRetrying(e, attempt)
  BY <1>2, <1>4, DelaysBounded
<1>6. /\ bills' \in Nat /\ bills' <= 1 /\ (~RetryUpstream => bills' = 0)
      /\ attempt < MaxAttempts
  BY <1>1, <1>4, <1>5 DEF MayBeBilled, WorthRetrying
<1>7. cooling' \in Nat
  BY <1>1, <1>4, NoteTypes
<1>8. TypeOK'
  <2>1. waited' \in Nat /\ pause' \in 0..MaxBackoff
    BY <1>3, <1>4, <1>5
  <2>. QED
    BY <1>3, <1>6, <1>7, <2>1 DEF IInv, TypeOK, CallsOf, Loop
<1>9. ReadIsSent' /\ EndedIsComplete' /\ InterruptedLosesNothing'
  BY <1>3, NothingRead DEF read, sent
<1>10. SleptIsWaited' /\ BilledSoFar' /\ MetaIsStamped' /\ SocketIsReleased'
  BY <1>3, <1>4, <1>5, <1>6
  DEF SleptIsWaited, BilledSoFar, MetaIsStamped, SocketIsReleased, Loop, Begun, Over
<1>. QED
  BY <1>3, <1>8, <1>9, <1>10 DEF IInv

LEMMA RefusedForGoodKeeps ==
  ASSUME IInv, RefusedForGood
  PROVE  IInv'
<1>1. PICK e \in Errors : Note(e) /\ MayBeBilled(e)
  BY DEF RefusedForGood
<1>2. /\ UNCHANGED <<attempt, pause, waited, span, meta, text, calls, figures, partial, answer,
                     textSent, callsSent, slept, garbled>>
      /\ pc = "connecting" /\ pc' = "raised" /\ socket' = FALSE
  BY DEF RefusedForGood, opening, read, sent
<1>3. bills \in Nat /\ cooling \in Nat /\ bills <= 1 /\ (~RetryUpstream => bills = 0)
  BY <1>2 DEF IInv, TypeOK, BilledSoFar, Loop
<1>4. bills' \in Nat /\ bills' <= 2 /\ (~RetryUpstream => bills' <= 1)
  BY <1>1, <1>3 DEF MayBeBilled
<1>5. cooling' \in Nat
  BY <1>1, <1>3, NoteTypes
<1>6. TypeOK'
  BY <1>2, <1>4, <1>5 DEF IInv, TypeOK, CallsOf
<1>7. ReadIsSent' /\ EndedIsComplete' /\ InterruptedLosesNothing'
  BY <1>2, NothingRead DEF read, sent
<1>8. SleptIsWaited' /\ BilledSoFar' /\ MetaIsStamped' /\ SocketIsReleased'
  BY <1>2, <1>4
  DEF SleptIsWaited, BilledSoFar, MetaIsStamped, SocketIsReleased, Loop, Begun, Over
<1>. QED
  BY <1>2, <1>6, <1>7, <1>8 DEF IInv

-------------------------------------------------------------------------------
(* Steps that read. *)

\* An open stream, whatever is read of it, keeps what was settled when it began.
LEMMA OpenKeeps ==
  ASSUME IInv, pc \in {"open"} \union Over, pc' \in Begun,
         UNCHANGED <<attempt, pause, waited, meta, bills, slept>>,
         socket' => socket /\ pc' # "left"
  PROVE  SleptIsWaited' /\ BilledSoFar' /\ MetaIsStamped' /\ SocketIsReleased'
BY DEF IInv, SleptIsWaited, BilledSoFar, MetaIsStamped, SocketIsReleased, Begun, Over, Loop

LEMMA ReadsTextKeeps ==
  ASSUME IInv, ReadsText
  PROVE  IInv'
<1>1. PICK p \in Texts :
        /\ textSent' = [textSent EXCEPT ![p] = textSent[p] + 1]
        /\ text' = [text EXCEPT ![p] = Append(text[p], textSent[p] + 1)]
  BY DEF ReadsText
<1>2. /\ UNCHANGED <<attempt, pause, waited, cooling, socket, span, meta, answer, bills, slept,
                     pc, calls, figures, callsSent, partial, garbled>>
      /\ pc = "open"
  BY DEF ReadsText, Line, opening
<1>3. textSent[p] \in Nat /\ text[p] \in Seq(Nat) /\ answer \in Answers
  BY DEF IInv, TypeOK
<1>4. TypeOK'
  <2>1. textSent' \in [Texts -> Nat] /\ text' \in [Texts -> Seq(Nat)]
    BY <1>1, <1>3 DEF IInv, TypeOK
  <2>. QED
    BY <1>2, <2>1 DEF IInv, TypeOK, CallsOf
<1>5. ReadIsSent'
  <2>1. ASSUME ~garbled, NEW q \in Texts
        PROVE  text'[q] = Pieces(textSent'[q])
    <3>1. CASE q = p
      <4>1. text[p] = Pieces(textSent[p])
        BY <2>1 DEF IInv, ReadIsSent
      <4>2. text'[p] = Append(text[p], textSent[p] + 1) /\ textSent'[p] = textSent[p] + 1
        BY <1>1 DEF IInv, TypeOK
      <4>. QED
        BY <1>3, <3>1, <4>1, <4>2, NextPiece
    <3>2. CASE q # p
      BY <1>1, <2>1, <3>2 DEF IInv, TypeOK, ReadIsSent
    <3>. QED
      BY <3>1, <3>2
  <2>. QED
    BY <1>2, <2>1 DEF IInv, ReadIsSent, CallsOf
<1>6. SleptIsWaited' /\ BilledSoFar' /\ MetaIsStamped' /\ SocketIsReleased'
  BY <1>2, OpenKeeps DEF Begun
<1>. QED
  BY <1>2, <1>4, <1>5, <1>6 DEF IInv, InterruptedLosesNothing, EndedIsComplete

\* A fragment extends the call it belongs to: its identity is the first fragment's, and its
\* pieces stay in order.
LEMMA ReadsFragmentKeeps ==
  ASSUME IInv, ReadsFragment
  PROVE  IInv'
<1>1. PICK i \in CallsOf(answer) :
        /\ callsSent' = [callsSent EXCEPT ![i] = callsSent[i] + 1]
        /\ \E id \in IF callsSent[i] + 1 = 1 THEN {i} ELSE {NoId, i + 1} :
             calls' = Absorb(Slot(i), id, callsSent[i] + 1)
  BY DEF ReadsFragment
<1>2. PICK id \in IF callsSent[i] + 1 = 1 THEN {i} ELSE {NoId, i + 1} :
        calls' = Absorb(Slot(i), id, callsSent[i] + 1)
  BY <1>1
<1>3. /\ UNCHANGED <<attempt, pause, waited, cooling, socket, span, meta, answer, bills, slept,
                     pc, text, figures, textSent, partial, garbled>>
      /\ pc = "open"
  BY DEF ReadsFragment, Line, opening
<1>4. /\ answer \in Answers /\ callsSent \in [CallsOf(answer) -> Nat] /\ callsSent[i] \in Nat
      /\ calls = [j \in {j \in CallsOf(answer) : callsSent[j] > 0} |->
                    [id |-> j, pieces |-> Pieces(callsSent[j])]]
  BY DEF IInv, TypeOK, ReadIsSent
<1>5. Slot(i) = i /\ i \in Nat
  BY <1>4, SlotIsIndex
<1>6. TypeOK'
  <2>1. callsSent' \in [CallsOf(answer) -> Nat]
    BY <1>1, <1>4
  <2>. QED
    BY <1>3, <2>1 DEF IInv, TypeOK, CallsOf
<1>7. ReadIsSent'
  <2>. DEFINE old == {j \in CallsOf(answer) : callsSent[j] > 0}
              whole == [id |-> i, pieces |-> Pieces(callsSent[i] + 1)]
  <2>1. DOMAIN calls = old
    BY <1>4
  <2>2. calls' = [j \in old \union {i} |-> IF j = i THEN whole ELSE calls[j]]
    <3>1. CASE i \in old
      <4>1. calls[i] = [id |-> i, pieces |-> Pieces(callsSent[i])]
        BY <1>4, <3>1
      <4>2. calls[i].id # NoId /\ calls[i].id = i
        BY <1>5, <4>1 DEF NoId
      <4>3. calls[i].pieces = Pieces(callsSent[i])
        BY <4>1
      <4>4. Append(calls[i].pieces, callsSent[i] + 1) = Pieces(callsSent[i] + 1)
        BY <1>4, <4>3, NextPiece
      <4>. QED
        BY <1>2, <1>5, <2>1, <3>1, <4>2, <4>4 DEF Absorb
    <3>2. CASE i \notin old
      <4>1. callsSent[i] = 0 /\ id = i
        BY <1>1, <1>2, <1>4, <3>2
      <4>2. Append(<<>>, callsSent[i] + 1) = Pieces(callsSent[i] + 1)
        BY <4>1, NextPiece DEF Pieces
      <4>. QED
        BY <1>2, <1>5, <2>1, <3>2, <4>1, <4>2 DEF Absorb
    <3>. QED
      BY <3>1, <3>2
  <2>3. {j \in CallsOf(answer) : callsSent'[j] > 0} = old \union {i}
    BY <1>1, <1>4
  <2>4. calls' = [j \in {j \in CallsOf(answer) : callsSent'[j] > 0} |->
                    [id |-> j, pieces |-> Pieces(callsSent'[j])]]
    <3>1. \A j \in old \union {i} :
            (IF j = i THEN whole ELSE calls[j]) = [id |-> j, pieces |-> Pieces(callsSent'[j])]
      BY <1>1, <1>4
    <3>. QED
      BY <2>2, <2>3, <3>1
  <2>. QED
    BY <1>3, <2>4 DEF IInv, ReadIsSent, CallsOf
<1>8. SleptIsWaited' /\ BilledSoFar' /\ MetaIsStamped' /\ SocketIsReleased'
  BY <1>3, OpenKeeps DEF Begun
<1>. QED
  BY <1>3, <1>6, <1>7, <1>8 DEF IInv, InterruptedLosesNothing, EndedIsComplete

LEMMA ReadsFiguresKeeps ==
  ASSUME IInv, ReadsFigures
  PROVE  IInv'
<1>1. /\ UNCHANGED <<attempt, pause, waited, cooling, socket, span, meta, answer, bills, slept,
                     pc, text, calls, textSent, callsSent, partial, garbled>>
      /\ pc = "open" /\ figures' \subseteq answer.figures
  BY DEF ReadsFigures, Line, opening, sent, IInv, TypeOK
<1>2. TypeOK'
  BY <1>1 DEF IInv, TypeOK, CallsOf
<1>3. ReadIsSent'
  BY <1>1 DEF IInv, ReadIsSent, CallsOf
<1>4. SleptIsWaited' /\ BilledSoFar' /\ MetaIsStamped' /\ SocketIsReleased'
  BY <1>1, OpenKeeps DEF Begun
<1>. QED
  BY <1>1, <1>2, <1>3, <1>4 DEF IInv, InterruptedLosesNothing, EndedIsComplete

LEMMA SkipsGarbledKeeps ==
  ASSUME IInv, SkipsGarbled
  PROVE  IInv'
<1>1. /\ UNCHANGED <<attempt, pause, waited, cooling, socket, span, meta, answer, bills, slept,
                     pc, text, calls, figures, callsSent, partial>>
      /\ pc = "open" /\ garbled'
      /\ \E p \in Texts : textSent' = [textSent EXCEPT ![p] = @ + 1]
  BY DEF SkipsGarbled, Line, opening, read
<1>2. textSent' \in [Texts -> Nat]
  BY <1>1 DEF IInv, TypeOK
<1>3. TypeOK'
  BY <1>1, <1>2 DEF SkipsGarbled, IInv, TypeOK, CallsOf
<1>4. ReadIsSent' /\ EndedIsComplete' /\ InterruptedLosesNothing'
  BY <1>1 DEF IInv, ReadIsSent, EndedIsComplete, InterruptedLosesNothing, CallsOf
<1>5. SleptIsWaited' /\ BilledSoFar' /\ MetaIsStamped' /\ SocketIsReleased'
  BY <1>1, OpenKeeps DEF Begun
<1>. QED
  BY <1>1, <1>3, <1>4, <1>5 DEF IInv

\* The iteration ends; an in-band error takes along all the content received before it.
LEMMA ReadingEndsKeeps ==
  ASSUME IInv, ReadsDone \/ ReadsError \/ ReadFails
  PROVE  IInv'
<1>1. /\ UNCHANGED <<attempt, pause, waited, cooling, socket, span, meta, answer, bills, slept,
                     text, calls, figures, textSent, callsSent, garbled>>
      /\ pc = "open" /\ pc' \in Over
      /\ \/ partial' = partial /\ pc' # "broken"
         \/ partial' = text["content"] /\ pc' = "broken"
  BY DEF ReadsDone, ReadsError, ReadFails, Interrupts, Line, opening, read, sent, Over
<1>2. TypeOK'
  <2>1. partial' \in Seq(Nat)
    BY <1>1 DEF IInv, TypeOK, Texts
  <2>. QED
    BY <1>1, <2>1 DEF IInv, TypeOK, CallsOf, Begun
<1>3. ReadIsSent'
  BY <1>1 DEF IInv, ReadIsSent, CallsOf
<1>4. InterruptedLosesNothing'
  BY <1>1 DEF IInv, ReadIsSent, InterruptedLosesNothing, Texts
<1>5. SleptIsWaited' /\ BilledSoFar' /\ MetaIsStamped' /\ SocketIsReleased'
  BY <1>1, OpenKeeps DEF Begun, Over
<1>6. EndedIsComplete'
  BY <1>1 DEF ReadsDone, ReadsError, ReadFails, EndedIsComplete, AllSent, CallsOf
<1>. QED
  BY <1>1, <1>2, <1>3, <1>4, <1>5, <1>6 DEF IInv, Over

LEMMA LeavingKeeps ==
  ASSUME IInv, Close \/ Leave
  PROVE  IInv'
<1>1. /\ UNCHANGED <<attempt, pause, waited, cooling, meta, answer, bills, slept, text, calls,
                     figures, textSent, callsSent, partial, garbled>>
      /\ pc \in {"open"} \union Over /\ pc' \in {"shut", "left"} /\ socket' = FALSE
      /\ span' \in {span, "ended"}
  BY DEF Close, Leave, opening, read, gateway, sent
<1>2. TypeOK'
  BY <1>1 DEF IInv, TypeOK, CallsOf, Begun, Over
<1>3. ReadIsSent' /\ EndedIsComplete' /\ InterruptedLosesNothing'
  BY <1>1, NothingRead DEF read, sent
<1>4. SleptIsWaited' /\ BilledSoFar' /\ MetaIsStamped' /\ SocketIsReleased'
  BY <1>1, OpenKeeps DEF Begun, Over
<1>. QED
  BY <1>1, <1>2, <1>3, <1>4 DEF IInv

LEMMA StepInvariant == IInv /\ [Next]_vars => IInv'
<1>. SUFFICES ASSUME IInv, [Next]_vars PROVE IInv'
  OBVIOUS
<1>1. CASE Next
  BY <1>1, EnvironmentKeeps, EnteringKeeps, OpensKeeps, RefusedKeeps, RefusedForGoodKeeps,
     ReadsTextKeeps, ReadsFragmentKeeps, ReadsFiguresKeeps, SkipsGarbledKeeps,
     ReadingEndsKeeps, LeavingKeeps
  DEF Next, Attempt
<1>2. CASE UNCHANGED vars
  <2>1. UNCHANGED <<pc, attempt, pause, waited, cooling, socket, span, meta, text, calls,
                    figures, partial, answer, textSent, callsSent, bills, slept, garbled>>
    BY <1>2 DEF vars, opening, read, gateway, sent
  <2>2. ReadIsSent' /\ EndedIsComplete' /\ InterruptedLosesNothing'
    BY <2>1, NothingRead DEF read, sent
  <2>3. TypeOK' /\ SleptIsWaited' /\ BilledSoFar' /\ MetaIsStamped' /\ SocketIsReleased'
    BY <2>1
    DEF IInv, TypeOK, CallsOf, SleptIsWaited, BilledSoFar, MetaIsStamped, SocketIsReleased
  <2>. QED
    BY <2>1, <2>2, <2>3 DEF IInv
<1>. QED
  BY <1>1, <1>2

-------------------------------------------------------------------------------
(* The theorems. *)

\* The inductive invariant holds of every stream: no connection outlives its use, and an
\* interrupted stream hands over everything it received.
THEOREM Invariance == Spec => []IInv
BY InitInvariant, StepInvariant, PTL DEF Spec

\* A stream is billed for one generation however often it is reopened, or for two where the
\* caller opted in to repeat upstream errors.
THEOREM OneBill == Spec => []StreamBilledOnce
<1>1. IInv => StreamBilledOnce
  BY PolicyAssumption DEF IInv, BilledSoFar, StreamBilledOnce
<1>. QED
  BY <1>1, Invariance, PTL

\* The metadata of a stream that began count its attempts and the time it slept.
THEOREM MetaIsTrue == Spec => []MetaTellsTheWait
<1>1. IInv => MetaTellsTheWait
  <2>. SUFFICES ASSUME IInv, pc \in Begun
                PROVE  meta.waited_s = slept /\ meta.attempts = attempt
    BY DEF MetaTellsTheWait
  <2>1. meta = [attempts |-> attempt, waited_s |-> waited] /\ pause = 0
    BY DEF IInv, MetaIsStamped
  <2>2. slept + pause = waited /\ slept \in Nat
    BY DEF IInv, SleptIsWaited, TypeOK, Begun, Over
  <2>. QED
    BY <2>1, <2>2
<1>. QED
  BY <1>1, Invariance, PTL
\* A stream that ended with [DONE] has handed over all that was generated, whatever that is and
\* however the gateway cut it up and interleaved it, unless a chunk arrived garbled.
THEOREM CompleteIsWhole == Spec => []CompleteIsTheAnswer
<1>1. ASSUME IInv, pc = "ended", ~garbled
      PROVE  /\ \A p \in Texts : text[p] = Pieces(answer.text[p])
             /\ ToolCalls = [n \in 1..Len(answer.calls) |->
                               [id |-> n - 1, pieces |-> Pieces(answer.calls[n])]]
             /\ figures = answer.figures
  <2>1. /\ textSent = answer.text /\ figures = answer.figures
        /\ \A i \in CallsOf(answer) : callsSent[i] = answer.calls[i + 1]
    BY <1>1 DEF IInv, EndedIsComplete, AllSent
  <2>2. answer \in Answers /\ answer.calls \in Seq(Nat \ {0})
    BY <1>1, AnswerAssumption DEF IInv, TypeOK
  <2>3. Len(answer.calls) \in Nat
        /\ \A n \in 1..Len(answer.calls) : answer.calls[n] \in Nat \ {0}
    BY <2>2
  <2>4. calls = [i \in CallsOf(answer) |-> [id |-> i, pieces |-> Pieces(answer.calls[i + 1])]]
    <3>1. {j \in CallsOf(answer) : callsSent[j] > 0} = CallsOf(answer)
      <4>1. ASSUME NEW j \in CallsOf(answer) PROVE callsSent[j] > 0
        <5>1. j + 1 \in 1..Len(answer.calls)
          BY <2>3 DEF CallsOf
        <5>. QED
          BY <2>1, <2>3, <5>1
      <4>. QED
        BY <4>1
    <3>. QED
      BY <1>1, <2>1, <3>1 DEF IInv, ReadIsSent
  <2>5. ToolCalls = [n \in 1..Len(answer.calls) |-> calls[n - 1]]
    <3>. DEFINE N == Len(answer.calls)
    <3>1. DOMAIN calls = 0..(N - 1) /\ N \in Nat
      BY <2>3, <2>4 DEF CallsOf
    <3>. HIDE DEF N
    <3>2. ToolCalls =
            [n \in 1..Cardinality(0..(N - 1)) |->
               calls[CHOOSE i \in 0..(N - 1) :
                       Cardinality({j \in 0..(N - 1) : j < i}) = n - 1]]
      BY <3>1 DEF ToolCalls
    <3>3. Cardinality(0..(N - 1)) = N
      BY <3>1, RankIsIndex
    <3>4. ASSUME NEW n \in 1..N
          PROVE  calls[CHOOSE i \in 0..(N - 1) :
                         Cardinality({j \in 0..(N - 1) : j < i}) = n - 1] = calls[n - 1]
      <4>1. (CHOOSE i \in 0..(N - 1) :
               Cardinality({j \in 0..(N - 1) : j < i}) = n - 1) = n - 1
        BY <3>1, RankIsIndex
      <4>. QED
        BY <4>1
    <3>5. ToolCalls = [n \in 1..N |-> calls[n - 1]]
      BY <3>2, <3>3, <3>4, Zenon
    <3>. QED
      BY <3>5 DEF N
  <2>6. ToolCalls = [n \in 1..Len(answer.calls) |->
                      [id |-> n - 1, pieces |-> Pieces(answer.calls[n])]]
    <3>1. \A n \in 1..Len(answer.calls) :
            calls[n - 1] = [id |-> n - 1, pieces |-> Pieces(answer.calls[n])]
      BY <2>3, <2>4 DEF CallsOf
    <3>. QED
      BY <2>5, <3>1
  <2>. QED
    BY <1>1, <2>1, <2>6 DEF IInv, ReadIsSent
<1>2. IInv => CompleteIsTheAnswer
  BY <1>1 DEF CompleteIsTheAnswer, UsageIs
<1>. QED
  BY <1>2, Invariance, PTL
===============================================================================
