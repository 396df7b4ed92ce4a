---------------------------- MODULE PyCallsProofs -----------------------------
(***************************************************************************)
(* Proofs about the Python retry loop: for any number of concurrent calls, *)
(* any retry policy and any waits the gateway names, a call is billed for  *)
(* one generation, a model is refused locally only because of its own      *)
(* outage, and a Retry-After is honoured.                                  *)
(***************************************************************************)
EXTENDS PyCalls, TLAPS

\* What delay_for returns is a wait of at most max_backoff that is no shorter than the
\* Retry-After, and there are attempts left; so is a backoff.
LEMMA DelaysBounded ==
  ASSUME NEW e \in Errors, NEW n \in 1..MaxAttempts, NEW d \in Delays(e, n)
  PROVE  /\ d \in 0..MaxBackoff
         /\ e.wait # NoWait => d = e.wait
         /\ WorthRetrying(e, n)
  BY DEF Delays, Backoffs

LEMMA BackoffsBounded ==
  ASSUME NEW n \in 1..MaxAttempts
  PROVE  Backoffs(n) \subseteq 0..MaxBackoff
  BY DEF Backoffs

LEMMA ErrorFields ==
  ASSUME NEW e \in Errors
  PROVE  e.kind \in Kinds /\ (e.wait \in Nat \/ e.wait = NoWait)
  BY PolicyAssumption DEF Errors

LEMMA InitInvariant == Init => IInv
  BY PolicyAssumption
  DEF Init, CallsInit, IInv, TypeOK, CallsTypeOK, BillsFollowWork, SleepsLongEnough,
      OnlyNamedWaits, Fates, Spare

-------------------------------------------------------------------------------
(* Types. *)

LEMMA NoteTypes ==
  ASSUME TypeOK, NEW c \in Calls, NEW e \in Errors, Note(c, e)
  PROVE  cooling' \in [Models -> Nat]
<1>1. e.wait > 0 => e.wait \in Nat
  BY ErrorFields DEF NoWait
<1>. QED
  BY <1>1 DEF Note, TypeOK, CallsTypeOK

LEMMA RememberTypes ==
  ASSUME TypeOK, NEW c \in Calls, NEW e \in Errors, Remember(c, e)
  PROVE  named' \in [Models -> Nat] /\ older' \subseteq Calls
<1>1. e.wait > 0 => e.wait \in Nat
  BY ErrorFields DEF NoWait
<1>. QED
  BY <1>1 DEF Remember, Leaves, TypeOK, CallsTypeOK

LEMMA HomeTypes ==
  ASSUME TypeOK, NEW c \in Calls, Home(c)
  PROVE  /\ pc' \in [Calls -> {"idle", "sending", "sleeping"}]
         /\ model' \in [Calls -> Models \union {NoModel}]
         /\ keyed' \in [Calls -> BOOLEAN]
         /\ attempt' \in [Calls -> 1..MaxAttempts]
         /\ pause' \in [Calls -> 0..MaxBackoff]
         /\ work' \in [Calls -> Fates]
         /\ bills' \in [Calls -> Nat]
         /\ asked' \in [Calls -> Nat]
  BY PolicyAssumption DEF Home, TypeOK, CallsTypeOK, Fates

LEMMA SleepTypes ==
  ASSUME TypeOK, NEW c \in Calls, NEW d \in 0..MaxBackoff, NEW w, w \in Nat \/ w = NoWait,
         SleepFor(c, d, w)
  PROVE  /\ pc' \in [Calls -> {"idle", "sending", "sleeping"}]
         /\ pause' \in [Calls -> 0..MaxBackoff]
         /\ asked' \in [Calls -> Nat]
         /\ UNCHANGED <<model, keyed, attempt>>
  BY DEF SleepFor, TypeOK, CallsTypeOK

-------------------------------------------------------------------------------
(* Every step keeps the invariant. *)

LEMMA TickKeeps ==
  ASSUME IInv, Tick
  PROVE  IInv'
<1>1. \A n \in Nat : Down(n) \in Nat /\ Down(n) <= n
  BY DEF Down
<1>2. \A n, m \in Nat : n <= m => Down(n) <= Down(m)
  BY DEF Down
<1>3. \A n \in 0..MaxBackoff : Down(n) \in 0..MaxBackoff
  BY PolicyAssumption DEF Down
<1>4. TypeOK'
  BY <1>1, <1>3 DEF IInv, TypeOK, CallsTypeOK, Tick, gateway
<1>5. BillsFollowWork'
  BY DEF IInv, BillsFollowWork, Tick, gateway, Spare
<1>6. SleepsLongEnough'
  <2>. SUFFICES ASSUME NEW c \in Calls, pc'[c] = "sleeping"
                PROVE  pause'[c] >= asked'[c] /\ attempt'[c] < MaxAttempts
    BY DEF SleepsLongEnough
  <2>1. pause[c] \in Nat /\ asked[c] \in Nat /\ asked[c] <= pause[c] /\ attempt[c] < MaxAttempts
    BY PolicyAssumption DEF IInv, TypeOK, CallsTypeOK, SleepsLongEnough, Tick
  <2>2. pause'[c] = Down(pause[c]) /\ asked'[c] = Down(asked[c]) /\ attempt' = attempt
    BY DEF Tick
  <2>. QED
    BY <1>1, <1>2, <2>1, <2>2
<1>7. OnlyNamedWaits'
  <2>. SUFFICES ASSUME NEW m \in Models PROVE cooling'[m] <= named'[m]
    BY DEF OnlyNamedWaits
  <2>1. cooling[m] \in Nat /\ named[m] \in Nat /\ cooling[m] <= named[m]
    BY DEF IInv, TypeOK, CallsTypeOK, OnlyNamedWaits
  <2>. QED
    BY <1>2, <2>1 DEF Tick
<1>. QED
  BY <1>4, <1>5, <1>6, <1>7 DEF IInv

LEMMA GatewayKeeps ==
  ASSUME IInv, NEW c \in Calls, Dispatch(c) \/ Generated(c) \/ DetachedFails(c)
  PROVE  IInv'
<1>1. UNCHANGED <<pc, model, keyed, attempt, pause, cooling, asked, named, older>>
  BY DEF Dispatch, Generated, DetachedFails, loop, history
<1>2. bills[c] \in Nat /\ work \in [Calls -> Fates] /\ bills \in [Calls -> Nat]
  BY DEF IInv, TypeOK, CallsTypeOK
<1>3. work[c] = "detached" => bills[c] >= 1
  BY DEF IInv, BillsFollowWork
<1>4. TypeOK'
  BY <1>1, <1>2, <1>3 DEF IInv, TypeOK, CallsTypeOK, Dispatch, Generated, DetachedFails, Fates
<1>5. BillsFollowWork'
  <2>. SUFFICES ASSUME NEW d \in Calls
                PROVE  /\ bills'[d] <= Spare + 1
                       /\ work'[d] = "none" => bills'[d] <= Spare
                       /\ work'[d] \in {"running", "detached"} => bills'[d] >= 1
                       /\ pc[d] = "idle" =>
                            work'[d] = "none" /\ bills'[d] = 0 /\ attempt[d] = 1
                       /\ pc[d] = "sending" /\ attempt[d] = 1 =>
                            /\ work'[d] # "detached"
                            /\ bills'[d] <= 1
                            /\ work'[d] = "none" => bills'[d] = 0
    BY <1>1 DEF BillsFollowWork, Spare
  <2>1. bills[d] \in Nat /\ Spare \in {0, 1}
    BY <1>2 DEF Spare
  <2>2. CASE d # c
    BY <1>1, <1>2, <2>2 DEF IInv, BillsFollowWork, Dispatch, Generated, DetachedFails, Fates
  <2>3. CASE d = c /\ Dispatch(c)
    BY <1>1, <1>2, <2>1, <2>3 DEF IInv, BillsFollowWork, Dispatch
  <2>4. CASE d = c /\ Generated(c)
    BY <1>1, <1>2, <2>1, <2>4 DEF IInv, BillsFollowWork, Generated
  <2>5. CASE d = c /\ DetachedFails(c)
    BY <1>1, <1>2, <2>1, <2>5 DEF IInv, BillsFollowWork, DetachedFails
  <2>. QED
    BY <2>2, <2>3, <2>4, <2>5
<1>6. SleepsLongEnough' /\ OnlyNamedWaits'
  BY <1>1 DEF IInv, SleepsLongEnough, OnlyNamedWaits
<1>. QED
  BY <1>4, <1>5, <1>6 DEF IInv

LEMMA BeginKeeps ==
  ASSUME IInv, NEW c \in Calls, Begin(c)
  PROVE  IInv'
<1>1. TypeOK'
  BY DEF IInv, TypeOK, CallsTypeOK, Begin, gateway, history
<1>2. BillsFollowWork'
  BY DEF IInv, TypeOK, CallsTypeOK, BillsFollowWork, Begin, gateway, Spare
<1>3. SleepsLongEnough' /\ OnlyNamedWaits'
  BY DEF IInv, TypeOK, CallsTypeOK, SleepsLongEnough, OnlyNamedWaits, Begin, history
<1>. QED
  BY <1>1, <1>2, <1>3 DEF IInv

LEMMA WakesKeeps ==
  ASSUME IInv, NEW c \in Calls, Wakes(c)
  PROVE  IInv'
<1>1. attempt[c] \in 1..MaxAttempts /\ attempt[c] < MaxAttempts
  BY DEF IInv, TypeOK, CallsTypeOK, SleepsLongEnough, Wakes
<1>2. TypeOK'
  BY <1>1, PolicyAssumption DEF IInv, TypeOK, CallsTypeOK, Wakes, gateway, history
<1>3. BillsFollowWork'
  BY <1>1 DEF IInv, TypeOK, CallsTypeOK, BillsFollowWork, Wakes, gateway, Spare
<1>4. SleepsLongEnough' /\ OnlyNamedWaits'
  BY DEF IInv, TypeOK, CallsTypeOK, SleepsLongEnough, OnlyNamedWaits, Wakes, history
<1>. QED
  BY <1>2, <1>3, <1>4 DEF IInv

\* A call that ends, and whose end names no wait.
LEMMA HomeKeeps ==
  ASSUME IInv, NEW c \in Calls, Home(c)
  PROVE  BillsFollowWork' /\ SleepsLongEnough'
<1>1. BillsFollowWork'
  <2>. SUFFICES ASSUME NEW d \in Calls
                PROVE  /\ bills'[d] <= Spare + 1
                       /\ work'[d] = "none" => bills'[d] <= Spare
                       /\ work'[d] \in {"running", "detached"} => bills'[d] >= 1
                       /\ pc'[d] = "idle" =>
                            work'[d] = "none" /\ bills'[d] = 0 /\ attempt'[d] = 1
                       /\ pc'[d] = "sending" /\ attempt'[d] = 1 =>
                            /\ work'[d] # "detached"
                            /\ bills'[d] <= 1
                            /\ work'[d] = "none" => bills'[d] = 0
    BY DEF BillsFollowWork, Spare
  <2>1. CASE d = c
    BY <2>1 DEF IInv, TypeOK, CallsTypeOK, Home, Spare
  <2>2. CASE d # c
    BY <2>2 DEF IInv, TypeOK, CallsTypeOK, BillsFollowWork, Home
  <2>. QED
    BY <2>1, <2>2
<1>2. SleepsLongEnough'
  BY DEF IInv, TypeOK, CallsTypeOK, SleepsLongEnough, Home
<1>. QED
  BY <1>1, <1>2

\* A recorded cooldown comes with the wait that was named for the same model.
LEMMA NotedIsNamed ==
  ASSUME IInv, NEW c \in Calls, NEW e \in Errors, Note(c, e), Remember(c, e)
  PROVE  OnlyNamedWaits'
<1>. SUFFICES ASSUME NEW m \in Models PROVE cooling'[m] <= named'[m]
  BY DEF OnlyNamedWaits
<1>1. cooling[m] \in Nat /\ named[m] \in Nat /\ cooling[m] <= named[m]
  BY DEF IInv, TypeOK, CallsTypeOK, OnlyNamedWaits
<1>2. e.wait > 0 => e.wait \in Nat
  BY ErrorFields DEF NoWait
<1>3. CASE e.kind = "backend-unavailable" /\ e.wait > 0 /\ m = model[c]
  <2>1. cooling'[m] = e.wait
    BY <1>3 DEF Note, IInv, TypeOK, CallsTypeOK
  <2>2. named'[m] = IF named[m] < e.wait THEN e.wait ELSE named[m]
    BY <1>3 DEF Remember, IInv, TypeOK, CallsTypeOK
  <2>. QED
    BY <1>1, <1>2, <1>3, <2>1, <2>2
<1>4. CASE ~(e.kind = "backend-unavailable" /\ e.wait > 0 /\ m = model[c])
  <2>1. cooling'[m] = cooling[m]
    BY <1>4 DEF Note, IInv, TypeOK, CallsTypeOK
  <2>2. named'[m] = named[m]
    BY <1>4 DEF Remember, Leaves, IInv, TypeOK, CallsTypeOK
  <2>. QED
    BY <1>1, <2>1, <2>2
<1>. QED
  BY <1>3, <1>4

LEMMA EndsKeep ==
  ASSUME IInv, NEW c \in Calls, Succeeds(c) \/ RaisesError(c) \/ GivesUp(c)
  PROVE  IInv'
<1>1. Home(c)
  BY DEF Succeeds, RaisesError, GivesUp
<1>2. BillsFollowWork' /\ SleepsLongEnough'
  BY <1>1, HomeKeeps
<1>3. CASE Succeeds(c) \/ GivesUp(c)
  <2>1. /\ cooling' \in [Models -> Nat]
        /\ \A m \in Models : cooling'[m] <= cooling[m]
        /\ UNCHANGED named
        /\ older' \subseteq Calls
    BY <1>3 DEF Succeeds, GivesUp, Leaves, IInv, TypeOK, CallsTypeOK
  <2>2. TypeOK'
    BY <1>1, <2>1, HomeTypes DEF IInv, TypeOK, CallsTypeOK
  <2>3. OnlyNamedWaits'
    BY <2>1, <2>2 DEF IInv, TypeOK, CallsTypeOK, OnlyNamedWaits
  <2>. QED
    BY <1>2, <2>2, <2>3 DEF IInv
<1>4. CASE RaisesError(c)
  <2>1. PICK e \in Errors : Note(c, e) /\ Remember(c, e)
    BY <1>4 DEF RaisesError, Answers
  <2>2. TypeOK'
    BY <1>1, <2>1, HomeTypes, NoteTypes, RememberTypes DEF IInv, TypeOK, CallsTypeOK
  <2>3. OnlyNamedWaits'
    BY <2>1, NotedIsNamed
  <2>. QED
    BY <1>2, <2>2, <2>3 DEF IInv
<1>. QED
  BY <1>3, <1>4

\* An error after which the loop goes on leaves no bill behind, or the one spare.
LEMMA RetriesErrorKeeps ==
  ASSUME IInv, NEW c \in Calls, RetriesError(c)
  PROVE  IInv'
<1>a. PICK e \in Answers(c) :
        /\ Note(c, e) /\ AfterError(c, e) /\ Remember(c, e)
        /\ \E d \in Delays(e, attempt[c]) : SleepFor(c, d, e.wait)
  BY DEF RetriesError
<1>b. PICK d \in Delays(e, attempt[c]) : SleepFor(c, d, e.wait)
  BY <1>a
<1>1. Note(c, e) /\ SleepFor(c, d, e.wait) /\ AfterError(c, e) /\ Remember(c, e)
  BY <1>a, <1>b
<1>2. e \in Errors /\ attempt[c] \in 1..MaxAttempts /\ pc[c] = "sending"
  BY DEF Answers, IInv, TypeOK, CallsTypeOK, RetriesError
<1>3. /\ d \in 0..MaxBackoff
      /\ e.wait # NoWait => d = e.wait
      /\ WorthRetrying(e, attempt[c])
  BY <1>2, DelaysBounded
<1>4. e.wait \in Nat \/ e.wait = NoWait
  BY <1>2, ErrorFields
<1>5. work' \in [Calls -> Fates] /\ bills' \in [Calls -> Nat]
  <2>1. work[c] = "running" => bills[c] \in Nat /\ bills[c] >= 1
    BY DEF IInv, TypeOK, CallsTypeOK, BillsFollowWork
  <2>. QED
    BY <1>1, <2>1 DEF AfterError, gateway, IInv, TypeOK, CallsTypeOK, Fates
<1>6. TypeOK'
  <2>1. /\ pc' \in [Calls -> {"idle", "sending", "sleeping"}]
        /\ pause' \in [Calls -> 0..MaxBackoff]
        /\ asked' \in [Calls -> Nat]
        /\ UNCHANGED <<model, keyed, attempt>>
    BY <1>1, <1>3, <1>4, SleepTypes DEF IInv
  <2>2. cooling' \in [Models -> Nat] /\ named' \in [Models -> Nat] /\ older' \subseteq Calls
    BY <1>1, <1>2, NoteTypes, RememberTypes DEF IInv
  <2>. QED
    BY <1>5, <2>1, <2>2 DEF IInv, TypeOK, CallsTypeOK
<1>7. BillsFollowWork'
  <2>. SUFFICES ASSUME NEW x \in Calls
                PROVE  /\ bills'[x] <= Spare + 1
                       /\ work'[x] = "none" => bills'[x] <= Spare
                       /\ work'[x] \in {"running", "detached"} => bills'[x] >= 1
                       /\ pc'[x] = "idle" =>
                            work'[x] = "none" /\ bills'[x] = 0 /\ attempt'[x] = 1
                       /\ pc'[x] = "sending" /\ attempt'[x] = 1 =>
                            /\ work'[x] # "detached"
                            /\ bills'[x] <= 1
                            /\ work'[x] = "none" => bills'[x] = 0
    BY DEF BillsFollowWork, Spare
  <2>1. CASE x # c
    <3>1. /\ work'[x] = work[x] /\ bills'[x] = bills[x]
          /\ pc'[x] = pc[x] /\ attempt'[x] = attempt[x]
      BY <1>1, <2>1 DEF AfterError, SleepFor, gateway, IInv, TypeOK, CallsTypeOK
    <3>. QED
      BY <3>1 DEF IInv, BillsFollowWork
  <2>2. CASE x = c
    <3>1. pc'[c] = "sleeping" /\ bills[c] \in Nat /\ Spare \in {0, 1}
      BY <1>1 DEF SleepFor, IInv, TypeOK, CallsTypeOK, Spare
    <3>2. /\ bills[c] <= Spare + 1
          /\ work[c] = "none" => bills[c] <= Spare
          /\ work[c] \in {"running", "detached"} => bills[c] >= 1
          /\ attempt[c] = 1 => bills[c] <= 1
      BY <1>2 DEF IInv, BillsFollowWork
    <3>3. CASE e.kind = "upstream-error" /\ work[c] = "running"
      <4>1. Spare = 1 /\ attempt[c] = 1
        BY <1>3, <3>3 DEF WorthRetrying, Spare
      <4>2. bills'[c] \in {bills[c], bills[c] - 1} /\ work'[c] \in {"none", "failed"}
        BY <1>1, <3>3 DEF AfterError, gateway, IInv, TypeOK, CallsTypeOK
      <4>. QED
        BY <2>2, <3>1, <3>2, <4>1, <4>2
    <3>4. CASE ~(e.kind = "upstream-error" /\ work[c] = "running")
      <4>1. bills'[c] = bills[c] /\ work'[c] = work[c]
        BY <1>1, <3>4 DEF AfterError, gateway
      <4>. QED
        BY <2>2, <3>1, <3>2, <4>1
    <3>. QED
      BY <3>3, <3>4
  <2>. QED
    BY <2>1, <2>2
<1>8. SleepsLongEnough'
  <2>. SUFFICES ASSUME NEW x \in Calls, pc'[x] = "sleeping"
                PROVE  pause'[x] >= asked'[x] /\ attempt'[x] < MaxAttempts
    BY DEF SleepsLongEnough
  <2>1. CASE x = c
    <3>1. pause'[c] = d /\ asked'[c] = (IF e.wait = NoWait THEN 0 ELSE e.wait)
      BY <1>1 DEF SleepFor, IInv, TypeOK, CallsTypeOK
    <3>2. attempt'[c] < MaxAttempts
      BY <1>1, <1>3 DEF SleepFor, WorthRetrying
    <3>3. d \in Nat
      BY <1>3, PolicyAssumption
    <3>. QED
      BY <1>3, <2>1, <3>1, <3>2, <3>3
  <2>2. CASE x # c
    BY <1>1, <2>2 DEF SleepFor, IInv, TypeOK, CallsTypeOK, SleepsLongEnough
  <2>. QED
    BY <2>1, <2>2
<1>9. OnlyNamedWaits'
  BY <1>1, <1>2, NotedIsNamed
<1>. QED
  BY <1>6, <1>7, <1>8, <1>9 DEF IInv

\* A timeout is followed by another attempt only under a key, which leads to the same work.
LEMMA RetriesTimeoutKeeps ==
  ASSUME IInv, NEW c \in Calls, RetriesTimeout(c)
  PROVE  IInv'
<1>1. PICK d \in Backoffs(attempt[c]) : SleepFor(c, d, NoWait)
  BY DEF RetriesTimeout
<1>2. attempt[c] \in 1..MaxAttempts /\ attempt[c] < MaxAttempts /\ keyed[c]
  BY DEF RetriesTimeout, IInv, TypeOK, CallsTypeOK
<1>3. d \in 0..MaxBackoff
  BY <1>1, <1>2, BackoffsBounded
<1>4. /\ work' = [work EXCEPT ![c] = IF work[c] = "running" THEN "detached" ELSE work[c]]
      /\ UNCHANGED <<bills, cooling, named>>
      /\ older' = older \ {c}
  BY <1>2 DEF RetriesTimeout, Abandoned, Leaves
<1>5. TypeOK'
  <2>1. /\ pc' \in [Calls -> {"idle", "sending", "sleeping"}]
        /\ pause' \in [Calls -> 0..MaxBackoff]
        /\ asked' \in [Calls -> Nat]
        /\ UNCHANGED <<model, keyed, attempt>>
    BY <1>1, <1>3, SleepTypes DEF IInv
  <2>2. work' \in [Calls -> Fates]
    BY <1>4 DEF IInv, TypeOK, CallsTypeOK, Fates
  <2>. QED
    BY <1>4, <2>1, <2>2 DEF IInv, TypeOK, CallsTypeOK
<1>6. BillsFollowWork'
  BY <1>1, <1>4 DEF IInv, TypeOK, CallsTypeOK, BillsFollowWork, SleepFor, Spare
<1>7. SleepsLongEnough'
  <2>. SUFFICES ASSUME NEW x \in Calls, pc'[x] = "sleeping"
                PROVE  pause'[x] >= asked'[x] /\ attempt'[x] < MaxAttempts
    BY DEF SleepsLongEnough
  <2>1. CASE x = c
    BY <1>1, <1>2, <1>3, <2>1, PolicyAssumption DEF SleepFor, IInv, TypeOK, CallsTypeOK
  <2>2. CASE x # c
    BY <1>1, <2>2 DEF SleepFor, IInv, TypeOK, CallsTypeOK, SleepsLongEnough
  <2>. QED
    BY <2>1, <2>2
<1>8. OnlyNamedWaits'
  BY <1>4 DEF IInv, OnlyNamedWaits
<1>. QED
  BY <1>5, <1>6, <1>7, <1>8 DEF IInv

LEMMA StepInvariant == IInv /\ [Next]_vars => IInv'
<1>. SUFFICES ASSUME IInv, [Next]_vars PROVE IInv'
  OBVIOUS
<1>1. CASE Next
  BY <1>1, TickKeeps, GatewayKeeps, BeginKeeps, WakesKeeps, EndsKeep, RetriesErrorKeeps,
     RetriesTimeoutKeeps
  DEF Next, GatewayStep, AttemptEnds
<1>2. CASE UNCHANGED vars
  BY <1>2
  DEF vars, loop, gateway, history, IInv, TypeOK, CallsTypeOK, BillsFollowWork,
      SleepsLongEnough, OnlyNamedWaits, Spare
<1>. QED
  BY <1>1, <1>2

-------------------------------------------------------------------------------
(* The theorems. *)

\* The inductive invariant holds of every behaviour of the retry loop.
THEOREM Invariance == Spec => []IInv
  BY InitInvariant, StepInvariant, PTL DEF Spec

\* The variables of the loop, the registry and the gateway keep their types: no attempt
\* beyond max_attempts, no sleep longer than max_backoff.
THEOREM Types == Spec => []TypeOK
<1>1. IInv => TypeOK
  BY DEF IInv
<1>. QED
  BY <1>1, Invariance, PTL

\* One call is billed once, whatever mixture of refusals, timeouts, upstream errors and
\* replays its attempts meet; twice at most where the caller opted in.
THEOREM OneBill == Spec => []BilledOnce
<1>1. Spare + 1 = IF RetryUpstream THEN 2 ELSE 1
  BY PolicyAssumption DEF Spare
<1>2. ASSUME IInv, NEW c \in Calls
      PROVE  bills[c] <= IF RetryUpstream THEN 2 ELSE 1
  BY <1>1, <1>2 DEF IInv, BillsFollowWork
<1>3. IInv => BilledOnce
  BY <1>2 DEF BilledOnce
<1>. QED
  BY <1>3, Invariance, PTL

\* A cooldown never outlives the longest wait the gateway named for its model.
THEOREM CooldownsAreNamed == Spec => []OnlyNamedWaits
<1>1. IInv => OnlyNamedWaits
  BY DEF IInv
<1>. QED
  BY <1>1, Invariance, PTL

\* No attempt follows before the Retry-After of the one before it has run out.
THEOREM WaitsAreHonoured == Spec => HonoursRetryAfter
<1>1. ASSUME IInv, [Next]_vars, NEW c \in Calls, pc[c] = "sleeping", pc'[c] = "sending"
      PROVE  asked[c] = 0
  <2>1. asked[c] \in Nat /\ pause[c] \in Nat /\ asked[c] <= pause[c]
    BY <1>1, PolicyAssumption DEF IInv, TypeOK, CallsTypeOK, SleepsLongEnough
  <2>2. Wakes(c)
    <3>1. pc \in [Calls -> {"idle", "sending", "sleeping"}]
      BY <1>1 DEF IInv, TypeOK, CallsTypeOK
    <3>. QED
      BY <1>1, <3>1
      DEF Next, Tick, GatewayStep, Dispatch, Generated, DetachedFails, Begin, AttemptEnds,
          Succeeds, RetriesError, RaisesError, RetriesTimeout, GivesUp, Wakes, Home,
          SleepFor, vars, loop
  <2>. QED
    BY <2>1, <2>2 DEF Wakes
<1>2. IInv /\ [Next]_vars
        => [\A c \in Calls : pc[c] = "sleeping" /\ pc'[c] = "sending" => asked[c] = 0]_pc
  BY <1>1
<1>. QED
  BY <1>2, Invariance, PTL DEF Spec, HonoursRetryAfter
===============================================================================
