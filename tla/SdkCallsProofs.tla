---------------------------- MODULE SdkCallsProofs ----------------------------
(***************************************************************************)
(* Proofs about the retry loops of the Go, Rust and TypeScript SDKs: for   *)
(* any number of concurrent calls, any policy and any waits the gateway    *)
(* names, a call makes no more attempts than it may and is billed as its   *)
(* SDK promises, a model is refused locally only because of its own        *)
(* outage, and a Retry-After is honoured.                                  *)
(***************************************************************************)
EXTENDS SdkCalls, TLAPS

\* What delayFor returns is a wait of at most max_backoff that is no shorter than the
\* Retry-After, and there are attempts left; so is a backoff.
LEMMA DelaysBounded ==
  ASSUME NEW e \in Errors, NEW n \in Nat, NEW d \in Delays(e, n)
  PROVE  /\ d \in 0..MaxBackoff
         /\ WaitOf(e) # NoWait => d = WaitOf(e)
         /\ WorthRetrying(e, n)
  BY DEF Delays, Backoffs

LEMMA BackoffsBounded ==
  ASSUME NEW n \in Nat
  PROVE  Backoffs(n) \subseteq 0..MaxBackoff
  BY DEF Backoffs

LEMMA ErrorFields ==
  ASSUME NEW e \in Errors
  PROVE  /\ e.kind \in Kinds
         /\ e.wait \in Nat \/ e.wait = NoWait
         /\ WaitOf(e) \in Nat \/ WaitOf(e) = NoWait
  BY PolicyAssumption DEF Errors, WaitOf

LEMMA InitInvariant == Init => IInv
  BY PolicyAssumption
  DEF Init, CallsInit, IInv, LoopTypeOK, TypeOK, BillsFollowWork, SleepsLongEnough,
      OnlyNamedWaits, Fates, Spare

-------------------------------------------------------------------------------
(* What the pieces of a step keep. *)

LEMMA NoteTypes ==
  ASSUME LoopTypeOK, NEW c \in Calls, NEW e \in Errors, Note(c, e)
  PROVE  cooling' \in [Models -> Nat]
<1>1. e.wait > 0 => e.wait \in Nat
  BY ErrorFields DEF NoWait
<1>. QED
  BY <1>1 DEF Note, LoopTypeOK

LEMMA RememberTypes ==
  ASSUME LoopTypeOK, NEW c \in Calls, NEW e \in Errors, Remember(c, e)
  PROVE  named' \in [Models -> Nat] /\ older' \subseteq Calls
<1>1. e.wait > 0 => e.wait \in Nat
  BY ErrorFields DEF NoWait
<1>. QED
  BY <1>1 DEF Remember, Leaves, LoopTypeOK

\* A call that ends.
LEMMA HomeTypes ==
  ASSUME LoopTypeOK, NEW c \in Calls, Over(c), cooling' \in [Models -> Nat],
         named' \in [Models -> Nat], older' \subseteq Calls
  PROVE  LoopTypeOK'
<1>1. /\ sdk' = sdk /\ refreshed' = refreshed \ {c}
      /\ pc' = [pc EXCEPT ![c] = "idle"]
      /\ attempt' = [attempt EXCEPT ![c] = 1]
      /\ pause' = [pause EXCEPT ![c] = 0]
  BY DEF Over, Home
<1>2. TypeOK'
  <2>1. \A d \in Calls : attempt'[d] \in 1..(MaxAttempts + IF d \in refreshed' THEN 1 ELSE 0)
    BY <1>1, PolicyAssumption DEF LoopTypeOK, TypeOK
  <2>2. \A d \in Calls : pause'[d] \in 0..MaxBackoff
    BY <1>1, PolicyAssumption DEF LoopTypeOK, TypeOK
  <2>. QED
    BY <1>1, <2>1, <2>2 DEF LoopTypeOK, TypeOK
<1>. QED
  BY <1>1, <1>2, PolicyAssumption DEF Over, Home, LoopTypeOK, Fates

LEMMA HomeKeeps ==
  ASSUME IInv, NEW c \in Calls, Over(c)
  PROVE  BillsFollowWork' /\ SleepsLongEnough'
<1>1. sdk' = sdk /\ refreshed' = refreshed \ {c} /\ Home(c)
  BY DEF Over
<1>2. BillsFollowWork'
  <2>. SUFFICES ASSUME NEW d \in Calls
                PROVE  /\ work'[d] \in {"running", "detached"} => bills'[d] >= 1
                       /\ pc'[d] = "idle" =>
                            /\ work'[d] = "none" /\ bills'[d] = 0 /\ attempt'[d] = 1
                            /\ d \notin refreshed'
                       /\ sdk' # "typescript" \/ keyed'[d] =>
                            /\ bills'[d] <= Spare' + 1
                            /\ work'[d] = "none" => bills'[d] <= Spare'
                            /\ sdk' # "typescript" /\ pc'[d] = "sending" /\ attempt'[d] = 1 =>
                                 /\ work'[d] # "detached"
                                 /\ bills'[d] <= 1
                                 /\ work'[d] = "none" => bills'[d] = 0
    BY DEF BillsFollowWork
  <2>1. Spare' = Spare /\ Spare \in {0, 1}
    BY <1>1 DEF Spare
  <2>2. CASE d = c
    <3>1. work'[c] = "none" /\ bills'[c] = 0 /\ attempt'[c] = 1 /\ pc'[c] = "idle"
      BY <1>1 DEF IInv, LoopTypeOK, Home
    <3>. QED
      BY <1>1, <2>1, <2>2, <3>1
  <2>3. CASE d # c
    <3>1. /\ work'[d] = work[d] /\ bills'[d] = bills[d] /\ attempt'[d] = attempt[d]
          /\ pc'[d] = pc[d] /\ keyed'[d] = keyed[d]
      BY <1>1, <2>3 DEF IInv, LoopTypeOK, Home
    <3>. QED
      BY <1>1, <2>1, <2>3, <3>1 DEF IInv, BillsFollowWork
  <2>. QED
    BY <2>2, <2>3
<1>3. SleepsLongEnough'
  BY <1>1 DEF IInv, LoopTypeOK, SleepsLongEnough, Home
<1>. QED
  BY <1>2, <1>3

\* The loop goes to sleep: there is an attempt left, and the sleep is as long as was asked.
LEMMA SleepKeeps ==
  ASSUME IInv, NEW c \in Calls, NEW d \in 0..MaxBackoff, NEW w, w \in Nat \/ w = NoWait,
         w # NoWait => d = w, attempt[c] < MaxAttempts, SleepFor(c, d, w),
         UNCHANGED <<sdk, refreshed>>
  PROVE  /\ pc' \in [Calls -> {"idle", "sending", "sleeping"}]
         /\ pause' \in [Calls -> 0..MaxBackoff]
         /\ asked' \in [Calls -> Nat]
         /\ UNCHANGED <<model, keyed, attempt>>
         /\ TypeOK'
         /\ SleepsLongEnough'
<1>1. /\ pc' = [pc EXCEPT ![c] = "sleeping"]
      /\ pause' = [pause EXCEPT ![c] = d]
      /\ asked' = [asked EXCEPT ![c] = IF w = NoWait THEN 0 ELSE w]
      /\ UNCHANGED <<model, keyed, attempt>>
  BY DEF SleepFor
<1>2. /\ pc' \in [Calls -> {"idle", "sending", "sleeping"}]
      /\ pause' \in [Calls -> 0..MaxBackoff]
      /\ asked' \in [Calls -> Nat]
  BY <1>1 DEF IInv, LoopTypeOK
<1>3. TypeOK'
  BY <1>1, <1>2 DEF IInv, LoopTypeOK, TypeOK
<1>4. SleepsLongEnough'
  <2>. SUFFICES ASSUME NEW x \in Calls, pc'[x] = "sleeping"
                PROVE  pause'[x] >= asked'[x] /\ attempt'[x] < MaxAttempts
    BY DEF SleepsLongEnough
  <2>1. CASE x = c
    <3>1. pause'[c] = d /\ asked'[c] = (IF w = NoWait THEN 0 ELSE w) /\ attempt'[c] < MaxAttempts
      BY <1>1 DEF IInv, LoopTypeOK
    <3>2. d \in Nat
      BY PolicyAssumption
    <3>. QED
      BY <2>1, <3>1, <3>2
  <2>2. CASE x # c
    BY <1>1, <2>2 DEF IInv, LoopTypeOK, SleepsLongEnough
  <2>. QED
    BY <2>1, <2>2
<1>. QED
  BY <1>1, <1>2, <1>3, <1>4

\* A recorded cooldown comes with the wait that was named for the same model.
LEMMA NotedIsNamed ==
  ASSUME IInv, NEW c \in Calls, NEW e \in Errors, Note(c, e), Remember(c, e)
  PROVE  OnlyNamedWaits'
<1>. SUFFICES ASSUME NEW m \in Models PROVE cooling'[m] <= named'[m]
  BY DEF OnlyNamedWaits
<1>1. cooling[m] \in Nat /\ named[m] \in Nat /\ cooling[m] <= named[m]
  BY DEF IInv, LoopTypeOK, OnlyNamedWaits
<1>2. e.wait > 0 => e.wait \in Nat
  BY ErrorFields DEF NoWait
<1>3. CASE e.kind = "backend-unavailable" /\ e.wait > 0 /\ m = model[c]
  <2>1. cooling'[m] \in {e.wait, cooling[m]}
    BY <1>3 DEF Note, IInv, LoopTypeOK
  <2>2. named'[m] = IF named[m] < e.wait THEN e.wait ELSE named[m]
    BY <1>3 DEF Remember, IInv, LoopTypeOK
  <2>. QED
    BY <1>1, <1>2, <1>3, <2>1, <2>2
<1>4. CASE ~(e.kind = "backend-unavailable" /\ e.wait > 0 /\ m = model[c])
  <2>1. cooling'[m] = cooling[m]
    BY <1>4 DEF Note, IInv, LoopTypeOK
  <2>2. named'[m] = named[m]
    BY <1>4 DEF Remember, Leaves, IInv, LoopTypeOK
  <2>. QED
    BY <1>1, <2>1, <2>2
<1>. QED
  BY <1>3, <1>4

-------------------------------------------------------------------------------
(* Every step keeps the invariant. *)

LEMMA TickKeeps ==
  ASSUME IInv, TimePasses
  PROVE  IInv'
<1>. USE DEF TimePasses
<1>1. \A n \in Nat : Down(n) \in Nat /\ Down(n) <= n
  BY DEF Down
<1>2. \A n, m \in Nat : n <= m => Down(n) <= Down(m)
  BY DEF Down
<1>3. \A n \in 0..MaxBackoff : Down(n) \in 0..MaxBackoff
  BY PolicyAssumption DEF Down
<1>4. LoopTypeOK'
  BY <1>1, <1>3 DEF IInv, LoopTypeOK, TypeOK, Tick, gateway
<1>5. BillsFollowWork'
  BY DEF IInv, BillsFollowWork, Tick, gateway, Spare
<1>6. SleepsLongEnough'
  <2>. SUFFICES ASSUME NEW c \in Calls, pc'[c] = "sleeping"
                PROVE  pause'[c] >= asked'[c] /\ attempt'[c] < MaxAttempts
    BY DEF SleepsLongEnough
  <2>1. pause[c] \in Nat /\ asked[c] \in Nat /\ asked[c] <= pause[c] /\ attempt[c] < MaxAttempts
    BY PolicyAssumption DEF IInv, LoopTypeOK, SleepsLongEnough, Tick
  <2>2. pause'[c] = Down(pause[c]) /\ asked'[c] = Down(asked[c]) /\ attempt' = attempt
    BY DEF Tick
  <2>. QED
    BY <1>1, <1>2, <2>1, <2>2
<1>7. OnlyNamedWaits'
  <2>. SUFFICES ASSUME NEW m \in Models PROVE cooling'[m] <= named'[m]
    BY DEF OnlyNamedWaits
  <2>1. cooling[m] \in Nat /\ named[m] \in Nat /\ cooling[m] <= named[m]
    BY DEF IInv, LoopTypeOK, OnlyNamedWaits
  <2>. QED
    BY <1>2, <2>1 DEF Tick
<1>. QED
  BY <1>4, <1>5, <1>6, <1>7 DEF IInv

LEMMA GatewayKeeps ==
  ASSUME IInv, NEW c \in Calls, Dispatch(c) \/ Generated(c) \/ DetachedFails(c),
         UNCHANGED <<sdk, refreshed>>
  PROVE  IInv'
<1>1. UNCHANGED <<sdk, refreshed, pc, model, keyed, attempt, pause, cooling, asked, named, older>>
  BY DEF Dispatch, Generated, DetachedFails, loop, history
<1>2. bills[c] \in Nat /\ work \in [Calls -> Fates] /\ bills \in [Calls -> Nat]
  BY DEF IInv, LoopTypeOK
<1>3. work[c] = "detached" => bills[c] >= 1
  BY DEF IInv, BillsFollowWork
<1>4. LoopTypeOK'
  BY <1>1, <1>2, <1>3 DEF IInv, LoopTypeOK, TypeOK, Dispatch, Generated, DetachedFails, Fates
<1>5. BillsFollowWork'
  <2>. SUFFICES ASSUME NEW d \in Calls
                PROVE  /\ work'[d] \in {"running", "detached"} => bills'[d] >= 1
                       /\ pc[d] = "idle" =>
                            /\ work'[d] = "none" /\ bills'[d] = 0 /\ attempt[d] = 1
                            /\ d \notin refreshed
                       /\ sdk # "typescript" \/ keyed[d] =>
                            /\ bills'[d] <= Spare + 1
                            /\ work'[d] = "none" => bills'[d] <= Spare
                            /\ sdk # "typescript" /\ pc[d] = "sending" /\ attempt[d] = 1 =>
                                 /\ work'[d] # "detached"
                                 /\ bills'[d] <= 1
                                 /\ work'[d] = "none" => bills'[d] = 0
    BY <1>1 DEF BillsFollowWork, Spare
  <2>1. bills[d] \in Nat /\ Spare \in {0, 1}
    BY <1>2 DEF Spare
  <2>2. CASE d # c
    <3>1. work'[d] = work[d] /\ bills'[d] = bills[d]
      BY <1>2, <2>2 DEF Dispatch, Generated, DetachedFails
    <3>. QED
      BY <3>1 DEF IInv, BillsFollowWork
  <2>3. CASE d = c /\ Dispatch(c)
    <3>1. pc[c] = "sending" /\ work[c] = "none" /\ work'[c] = "running" /\ bills'[c] = bills[c] + 1
      BY <1>2, <2>3 DEF Dispatch
    <3>. QED
      BY <2>1, <2>3, <3>1 DEF IInv, BillsFollowWork
  <2>4. CASE d = c /\ Generated(c)
    <3>1. work[c] \in {"running", "detached"} /\ work'[c] = "done" /\ bills'[c] = bills[c]
      BY <1>2, <2>4 DEF Generated
    <3>. QED
      BY <2>1, <2>4, <3>1 DEF IInv, BillsFollowWork
  <2>5. CASE d = c /\ DetachedFails(c)
    <3>1. /\ work[c] = "detached" /\ work'[c] \in {"none", "failed"}
          /\ bills'[c] = bills[c] - 1
      BY <1>2, <2>5 DEF DetachedFails
    <3>. QED
      BY <2>1, <2>5, <3>1 DEF IInv, BillsFollowWork
  <2>. QED
    BY <2>2, <2>3, <2>4, <2>5
<1>6. SleepsLongEnough' /\ OnlyNamedWaits'
  BY <1>1 DEF IInv, SleepsLongEnough, OnlyNamedWaits
<1>. QED
  BY <1>4, <1>5, <1>6 DEF IInv

LEMMA BeginKeeps ==
  ASSUME IInv, NEW c \in Calls, Begin(c)
  PROVE  IInv'
<1>1. /\ UNCHANGED <<sdk, refreshed, attempt, pause, cooling, work, bills, asked, named, older>>
      /\ pc[c] = "idle" /\ pc' = [pc EXCEPT ![c] = "sending"]
  BY DEF Begin, gateway, history
<1>2. LoopTypeOK'
  BY DEF IInv, LoopTypeOK, TypeOK, Begin, gateway, history
<1>3. BillsFollowWork'
  <2>1. \A d \in Calls : d # c => pc'[d] = pc[d] /\ keyed'[d] = keyed[d]
    BY DEF Begin, IInv, LoopTypeOK
  <2>2. pc'[c] = "sending" /\ work[c] = "none" /\ bills[c] = 0
    BY <1>1 DEF IInv, LoopTypeOK, BillsFollowWork
  <2>3. Spare' = Spare /\ Spare \in {0, 1}
    BY <1>1 DEF Spare
  <2>. QED
    BY <1>1, <2>1, <2>2, <2>3 DEF IInv, BillsFollowWork
<1>4. SleepsLongEnough' /\ OnlyNamedWaits'
  BY <1>1 DEF IInv, LoopTypeOK, SleepsLongEnough, OnlyNamedWaits
<1>. QED
  BY <1>2, <1>3, <1>4 DEF IInv

LEMMA WakesKeeps ==
  ASSUME IInv, NEW c \in Calls, Wakes(c)
  PROVE  IInv'
<1>1. /\ UNCHANGED <<sdk, refreshed, keyed, pause, cooling, work, bills, asked, named, older>>
      /\ pc[c] = "sleeping" /\ pc' = [pc EXCEPT ![c] = "sending"]
      /\ attempt' = [attempt EXCEPT ![c] = @ + 1]
  BY DEF Wakes, gateway, history
<1>2. attempt[c] \in Nat /\ attempt[c] >= 1 /\ attempt[c] < MaxAttempts
  BY <1>1, PolicyAssumption DEF IInv, LoopTypeOK, TypeOK, SleepsLongEnough
<1>3. LoopTypeOK'
  BY <1>1, <1>2, PolicyAssumption DEF IInv, LoopTypeOK, TypeOK, Wakes
<1>4. BillsFollowWork'
  <2>1. \A d \in Calls : d # c => pc'[d] = pc[d] /\ attempt'[d] = attempt[d]
    BY <1>1 DEF IInv, LoopTypeOK
  <2>2. pc'[c] = "sending" /\ attempt'[c] # 1
    BY <1>1, <1>2 DEF IInv, LoopTypeOK
  <2>3. Spare' = Spare
    BY <1>1 DEF Spare
  <2>. QED
    BY <1>1, <2>1, <2>2, <2>3 DEF IInv, BillsFollowWork
<1>5. SleepsLongEnough' /\ OnlyNamedWaits'
  BY <1>1 DEF IInv, LoopTypeOK, SleepsLongEnough, OnlyNamedWaits
<1>. QED
  BY <1>3, <1>4, <1>5 DEF IInv

\* The one refresh of a call in TypeScript may add an attempt beyond the limit.
LEMMA RefreshesKeeps ==
  ASSUME IInv, NEW c \in Calls, Refreshes(c)
  PROVE  IInv'
<1>1. /\ UNCHANGED <<sdk, pc, keyed, pause, cooling, work, bills, asked, named, older, model>>
      /\ pc[c] = "sending" /\ c \notin refreshed /\ sdk = "typescript"
      /\ refreshed' = refreshed \union {c}
      /\ attempt' = [attempt EXCEPT ![c] = @ + 1]
  BY DEF Refreshes, gateway, history
<1>2. attempt[c] \in 1..MaxAttempts
  BY <1>1, PolicyAssumption DEF IInv, LoopTypeOK, TypeOK
<1>3. LoopTypeOK'
  <2>1. TypeOK'
    BY <1>1, <1>2, PolicyAssumption DEF IInv, LoopTypeOK, TypeOK
  <2>. QED
    BY <1>1, <1>2, <2>1 DEF IInv, LoopTypeOK
<1>4. BillsFollowWork'
  <2>1. \A d \in Calls : d # c => attempt'[d] = attempt[d] /\ (d \in refreshed' <=> d \in refreshed)
    BY <1>1 DEF IInv, LoopTypeOK
  <2>2. Spare' = Spare
    BY <1>1 DEF Spare
  <2>. QED
    BY <1>1, <2>1, <2>2 DEF IInv, BillsFollowWork
<1>5. SleepsLongEnough' /\ OnlyNamedWaits'
  BY <1>1 DEF IInv, LoopTypeOK, SleepsLongEnough, OnlyNamedWaits
<1>. QED
  BY <1>3, <1>4, <1>5 DEF IInv

LEMMA EndsKeep ==
  ASSUME IInv, NEW c \in Calls, Succeeds(c) \/ ReturnsError(c) \/ GivesUp(c)
  PROVE  IInv'
<1>1. Over(c)
  BY DEF Succeeds, ReturnsError, GivesUp
<1>2. BillsFollowWork' /\ SleepsLongEnough'
  BY <1>1, HomeKeeps
<1>3. CASE Succeeds(c) \/ GivesUp(c)
  <2>1. /\ cooling' \in [Models -> Nat]
        /\ \A m \in Models : cooling'[m] <= cooling[m]
        /\ UNCHANGED named
        /\ older' \subseteq Calls
    BY <1>3 DEF Succeeds, GivesUp, Leaves, IInv, LoopTypeOK
  <2>2. LoopTypeOK'
    BY <1>1, <2>1, HomeTypes DEF IInv, LoopTypeOK
  <2>3. OnlyNamedWaits'
    BY <2>1, <2>2 DEF IInv, LoopTypeOK, OnlyNamedWaits
  <2>. QED
    BY <1>2, <2>2, <2>3 DEF IInv
<1>4. CASE ReturnsError(c)
  <2>1. PICK e \in Errors : Note(c, e) /\ Remember(c, e)
    BY <1>4 DEF ReturnsError, Answers
  <2>2. LoopTypeOK'
    BY <1>1, <2>1, HomeTypes, NoteTypes, RememberTypes DEF IInv
  <2>3. OnlyNamedWaits'
    BY <2>1, NotedIsNamed
  <2>. QED
    BY <1>2, <2>2, <2>3 DEF IInv
<1>. QED
  BY <1>3, <1>4

\* An error after which the loop goes on leaves no bill behind, or the one spare.
LEMMA RetriesErrorKeeps ==
  ASSUME IInv, NEW c \in Calls, RetriesError(c)
  PROVE  IInv'
<1>a. PICK e \in Answers(c) :
        /\ Note(c, e) /\ AfterError(c, e) /\ Remember(c, e)
        /\ \E d \in Delays(e, attempt[c]) : SleepFor(c, d, WaitOf(e))
  BY DEF RetriesError
<1>b. PICK d \in Delays(e, attempt[c]) : SleepFor(c, d, WaitOf(e))
  BY <1>a
<1>1. /\ Note(c, e) /\ SleepFor(c, d, WaitOf(e)) /\ AfterError(c, e) /\ Remember(c, e)
      /\ UNCHANGED <<sdk, refreshed>>
  BY <1>a, <1>b DEF RetriesError
<1>2. e \in Errors /\ attempt[c] \in Nat /\ pc[c] = "sending"
  BY DEF Answers, IInv, LoopTypeOK, RetriesError
<1>3. /\ d \in 0..MaxBackoff
      /\ WaitOf(e) # NoWait => d = WaitOf(e)
      /\ WorthRetrying(e, attempt[c])
  BY <1>2, DelaysBounded
<1>4. WaitOf(e) \in Nat \/ WaitOf(e) = NoWait
  BY <1>2, ErrorFields
<1>5. work' \in [Calls -> Fates] /\ bills' \in [Calls -> Nat]
  <2>1. work[c] = "running" => bills[c] \in Nat /\ bills[c] >= 1
    BY DEF IInv, LoopTypeOK, BillsFollowWork
  <2>. QED
    BY <1>1, <2>1 DEF AfterError, gateway, IInv, LoopTypeOK, Fates
<1>6. /\ pc' \in [Calls -> {"idle", "sending", "sleeping"}]
      /\ pause' \in [Calls -> 0..MaxBackoff]
      /\ asked' \in [Calls -> Nat]
      /\ UNCHANGED <<model, keyed, attempt>>
      /\ TypeOK'
      /\ SleepsLongEnough'
  <2>1. attempt[c] < MaxAttempts
    BY <1>3 DEF WorthRetrying
  <2>. QED
    BY <1>1, <1>3, <1>4, <2>1, SleepKeeps
<1>7. LoopTypeOK'
  <2>1. cooling' \in [Models -> Nat] /\ named' \in [Models -> Nat] /\ older' \subseteq Calls
    BY <1>1, <1>2, NoteTypes, RememberTypes DEF IInv
  <2>. QED
    BY <1>5, <1>6, <2>1 DEF IInv, LoopTypeOK
<1>8. BillsFollowWork'
  <2>. SUFFICES ASSUME NEW x \in Calls
                PROVE  /\ work'[x] \in {"running", "detached"} => bills'[x] >= 1
                       /\ pc'[x] = "idle" =>
                            /\ work'[x] = "none" /\ bills'[x] = 0 /\ attempt[x] = 1
                            /\ x \notin refreshed
                       /\ sdk # "typescript" \/ keyed[x] =>
                            /\ bills'[x] <= Spare + 1
                            /\ work'[x] = "none" => bills'[x] <= Spare
                            /\ sdk # "typescript" /\ pc'[x] = "sending" /\ attempt[x] = 1 =>
                                 /\ work'[x] # "detached"
                                 /\ bills'[x] <= 1
                                 /\ work'[x] = "none" => bills'[x] = 0
    BY <1>1, <1>6 DEF BillsFollowWork, Spare
  <2>1. CASE x # c
    <3>1. work'[x] = work[x] /\ bills'[x] = bills[x] /\ pc'[x] = pc[x]
      BY <1>1, <2>1 DEF AfterError, SleepFor, gateway, IInv, LoopTypeOK
    <3>. QED
      BY <3>1 DEF IInv, BillsFollowWork
  <2>2. CASE x = c
    <3>1. pc'[c] = "sleeping" /\ bills[c] \in Nat /\ Spare \in {0, 1}
      BY <1>1 DEF SleepFor, IInv, LoopTypeOK, Spare
    <3>2. /\ work[c] \in {"running", "detached"} => bills[c] >= 1
          /\ sdk # "typescript" \/ keyed[c] =>
               /\ bills[c] <= Spare + 1
               /\ work[c] = "none" => bills[c] <= Spare
          /\ sdk # "typescript" /\ attempt[c] = 1 => bills[c] <= 1
      BY <1>2 DEF IInv, BillsFollowWork
    <3>3. CASE e.kind = "upstream-error" /\ work[c] = "running"
      <4>1. CASE sdk # "typescript"
        <5>1. Spare = 1 /\ attempt[c] = 1
          BY <1>3, <3>3, <4>1 DEF WorthRetrying, Spare
        <5>2. bills'[c] \in {bills[c], bills[c] - 1} /\ work'[c] \in {"none", "failed"}
          BY <1>1, <3>3 DEF AfterError, gateway, IInv, LoopTypeOK
        <5>. QED
          BY <2>2, <3>1, <3>2, <4>1, <5>1, <5>2
      <4>2. CASE sdk = "typescript"
        <5>1. Spare = 0
          BY <4>2 DEF Spare
        <5>2. \/ bills'[c] = bills[c] - 1 /\ work'[c] = "none"
              \/ bills'[c] = bills[c] /\ work'[c] = IF keyed[c] THEN "failed" ELSE "none"
          BY <1>1, <3>3 DEF AfterError, gateway, IInv, LoopTypeOK
        <5>. QED
          BY <2>2, <3>1, <3>2, <4>2, <5>1, <5>2
      <4>. QED
        BY <4>1, <4>2
    <3>4. CASE ~(e.kind = "upstream-error" /\ work[c] = "running")
      <4>1. bills'[c] = bills[c] /\ work'[c] = work[c]
        BY <1>1, <3>4 DEF AfterError, gateway
      <4>. QED
        BY <2>2, <3>1, <3>2, <4>1
    <3>. QED
      BY <3>3, <3>4
  <2>. QED
    BY <2>1, <2>2
<1>9. OnlyNamedWaits'
  BY <1>1, <1>2, NotedIsNamed
<1>. QED
  BY <1>6, <1>7, <1>8, <1>9 DEF IInv

\* Silence is followed by another attempt under a key, which leads to the same work, or in
\* TypeScript without one: then nothing is promised of the bills.
LEMMA RetriesSilenceKeeps ==
  ASSUME IInv, NEW c \in Calls, RetriesSilence(c)
  PROVE  IInv'
<1>1. PICK d \in Backoffs(attempt[c]) : SleepFor(c, d, NoWait)
  BY DEF RetriesSilence
<1>2. /\ attempt[c] \in Nat /\ attempt[c] < MaxAttempts
      /\ sdk # "typescript" => keyed[c]
  BY DEF RetriesSilence, IInv, LoopTypeOK
<1>3. d \in 0..MaxBackoff
  BY <1>1, <1>2, BackoffsBounded
<1>4. /\ work' = [work EXCEPT ![c] = Abandoned(c)]
      /\ UNCHANGED <<sdk, refreshed, bills, cooling, named>>
      /\ older' = older \ {c}
  BY <1>2 DEF RetriesSilence, Leaves
<1>5. /\ pc' \in [Calls -> {"idle", "sending", "sleeping"}]
      /\ pause' \in [Calls -> 0..MaxBackoff]
      /\ asked' \in [Calls -> Nat]
      /\ UNCHANGED <<model, keyed, attempt>>
      /\ TypeOK'
      /\ SleepsLongEnough'
  BY <1>1, <1>2, <1>3, <1>4, SleepKeeps
<1>6. LoopTypeOK'
  <2>1. work' \in [Calls -> Fates]
    BY <1>4 DEF Abandoned, IInv, LoopTypeOK, Fates
  <2>. QED
    BY <1>4, <1>5, <2>1 DEF IInv, LoopTypeOK
<1>7. BillsFollowWork'
  <2>1. Spare' = Spare
    BY <1>4 DEF Spare
  <2>2. /\ pc'[c] = "sleeping"
        /\ \A x \in Calls : x # c => pc'[x] = pc[x] /\ work'[x] = work[x]
    BY <1>1, <1>4 DEF SleepFor, IInv, LoopTypeOK
  <2>3. /\ keyed[c] => work'[c] = IF work[c] = "running" THEN "detached" ELSE work[c]
        /\ ~keyed[c] => work'[c] = "none"
    BY <1>4 DEF Abandoned, IInv, LoopTypeOK
  <2>. QED
    BY <1>2, <1>4, <1>5, <2>1, <2>2, <2>3 DEF IInv, BillsFollowWork
<1>8. OnlyNamedWaits'
  BY <1>4 DEF IInv, OnlyNamedWaits
<1>. QED
  BY <1>5, <1>6, <1>7, <1>8 DEF IInv

LEMMA StepInvariant == IInv /\ [Next]_vars => IInv'
<1>. SUFFICES ASSUME IInv, [Next]_vars PROVE IInv'
  OBVIOUS
<1>1. CASE Next
  BY <1>1, TickKeeps, GatewayKeeps, BeginKeeps, WakesKeeps, RefreshesKeeps, EndsKeep,
     RetriesErrorKeeps, RetriesSilenceKeeps
  DEF Next, GatewayStep, AttemptEnds
<1>2. CASE UNCHANGED vars
  BY <1>2
  DEF vars, loop, gateway, history, IInv, LoopTypeOK, TypeOK, BillsFollowWork,
      SleepsLongEnough, OnlyNamedWaits, Spare
<1>. QED
  BY <1>1, <1>2

-------------------------------------------------------------------------------
(* The theorems. *)

\* The inductive invariant holds of every behaviour of the three loops.
THEOREM Invariance == Spec => []IInv
  BY InitInvariant, StepInvariant, PTL DEF Spec

\* A call makes no attempt beyond the limit, but one for a refreshed token in TypeScript; it is
\* billed as its SDK promises; and a cooldown never outlives the waits named for its model.
THEOREM CallsAreSafe == Spec => []Safety
<1>1. ASSUME IInv, NEW c \in Calls, sdk # "typescript" \/ keyed[c]
      PROVE  bills[c] <= IF RetryUpstream /\ sdk # "typescript" THEN 2 ELSE 1
  <2>1. bills[c] <= Spare + 1
    BY <1>1 DEF IInv, BillsFollowWork
  <2>2. Spare + 1 = IF RetryUpstream /\ sdk # "typescript" THEN 2 ELSE 1
    BY PolicyAssumption DEF Spare
  <2>. QED
    BY <2>1, <2>2
<1>2. IInv => Safety
  BY <1>1 DEF Safety, BilledOnceAsPromised, IInv, LoopTypeOK
<1>. QED
  BY <1>2, Invariance, PTL

\* No attempt follows before the Retry-After of the one before it has run out.
THEOREM WaitsAreHonoured == Spec => HonoursRetryAfter
<1>1. ASSUME IInv, [Next]_vars, NEW c \in Calls, pc[c] = "sleeping", pc'[c] = "sending"
      PROVE  asked[c] = 0
  <2>1. asked[c] \in Nat /\ pause[c] \in Nat /\ asked[c] <= pause[c]
    BY <1>1, PolicyAssumption DEF IInv, LoopTypeOK, SleepsLongEnough
  <2>2. Wakes(c)
    <3>1. pc \in [Calls -> {"idle", "sending", "sleeping"}]
      BY <1>1 DEF IInv, LoopTypeOK
    <3>. QED
      BY <1>1, <3>1
      DEF Next, TimePasses, Tick, GatewayStep, Dispatch, Generated, DetachedFails, Begin,
          Refreshes, AttemptEnds, Succeeds, RetriesError, ReturnsError, RetriesSilence, GivesUp,
          Wakes, Over, Home, SleepFor, vars, loop
  <2>. QED
    BY <2>1, <2>2 DEF Wakes
<1>2. IInv /\ [Next]_vars
        => [\A c \in Calls : pc[c] = "sleeping" /\ pc'[c] = "sending" => asked[c] = 0]_pc
  BY <1>1
<1>. QED
  BY <1>2, Invariance, PTL DEF Spec, HonoursRetryAfter

\* In TypeScript a model's wait is cut short by a success for that model, never by a failure.
THEOREM FailuresDoNotShorten == Spec => FailuresNeverShorten
<1>1. ASSUME IInv, Next, sdk = "typescript",
             NEW m \in Models, cooling'[m] < Down(cooling[m])
      PROVE  \E c \in Calls : model[c] = m /\ work[c] = "done" /\ pc'[c] = "idle"
  <2>1. /\ cooling \in [Models -> Nat] /\ cooling[m] \in Nat
        /\ Down(cooling[m]) \in Nat /\ Down(cooling[m]) <= cooling[m]
    BY <1>1 DEF IInv, LoopTypeOK, Down
  <2>2. CASE TimePasses
    <3>1. cooling'[m] = Down(cooling[m])
      BY <2>2 DEF TimePasses, Tick
    <3>. QED
      BY <1>1, <2>1, <3>1
  <2>3. CASE UNCHANGED cooling
    BY <1>1, <2>1, <2>3
  <2>4. ASSUME NEW c \in Calls, NEW e \in Errors, Note(c, e)
        PROVE  FALSE
    <3>1. e.wait > 0 => e.wait \in Nat
      BY ErrorFields DEF NoWait
    <3>. QED
      BY <1>1, <2>1, <2>4, <3>1 DEF Note
  <2>5. ASSUME NEW c \in Calls, RetriesError(c) \/ ReturnsError(c)
        PROVE  FALSE
    BY <2>4, <2>5 DEF RetriesError, ReturnsError, Answers
  <2>6. ASSUME NEW c \in Calls, Succeeds(c)
        PROVE  model[c] = m /\ work[c] = "done" /\ pc'[c] = "idle"
    <3>1. work[c] = "done" /\ cooling' = [cooling EXCEPT ![model[c]] = 0] /\ pc'[c] = "idle"
      BY <1>1, <2>6 DEF Succeeds, Over, Home, IInv, LoopTypeOK
    <3>2. model[c] = m
      BY <1>1, <2>1, <3>1
    <3>. QED
      BY <3>1, <3>2
  <2>7. \/ TimePasses
        \/ UNCHANGED cooling
        \/ \E c \in Calls : Succeeds(c) \/ RetriesError(c) \/ ReturnsError(c)
    BY <1>1
    DEF Next, GatewayStep, Dispatch, Generated, DetachedFails, Begin, Refreshes, AttemptEnds,
        RetriesSilence, GivesUp, Wakes
  <2>. QED
    BY <2>2, <2>3, <2>5, <2>6, <2>7
<1>2. ASSUME IInv, [Next]_vars
      PROVE  [sdk = "typescript" =>
                \A m \in Models : cooling'[m] < Down(cooling[m]) =>
                  \E c \in Calls : model[c] = m /\ work[c] = "done" /\ pc'[c] = "idle"]_vars
  BY <1>1, <1>2
<1>. QED
  BY <1>2, Invariance, PTL DEF Spec, FailuresNeverShorten
===============================================================================
