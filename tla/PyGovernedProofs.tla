--------------------------- MODULE PyGovernedProofs ---------------------------
(***************************************************************************)
(* Proofs about the governed mode, for any callers, any number of tokens   *)
(* and any retry bound.                                                    *)
(***************************************************************************)
EXTENDS PyGoverned, TLAPS

LEMMA InitInvariant == Init => IInv
  BY GovernedAssumption
  DEF Init, IInv, TypeOK, ReportsTheDead, ProvidedIsRecent, MintHasCause

\* The steps of one caller that only move it on: what it carries and reports is given.
LEMMA NextKeeps ==
  ASSUME IInv, [Next]_vars
  PROVE  IInv'
<1>. USE GovernedAssumption DEF IInv
<1>1. ASSUME NEW t \in 1..MaxTokens, Kill(t) PROVE IInv'
  BY <1>1 DEF Kill, TypeOK, ReportsTheDead, ProvidedIsRecent, MintHasCause
<1>2. CASE Rotate
  BY <1>2 DEF Rotate, TypeOK, ReportsTheDead, ProvidedIsRecent, MintHasCause
<1>3. ASSUME NEW c \in Callers, Mint(c) PROVE IInv'
  BY <1>3 DEF Mint, MustMint, TypeOK, ReportsTheDead, ProvidedIsRecent, MintHasCause
<1>4. ASSUME NEW c \in Callers, Begin(c) PROVE IInv'
  BY <1>4 DEF Begin, Asks, TypeOK, ReportsTheDead, ProvidedIsRecent, MintHasCause
<1>5. ASSUME NEW c \in Callers, Provided(c) PROVE IInv'
  <2>1. host # rejected[c] /\ rejected[c] \in dead \union {0} /\ dead \subseteq 1..host
        /\ host \in 0..MaxTokens /\ minting = Nobody
    BY <1>5 DEF Provided, MustMint, TypeOK, ReportsTheDead
  <2>2. host > rejected[c] /\ host # 0
    <3>1. rejected[c] = 0 \/ rejected[c] \in 1..host
      BY <2>1
    <3>2. host \in Nat /\ (rejected[c] = 0 \/ rejected[c] <= host)
      BY <2>1, <3>1
    <3>. QED
      BY <2>1, <3>1, <3>2
  <2>3. TypeOK'
    BY <1>5 DEF Provided, TypeOK
  <2>4. ReportsTheDead' /\ MintHasCause'
    BY <1>5, <2>1, <2>2 DEF Provided, TypeOK, ReportsTheDead, MintHasCause
  <2>5. ProvidedIsRecent'
    BY <1>5, <2>2 DEF Provided, TypeOK, ProvidedIsRecent
  <2>. QED
    BY <2>3, <2>4, <2>5
<1>6. ASSUME NEW c \in Callers, Minted(c) PROVE IInv'
  <2>1. pc[c] = "asking" /\ host = rejected[c] /\ minting = c /\ host < MaxTokens
    BY <1>6 DEF Minted, MintHasCause
  <2>2. TypeOK'
    BY <1>6, <2>1 DEF Minted, TypeOK
  <2>3. ReportsTheDead' /\ MintHasCause'
    BY <1>6, <2>1 DEF Minted, TypeOK, ReportsTheDead, MintHasCause
  <2>4. ProvidedIsRecent'
    BY <1>6, <2>1 DEF Minted, TypeOK, ProvidedIsRecent
  <2>. QED
    BY <2>2, <2>3, <2>4
<1>7. ASSUME NEW c \in Callers, ProviderFails(c) PROVE IInv'
  BY <1>7 DEF ProviderFails, Home, TypeOK, ReportsTheDead, ProvidedIsRecent, MintHasCause
<1>8. ASSUME NEW c \in Callers, Apply(c) PROVE IInv'
  BY <1>8 DEF Apply, TypeOK, ReportsTheDead, ProvidedIsRecent, MintHasCause
<1>9. ASSUME NEW c \in Callers, Reject(c) PROVE IInv'
  BY <1>9 DEF Reject, Asks, TypeOK, ReportsTheDead, ProvidedIsRecent, MintHasCause
<1>10. ASSUME NEW c \in Callers, Retry(c) PROVE IInv'
  BY <1>10 DEF Retry, Asks, TypeOK, ReportsTheDead, ProvidedIsRecent, MintHasCause
<1>11. ASSUME NEW c \in Callers, End(c) PROVE IInv'
  BY <1>11 DEF End, Home, TypeOK, ReportsTheDead, ProvidedIsRecent, MintHasCause
<1>12. CASE UNCHANGED vars
  BY <1>12 DEF vars, TypeOK, ReportsTheDead, ProvidedIsRecent, MintHasCause
<1>. QED
  BY <1>1, <1>2, <1>3, <1>4, <1>5, <1>6, <1>7, <1>8, <1>9, <1>10, <1>11, <1>12
  DEF Next, ProviderReturns

\* For any callers and any schedule of refusals and rotations, the token a provider is told of
\* was refused, and what it returned is no older than what the host held when it was asked.
THEOREM Invariance == Spec => []IInv
  BY InitInvariant, NextKeeps, PTL DEF Spec

\* For any callers the resend after a 401 carries a token newer than the refused one, however
\* the host rotates between the provider's return and the request.
THEOREM ResendsAreNewer == Spec => []ResendIsNewer
<1>1. IInv => ResendIsNewer
  BY DEF IInv, ProvidedIsRecent, ResendIsNewer
<1>. QED
  BY <1>1, Invariance, PTL

\* For any callers, the 401s never make the host replace a token the gateway still accepts.
THEOREM LiveTokens == Spec => LiveTokenIsKept
<1>1. ASSUME IInv, [Next]_vars, NEW c \in Callers, minting # c, minting' = c
      PROVE  host = 0 \/ host \in dead
  <2>1. minting' # minting /\ c # Nobody
    BY <1>1, GovernedAssumption
  <2>2. Mint(c)
    BY <1>1, <2>1 DEF Next, vars, Kill, Rotate, Mint, Begin, ProviderReturns, Provided, Minted,
                      ProviderFails, Apply, Reject, Retry, End
  <2>. QED
    BY <1>1, <2>2 DEF Mint, MustMint, IInv, ReportsTheDead
<1>2. IInv /\ [Next]_vars =>
        [\A c \in Callers : minting # c /\ minting' = c => host = 0 \/ host \in dead]_minting
  BY <1>1
<1>. QED
  BY <1>2, Invariance, PTL DEF Spec, LiveTokenIsKept

\* For any callers, tokens and rotations, no attempt sends a token that its owner had retired
\* before the attempt asked for one: the SDK has no cache of its own.
THEOREM NoSecondCache == Spec => []NothingRetiredIsSent
<1>1. IInv => NothingRetiredIsSent
  BY DEF IInv, TypeOK, ReportsTheDead, ProvidedIsRecent, NothingRetiredIsSent
<1>. QED
  BY <1>1, Invariance, PTL
===============================================================================
