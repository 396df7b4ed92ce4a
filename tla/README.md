# Axonium SDK: specifications and proofs

The Axonium SDK is a client of the Prometheus inference gateway in Python, Go, Rust and TypeScript.
There is no shared code; the implementations follow one contract (`spec/prometheus-gateway.md`,
`spec/errors.json`) in the idiom of their language. This project models what a client keeps between
and during calls: who fetches an access token and when, what a call that fails does next and what
it costs, how a stream opens and ends, which errors callers are shown, and what the callers of one
client leave behind for one another. TLC checks the modules on small instances; TLAPS proves the
central ones for every value of the constants.

## 1. Inventory

| part | state | operations | hard because | correct when |
|---|---|---|---|---|
| token lifetime arithmetic (`auth.*`) | none | effective lifetime, deadline, refresh-ahead | two readings of one lifetime; zero and negative lives | the client never believes in a token longer than the server |
| Python token manager (`auth.py`) | token, one lock per mode | auth flow: read, lock, read again, fetch, store; refresh after a 401 | threads, tasks, cancellation, failing fetches | one request at a time, only with cause; the resend after a 401 carries a newer token; the lock never leaks |
| Go token manager (`auth.go`, `attempt`) | token, mutex | `apply`, `refresh`, `fetchLocked` | the mutex is held for a whole request and ignores contexts | the same |
| Rust token manager (`auth.rs`, `attempt`) | token behind a mutex never held over an await | `token(rejected)`, `fetch` | answers stored out of order, a fetch per task | the replay differs from the refused token; a late answer is harmless |
| TypeScript token manager (`auth.ts`, `Transport.send`) | `current`, `inFlight` | `token`, `refreshAfterRejection`, `obtain` | promises that are shared, fail, or outlive their cause | joiners share one request and are all resumed |
| governed mode (`providers.py`) | scopes of the last token | ask the provider; after a 401 pass the rejected token | 401s of several calls in any order; the host rotates on its own, also while its token is on its way | a burst of 401s replaces the dead token and never its replacement; no token is kept beside its owner's |
| retry loops and cooldown registries (one per SDK) | attempt, sleep; a wait per model | send, note, sleep, clear | timeouts racing the generation, waits named to others, late successes | one bill per call; Retry-After honoured; cooldowns as named; the loop ends |
| error taxonomy (`errors.py`, `dispatch.py`) | none | type a reply, read its wait and ids, decide whether to repeat | the catalogue grows after the SDK is released; header against body | a caller can catch by status; what is unfamiliar is not repeated |
| streams (`streaming.py`, `sse.py`) | loop counters, connection, span, accumulator | stream, enter, iterate, close, exit | reopening, interleaved fragments, in-band errors, cut connections | complete means complete; nothing received is lost; connections are given back |
| preflight and catalogue | catalogue | load on demand, check, reload | stale, partial, failing | never the cause of a failing call |
| rate-limit snapshots | last snapshot, index by scope | record, in two unlocked writes | answers of several budgets out of order, crossed writes, labels missing | a budget is never read off another's numbers |
| configuration and credentials (`config.py`, `_select_auth`) | none | resolve, choose the mode | arguments, config objects, environment and providers combined | the mode is never in doubt; a provider leaves no secret behind |
| requests (`models/requests.py`, resources) | none | build, refuse, parse | bodies that fit one endpoint and not another | what cannot succeed is refused before it is sent, and nothing else |

The parts interact in one chain: a resource method builds the request and hands it to the preflight
and then to the retry loop (or to the opening of a stream); each attempt goes through the token
manager or the provider, which may fetch or refresh first; the answer goes back through the loop,
which notes cooldowns and snapshots, sleeps and tries again, or returns. All callers of one client
share token, cooldowns, snapshots and catalogue. The hazards of each part are listed in
`PROJECT.json`, each at its line.

## 2. Modules

```
TokenLease                      lifetime arithmetic
  AuthService                   clock, token endpoint, refusals (external)
    TokenCallers                callers of a token manager, shared steps, properties
      LockedCallers             the lock of Python and Go, and the invariant it carries
        PyTokenManager  GoTokenManager                    implement TokenCache
      TsTokenManager                                      implements TokenCache
      RustTokenManager                                    does not
RetryPolicy                     the policy's fields, the errors in five kinds
  GatewayCalls                  calls, generations, bills, waits (gateway external), properties
    SdkCalls                    the loops of Go, Rust and TypeScript
  PyRetryPolicy                 Python's decision and backoff
    PyCalls                     _send and CooldownRegistry (with GatewayCalls)
    PyStreams                   a streamed completion
    PyErrors                    the whole error catalogue
      PyReplies                 a call against any sequence of replies
PyGoverned                      callers and the host in governed mode
PyRequests, PyConfig            decisions before and after a call; how a client is made
  PyClient                      one client and its callers
MCPyStreams, MCPyReplies, MCPyClient                      instances with structured constants
TokenManagerProofs (lease, Python, Go, Rust), TsTokenManagerProofs, PyCallsProofs, SdkCallsProofs,
PyStreamsProofs, PyRepliesProofs, PyGovernedProofs, PyClientProofs      theorems
```

The loop of `_send` appears twice, at two levels of detail. `PyCalls` has concurrency, time and the
gateway's bill, and errors of five kinds; `PyReplies` has one call and every error of the catalogue.
`KindsSuffice` joins them: for every reply, the five kinds decide and wait as the catalogue does. It
is checked over the catalogue and proved for every policy.

The modules meet at these seams: an error of the token manager is a call that gives up
(`GivesUp`, `TokenRefused`); a 401 in Python, Go and Rust is within one attempt of the loop, while in
TypeScript it costs one, which `SdkCalls` has (`Refreshes`); `OtherCall` in `PyStreams` is whatever
the registry sees of other calls; `PyClient` takes one answer per call, the loop's last.

### Token managers

A token is `[id, expiresAt, expiresIn]`; the id is the number of the response that carried it and
stands for the string. Ratios are percentages, so `expires_in * (1 - ratio)` stays an integer. The
auth-service is external: `Replies` is what it may answer, from how the SDKs read it (`expires_in`,
and with a `Date` header the lifetime by the server's clock, down to an expired token). A caller goes
`idle -> wait -> requesting -> answered -> sending -> idle`; a token request is two steps (`Serve`,
then `Store`), so anything may happen while its answer is on the way.

| code | definition |
|---|---|
| `TokenManager._token`, `_sync_lock`/`_async_lock`, Go `mu` | `token`, `lock` (a client is either sync or async) |
| `sync_auth_flow` up to the first `yield` | `Begin` |
| `_token_*`, `_refresh_*` under the lock | `Adopt`, `Fetch` (`Usable` is the second look) |
| `_fetch_*` returning, `_store` | `Store`; any error or cancellation: `FetchFails` |
| 401 on the first and on the second send | `Refused`, `SecondRefusal` |
| Go `current`/`refresh`, `fetchLocked` | `Take`, `FetchLocked`, `Store` |
| Rust `Auth::token` | `Take`, `Fetch`, `Store`, with no lock between them |
| TypeScript `obtain`, its `then`/`finally` | `Obtain`, `Settle`, `FetchFails` |
| TypeScript `send`, attempts after a 401 | `Refused`, `Again` |

The lock-free read and what is done with it are one step, since the value read is a local variable
from then on. An attempt of a retry loop that meets no 401 runs the auth flow afresh; in these
modules it is the end of one call and the beginning of another.

`TokenCache` is the promise in the class comments of Python, Go and TypeScript: one request at a
time, only for a token that is missing, due or refused, and a cache that only moves forward. The
managers implement it under `gen <- token.id`, `due <- ~Fresh(..) \/ token.id \in refusals`,
`requesting <- \E c : Fetching(c)`. In TypeScript a rejected token leaves `current` before its
replacement is there, so `gen` maps to the last token stored. Rust has no single flight to refine.

### Retry loops

A call goes `idle -> sending -> [sleeping -> sending]* -> idle`. What counts of the gateway is which
attempts start a billable generation: `Dispatch` starts one, `Generated` and `DetachedFails` end it,
`Answers` are the errors it may send, `Abandoned` says what becomes of a generation whose client went
away: with an idempotency key the next attempt is led back to it, without one it is lost, and paid.
Waits are countdown timers, so nothing grows with time and no clock bound is needed. `asked`, `named`
and `older` are history.

| code | definition |
|---|---|
| `_check_cooldown` and the first attempt; Go `send`, Rust `run`, TypeScript `send` up to it | `Begin` |
| `delay_for`, `delayFor` | `WorthRetrying` (whether), `Delays` (how long; empty is `None`) |
| `_backoff`, `backoff` with jitter | `Backoffs`, every value the jitter may leave |
| `note`, `record` | `Note`; in TypeScript it never shortens a wait |
| 200: return, and but for Go `clear` | `Succeeds` |
| error answers: `_after_failure` and its like | `RetriesError`, `RaisesError` / `ReturnsError` |
| `_after_transport_failure` and its like | `RetriesTimeout` / `RetriesSilence`; the rest: `GivesUp` |
| TypeScript, 401 once per call | `Refreshes` |
| end of `sleep`, `attempt += 1` | `Wakes` |

`SdkCalls` is one loop, in which `sdk` guards the five differences: what is retried, which transport
failures are, the jitter, what a wait does to an earlier one, and whether an answer ends it.

### Errors

| code | definition |
|---|---|
| the classes and `_BY_SUFFIX` | `Catalogue`, one record per class |
| `_fallback_for_status` | `Fallback` |
| `retry_after_seconds`, `_sane_wait` | `HeaderWait`; with the body's field `RetryAfter` |
| `error_from_response`, `with_scope_from` | `Error`, `Scope`, `RequestId` |
| `RetryPolicy.delay_for` on an error | `MayRetry`, `DelayFor` |
| `_token_error`, `_BY_OAUTH_CODE` | `TokenError`, `OAuthClasses` |
| `_send`: an answer, `_after_failure` with a delay and without | `Receive`, `Retry`, `Raise` |

A value that may be missing is a set of at most one element, here and in `PyRequests`.

### Streams

| code | definition |
|---|---|
| `_open_stream`: the cooldown is looked at here, once | `Describe` |
| `__enter__`: span, first connection | `Enter` |
| `_begin` on a good response | `Opens`, `Begin` |
| an error response: `after_failure`, then sleep or raise | `Refused`, `RefusedForGood` |
| a timeout, a failed connection, a cancellation, a refusing preflight | `FailsToOpen` |
| `__iter__` by the next line: delta, tool call, counts, garbage, `[DONE]`, error, end | `ReadsText`, `ReadsFragment`, `ReadsFigures`, `SkipsGarbled`, `ReadsDone`, `ReadsError`, `ReadFails` |
| `StreamAccumulator.absorb`, `_absorb_tool_call` | `Absorb`, `Slot` |
| `feed` on an in-band error | `Interrupts` |
| `close`, `__exit__` | `Close`, `Leave` |

The gateway generates one of `Answers` and sends its parts in numbered pieces, in any interleaving,
so what was read can be held against what was generated. Lines arrive whole: their framing is the
HTTP library's.

### Governed mode

The host is external, by the contract in `providers.py`: it keeps a token, mints under its own lock,
and when told of a rejected token mints only if it still holds that one. It may rotate at any time.

| code | definition |
|---|---|
| asking the provider, rejecting nothing | `Begin`, and `Retry` for a later attempt |
| the provider's own check and mint, and its return | `Mint`, `Provided`, `Minted` |
| `_apply`, and the request leaves | `Apply` |
| the provider raises, or is of the wrong kind | `ProviderFails` |
| a first 401 | `Reject` |

The provider's return and the request are two steps: no lock of the host's is held in between, so it
may rotate, and the request then carries what it has just retired. `heldThen` is history, what the
host held when this attempt asked; `NothingRetiredIsSent` bounds the token sent by it from below.

### A client and its callers

| code | definition |
|---|---|
| `AxoniumConfig.__init__` and its sources | `Resolve`, `Config` |
| `_credentials_were_explicit`, `_select_auth`, `Axonium.__init__` | `Explicit`, `Select`, `Client`, `Construct` |
| `build` and the validators of the request classes, `_check_body` | `IsValid` |
| `check_model`, `_preflight` | `CheckModel`, `CheckThenSend`, `ListingFails` |
| `create`, `generate`, `stream`, up to the request | `Begin` |
| `models.list` and its answer | `List`, `Listed` |
| `RateLimitSnapshot`, `ResponseMeta` | `Snapshot`, `Meta` |
| `_record`: `_last_rate_limit`, then the index | `Record` in `Answer`, `File` in `Finish` |
| `explain_forbidden`, `_diagnose` | `Explain`, `Hint` |
| an answer arrives; `_send` returns, `parse`, `parse_value` | `Answer`; `Finish`, `Result`, `Parses` |

## 3. Runs

| run | question | properties |
|---|---|---|
| `py_token` | one request at a time, forward only, resends newer, the refinement, nobody waits for ever | `IInv`, `NeverKnowinglyExpired`, `ImplementsTokenCache`, `EveryCallEnds` |
| `go_token` | the same, where every read is under the mutex | `IInv`, `ImplementsTokenCache`, `EveryCallEnds` |
| `rust_token` | what is left without a lock over the fetch | `LockFreeInv`, `EveryCallEnds` |
| `ts_token` | the shared promise, failing and joined | `IInv`, `ImplementsTokenCache`, `EveryCallEnds` |
| `py_calls` | bills and waits of concurrent calls | `IInv`, `BilledOnce`, `HonoursRetryAfter`, `EveryCallEnds` |
| `sdk_calls` | the same of the other three loops, and their registries | `Safety`, `HonoursRetryAfter`, `FailuresNeverShorten`, `EveryCallEnds` |
| `py_stream` | a stream from `stream()` to the end of its block | `IInv`, `CompleteIsTheAnswer`, `StreamBilledOnce`, `MetaTellsTheWait`, `OpeningEnds` |
| `py_replies` | one call against the whole catalogue | `BlockingIsBounded`, `KindsSuffice`, `ErrorsAreWellTold`, `UnfamiliarIsNotRetried`, `HeaderIsHonoured` |
| `py_governed` | 401s in any order against a rotating host | `ResendIsNewer`, `NothingRetiredIsSent`, `LiveTokenIsKept`, `EveryCallEnds` |
| `py_client` | what callers of one client leave for one another | `IInv`, `BudgetsKeptApart`, `ModesAreUnambiguous`, `GuardRailIsHarmless`, `DenialIsExplained` |
| `py_calls_stale_clear`, `ts_billing` | two places where the code departs from its documents, section 6 | `WaitSurvivesOlderAnswers`; `RetriesStartNoSecondGeneration` |

Each property is stated in words, with the comment or document it is taken from, where it is
defined. `IInv`, `LockFreeInv` and `Safety` are conjunctions of named parts; among them are the lock
or promise tied to the request in flight exactly, whatever fails (`LockCoversFetch`,
`JoinersShareOneRequest`), the resend that is newer or at least another token (`ResendIsNewer`,
`ReplayDiffers`), the cache that never outlives the server (`CacheSound`), cooldowns as named
(`OnlyNamedWaits`), connections given back (`SocketIsReleased`) and the interrupted stream that loses
nothing (`InterruptedLosesNothing`). All runs check deadlock. `PyReplies` ends in a stuttering step
(`Over`); the other systems never stop.

### Bounds

* Token runs: two callers, lifetimes {1, 4}, a ceiling of 3, a floor of 1, a ratio of 80 % and a
  clock up to 3 (2 in Rust). So there are tokens that are due on arrival, that live and then fall
  due, that the ceiling cuts, and that are expired by the server's clock. Two tokens can be issued:
  a third adds no relation between the cached, the held and the refused token, and two overlapping
  requests already show Rust's overwrite. No property relates more than two callers.
* `MaxTime` and `MaxTokens` belong to `AuthService` (`MaxTokens` also to `PyGoverned`, where it is 3:
  a dead token, its replacement, and a rotation of the host). When they are reached the model only
  loses behaviours, which safety does not mind; every call may still fail, so liveness is not vacuous.
* Loops: two calls, three attempts. In `py_calls` two models with waits {1, 2} about `MaxBackoff` = 1,
  so a wait may be absent, slept through or handed to the caller; in `sdk_calls` one model with waits
  {0, 1, 3}, where 0 is what TypeScript reads as absent. A second call is what may be older than a
  wait, and what may be refused for another's.
* `py_stream`: three attempts, waits {0, 1, 3} about `MaxBackoff` = 2, and four answers: text with
  reasoning, two tool calls of two fragments, a call of three without an index, and nothing at all.
* `py_replies`: every class at every status it is documented with, an engine's refusal at ten, an
  unfamiliar error at seven, every form of the header with values before, within and past `MaxBackoff`, and body fields that
  agree with the header or not.
* `py_client`: two interchangeable callers; six requests, for a listed, a wrongly addressed, a
  newer and an unreported model, one streamed, one a predict and one invalid; tokens with all scopes and with few; settings
  in every combination of argument, config, provider and environment. The constants model a gateway
  one release ahead of the SDK: it serves a modality the SDK lacks. Two callers are two writers of
  the snapshots; the budgets have different limits, which tell them apart.

`MaxAttempts` and `MaxBackoff` are the code's own parameters. The theorems need none of these bounds.
Only `py_client`, which has no liveness property, uses symmetry.

## 4. Fairness

* Requests for tokens, inference requests and connecting have timeouts in every SDK, so they come
  back: weak fairness of `FetchEnds`, `SendEnds`, `AttemptEnds`, `Attempt`. The outcome is free. Go
  and Rust bound the opening of a stream by nothing, and it is not meant.
* Python and Go: strong fairness of taking the lock. `asyncio.Lock` is first-in first-out;
  `sync.Mutex` hands over to a waiter after a millisecond. For `threading.Lock` it is an assumption
  on the platform.
* Rust: weak fairness, as no lock is held over an await. TypeScript: strong fairness of `End`, since
  `send` bounds its attempts, and that module does not count them.
* Loops and streams: time passes (`Tick`, `TimePasses`), and a slept-out task runs (`Wakes`).
* Governed mode: a provider call returns or raises. The SDK sets it no limit; the host owes it.
* Nothing makes callers begin, the platform answer well, or tokens be issued; nothing makes a stream
  be read to its end, since its caller decides that.

## 5. Proofs

All theorems hold for any number of callers, calls and models, and for all values of the constants
within the named assumptions, each stated where the constants are declared and evaluated by a run:
the ranges that `config.py` and its like enforce (`LeaseAssumption`, `PolicyAssumption`), what the
auth-service may answer (`ServiceAssumption`, `TokenAssumption`), what the gateway may send
(`RepliesAssumption`, `CatalogueAssumption`, `AnswerAssumption`, `ClientAssumption`), what callers may
write (`InputsAssumption`), and names that are told apart (`NobodyAssumption`, `ModelAssumption`,
`SdkAssumption`, `GovernedAssumption`).

* **Lifetimes.** What is due stays due, what is fresh has time left, and a deadline reckoned from the
  sending of a request is not later than the server's. All four managers rest on these lemmas.
* **Python and Go token managers.** None of the properties is inductive alone. That the cache moves
  forward rests on the answer in flight being the newest token issued (`AnswerIsNewest`), which rests
  on there being one request at a time, which is the lock (`LockCoversFetch`). That the resend is
  newer needs that nobody holds a token newer than the cached one (`NothingAheadOfCache`). That the
  cached token is live needs that its deadline is not later than the server's (`CacheSound`), carried
  from the sending of the request by `AnswerIsNewest` again: `issuedAt` is never later than the
  moment of issue. From `LockedCallers!IInv` follow the safety properties and, step by step, the
  refinement of `TokenCache`, in which a request has a cause: the second look under the lock is what
  rules out the one nobody needed. With the mutex for the lock, every step
  of Go but the first is one of Python's, so the Go theorems cite the Python lemmas and add `Begin`,
  which in Go reads nothing.
* **Rust token manager.** Without a lock over the fetch, answers may be stored out of order, and the
  cache may go back. What holds all the same is `LockFreeInv`: each answer on its way is newer than
  whatever was refused before it was asked for (`AnswersAreNewer`), so the replay after a 401 never
  carries the token just refused (`ReplayDiffers`); and whichever answer is stored last, the cache
  does not outlive the server (`CacheSound`).
* **TypeScript token manager.** The promise stands for the lock: whoever joins it waits for the one
  request there is (`JoinersShareOneRequest`), the proofs about the shared lemmas are instantiated
  with it, and its answer is the latest token (`AnswerIsLatest`). `current` is dropped when it is
  rejected, so the refinement maps `gen` to the last token stored, which nobody is ahead of
  (`NothingAheadOfStored`). That a refresh after a 401 has a cause needs the deadlines again: the
  server refuses no token the cache still holds for live.
* **Python loop.** One bill per call follows from what an attempt may leave behind
  (`BillsFollowWork`): if another follows, the last one either generated nothing or left work the key
  leads back to; with upstream errors retried one unfinished attempt may cost one bill, and only the
  first may be. `SleepsLongEnough` gives `HonoursRetryAfter` and the bound on attempts.
* **The other loops.** The same invariant, promised for every call of Go and Rust and for TypeScript's
  calls with a key (without one the run `ts_billing` shows two bills). An attempt beyond the limit is
  possible only for a call that has had its refresh. `FailuresNeverShorten` needs no more than types.
* **Streams.** What was read of each part is what was sent of it (`ReadIsSent`), which needs that a
  fragment finds its own slot even without an index; the time slept and what is left of it is the time
  counted (`SleptIsWaited`), so the stamp is true (`MetaIsStamped`); and a stream that has not begun
  has cost nothing, or one upstream error to be repeated (`BilledSoFar`). `[DONE]` comes last
  (`EndedIsComplete`), so a stream that ended handed over the whole answer (`CompleteIsTheAnswer`):
  the slots are then exactly the indices the model used, and among these the n-th is n - 1
  (`RankIsIndex`), which is why the order of arrival does not matter.
* **Errors.** For every reply, any policy: the error in hand is the one its reply makes; a call
  sleeps at most `MaxBackoff` for each attempt it repeats; the five kinds suffice; the header is
  honoured; an unfamiliar error is not repeated. If the gateway keeps to `spec/errors.json`, the
  family of an error fits its status (`StatusFitsFamily`, class by class) and callers are told what
  the reply tells (`ErrorsAreWellTold`). An engine's refusal (`predict-backend-rejected`) keeps the
  engine's 4xx, or comes as 502 in the place of its 5xx (`errors.py:625`); no family follows it.
* **Governed mode.** A caller reports only a token that was refused, and none is ahead of the host
  (`ReportsTheDead`); what the host decided under its lock stays true while it mints (`MintHasCause`).
  So the live token is kept. What a provider returned is no older than what its owner held when it was
  asked, and newer than the token it was told of (`ProvidedIsRecent`), and remains so while the host
  rotates; so the resend is newer, and what was retired before it was asked for is never sent.
* **The client.** A catalogue is old or partial, but true (`CatalogIsTrue`); then what the preflight
  refuses is what the gateway refuses, provided that an endpoint serves no modality this SDK knows
  from elsewhere. A snapshot carries the numbers of the budget it is labelled with, and an unlabelled
  one is filed under none (`BudgetsAreOwn`). The two writes need a link: what a caller files is from
  its own answer, which came from the endpoint it called (`AnswersAreOwn`), whatever others wrote to
  the last snapshot in between. Each outcome is sound for the request it answers
  (`OutcomesAreSound`), whoever else calls in between. `SelectIsUnambiguous` is the choice of a mode,
  for any config.

Only model-checked: liveness (`EveryCallEnds`, `OpeningEnds`), which is out of the prover's reach, as
is `ENABLED`. Every other property of a passing run is a theorem, or a conjunct of one.

## 6. Where the code and its comments part

Two runs expect a violation:

* `py_calls_stale_clear`: a success sent before an outage clears the cooldown the outage named, so
  later calls go out while the wait runs; `docs/03-failure.md:289` says they fail locally.
* `ts_billing`: `send` repeats every transport failure but timeouts, and every error whose retryable
  flag is set, so one call without a key may pay for several generations; `retry.ts:4` says the
  default retries only what did not reach a model.

Others were met in reading and are kept as the code has them in the models, without a run:

* With a lifetime not longer than `refresh_ahead_min_seconds`, the token just stored is stale for the
  next caller under the lock, and each fetches in turn; `auth.py:127` promises one request. The
  default configuration does not meet this with live tokens.
* A token expired by the server's clock is stored with lifetime 0 and sent by the caller that fetched
  it; `auth.py:330` says the caller fails fast.
* Nothing guards Rust's fetch; `docs/05-composed.md:348` promises one request for a burst.
* TypeScript: after a second 401 in one call, a later attempt sends the token just refused
  (`transport.ts:360`). An aborted call is slept over and retried.
* `capacity-exhausted` is never repeated, though `errors.py:583` says retrying is right there; and a
  token endpoint's `upstream-unavailable` leaves the call at once (`auth.py:340`).
* Streams: an open that times out is not repeated under its key; one that fails leaves its span live
  (`streaming.py:188`); a stream's answer does not update `last_rate_limit` (`client.py:225`).
* Requests: fields the SDK does not know are forwarded, where the docstring of `_AllowlistRequest`
  says removed; there is no `meta.ignored_parameters` (`docs/02-calls.md:89`). A field listed as
  unsupported is withheld, with a warning, also from a gateway that has learnt it
  (`requests.py:100` records that it happened).
* The writes of `_record` are not locked (`client.py:301`, `303`): when two threads record answers of
  one budget, the index may hold one answer and `last_rate_limit` the other until the next.
* The preflight's catalogue may cost more than the one request of `config.py:124`: callers that find
  none ask each for itself, and after a failed listing the next call asks again.
* The table of the preflight says the gateway lets a classification model through to chat
  (`preflight.py:48`); the module's own docstring and `spec/errors.json:39` say it refuses every wrong
  modality, and `ClientAssumption` follows these.
* An explicit `client_id=None` counts as credentials asked for, and next to a provider and credentials
  in the environment it stops the client from starting.
* Two numbers beyond the bounds: Go's backoff overflows int64 after some 33 attempts
  (`retry.go:104`), and Rust's jitter draws on an interval of next to nothing (`retry.rs:99`), so it
  always waits about half the delay; the model allows every value the jitter is meant to leave.

## 7. Not modelled

* Framing of lines in Go, Rust and TypeScript, and their streams and tool-call assembly: byte-level
  parsing with no state shared between calls.
* Governed mode in Go and Rust: the same two provider calls.
* `usage.retrieve`, `models.mine`, instances and keys: one request each, without preflight. The
  parsing of responses field by field, wording, logging, span attributes.
* The error tables of Go, Rust and TypeScript: their own tests compare them with `spec/errors.json`.
* Which request fields are forwarded, withheld or warned about: a comparison of constants, with no
  state. The catalogue's modalities do not change under a running client.
* `PyClient` takes the last answer of a call only: those the loop repeats are recorded as well, by the
  same two writes.
* Clocks that run at different rates; `claims()` and `close`, which read and release.
* The contract corpus, scripts, documents, tests and examples are no part of the running system.

Token managers and loops are not composed step by step: a 401 within an attempt and a failed token
request are each one outcome of the attempt, which is what the loop sees.

## 8. What could follow

The framing of lines against a reference definition, for arbitrary cuts between packets; the streams
of Go, Rust and TypeScript over the gateway of `PyStreams`; an instance of `PyClient` whose gateway
changes a model's modality while a client holds an old catalogue; the loops composed with the token
managers, so that a 401 within an attempt is a step of both.
