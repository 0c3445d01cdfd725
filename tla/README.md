# Clientkit: specification and proofs

TLA+ models of [Clientkit](../src/README.md), a Go library of outbound HTTP and
TCP clients with retry policy, cached health and a registry of active checks.
TLC checks the models on small instances; TLAPS proves every safety property of
theirs for every size.

## The system

| Component | State it keeps | Operations | Modelled in |
| --- | --- | --- | --- |
| Registry active checks (`opskit.go`, `registry.go`) | one slot per client, a shared permit pool, one health override per client | `CheckAll`, `Snapshot` | `RegistryChecks` |
| Client health (`client.go`, `internal/healthrecord`) | the cached `Health` | `Record`, `UpdateHealth`, `Health` | `RegistryChecks` |
| HTTP execution (`httpclient/do.go`, `retry*.go`, ...) | one operation: contexts, attempts, bodies | `ExecuteWithOptions`, `Execute`, `Do` | `HttpExecution` |
| TCP client (`tcpclient/dial.go`, `check.go`) | one operation: contexts, the connection | `DialResult`, `Check` | `TcpConnection` |
| What one attempt's response goes through (`httpclient/retry.go`, `response_cleanup.go`, the body wrapper of `do.go`) | the wrapper's once, mutex and callback; drained bytes; the delay | `finish` of the body wrapper, `drainAndCloseResponse`, `retryDelay` | `RetryDelay`, `AttemptResponse` |
| HTTP health check, health staleness (`httpclient/check.go`, `internal/healthrecord`) | the cached `Health` | `Check`, `Health` | `HttpCheck` |
| Readiness projection (`opskit.go`, `readiness.go`) | none | `Status`, `Readiness`, the items of `CheckAll` | `ReadinessProjection` |
| Registry composition (`registry.go`) | the map of clients, its `RWMutex` | `RegisterAll`, `Get`, `Snapshot`, `CloseIdleConnections`, `CheckAll`'s selection | `RegistryComposition` |
| Observers, OpenTelemetry transport, header propagation (`observer.go`, `otel`, `internal/httpotel`, `httpclient/propagation.go`, `context_headers.go`) | started observations and spans, the resend count, headers of a request | `StartOperation`, `End`, `RoundTrip`, `Inject` | `HttpTelemetry` |
| `slogobserver`, configuration, tools, examples | - | - | not modelled |

They interact as follows. An application calls `Registry.CheckAll`; its workers
call `Check` of a registered client (user code to the registry); a built-in
client's `Check` runs one HTTP execution or one TCP dial, records its
assessment with `healthrecord.Record` in the client's cache, and returns it; the
registry then accepts the result, or rejects it and publishes an override that
`Snapshot`, `Status` and `Readiness` show over the cache. Direct checks bypass
the registry and go to the cache.

What is hard about each:

* **Registry.** Overlapping `CheckAll` calls contend for slots and permits,
  either wait may be canceled, checkers panic, and a canceled waiter publishes
  a failure *without* holding the slot, so outcomes are applied in another order
  than they were stamped. The cache is written by the checker before the
  registry decides. `Snapshot` reads overrides and caches at different moments.
* **HTTP.** Three nested contexts, any of which may end between any two
  statements; user code in the middle (classifier, `GetBody`, `CheckRedirect`,
  propagators); a request is repeated both by retries and by 307/308 redirects;
  two cancel functions move from `do` to the lifecycle of the final body.
* **Responses.** A returned body is finished by several readers and by a context
  callback at once, and the callback can fire before its stop function is stored.
  A discarded body comes from a server that may never end it. Delays are computed
  in floating point and converted to integers of another precision.
* **HTTP checks.** The wall clock jumps between stamp and read; a custom sanitizer
  rewrites what is cached; a check may have no timeout at all while the server
  never ends its body.
* **Composition.** Batches must be all or nothing against concurrent batches and
  readers; clients, all user code, may answer differently each time they are
  asked, panic or hang. Three projections derive readiness on their own.
* **Telemetry.** Observers, propagators and the base transport panic half way; layers of transports
  inject into the same request again on redirects and retries, and check the
  context one after the other.
* **TCP.** The connection changes owners (dialer, `establishConnection`, check,
  probe, caller), panics unwind through that, and a cancellation callback closes
  it from another goroutine.

## Modules

### `CheckAdmission` - what the registry promises checkers

The abstract specification: the set of checks running now; at most
`MaxConcurrent` of them, never two of one client.

### `RegistryChecks` - `CheckAll`, health and `Snapshot`

`CheckAll` calls (`Calls`) over `Clients`, each with one worker per client it
has handed off. A worker's `pc` names the statement of `checkClientHealth` and
`checkHealthSafely` it runs next; slots and permits are channel tokens; `ctx` is
each call's context. `cache` holds the clients' health, `override` the registry's, `outcome` each
worker's result, `summary` what a call returned. Direct
checks (`DirectReadEndedAt`, `DirectUpdateHealth`) and one passive reader
(`SnapshotCopies`, then `SnapshotReads` client by client) run beside them.
Stamping, storing, deciding, applying and publishing are separate actions, since
nothing in the code makes them one.

Data is abstracted to what the properties tell apart: a cached health is its
`CheckedAt` and an override the time it was decided; which checker filled the
cache, and the newest published failure and acceptance, are history variables
that no action reads. Time is a counter bounded by `MaxTime`
that the code's `time.Now` reads; it never decreases (`UTC()` drops the
monotonic reading, so this is an assumption about the wall clock), and two
readings may be equal. Checkers are assumed to record through `healthrecord`, as
both built-in clients do.

### `HttpExecution` - `Client.do`

One operation. `pc` names the statement of `do`; `ctx` is the caller's, the
total and the attempt's context; `original` and `replay` say who is responsible
for the request bodies; `responses` and `log` are per attempt; `lease` is the
`observedResponseBody` of the final response. `net/http`, the transport and
callbacks are nondeterministic. A `Policy` holds the configuration and the facts
about the request that the gates consult. Delays are a timer that fires at some
point; what is drained of a discarded body is abstracted, that it is closed is
not. Finishing the body (`sync.Once` plus a mutex) is one step.
A `CheckRedirect` callback may refuse, erase `Request.Response`, rewrite the URL
and choose the method of the upcoming request; `method` is "restored" once it has set
back a method that `net/http` had changed to GET, and `sent` counts the
transmissions of the method the operation came with.
Not modelled: panics of `CheckRedirect`, `GetBody` and transports (they
propagate to the caller; `HttpTelemetry` has those of the transport), observer
events (`StartOperation`/`End` are paired by `defer` here).

### `TcpConnection` - `DialResult` and `Check`

One operation. `ctx` is the caller's, the check's and the current stage's (dial,
handshake) context; `conn` whether there is a connection and whether it is open;
`err` is the *set* of causes that `errors.Is` and `errors.As` find, because the
code classifies an error twice; `watcher` is the `context.AfterFunc` goroutine
that closes the connection under the probe. `unwound` is a panic that left the
operation. `net.Dialer` returns a connection or an error, a custom dialer may
return both or neither; `HandshakeContext` fails if its context ended first
(crypto/tls, Go 1.25). `SetDeadline` under a probe is a fact of the setup: the
connections of `net.Dialer` honor it, a custom dialer's may not, and its error is
ignored (`check.go:141-143`).

### `ReadinessProjection` - one snapshot, three answers

The readiness policies, `Status`, `Readiness` and the item `CheckAll` reports of a
client, as operators on a snapshot (a function from names to policy and state).
`Agreement` is what they owe each other. Health states include a fifth one,
"other": a custom or disabled sanitizer may let any string through.

### `RegistryMembership` and `RegistryComposition` - the map of clients

`RegistryMembership` is the promise: batches are registered whole or not at all,
members are never replaced, and a reader works from the members of one instant.
`RegistryComposition` has callers of `RegisterAll` (validation argument by
argument, the write lock, the duplicate check, insertion name by name) and
readers (read lock, copying name by name, unlock, visiting the clients). What a
client says of itself (`Reports`) is chosen anew at each call. The `RWMutex`
lets a waiting writer keep new readers out. `by`, the caller that made an entry, is a
history field for the refinement mapping: while a caller inserts, its entries
count as not yet there, because nobody can look. `Snapshot`, `Status`,
`Readiness` and `Inspect` are one kind of read. `ReadinessProjection` is
extended, so what a reader saw is projected and compared.

### `HttpCheck` - `Check` and `Health` of an HTTP client

`Check` statement by statement: the disabled check, the request that cannot be
built, the execution (one step that returns any result of `Client.do`), draining,
closing, `Record`'s stamp and the sanitized update. A custom `HealthSanitizer` may
store any state, no timestamp, or one up to `MaxShift` away from the stamp it was
given, and one that panics leaves the unknown health; a cached health keeps, as history, that stamp and the real time of it. `real` is real time, `wall`
what `time.Now().UTC()` shows; `stepped` adds up how far it was set back. `Health`
reads the cache and then the clock. Check configurations are validated and
normalised as `configvalue.Duration` does.

### `RetryDelay`, `BodyLease` and `AttemptResponse` - one response

`RetryDelay` computes delays with integers up to `MaxDuration` and floats, both of them
parameters. Of the floats `RetryDelayAssumption` says what IEEE 754 gives: rounding is
monotone and leaves floats alone, the power of two above `MaxDuration` is one, and an
infinity lies beyond; `PowersAssumption` says of `math.Pow` that powers of a multiplier of
at least one do not fall. What matters is that the largest duration need not be a float,
as with 63 and 53 significant bits. `MCAttemptResponse` gives the floats of three bits that
round to nearest, ties to even, and TLC checks the assumptions of them. Multipliers are
whole numbers. `BodyLease` is what `HttpExecution` takes for one step: the
contexts of a returned body are released once, with no callback left, and no call
that finishes the body returns before. `AttemptResponse` is the code: the
`context.AfterFunc` callback, `setStop`, the `sync.Once`, the mutex and the cancel
functions, statement by statement, for any number of users; and for a response
that is retried the delay, the bounded drain under a deadline, the close and the
wait.

### `HttpTelemetry` - observers, transports and headers

One operation: `MultiObserver` starts its observers in turn, any of which derives a
context, gives an observation, both, neither, or panics; every round trip passes
`frames`, one per transport layer, each of which clones the request, injects with
its propagators and checks the context before and after; redirects and retries
send again. `own` are the headers of the attempt's request, a header's value is
the number of the round trip (or the span) that wrote it. `open` are the spans
and observations not ended, numbered in the order they began in. A panic of the base
transport unwinds all layers at once (`BasePanics`) and then `do`, whose deferred
calls end the observations one by one.

## Runs

| Run | Bounds | What it shows |
| --- | --- | --- |
| `registry_tokens` | 2 calls, 2 clients, 1 permit, no clock | Slots and permits are conserved by every exit, checks of one client are serialized until published, a complete summary is complete, `CheckAdmission` is implemented; `CheckAll` returns if checkers do, and a canceled call returns anyway |
| `registry_health` | 2 calls, 1 client, a direct check, a reader, 3 instants (`MaxTime`) | Rejected results never surface, the newest failure stands |
| `later_accepted`, `superseded` | 2 calls / direct checks, 1 client | Two sentences of `docs/health-readiness.md` the code does not keep (below) |
| `registry_composition` | 2 batches of up to 2 (`MaxBatch`), 3 names (`MaxName`), 3 clients (one nil), 1 reader, 5 reports | `RegistryMembership` is implemented, the projections agree, blocking clients are checked, every closer is asked although others panic, a registration returns although a client hangs |
| `http_execution` | 2 attempts, 2 requests per attempt before the redirect limit; four families of policies (repetition, origins, timeouts, gates) | Repetition, origins, bodies, contexts, finality, late results; a bounded operation ends and releases what it holds |
| `callback_bypass` | the same | A sentence of `docs/usage.md` the code does not keep (below) |
| `http_check` | 1 checker, real time to 2 (`MaxTime`), clock off by 1 (`MaxStep`), a sanitizer off by 1 (`MaxShift`), 8 configurations of which 5 make a client | Stale health is hidden and current health shown, a bounded check returns |
| `attempt_response` | 2 users and the callback; durations of 6 bits, floats of 3, a drain limit of 1 byte | `BodyLease` is implemented, every response's fate is settled, delays stay within their limits |
| `http_telemetry` | 2 observers, 2 attempts, 3 round trips, 3 stacks of transports, 2 orders of propagators | What reaches the wire, spans nest (but for those of a round trip whose base panics), nothing leaks |
| `tcp_connection` | every client configuration (connections of `net.Dialer` honor deadlines, a custom dialer's either way); no other bound is needed | Connection ownership, classification, late answers, a check with a timeout returns |
| `tcp_observed` | the same | A sentence of `observer.go` the code does not keep (below) |

Why the bounds are enough: two overlapping calls, two clients and one permit give
every contention there is (same slot, same permit, holding one and waiting for
the other); a third instant separates "before", "between" and "after" two
outcomes. One retry exercises every gate of the loop, and a second redirect both
the limit and a redirect after a rewritten method. Two batches over three names
overlap in none, one or two names. In `HttpCheck` the staleness limit is 1, so ages
below, at and above it occur on both sides of a clock step, and real time to 2 reaches the
tight cases: a health one unit too old that is still shown because the clock was set back
by one, or because the sanitizer moved the stamp forward by one. Two users and the
callback are every kind of rival for a `sync.Once`; the delays chosen lie on both
sides of every rounding and overflow of six bit durations. Three round trips are
a first one, one after it and one after both a redirect and a retry. The proofs
lift every safety property from these bounds; only the liveness properties depend on them.

### Fairness

`RegistryChecks` and the others assume that Go runs a goroutine that can
proceed (weak fairness of the statements of a worker or of `do`) and that timers
fire. A channel with several waiters serves each eventually. What user code owes is a
hypothesis: `EveryCheckAllReturns` supposes checkers return,
`CanceledCallReturns` does not suppose it of the other calls' checkers. In
`HttpExecution` callbacks return, and the transport gives up once its context is
over, as `http.RoundTripper` requires; nothing makes a server answer and nobody
closes a body. In `TcpConnection` dialers and handshakes honor their contexts; a
probe may ignore its own, but its I/O fails on a closed connection and, on a
connection that honors deadlines, once the check's deadline has passed
(`ProbeUnblocked`).

In `RegistryComposition` goroutines run and a waiting writer is granted the lock;
the metadata methods called while validating return; nothing is assumed of the
clients a reader visits. In `HttpCheck` the execution gives up once its context is
over (`BoundedExecutionEnds` of `HttpExecution`) and a read of the body fails once
its context is; nothing is assumed of the server or of the caller. In
`AttemptResponse` deadlines pass and goroutines run; users need not finish the body
and servers need not send anything. `HttpTelemetry` states no liveness property.

## Disagreements with the documentation

* `later_accepted`: "A later accepted Registry check clears the projection"
  (`docs/health-readiness.md:114`). A failure stamped in a slot wait before an
  acceptance and applied after it is shown over the accepted health.
* `superseded`: "a later direct client check supersedes it through its newer
  `CheckedAt` value" (`docs/health-readiness.md:115`). Of two concurrent direct
  checks the one stamped first may store last and bring the override back.
* `tcp_observed`: "End observes the final operation outcome exactly once"
  (`observer.go:28`). A panic of a custom dialer or a TLS callback skips it.
* `callback_bypass`: "a permissive callback cannot bypass Clientkit's origin or
  repetition-safety policy" (`docs/usage.md:264`). `validateRedirectReplay` looks at 307 and 308 only
  (`do.go:490-494`); a callback that sets `Request.Method` back after a 301, 302 or
  303 transmits the unauthorized method again. `RepeatedOnlyIfAuthorized` is what the
  code does keep: retries and 307/308 redirects never do that, even after such a callback.

One more has no run of its own because a property states it exactly. The transport
"records one CLIENT span for each RoundTrip invocation" (`internal/httpotel/transport.go:44`),
but `span.End` (`transport.go:176`) is not deferred: if the base transport panics, the
span is never ended while the deferred `finishOperation` (`do.go:221`) ends the
observations around it. `SpansNest` says that these spans, and no others, are
abandoned, and that the observations still end in the reverse of their order.

## Proofs

All theorems hold for every value of the constants that the named assumptions allow:
any finite number of calls, clients and permits; any number of attempts, any
redirect limit, any set of policies; any batches, callers, readers and reports; any staleness limit and clock; any width
of durations. Every invariant, action property and refinement that a passing run
checks is also proved.

`RegistryChecksProofs` proves type correctness, token conservation, serialization
through publication, complete summaries, and that `RegistryChecks` implements
`CheckAdmission`. Conservation alone is not inductive: that a slot is free must
be tied to the worker that holds it. `TokenInvariant` therefore says that a
client's slot token and the workers between taking and releasing it exclude each
other, and that the permits out are exactly those of the workers in the permit
section. Serialization and the refinement follow from it state by state: a step
into the checker takes a permit, a step out returns it, every other step is a
stutter of `CheckAdmission`.

`RegistryHealthProofs` proves `NewestFailureStands` and `RejectedResultHidden`.
The inductive invariant (`HiddenInvariant`) follows a rejected assessment from
the moment the checker stores it: while its worker still has to apply the
failure, the failure's stamp is not older than the cached one; afterwards the
override, or a newer one, covers it. It rests on stamps being taken in program
order from a clock that does not decrease.

It also proves `SnapshotOmitsRejected`. A reader's copy of the
overrides does not follow later publications; it need not, because a task whose
rejection is published never writes the cache again (`SnapshotInv`).

`HttpExecutionProofs` proves type correctness, `ContextsMatchUse`,
`LateResultsRejected` and `OriginRespected`. Types alone are not inductive here: the
error of a late result is the state of the attempt's context, which is a proper
cause only if Clientkit has not released it itself. `ContextInv` says, by program
counter, when it may have, and bounds both loops.

It also proves `RepeatedOnlyIfAuthorized`, `FinalOutcomesAreFinal` and
`BodiesAccountedFor`. Two paths lead to a second transmission of the original
method, a retry and a preserving redirect; `RepeatInv` says that whoever is on either
path after a first transmission has passed the same authorization, and that only a callback
restores a method. The last part gives `OnlyCallbacksBypassSafety`: a client without a
`CheckRedirect` callback keeps even the property that `callback_bypass` refutes. `FinalInv` carries
what the gates checked from the decision through the delay to the next attempt, and
`BodyInv` says between which statements a body may be open or unsent.

`RegistryCompositionProofs` proves type correctness, `ProjectionsAgree`,
`BlockingClientsChecked` and `EveryCloserAsked`. `ProjectionsAgree` is half about no state at all:
`OneStory` shows `Agreement` for any well-formed snapshot. The other half, that
every finished snapshot is well-formed, needs that a visited client has a state,
and `BlockingClientsChecked` needs to know what `validateRegistration` checked
when the directory is read much later: `EntriesSound` carries that through batch,
directory and copy, `ReadersVisited` says by the reader's position which names are
still to be visited, and `AskedInv` that those asked and those left to ask are all,
in order.

It also proves that `RegistryComposition` implements `RegistryMembership`. The invariant (`MembershipInv`) ties the lock to the program
counters, every entry to the batch it came from, and every half-made copy to the
directory; then `Unlock` is the one step that registers a batch, `RUnlock` and
`Get` are the ones that list, and everything else is a stutter.

`AttemptResponseProofs` proves that `AttemptResponse` implements `BodyLease` for
any number of users. `OnceInv` is the `sync.Once`; `StopInv` says why the callback
cannot survive: while it is registered either nobody has begun to finish and
`setStop` has yet to run, or `stop` is set, or the one inside `finish` is about to
call it.

It also proves `DelayWithinLimits`, which is arithmetic more than state. The argument:
what `Clamped` receives is a float (`IsFloat`), so a value below the rounded `MaxBackoff` is
below `MaxBackoff` itself, although rounding may have moved that bound; and a value below the
rounded largest duration, which may be the power of two above it, converts without leaving
the range. With `>` instead of `>=` the second step fails, and that is the mutant. Rounding,
products and clamping are monotone, so base delays are. For `Retry-After`, `DivisionBound`
shows that the test against `maxDuration / time.Second` is exactly that the product does not
wrap around, so the delay is the exact delay of the first value that has one.

`HttpCheckProofs` proves `StaleHealthHidden` and `CurrentHealthShown`, for any sanitizer whose
timestamps stay within `MaxShift`. The staleness test compares two readings of a clock that may be set
back in between, and neither bound is inductive. `StampInv` adds that every stamp, in
a check, in the cache or in a reader's hands, is `Sound`: the clock has moved since it was
taken by at least the real time that passed less what it was set back. It speaks of the
stamp `Record` took, which the sanitizer cannot change; what the sanitizer stored instead
differs by a term that the property states.

`TcpConnectionProofs` proves type correctness, `ConnectionAccountedFor`, `InUseIsOpen`,
`OutcomeMatchesClass` and `LateAnswersRejected`. Its run covers every configuration, and the
proof shows why it holds: `ContextInv` says when a context can be released, so that the
error of a late answer is always one `errors.Is` recognizes; `OwnerInv` says by program
counter who owns the connection and that the watcher closes it only if the check's context
is over; `ReportInv` that outcome and class are read off the same error. That the two
classifications agree about every set of causes is a lemma of its own.

`HttpTelemetryProofs` proves `NothingLeaks`, `SpansNest` and `WireHeaders`. `LeakInv` follows
the response and the request body by program counter. `StackInv` says that the open ones
are those `MultiObserver` holds, in ascending order, and above them the one of the traced
layer, which after a panic of the base stays open as the one `Abandoned` while those below
it are ended. `HeaderInv` describes every frame by the injections completed in it and outside it,
so a panicking propagator, whose half-written clone is thrown away, leaves nothing behind.
`ResendInv` relates requests handed over, resends counted and round trips begun.

Only model-checked, on the bounds above: the liveness properties `EveryCheckAllReturns`,
`CanceledCallReturns`, `BoundedExecutionEnds`, `CheckReturns`, `RegistrationReturns`,
`BoundedCheckReturns` and `FateSettled`; temporal reasoning under fairness, and `ENABLED`,
are outside what the prover does. The properties that are expected to fail have no theorem.

## Not modelled, and why

* `slogobserver`, and what `otel` formats (attributes, events, metrics): stateless
  conversions of an event to a record.
* Validation of configuration at construction, except the duration settings of
  checks and retries: pure, sequential, and its result is the constant of the models.
* Header names and values character by character; header maps are functions of
  four names.
* Fractional backoff multipliers and the distribution of jitter (any value in its
  range is possible).
* Panics of `CheckRedirect` and `GetBody`, which propagate to the caller with the
  deferred calls, and what a panic of a transport does to bodies and contexts.
* The contents of bodies and errors, timing beyond the order of events, and
  everything inside `net/http`, `crypto/tls` and `net`, which are modelled by what
  the code relies on.
* Release tooling and examples: not part of the library.
