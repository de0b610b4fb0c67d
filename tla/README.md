# A TLA+ model of go-o11y (`github.com/circleci/ex`)

go-o11y is a toolkit for Go services: the lifecycle of a process, HTTP server
and client, background workers, database transactions, observability (spans,
metrics), and the publication and download of releases. Its parts are small, but
nearly all of them run several goroutines, retry, or have to behave during a
shutdown, and that is where their tests reach least. This directory holds
TLA+ modules translated from the source, TLC configurations that check them on
small instances, an abstract specification of a service's life that the detailed
one implements, and TLAPS proofs, for every value of the constants, of the safety
properties of eight of the components.

Paths below are relative to `src/`. `PROJECT.json` maps every definition that
models code to its lines, and lists all runs, mutants, hazards and theorems.

## How to run

    tlc -workers 2 -config MCService.cfg MCService    # any run of PROJECT.json
    tlapm TxManagerProofs.tla                         # all proofs of a module

## Inventory

State and operations of the parts with behaviour of their own:

| part | state | operations | what makes it hard |
|---|---|---|---|
| `system`, `termination` | services, cleanups, metric and gauge producers; an errgroup and its context | `Load`s of the components, `Run`, `Handle`, the metrics reporter, `Cleanup` | tasks end in any order, with or without an error; signals and cancellation at any time; a `Load` fails half way; cleanups fail |
| `worker` | back-off policy, wait timer | `Run`, `doWork`, `wait` | cancellation in the work, in the wait or between; panics; consecutive back-offs and resets |
| `httpserver` | errgroup of two goroutines, tracked listener | `Serve`, `Accept`, `Close`, `Gauges` | grace period against requests in flight; listener failure; connections of one host interleave |
| `httpclient` | time of the last 429, attempt, back-off | `Call`, `retryRequest`, `HTTPError.Is` | concurrent calls share the circuit breaker; deadline, retry limit and cancellation race |
| `db` transactions | the pool, a `Tx` per try | `WithTx`, `transaction` with its deferred switch, `mapError` | panic, bad connections, a COMMIT of unknown outcome, cancellation with a rollback in the background |
| `o11y/httpmetrics` | buffer, stop channel | record, `Publish`, loop, `Close` | overlapping publishers, failed calls that put their batch back |
| `releases/download` | target and temporary file | `Download`, `Remove` | crash at any point, deadline in the body, two downloads of one URL |
| `releases/compiler`, `releases/releaser`, `plugin/releaser` | channel of works, pipe, bucket | `Add`, `Run`, `Publish`, `Release` | workers fail and are cancelled, pipe ends wait for each other, retried uploads |
| `releases/release` | latest versions, ready flag, cache | `NewList`, `Run`, `storeVersions`, `LatestFor`, `Handler` | fetches fail, are cancelled, and are overtaken by releases |
| `o11y`, `o11y/otel`, `o11y/wrappers` | spans, trace fields, golden specs in contexts | start, `End`, `AddField`, `AddFieldToTrace`, `Flatten`, `MakeSpanGolden`, propagation | goroutines outlive spans; shared golden spec; early return for flattened spans; two services |
| `rabbit` publisher pool | pool of publishers, the dialer | `Publish` and its variants, `publish`, `Close`, `Load` | callers share a few publishers and wait for each other; `Close` and requests that outlive the grace period |
| `httpclient/dnscache` | cache of answers | `Resolve`, `DialContext` | lookups overlap without a lock, answers arrive late, DNS changes |
| `httpclient/metrics` | in-flight counters, estimate of the pool | `RoundTrip`, the callbacks of httptrace | callbacks come from several goroutines; connections change hands without one |
| `config/o11y`, `o11y/otel` export, `o11y/honeycomb` | providers, samplers, exporters and senders | `Setup`, `Otel`, `End`, hooks, `ExportSpans`, `Add`, `Close` | sampling against metrics, one destination fails, queues are full, spans end during `Close` |

How they interact: `system` runs an `httpserver`, worker loops, `release.List`
and the metrics reporter as tasks of one errgroup, and closes pools and clients
(`db`, `redis`, `mongoex`, `rabbit`) after them, while requests may still
publish; `release.List` runs on `worker`; the client's dials go through
`dnscache` and are watched by `httpclient/metrics`; spans that end go to the
exporters that `config/o11y` set up;
`httpmetrics` and `download` send through `httpclient`; the releaser writes the
bucket that `release.List` reads.

## Modules

| module | models | state in the code |
|---|---|---|
| `System` | `system/system.go`, `system/metrics.go`, `termination/termination.go`, the `Load`s of `httpserver`, `db`, `redis`, `mongoex`, `rabbit` | `services`, `cleanups` are the fields of `System`; `task` is one goroutine per `g.Go`; `gerr`, `cancelled` are the errgroup's; `at` is the index of `Cleanup`'s loop |
| `Lifecycle` | what `system` promises: the abstract specification | `stage`, `acquired`, `open`, `busy`; `System` has the refinement mapping |
| `PublisherPool` | `rabbit/publisherpool.go`; go-commons-pool and amqpextra (external) | `pc` is the place in `publish`; `all`, `idle`, `shut` are the object pool's; `open` the publishers not closed |
| `Service` | `System` and `PublisherPool` composed as `rabbit.Load` does | `Host` is the task whose goroutine a caller is; the cleanups "pool" and "dialer" are the pool's `Close` and its dialer's |
| `Worker`, `Backoff` | `worker/worker.go` over cenkalti/backoff's exponential policy (external) | `pc` is the place in the loop, `current`, `elapsed` the policy's fields, `rest` the timer |
| `HTTPServer` | `httpserver/httpserver.go`, `httpserver/tracking.go`; net/http as it calls the listener (external) | `accepted`, `activeConn`, `remotes` are the fields of `trackedListener` |
| `HTTPClient` | `httpclient/httpclient.go` | `cool` is what is left of the ten seconds after `last429`; `interval`, `elapsed`, `timer` belong to `backoff.Retry` |
| `DNSCache` | `httpclient/dnscache` | `cache` is the entry of one host with the ticks it has left; `ips`, `tried` are locals of `DialContext` |
| `ClientConn` | `httpclient/metrics/metrics.go`, composed with `DNSCache`; net/http's transport (external) | `inFlight`, `inFlightMax`, `poolAvailable` are the fields of `Metrics`; `conn`, `idle`, `own` are the transport's |
| `TxManager` | `db/transactions.go`, `db/error.go`, `db/unified_querier.go`; database/sql's pool and `Tx` (external) | one action per case of the deferred `switch`, in its order; `tx` is the `Tx` of each try |
| `HTTPMetrics` | `o11y/httpmetrics/provider.go` | `data` is the buffer, `batch` the local slice of each `Publish` in a call |
| `Downloader` | `releases/download/downloader.go` | two paths, files as inodes with contents, offsets of open files |
| `Compiler` | `releases/compiler/parallel.go` | the channel `work`, the workers of the errgroup |
| `Releaser` | `plugin/releaser`, `releases/releaser` | composes `Compiler`; the pipe and the goroutine of `uploadBinaries`; the bucket |
| `ReleaseList` | `releases/release` | `cached`, `ready`, `pinned` are fields of `List`; `todo`, `type`, `version` locals of `storeVersions` |
| `Distribution` | both ends of the bucket | composes `Releaser` and `ReleaseList` |
| `Spans` | `o11y/o11y.go`, `o11y/otel/otel.go`, `o11y/otel/helpers.go`, the middlewares | `spans` are the wrapper's spans, `specs` the golden specs that contexts share, `ctxs` each goroutine's stack of contexts |
| `Export` | `config/o11y`, `o11y/otel` (`End`, sampler, `multipleExporter`, `Close`), `o11y/honeycomb` (hooks, `TraceSampler`, `MultiSender`, `TextSender`, `Close`); the SDK's batch processor, beeline (external) | `up` is where the provider is from `Setup` to `Close`; `queue`, `batch` the processor's; `next` the loop index of `MultiSender.Add`; `responses` the text sender's channel |
| `MC…` | values of constants for TLC | |
| `ServiceProofs`, `TxManagerProofs`, `HTTPServerProofs`, `HTTPClientProofs`, `ClientConnProofs`, `HTTPMetricsProofs`, `ExportProofs`, `DownloaderProofs` | theorems about the module they are named after and those it composes | |

Conventions. An action is the stretch of code between two points where another
goroutine, process or service can be observed. History variables are marked
"history". Clocks are relative and saturate (`Horizon`), so no behaviour is cut
off. Next to a decision that a hazard depends on stands a variant `X_Variant`
with a comment "Mutant": a plausible slip, used to see that the property fails
under it. Where the program may stop for good, an explicit stuttering action says so
and deadlock checking stays on.

## Runs

The number of distinct states is TLC's.

| run | instance | states | properties |
|---|---|---|---|
| `service` | queue (two cleanups), database, API server, plain service; a request and the service share one publisher | 60 234 | `NoUseAfterClose`, `FirstErrorWins`, `OneUserPerPublisher`, `DialerOutlivesPublishers`, `ShutdownCompletes`, `ImplementsLifecycle`, `CancelEndsPublish` |
| `worker` | work of 0–4 ticks, minimum 3, intervals 1, 2, 4, 5 | 480 | `BackoffHonoured`, `ExitsOnCancel` |
| `httpserver` | three connections, two of one host | 3 190 | `CountersExact`, `NilMeansDrained`, `StopsWhenCancelled` |
| `httpclient` | two callers; limited retries beside no retry, or beside unlimited retries; 200, 204, 404, 429, 503 | 150 880 | `BreakerStopsCalls`, `RetriesOnlyTransient`, `CallBounded`, `ResultIsLastAttempt`, `CancelEndsCall` |
| `tx` | two calls, two connections, three tries | 227 155 | `CommittedAtMostOnce`, `ResultTellsOutcome`, `CallReturns` |
| `tx_leak` | two calls, two connections; only bad connections in `f` | – | *violated:* `AlwaysReturns` |
| `httpmetrics` | three metrics; loop, one caller of `Publish`, `Close` | 32 292 | `NothingLost`, `CloseFlushes`, `DeliveredOrClosed` |
| `downloader` | two callers one after the other, three chunks | 1 214 | `TargetComplete`, `FailedLeavesNothing` |
| `distribution` | three runs of the releaser, two versions, two binaries, two release types, two compiler workers | 233 772 | `ReadyMeansAllKnown`, `LatestIsDownloadable`, `NeverStepsBack`, `RunReturns`, `CatchesUp` |
| `spans` | two goroutines, four spans | 2 885 741 | `FlattenedReachParent`, `TraceFieldsOnEverySpan`, `GoldenCarriesSpan`, `GoldenTraceFollows` |
| `conn` | two requests over HTTP/1 or HTTP/2, two connections, two addresses; TTL and lookups of one tick | 1 421 494 | `GaugesExplained`, `FreshAddresses` |
| `export` | two spans of one trace at different rates, some of which wrap, eight configurations, all checksums of three bits | 156 405 | `MetricsOnce`, `TraceSampledWhole`, `CloseDelivers`, `CallsReturn` |

What they show:

- **service.** No cleanup is called while a service, the signal handler or the
  metrics reporter runs; `Run` returns the first error; every cause of a shutdown
  ends the process; and the whole implements `Lifecycle`: resources are released
  latest first, all of them, also after a failed `Load` or a failed cleanup. A
  publisher has one user at a time, also while the pool is closed; when the dialer
  is closed only requests that outlived the grace period still hold a publisher;
  a publish ends with its context, waiting for a publisher or for the broker.
- **worker.** The pause after a back-off is at least the interval that the policy
  promises for that many back-offs in a row; `Run` ends on cancellation wherever
  it is; errors and panics do not end it.
- **httpserver.** The counters and the gauges derived from them are exact up to the
  shutdown; nil means no connection is left; `Serve` returns although a handler
  never finishes.
- **httpclient.** After a 429 of any call a caller sends at most the one request
  it had already let through; only failed exchanges and 5XX are tried again; the time
  limit holds up to one attempt's timeout; a final 5XX is never a warning;
  cancellation ends any call.
- **tx.** The effects of `f` are committed at most once per call, and the
  result says whether they are, except for a failed COMMIT, which leaves it open;
  every call returns, cancelled or not and whatever the others do, unless
  transactions abandoned on bad connections (`Abandoned`) hold all connections of the pool.
- **httpmetrics.** A metric is buffered, in a call, or received, whatever overlaps
  and fails; when `Close` has returned after a flush that succeeded, what was recorded
  before it was received, or was held by a `Publish` that overlapped the flush.
- **downloader.** With one download at a time a file at the target path is complete,
  also after crashes; an error leaves nothing behind but what could not be removed.
- **distribution.** A version that a service calls the latest has all its binaries
  complete in the bucket, except while a repeated run of the releaser for a version that
  was released replaces them, until one succeeds; the service never goes back to an older version,
  is ready only when it knows all types, and catches up; the releaser never hangs on its pipe.
- **spans.** Fields of flattened spans and of the trace reach what is sent, under
  distinct prefixes; golden spans end with their span and repeat it, and stay in one
  golden trace over goroutines and services: a context loses it only when a call could not
  put it into its baggage, and never takes up another although members of an earlier
  hop are still in the baggage.
- **conn.** The in-flight gauge is exact; over HTTP/1 the estimate of idle connections
  differs from their number only by what the tracer is not told: dials that finish for
  nobody, and idle connections that close. Over HTTP/2 a connection is reused without ever
  being put back, so the count sinks below zero and the gauge reads 0. No dial starts with
  an address that at that moment left DNS longer ago than the TTL and the duration of one
  lookup, although a late answer may replace a newer one in the cache; the addresses
  tried after the first are older by the attempts before them.
- **export.** The metrics of a span are sent exactly once, whether it is flattened,
  sampled in or out, lost or delivered; honeycomb keeps the spans of a trace together
  as far as their rates, cut to 32 bits, allow; after `Close` each destination has exactly the spans
  that it should have; `End`, `Setup` and `Close` return although nobody reads the text
  sender's responses.

### Bounds, and why they are enough

- *service*: `Plan` has one component of each shape (service with and without
  metrics, one cleanup, two cleanups of which one depends on the other); the
  theorems of `ServiceProofs` hold for every plan. The database is loaded after the
  queue, so that its failing cleanup comes before two others. One publisher for two
  callers makes them wait for each other; two publishers give 138 234 states
  and the same result.
- *worker*: the intervals reach and pass the clamp at `MaxInterval`, the
  longest work exceeds `MinWorkTime`, so both branches after the work occur.
- *httpserver*: two connections share a host and one does not, so an entry of
  `remotes` is decremented, removed and made again beside another.
- *httpclient*: a limit of two ticks, timeout of one, and intervals up to two
  make the limit expire in a wait, in an attempt and between them. The
  statuses are one of each class that the code tells apart.
- *tx*: with two connections one abandoned transaction makes the two calls wait for each
  other, and two block the pool; three tries are the code's. `TxManagerProofs` needs no bound.
- *httpmetrics*: three metrics allow one in a call, one put back and one recorded meanwhile.
- *downloader*: three chunks allow a deadline after the first and after the second;
  `MaxVersion` of two in *distribution* is the least with an "older" version, and `MaxRuns`
  of three the least for a release, its repetition and a newer one.
- *spans*: four spans are a root, its flattened child, a golden span and one more in
  another goroutine or service. One field per kind, one failing operation and one
  explicit `Flatten` per behaviour keep the number of states down; the properties
  speak of one span and its parent, twin or trace. A goroutine that is done serves again
  (`Serves`) only for a further hop of a call that carries extras: so a call there and
  back, with members of the first hop still in the baggage, occurs. Goroutines are symmetric.
- *conn*: with a TTL and a lookup of one tick each an answer can arrive after a newer
  one and expire after it. Two requests suffice for a connection to be handed over and
  for a dial to finish for nobody; `MaxSilent` bounds the latter, and over HTTP/2 how
  far reuses take the count below zero, at one. All requests are to one host.
- *export*: checksums of three bits put rates 2 and 3 on different sides of every
  boundary, and rates of 9, 10 and -1 do not fit them; a queue of one and a channel of one
  are full when the second span ends.

### Fairness

Safety properties are checked without fairness or do not depend on it. For the
others: goroutines that can run do (weak fairness per goroutine); timers and
tickers fire; a service returns once its context is cancelled, as `AddService`
asks; `WorkFunc` honours its deadline; calls to services end (they have timeouts).
Nothing is assumed of clients, handlers, signals, cancellation, or of the broker's
confirmations: a publish need only return once its context is done. Nobody need read
the text sender's responses, and `Close` of a provider need never be called. Strong fairness is
used in five places. `database/sql` serves waiting requests for a connection in turn,
hence `SF(Step(k))` in `TxManager`. Time passes although refused calls come and go
(`HTTPClient`). A receiver of metrics is not down for ever, and Go's `select` does
not ignore a ready channel for ever (`HTTPMetrics`). The retries of a download end,
their elapsed time being bounded (`Downloader`; the run checks no liveness). Go starts
a range over a map at a random place, so each release type is first now and then,
and a fetch of an existing file succeeds now and then (`Distribution`).

## Proofs

| module | theorem | property | holds for |
|---|---|---|---|
| `ServiceProofs` | `TypeCorrect`, `CleanupAfterRun`, `CleanupOrder`, `RunResult`, `ServicesInvoked`, `Refinement` | `TypeOK`, `NoUseAfterClose`, …, `ImplementsLifecycle` of `System` | every plan of components |
| | `IsSystem`, `LifecycleKept`, `OneUser`, `DialerLast` | `Service` implements `System`; `ImplementsLifecycle`, `OneUserPerPublisher`, `DialerOutlivesPublishers` | every plan, any callers and publishers |
| `TxManagerProofs` | `TypeCorrect`, `AtMostOnce`, `OutcomeTold` | `CommittedAtMostOnce`, `ResultTellsOutcome` | any calls, connections, tries |
| `HTTPServerProofs` | `Counters`, `Drained` | `CountersExact`, `NilMeansDrained` | any connections and hosts |
| `HTTPClientProofs` | `BreakerHolds`, `OnlyTransient`, `BoundedCalls`, `ReturnsLastAttempt` | `BreakerStopsCalls`, `RetriesOnlyTransient`, `CallBounded`, `ResultIsLastAttempt` | any callers, requests, time-outs and intervals |
| `ClientConnProofs` | `DialsFreshAddresses` | `FreshAddresses` (an action property) | any dialers and addresses, TTL and lookup time |
| | `Gauges` | `GaugesExplained` | any finite set of requests, any connections |
| `HTTPMetricsProofs` | `NoMetricLost`, `FlushedOnClose` | `NothingLost`, `CloseFlushes` | any publishers and number of metrics |
| `ExportProofs` | `CountedOnce`, `WholeTraces`, `Delivered` | `MetricsOnce`, `TraceSampledWhole`, `CloseDelivers` | any spans, rates, checksums, configurations, queue sizes |
| `DownloaderProofs` | `CachedIsComplete`, `FailureCleansUp` | `TargetComplete`, `FailedLeavesNothing` | any callers and chunks, one download at a time |

Each of these rests on an inductive invariant `IInv` (`DNSInv`, `ConnInv`, `SInv`
where a module has several), which TLC checked on the instance of the run before it was
proved, and on a theorem `Invariance`. Almost none of the properties is inductive
by itself; what follows says what had to be added.

### The service

`ServiceProofs` proves about `System`, for every sequence of components (`PlanAssumption`):

- `TypeCorrect`: `TypeOK` always holds.
- `CleanupAfterRun`: no cleanup is called while a task is alive.
- `Refinement`: the system implements `Lifecycle`. The initial states map to
  initial states; each action maps to one step (`Load` to `Acquire`, `RunBegin` to
  `Serve`, `Go` and the returns of tasks to `Work`, `Wait` and `LoadFails` to
  `Stop`, `CleanupNext` to `Release`, `Exit` to `End`) or to a stutter.
  `IInv` is what makes `Release` take the latest resource and `End` find none left.
- `CleanupOrder`: reverse order, and everything closed at exit.
- `RunResult`: `Run` fails iff a task failed, with the earliest error, and returns
  nil only after the caller's cancellation.
- `ServicesInvoked`: when `Run` returns every service was invoked and came back.

None of these is inductive. The inductive invariant `IInv` adds four facts.
`CleanupInv`: while `Cleanup`'s loop is at index `at`, exactly the positions above
`at` are closed, and none before the loop. `JoinInv`: no task is alive once `Wait`
is over, and none is started before `Run`. `StartInv`: what `Run` has not started yet is still in its list,
with `Handle` first; this is what carries "every service is invoked" over the steps of a
`Run` whose context is already cancelled. `ErrInv`: the errgroup's error
is the first of the history, and `Handle` returns nil only when the caller
cancelled or some task failed; together with "`Handle` was started and has returned"
it gives the nil result its meaning. Each conjunct has a lemma with one step
per action, and `Invariance` combines them.

About `Service`, `IsSystem` shows that composing the pool with the lifecycle adds no
step that `System` has not, so the theorems above carry over (`LifecycleKept`). For
the pool, `PoolInv` says that a publisher is idle or held by one caller and is open and
counted in both cases; a caller between "borrow" and "publish" holds none, which is why a
`Close` in between cannot leave it with a closed one. `DialerInv` ties the pool to the loop
of `Cleanup`: the dialer's cleanup is always followed by the pool's in the list, so the
pool is shut and has no idle publisher when the loop reaches the dialer. `HostInv` says that a
caller that still holds a publisher then belongs to a task that was started; since
`System`'s `JoinInv` has joined all tasks, it is a request that outlived its server. The
proof assumes of the constants that `NoPublisher` is no publisher, that the pool's limit is
positive and that every caller belongs to a component (`PoolAssumption`, `HostAssumption`).

### Transactions

`TxManagerProofs` proves, for any number of calls, connections and tries
(`TxAssumption`): `TypeCorrect`; `AtMostOnce` (`CommittedAtMostOnce`); and
`OutcomeTold` (`ResultTellsOutcome`). The properties speak of calls that are over; the
invariant `OutcomeInv` adds that nothing is committed before a call is over, which
holds because every attempt at COMMIT ends the call unless it reports a bad connection,
and a bad connection means that the server did not commit. That last clause is
database/sql's contract for `driver.ErrBadConn`, and is where the proof rests on the driver.

### HTTP server

`CountersExact` needs that nothing is closed twice before a shutdown (`Counted`), and that
only finitely many connections are open, which holds although there is no bound on
the connections. That the gauges bracket each host's count rests on a least and a
greatest element of a set of naturals, proved from the well-foundedness of finite subsets.
`NilMeansDrained` needs `StopperInv`: the stopper ends with nil only when
nothing is open, and after a shutdown began none is accepted.

### HTTP client

`BreakerInv`: while it is hot the breaker refuses, and a caller that sent a request all
the same has not decided on another. `RetryInv` follows what the
last attempt saw through every place of a call. `TimeInv` has the reason for the
bound of `CallBounded`: the policy hands out no wait that would end after the limit, so each
attempt begins before it and lasts at most `RequestTimeout`. Assumed of the constants
(`ReqAssumption`): times are naturals, requests have the fields the model reads.

### Client connections

`DNSAges` bounds the age of every address by where it is: 0 in DNS, the time waited in an
answer on its way, and, in the cache, what is used of the TTL on top of a lookup.
That a late answer overwrites a newer one does not disturb it. For the gauges,
`ConnOwned`: a connection has one user and is not idle meanwhile, and only a request
that waits owns a dial; then each callback changes the estimate and the sets it is compared
with by one and the same request (`OneCounts`). `Traced`: over HTTP/1 the tracer has a
record of every request that waits for a connection, so no reuse goes uncounted; over
HTTP/2 nothing is put back, so the count stays at or below zero. Assumed: finitely many
dialers, hence requests (`DNSAssumption`).

### Metrics over HTTP

`NothingLost` needs that a publisher holds a batch only during its call (`BatchInCall`):
otherwise the next `Publish` would overwrite it. `CloseFlushes` needs what the call
of `Close` carries while it is on (`CloseCarries`): all that was recorded before `Close`
was called and is neither received nor held by another `Publish` (`held`, a history
variable) during the flush.

### Export

`RouteInv` is the core of `CloseDelivers`: for each span, `Reached` is the first
destination it has not been offered to, computed from where the span is (open, queued, in a
batch, in the loop of `MultiSender.Add`); every destination before it has the span exactly
if it was not flattened, was sampled in and was not lost, the others have neither got
nor lost it. `OnWayInv`, `WorkerInv` and `LifeInv` say that when `Close` returned uncut nothing is on
its way, so every destination is before it. `TraceSampledWhole` follows from `KeepInv` and
from `BelowMonotone`: `v < MaxUint \div q` and `p <= q` give `v < MaxUint \div p`, for the
rates as `shouldSample` converts them (`uint32`).
Assumed (`ExportAssumption`): rates are integers, for honeycomb not ones whose low 32 bits
are all zero, and configurations have the fields that `Setup` reads.

### Downloads

The hypothesis `Parallel = 1` stands in the theorems because the properties are false without it
(see Findings). It is used once, for `AtMostOne`; everything else (`Fetching`: the
temporary file holds what was read of this response, is complete before the rename,
and the target stays absent from the check to the rename; `TwoFiles`; `Leftovers`, up to
the files that `os.Remove` failed to remove, `stuck`)
follows for any finite number of callers one after the other, with crashes between any two
steps (`DownloadAssumption`).

### Only model-checked

- Every liveness property (`ShutdownCompletes`, `CancelEndsPublish`, `ExitsOnCancel`,
  `StopsWhenCancelled`, `CancelEndsCall`, `CallReturns`, `DeliveredOrClosed`, `CallsReturn`,
  `RunReturns`, `CatchesUp`): fairness and `ENABLED` are out of the prover's reach.
- `BackoffHonoured` of `Worker`: the interval it promises is defined by recursion over
  the number of back-offs, and what a recursive definition yields for every number
  needs an induction that the provers cannot instantiate.
- `ReadyMeansAllKnown`, `LatestIsDownloadable` and `NeverStepsBack` of `Distribution`, and the
  four properties of `Spans`: no proof has been attempted. The former needs an
  invariant over releaser, compiler, bucket and list together; the latter speak of
  trees of spans.

## Findings

TLC refutes one run against a line of the repository:

`tx_leak`: when `f` reports a bad connection, `transaction` returns without
`Rollback` (`db/transactions.go:64`). The `Tx` keeps its connection until the
context is done; each try takes one more, and with a context that
is never done a retry waits for the connections of its own earlier tries.

Further disagreements met while translating; the modules contain the behaviour, no
run is kept for them:

- `releases/download/downloader.go:74`: the temporary file is the same for every
  download of one URL and opened with `O_TRUNC`; a second download can truncate it just
  before the first renames it. `Downloader` with `Parallel = 2` shows it, against line 82,
  "Don't leave half-downloaded or invalid downloads hanging around".
- `o11y/otel/otel.go:252`: `MakeSpanGolden` stores a context in the shared spec and reads
  the golden span back from it; two goroutines can end up with one golden span, although
  line 389 speaks of "a matching golden span". `GoldenCarriesSpan` leaves these out, and a
  span that is given another golden span while it ends, whose first one is never ended.
- `httpclient/metrics/metrics.go:278`: the time of a new connection is said to include DNS
  and TLS; it is that of the TCP connect. Line 265 says that a request which was starved found the
  pool exhausted; one that waits for its own slow dial and is handed a freed connection
  counts as well. A retry inside the transport replaces the record that callbacks of
  the first dial go on writing to (line 122).
- `o11y/honeycomb/sender.go`: `SendResponse` is said to call every sender; it stops at the
  first that reports a full channel.
- `o11y/otel/otel.go:560`: an exporter that fails keeps a batch from the exporters after it,
  and a failing `Shutdown` leaves the later ones open. The otel sampler hashes the
  span id, so it splits traces; `TraceSampledWhole` is about honeycomb.
- `o11y/honeycomb/sampler.go:38` divides by the low 32 bits of the rate; a configured rate
  for which they are zero panics, and one that does not fit keeps more than it says.
  `clampToUintMax` (`config/o11y/o11y.go:163`) bounds only the rates of otel.
- `o11y/honeycomb/sender.go:24`: with no sender configured `MultiSender` refuses to start,
  the error is dropped, and beeline sends through a client of its own.
- `plugin/releaser/releaser.go:135`: nothing checks whether a version was released before.
  A second `Run` for it overwrites its binaries one by one while services hand out the
  version, and leaves it incomplete when it fails; `LatestIsDownloadable` excuses such a
  version until a `Run` succeeds.
- `httpclient/metrics/metrics.go:246` counts a connection out at every reuse; one of HTTP/2
  is never put back, so for such a client `pool_avail_estimate` is 0 for good.
- `config/o11y/otel.go`: when `otel.New` fails the metrics provider is left open.
- `termination/termination.go:18` says that `Handle` returns without an error when the
  context is cancelled; during the delay after a signal it does not watch the context.
- `httpserver/tracking.go:107`: `Close` is counted each time. `Shutdown` closes an
  idle connection and its goroutine closes it again, so the counters go below zero
  during a shutdown. `CountersExact` is stated up to the shutdown for this reason.
- `httpclient/httpclient.go:50` calls `Timeout` the maximum of a call with its
  retries; the attempt in progress runs on (`CallBounded` has the true bound). Line 445
  says that decoders see only 2XX; one registered for another status is called too.
- `o11y/httpmetrics/provider.go:138`: `Close` does not wait for a `Publish` of the
  loop; a batch that comes back after the flush stays unsent (`held` in `CloseFlushes`).
- `worker/worker.go:28`: `MinWorkTime` is not applied after a back-off. A policy with
  a `MaxElapsedTime` answers -1 in the end, which `Run` reads as "no back-off".
- `o11y/o11y.go:121` describes `Flatten` as collecting the children; the code hands the
  span itself to its parent, and a flattened span without one is never exported.
- A golden span that is flattened is never sent, a golden span counts the
  error of its span once more, and two
  flattened siblings of one depth overwrite each other's fields.
- `o11ygin.Golden` (`o11y/wrappers/o11ygin/o11ygin.go:146`) drops the context that
  it is given back.

## Assumptions and abstractions

- A compiler is used for one `Run`, as `plugin/releaser` does. Releases of one bucket are
  made one after the other, with versions that do not go down. The first line of
  `release.txt` is never blank: `New` refuses an empty version.
- `Compiler`'s channel holds 100 works in the code; the instance has as many works
  as its channel holds. One more would block `Add`, before `Run`, for ever.
- `Remove` of a download is called while no `Download` runs; when it fails, which its
  caller is not told, nothing changes.
- The elapsed time of a download's retries is not modelled, only that they end.
  `Worker`'s default policy has no randomisation; `HTTPClient` has the randomised intervals.
- Names, tags, messages, headers, spans of components other than `Spans`, and
  logging are left out.
- Go's fatal error for concurrent use of a map is not modelled: hand-over of a
  flattened span's fields (`o11y/otel/otel.go:471`) is one step.
- Not in `Spans`: the no-op provider, `Log`, rollbar, and baggage other than the extras.
  A call without propagation headers (`Propagation(false)`, `disableW3c`) is a `Request`.
  That a parent counts the error field of a flattened child again is not counted.
  Golden spans are not in `Export`.
- `Export` has the batch processor; `Config.Test`, which exports each span as it ends, is
  for tests and left out. A configuration is one that `Validate` accepts.
- The pool of publishers and the transport are modelled at the grain of their own
  locks, from how `rabbit` and `httpclient/metrics` use them.

## Not modelled

- `rootcerts/rootcerts.go` is 17 461 lines of embedded certificates, two thirds of the
  lines of the repository: data that a script generates, without a branch.
  Likewise `grpc/internal/testgrpc` is generated. What the modules cover is to be
  compared with the other 9 000 lines or so.
- Configuration and start-up without state: `config/secret`, `grpc`, `kong`,
  `rundef`, and the options of `httpclient`, `db`, `redis` and `mongoex`. The
  latter's `Load` and cleanup are in `System`.
- `httpserver/healthcheck`: each request runs the registered checks through a
  third-party library; nothing is kept between requests.
- `datadog`: one query through `httpclient`.
- Formatting and conversion: `o11y/otel/texttrace`, `o11y/otel/attribute.go`,
  `colourise`, `o11y/honeycomb/formatter.go` beyond its channel.
- Support for tests (`testing/...`): fixtures that create and drop databases, queues
  and buckets in sequence, fakes that record behind one mutex, and a runner that starts
  the programs which `System` models.
- Documentation and interfaces, which are a good part of `o11y/o11y.go`, `httpclient`
  and `o11y/honeycomb`.

`PROJECT.json` lists each part with its reason.

## Possible next steps

Proofs for `Distribution`, beginning with `NeverStepsBack`, which concerns `ReleaseList` and
the bucket only; and `TraceFieldsOnEverySpan` of `Spans`, the one of its properties that
does not follow parents.
