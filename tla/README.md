# A TLA+ verification of bitcoind-exporter

bitcoind-exporter polls a Bitcoin node over JSON-RPC, listens to its ZMQ socket,
and serves what it learned as Prometheus gauges. This directory holds TLA+
models of its moving parts, the TLC runs that check them on small instances, and
theorems about them that TLAPS proves for every instance. `PROJECT.json` lists
the runs, the lines of code each definition translates, the hazards of the code
with the properties that watch them, and the findings.

Run a model with `tlc -workers 2 -config X.cfg M`, check the proofs with `tlapm
MProofs.tla`.

## The system

| Part | Code | State | Operations | Hard behaviour |
|---|---|---|---|---|
| configuration | `config/config.go`, `validation.go`, `security.go` | `C`, `Security`, `GlobalConfig`, the validator, the monitor | `InitializeConfig`, `LoadConfig`, `ReloadConfig`, `ValidateConfig`, `IsIPAllowed` | two readings of the same variables; what is validated, when, and how strictly |
| retry handler | `fetcher/error_handler.go` | none | `WithRetry`, `ShouldRetry`, `GetRetryDelay` | a retry timer races the deadline of the round; errors judged by their text |
| circuit breaker | `fetcher/error_handler.go` | state, failure count, time of the last failure | `Call` (`updateState`, `recordFailure`, `recordSuccess`) | two records of one fact; must reopen and close again |
| scrape round | `fetcher/resilient_fetcher.go` | WaitGroup, results channel, `metricData`, gauges | `collectAllMetrics` | 12 query goroutines, a closer and a collector; partial failure |
| fetch loop | `fetcher/resilient_fetcher.go` | the timer | `StartResilient`, `runWithResilience` | outage, recovery, shutdown in mid-round, pace |
| RPC client | `fetcher/client.go` | address, credentials | `NewClient`, `computeBasicAuth` | credentials go stale |
| rate limiter | `security/tls.go` | map of clients, time of the last cleanup | `Middleware`, `isBlocked`, `isRateLimited`, `blockClient` | check and count under separate locks; cleanup |
| authentication, headers, TLS server | `security/tls.go` | none | `AuthMiddleware`, `CreateSecureHandler`, `Shutdown` | order of the layers |
| endpoints, IP filter | `prometheus/secure_server.go` | the server | `StartSecure`, `/health`, `/ready` | graceful shutdown; a path that cannot be mounted |
| ZMQ listener | `zmq/zmq.go` | socket, message count | `Start`, `runListener` | connections are lost and found |
| process | `main.go` | the signal context | `main`, `-health-check` | which goroutine ends the process |
| health monitor | `config/health.go` | map of checks, RWMutex, stop channel | `Start`, `Stop`, `IsHealthy`, `GetHealthStatus`, `GetHealthSummary` | concurrent checks; recursive read lock; restart |

How they interact. `main` loads the configuration and starts three goroutines
that share one context, canceled by a signal: the HTTP server, the ZMQ listener
and the fetch loop; the last one is `main` itself. The fetch loop calls the
breaker, which calls a round, which runs its queries through the retry handler
and the RPC client; the only thing that reaches the HTTP side are the gauges. A
request goes through the IP filter, the mux, and, for the metrics alone,
headers, authentication and the rate limiter. `LoadConfig`, `ReloadConfig` and
the health monitor are an exported API that no part of the running process
calls; their models let a caller use it in any order.

What makes each part correct is said in its module, above each property, and
summarised below.

## The modules

| Module | Models | Uses | Theorems in |
|---|---|---|---|
| `CallGate`, `CircuitBreaker` | the promise of the breaker, the breaker | | `CircuitBreakerProofs` |
| `RetryPolicy` | the error classifiers and retry delays, as operators | | `PacedFetcherProofs` |
| `PacedFetcher` | the fetch loop in time | `CircuitBreaker`, `RetryPolicy` | `PacedFetcherProofs` |
| `ScrapeBoard`, `ScrapeRound` | the promise of a round, the round | | `ScrapeRoundProofs` |
| `ResilientFetcher` | the fetch loop with all its goroutines | `ScrapeRound`, `CircuitBreaker` | `ResilientFetcherProofs` |
| `RateLimiter` | the rate limiter | | `RateLimiterProofs` |
| `AccessRules`, `Validator`, `Settings` | IP rules, validator, environment variables, as operators | each the one before | `ExporterProofs`, `ConfigReloadProofs` |
| `ConfigReload` | the configuration and its monitors | `Settings` | `ConfigReloadProofs` |
| `ZmqListener`, `Exporter` | the feed, the process | `Settings` | `ExporterProofs` |
| `MonitorBoard`, `HealthMonitor` | the promise of the monitor, its goroutines and lock | | `HealthMonitorProofs` |

`MCRateLimiter`, `MCConfigReload` and `MCExporter` only hold values for TLC.

**`CallGate`, `CircuitBreaker`.** `CallGate` is the promise of a breaker, in
terms of the failures since the last success and the time since the last failure
only. `CircuitBreaker` is the code: `Call` is two actions, its entry
(`CallAdmit`, `CallReject`, with `updateState`) and its return (`CallFails`,
`CallSucceeds`). The timestamp is kept as an age in ticks, saturated past the
timeout, since the code compares it with nothing else. Only one call runs at a
time, because only the fetch loop calls the breaker.

**`RetryPolicy`, `PacedFetcher`.** `RetryPolicy` has what `error_handler.go`
decides without a state. An error is what the classifiers ask of it: what its
`Temporary` and `Timeout` methods say, its type, and the groups of keywords in
its text. The RPC library wraps every error, so that in practice the text alone
decides. The text of an error of the transport quotes the address, and that of
an error of the node is its code and its message, so that words of either may
make it retryable: an address holds some set of keywords (`AddressTexts`), and a
`lookalike` is an error as final as any other with keywords in it.
`PacedFetcher` is the loop of `StartResilient` with its durations: deadline of
the round (at least a second, whatever `FETCH_INTERVAL` says), delay of a retry
(doubled, capped, then jittered by a tenth), interval, and the rest of an open
breaker. One query stands for all of a round; a round here fails when its query
does, while the code lets half of them fail. Time is counted in ticks that are
long against the steps of the program: a tick passes when nothing is due.

**`ScrapeBoard`, `ScrapeRound`.** `ScrapeBoard` is what a reader of the gauges
is promised: a round is abandoned without a trace or all its answers are
published together. `ScrapeRound` is `collectAllMetrics`: the round's goroutine
(`main`), one goroutine per query (`pc`) going through `WithRetry`, the
WaitGroup, the bounded results channel, the closer, and a context that may
expire or be canceled at any step. Results carry their query's name, so the
channel is a set. A query has one gauge, its answers are members of `Values`,
and an error is one of the kinds the classifiers tell apart.

The gauges are really set one after the other, and a scrape of `/metrics` in the
middle of `updateMetrics` sees some new and some old ones. The refinement takes
the board as updated when the round decides to publish; what it promises of a
reader is therefore about the board between updates.

**`ResilientFetcher`.** EXTENDS `ScrapeRound` and INSTANCEs `CircuitBreaker`:
each action of the loop joins an action of the breaker with one of the round. It
adds the wait, the shutdown, which cancels the round's context, and a node that
is healthy or not and changes as it likes. While it is healthy a call of a live
round succeeds. It has every goroutine and no durations; `PacedFetcher` has the
durations and one query.

**`RateLimiter`.** One request is up to six actions, cut where the code releases
or takes the mutex or reads the clock: the lookup under the read lock, the read
of the block without it (a data race: when `blockClient` is writing, both
answers are possible), the time, the cleanup and the count under the lock, the
block. `ref` keeps what a request still sees of an entry that has left the map.
`penalty`, `overlap`, `under` and `stamps` are history variables.

**`AccessRules`, `Validator`, `Settings`.** Operators. `AccessRules` compares a
plain rule as text and a network by parsing, as `matchesIP` does, so that a rule
has a form besides its meaning. `Validator` gives the set of fields in error and
the set of warnings, strict or not. `Settings` has the environment variables and
what `InitializeConfig` and `LoadConfig` make of them.

**`ConfigReload`.** `InitializeConfig`, `LoadConfig`, `ReloadConfig`,
`ValidateConfig` and the monitor's calls, over environments that `os.Setenv` may
change in between. The functions share global variables without a lock; the
model gives them to one goroutine, and a call is one step. An RPC address that
is unset is not one that is empty: the parser requires the variable, not a
value. A monitor is its life
(runs, closed, starts) and its latest verdict; what goes on inside it is
`HealthMonitor`'s.

**`ZmqListener`, `Exporter`.** The life of the process, from the reading of the
environment (`Boot`, by the operators of `Settings`) to its exit,
`-health-check` and the panic of the mux included. A request goes through the
layers one action each: the IP filter decides by `AccessRules`, authentication
by whether the credentials of the request match; the verdict of the rate limiter
is a choice. `CreateSecureHandler` says in its comments that rate limiting is
outermost and the headers innermost; the code nests them the other way round, so
that a client that does not authenticate is never counted, and the model follows
the code. bitcoind stops, leaving its cookie file or not, and starts with a new
cookie; the fetch loop keeps the credentials it was made with, while `/ready`
makes a client of its own each time. The listener's connection is apart from the
socket it was made to: it breaks when the socket goes down, or by itself, and
stays lost until another `Dial`, whatever the socket does. `Exit` cuts off every
goroutine.

**`MonitorBoard`, `HealthMonitor`.** `MonitorBoard` is the monitor without
locks, callers and goroutines: it is started once and stopped once, every check
files one outcome in each round, and the board changes one check at a time.
`HealthMonitor` is the code. The `sync.RWMutex` is modelled as documented: not
recursive, and closed to new readers once a writer has announced itself. Readers
are found from the program counters. A check has two fields, its status and the
rest, so that a torn update would show. The refinement mapping lets a start
appear when it returns and an update with its last field, except that the board
is what readers see as soon as one of them holds the lock: a reader in the
middle of an update would show as a step that no check filed. A check is pending
until its goroutine has filed, and a loop that went on before all have would
show as a round begun too early.

## The runs

| Run | Expected | What it shows |
|---|---|---|
| `paced_loop` | pass | the breaker agrees with its counter and implements `CallGate`; a round ends at its deadline; calls are paced; what is retried may pass or carries a keyword of the classifiers; a node that stays up is scraped within `RecoveryBound` |
| `scrape_round` | pass | WaitGroup, channel and collector are right in every interleaving; no goroutine survives its round; the round implements `ScrapeBoard`; it always ends |
| `fetch_loop` | pass | an open breaker leaves the node alone; after an outage it closes for good and rounds publish; a shutdown ends the loop |
| `rate_limiter` | pass | a client within the limit is never refused; a block lasts unless a request of the same client overlapped it |
| `exporter` | pass | nobody gets past the IP lists, and the gauges go only to who authenticates; nothing stops before it is told to; the loop's credentials are good until bitcoind restarts and never again, those of `/ready` always; a listener that lost its connection dials again and has another; a signal or `-health-check` ends the process |
| `health_monitor` | pass | no map race, no double close, no torn read, a verdict about its own round; the monitor implements `MonitorBoard`; an end to the loop, whoever starts, stops and reads the status (the summary, which can deadlock, has a run of its own) |
| `configuration` | pass | a load makes of the variables what the boot made of them, but for the fields one reading alone takes; production is hardened unless another environment was validated first; a healthy verdict means hardened; a monitor replaced while it ran runs on; no panic without a restart |
| `hashrate_zeroed` | violation | a published round zeroes the hash-rate gauges it has no answer for |
| `block_lost` | violation | a request that overlaps the block erases it when the window rolls over |
| `shutdown_cuts_requests` | violation | the process does not wait for its HTTP server to drain |
| `ready_ignores_feed` | violation | `/ready` does not look at the ZMQ socket the README says it validates |
| `summary_deadlock` | violation | `GetHealthSummary` can deadlock the monitor |

The violations are five places where the code does not do what its comments,
tests or README say; `PROJECT.json` quotes them. Every property of a passing run
is also run against a variant of the code with a plausible mistake (the "slips"
in the modules: a dropped guard, a wrong bound, a forgotten lock) and TLC finds
it violated there.

### What the properties carve out

Several properties hold only with an exception that a reader of the code should
know of. They are stated with it, and the exception is the news:

* `ProductionHardened`: the first configuration a process validates, even one it
  refuses, fixes the strictness of the validator for good (config.go:184).
* `ReplacedLoopsRunOn`: `ReloadConfig` means to stop "the old health monitor",
  but `LoadConfig` has already put a new one in its place, and that is the one
  that stops; the old loop runs on, out of reach (config.go:251-254). The
  property says so: it is violated as soon as `ReloadConfig` does what its
  comment says, which is its mutant.
* `EndsOnlyByBootOrRestart`, `NoDoubleClose`: a monitor started, stopped,
  started and stopped again panics; its channel is closed twice.
* `HealthyMeansHardened`: a monitor that has not run a round calls everything
  healthy.
* `LoadAgreesWithBoot`: only `LoadConfig` reads `ZMQ_ENABLED`, `RPC_TIMEOUT`,
  `ZMQ_TIMEOUT` and `ENVIRONMENT`; the boot enables ZMQ when it has an address
  and takes constants for the rest. So with a `ZMQ_ADDRESS` and no `ZMQ_ENABLED`
  a load turns off what the boot turned on. Only `InitializeConfig` reads
  `METRIC_PORT`. Every other field is the same. An interval
  in seconds is refused by `LoadConfig` and a duration by `InitializeConfig`
  (`CommonGround`); so are, by `LoadConfig`, a cookie without user and password
  and an address without a scheme.
* `CookieGoodUntilRestart`: when bitcoind restarts with a new cookie, the loop
  calls it with the old one until the exporter is restarted, and `/ready` says
  ready. It is an equivalence: the loop is locked out from the first restart on,
  and by nothing else.
* `StopsOnlyWhenTold`: a `METRICS_PATH` the mux does not take ends the process
  with a panic; the boot does not run the validator, which would refuse an
  unrooted one.
* `OnlyAdmittedReadMetrics`: a rule spelled unlike the address it means, or a
  client with a zone, matches nothing. For an allow list that fails closed; a
  deny list does not.
* `RetriesHaveCause`: an RPC address that holds a keyword of a classifier, such
  as `bitcoind-28`, `node-1` or a host name with `timeout` in it, makes every
  error of the transport retryable; and an error of the node is retried when its
  code or its message holds one, as all codes from -10 to -19 and from -100 to
  -199 hold `-1`.
* `CallsArePaced`: with a `FETCH_INTERVAL` of zero or less the loop does not
  pause.

The validator also asks less than `validateSecurityConfig`: not for
`DENIED_IPS`, the window and the block time of the limiter, the length of the
password, or the files. The configuration a boot leaves in `GlobalConfig` is
always called "production", whatever `ENVIRONMENT` says.

### Bounds, and why they are enough

* `paced_loop`: ticks of a tenth of a second, so that the jitter of a delay is a
  tick. Three calls per query and five failures, as in the code; `FailureBound`
  6 saturates the counter above the threshold, and the code only asks whether it
  is reached. The breaker rests 24 ticks instead of two minutes, which lies
  between the two intervals; `MaxDelay` 15 is reached at the first doubling.
  Intervals of 0, 2 and 3 seconds: none, one shorter and one longer than that
  rest. `Latency` 2 leaves a call of a node that is up within its deadline.
  `AddressTexts`: an address without a keyword and one with `timeout`; the
  other groups of keywords make an error retryable as well, and the theorem is
  for any.
  Nothing else is bounded.
* `scrape_round`: three queries, one of them a hash rate, one allowed failure,
  two calls per query: a round may have none, one, or too many failures, in
  every order. The real numbers are 12, 6 and 3. One answer value: the gauges
  start "unset", so an answer is told from an old one in the first round; the
  theorems hold for any set of answers.
* `fetch_loop`: two queries, a breaker that opens after two failures and rests
  one tick; rounds, outages and the clock are unbounded.
* `rate_limiter`: limit 1, window 1, block 3, cleanup 3, and a clock that stops
  at `MaxTime` = 5: a block spans several windows and a cleanup falls into it.
  Requests go on when the clock has stopped. The violation takes 6 ticks. The
  theorems have no such bounds.
* `exporter`: six environments (guarded by both lists, authentication and
  limiter; open, with a cookie; with a rule that matches nobody; with a bad
  path, port and password), requests for every endpoint from either side of the
  lists, `MaxRestarts` 2: the loop's client is made before any restart, between
  the two or after both. One connection, used again and again: a request reads
  nothing of another one but the verdict of the limiter, which is a choice here.
  The runs about requests in flight have two.
* `configuration`: 66 environments, of which each differs from a good one in a
  few variables, three of them also reached by `os.Setenv`; `MaxChanges` 2
  and `MaxMonitors` 2: a boot and a reload, or two loads, with a start and a
  stop of either monitor in between. Rules only differ in their form there, so
  one address is enough.
* `health_monitor`: two callers, two checks, one loop. `Restarted = FALSE`: the
  callers use a monitor once, as its test does, which may start it twice in a
  row and stop it twice in a row. A monitor started *again after a stop* keeps
  its closed channel: its loop ends after one round, and its next stop panics;
  that life is in `ConfigReload`.

### Fairness

Goroutines are scheduled, so their steps are weakly fair. `select` picks at
random among ready cases, so that a canceled context is not passed over for ever
in favour of a timer: strong fairness of `Stop`, `LoopReturns`, `ZmqStops` and
`LoopStops`. `sync.RWMutex` starves nobody, hence strong fairness of the steps
of `HealthMonitor`. A call of the RPC client returns when its context is done,
not before: an answer of an unhealthy node is owed to nobody. The round's
deadline is weakly fair in `ScrapeRound`, where it is what ends a round that
gets no answer; `ResilientFetcher` does without: a healthy node, or a shutdown,
is enough. Signals, requests, outages and the return of the node are never
assumed, nor that the health monitor is called. `PacedFetcher` and
`ConfigReload` state no fairness: the first bounds in ticks what liveness would
promise.

## The proofs

TLAPS proves the following for all values of the constants that satisfy the
named assumptions of the modules, which TLC evaluates on every run. Every
invariant the passing runs check is proved, and so are the refinements of
`CallGate`, `ScrapeBoard` and `MonitorBoard` and the action properties
`CallsArePaced` and `ReplacedLoopsRunOn`.

* `CircuitBreakerProofs` (`BreakerAssumption`): `TypeCorrect`; `StateInStep`
  (`StateMatchesFailures`, which is inductive together with the types);
  `BreakerImplementsGate`. The last one maps every action to its namesake of
  `CallGate`; `StateMatchesFailures` is what turns a test of the three-valued
  state into one of the failure count.
* `PacedFetcherProofs` (`PolicyAssumption`, `PaceAssumption`): every step of the
  loop is one of the breaker or leaves it alone (`LoopRunsBreaker`), so that it
  inherits the theorems of the breaker (`LoopKeepsGate`). `EveryRoundEndsInTime`
  holds because a tick needs that nothing is due and an expired context is.
  `EveryCallIsPaced` needs `RestInv`: while the loop waits, the rest so far and
  what is left on the timer add up to the gap that is due, or the rest has
  reached its bound. `EveryRetryHasCause` compares what the classifiers see of
  each error with what the error is, for any set of keywords in the address and
  in the node's words (`OnlyCausesRetried`). `RecoveryIsTimely` bounds `overdue`
  phase by phase (`RecoveryInv`), from the deadline and the rest of the breaker
  (`Limit`) and the pause with a refused round after it (`Overrun`). A round in
  progress either began before the node returned, and then its deadline bounds
  what is overdue (`StaleRound`), or is on its first call of a node that is up,
  which is answered within `Latency` (`FirstCall`): so no round fails that began
  with the node up. While the loop waits, what is overdue and what is left on
  the timer stay within the bound of a round that has just ended; and a breaker
  that is still open had its last failure no later than a deadline after the
  node returned, and refuses a round only until its own timeout has passed.
* `ScrapeRoundProofs` (`RoundAssumption`): `TypeCorrect`, `GroupCounts` and
  `ChannelOpenForSenders` from `GroupInv`. That the counter is a natural number
  is itself a consequence of what it counts, so types and counting are proved by
  one induction; the lemmas `RunningMore` and `RunningLess` say what a step of
  one goroutine does to the cardinality. `RoundLeavesNothing` and
  `EveryResultCounts` follow from `FilingInv`, which says of every query where
  its result is at any moment: in the channel, filed, or counted as a failure.
  `RoundImplementsBoard` uses it: the decision of the round is the `Publish` of
  `ScrapeBoard`, setting a gauge is a stutter, because the mapping counts the
  assignments still to be made as made. `OnlyHashRatesZeroed` bounds the finding
  of `hashrate_zeroed`: no other gauge is ever given a zero nobody answered.
* `ResilientFetcherProofs` (`LoopAssumption`): `LoopComposes` maps the loop to
  the round and to the breaker; the invariant of the breaker is proved again for
  the instance (a theorem of an instance cannot be cited), that of the round is
  cited. `OpenIsQuiet` joins them by `InStep`: the loop scrapes exactly while a
  round runs and a call of the breaker does.
* `RateLimiterProofs` (`LimiterAssumption`): `TypeCorrect`, `BlockLasts` and
  `PoliteIsServed`. Nothing in `BlockHoldsUnlessOverlapped` says why a request
  cannot overwrite a block, so it is not inductive. `BlockInv` adds the reasons:
  the time a request took is never ahead of the clock, so a cleanup cannot find
  the block too old (`NowPast`); a blocked client has an entry, so its requests
  reach the check (`BlockKept`); and nobody whose client's block is protected is
  past the check, unless a `blockClient` of that client is about to start a new
  penalty (`LateWait`, with `OneWriter`). The same invariant bounds the finding
  of `block_lost`: a request is served under a block only if the block was set
  while a request of its client was past its check (`OnlyOverlapIsServed`), and
  so never where each client holds a single connection (`BlockHoldsForSingles`);
  the run has two. `PoliteIsServed` assumes that the
  polite client sends one request at a time (`OneAtATime`): of two, neither
  would see the other's stamp. `Polite` says that its entry counts no more
  requests than it has sent since the window began, the oldest of which is among
  its last stamps (`Since`); so a client that may send with all its stamps taken
  finds its window over.
* `ExporterProofs` (`ExporterAssumption`): `LegibleRulesMeanIt` and
  `AllowListFailsClosed` about the IP rules alone; `ExporterTypeCorrect`;
  `OnlyAdmittedServed` from `GuardInv`, which carries from stage to stage what
  the request has already shown (it passed the filter, it is for the metrics, it
  is authentic); `ToldToStop`; `RestartAloneLocksOut` from `CookieInv`: a
  running bitcoind has its own cookie in the file, one that is down no newer one
  (`FileInv`), and what the loop has is no newer than the restarts before it was
  made, and the latest cookie if bitcoind was up then (`ClientInv`). It covers
  every restart: each takes bitcoind past any cookie a client can have.
* `ConfigReloadProofs` (`ReloadAssumption`): `CommonGround` and `ReadingsAgree`
  about the two readings, the second by `OneMeaning`, an equation between the
  two configurations; `LoadedProductionHardened` from `HardInv`, which ties the
  validator to the first environment it judged; `PanicNeedsRestart` and
  `HealthyIsHardened` from `MonitorInv`, which says of each monitor how often it
  was started and that the last one has the configuration in force. The history
  is what the carve-outs are about, so the invariants relate it to the code's
  own variables. Two action properties follow from it: a monitor that is not
  started twice is started and then stopped, once each, whatever is loaded
  (`OneLifeEach`), and no call changes one that is replaced, the call that
  replaces it included, so that one replaced while it ran is never stopped
  (`ReplacedForGood`).
* `HealthMonitorProofs` (`MonitorAssumption`): `MonitorTypeCorrect` and
  `NoTornReads` for any callers, from `LockInv` (whoever is past its
  announcement is the writer, and nobody reads while it works) and `CheckInv`
  (an update is torn only while its goroutine is in it). `OneLifeOneMap`,
  `ChannelClosedOnce` and `VerdictTimely` for a monitor that is not restarted,
  from `LifeInv` (one loop, one stop, and never a start beside a stop) and
  `RoundInv` (a goroutine of the loop that is done has left its outcome in the
  map). `MonitorImplementsBoard`, under the same assumption, has a lemma for the
  steps of callers, of loops and of checks; `NoTornReads` is what makes the
  mapping's board one thing, read or not, and `LifeInv` what makes a start find
  nothing in its way. All four fail for a monitor that is restarted;
  `OneLifeEach` says which monitors are not, seen from the configuration.

Only model-checked: liveness (`RoundEnds`, `RecoversAfterOutage`,
`ShutdownStops`, `FeedRecovers`, `ShutdownExits`, `MonitorEnds`), as fairness
and ENABLED are out of the prover's reach. `RecoversInTime` is the one promise
of that kind that is stated in ticks, and so could be proved.

## What is assumed

* The library of the RPC client wraps errors with the text of the transport and
  the address; a canceled context ends a call. bitcoind writes a new cookie at
  every start.
* `Recv` of the ZMQ library returns an error when its connection is lost or its
  context is canceled, and a lost connection is not made again but by another
  `Dial`.
* A polite client sends its requests one at a time, no more than the limit in
  any window.
* The API of the configuration and of the monitor is called by one goroutine in
  `ConfigReload`; `HealthMonitor` lets several call the monitor.
* The steps of the program take no time in `PacedFetcher`, and a node that is up
  answers within `Latency`, which is less than a second.

## What is not modelled

* The transaction rate of the ZMQ listener: a quotient that is set with a
  message, and so is stale between messages. `ZmqListener` has the life of its
  goroutine only.
* Header values, TLS versions and cipher suites, and the timeouts of the HTTP
  server: data handed to `net/http`.
* What the single health checks test: their outcomes are choices. The port check
  binds the metrics port itself, so that it fails beside a server that listens;
  no part of the program runs both.
* `GetLegacyConfig` and `ConvertToLegacyConfig`, which nobody calls and which
  change nothing.
* The wording of errors, warnings and logs.
* `fetcher/types.go`, the unit conversions and the registration of the gauges,
  which have no behaviour; packaging and CI.

## Plan

1. The transaction rate, as a module beside `ZmqListener`: messages, windows and
   reconnections against the number of transactions that really arrived.
2. The health monitor's life inside `ConfigReload` refined by `HealthMonitor`,
   restarts included. `OneLifeEach` is its first step, for a single start.
3. A promise of the rate limiter, as an abstract module that it implements: a
   client is blocked or counted, with the overlap as the only exception.
