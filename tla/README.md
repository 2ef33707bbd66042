# A TLA+ verification project for the SigInsight OtelCollector

This directory holds TLA+ specifications of the parts of the collector that
carry its own control logic (process life cycle and remote configuration, the
schema migrator, the processors, connector and exporters of the pipeline, and
the scraping receivers), the TLC configurations that check them, and TLAPS
proofs of the invariants that matter most.

`PROJECT.json` maps every definition that models code to the lines it models,
and lists components, runs, mutants, findings, hazards and theorems.  To check:

    tlc -workers 2 -config MCServerClient.cfg MCServerClient     # a run
    for m in *_proofs.tla; do tlapm $m; done                     # the proofs

## 1. Inventory

### The process

| Component | State | Operations | Talks to |
|---|---|---|---|
| `siginsightcol/collector.go`, the *wrapped collector* | `svc`, `mux`, `wg`, `errChan` (one place), and per run a `colErrorChannel` and two goroutines | `Run`, `Shutdown`, `Restart`, `GetState`, `reportError` | the `otelcol.Collector` it embeds; called by main, the OpAMP callback and the watcher |
| `opamp/client.go`, *baseClient* | `err` channel, `stopped`, `isReloading`, `reloadMux` | `ensureRunning` (the watcher goroutine) | reads the wrapper's state, writes to main |
| `opamp/simple_client.go` | - | `Start`, `Stop` | wrapper |
| `opamp/server_client.go`, `config_manager.go` | configuration file and its `.rollback`, `currentHash`, `initialConfigReceived`, `runningNopConfig` | `Start`, `Stop`, `onMessageFuncHandler`, `onRemoteConfigHandler`, `Apply`, `reload`, `GetEffectiveConfig` | opamp-go's receive goroutine, wrapper, the file system |
| `service/service.go`, `cmd/.../main` | - | `Start`, wait for an error or a signal, `Shutdown` | the client |

Hard here: three goroutines call the wrapper, `Restart` gives up `mux` between
its two halves, errors travel through channels of capacity one, a reload that
fails must roll back file, hash, status and collector together, and a stop may
come at any moment.  Correct means: never two collectors; `Run` does not take a
failed start for a success; what the server is told is what runs; a dead
collector ends the process; `Stop` ends.

### The schema

| Component | State | Operations | Talks to |
|---|---|---|---|
| `cmd/.../migrate` (bootstrap, sync up, sync check, async up and check, ready) | none of their own: ClickHouse holds databases, tables and `schema_migrations_v2` | the commands, each with a retry loop | the schema manager |
| `cmd/siginsightschemamigrator/schema_migrator` | the compiled-in canonical DDL and fingerprints | inspect and classify, run DDL, verify, insert markers; rendering of table operations | ClickHouse |

Hard here: replicas run the commands concurrently without a lock, every read is
a separate query, and a process can be killed, or a call fail, between any two
statements.  Correct means: a finished marker is never written for a schema
that is not the canonical one, a schema of an older release is never touched,
and `sync check` never passes on anything but a complete store.

### The data path

| Component | State | Operations |
|---|---|---|
| tail sampler (`processor/signoztailsampler`) | the trace map, per trace the batches and the decision, `deleteChan`, the batcher's pipe | `ConsumeTraces`, tick, eviction, `Shutdown` |
| sampling policies (`evaluator.go`, `internal/sampling`) | spans of the current second, a cache of matched values | `Evaluate` |
| logs exporter | per push an errgroup, `recordStream`, statements; shared: limiter, caches, `closeChan`, `wg` | `pushLogsData`, `fetchShouldSkipKeys`, `Shutdown` |
| traces exporter | per push three writers and the resources; shared: caches of keys and of resources, the keys to skip | `pushTraceDataV3`, `fetchShouldSkipKeys`, `Shutdown` |
| metrics exporter | per push a batch of four tables and their writers; shared: the cache of series | `PushMetrics`, `Shutdown` |
| meter connector and meter exporter | aggregated meters of a period | consume, tick, export, `Shutdown` |
| span metrics processor | histograms and counters per key, caches of dimensions with their evicted items, services and operations seen | `ConsumeTraces`, build, export, `Shutdown` |
| logs pipeline processor | per call a goroutine per entry; shared: the limiter, and the cache of every regex parser with its own limiter | `ProcessLogs`, route, transform, parse, `on_error`, `Shutdown` |
| resource detection processor | a provider per id, shared by its processors: snapshot, refreshing goroutine | `Start`, detect with retries, refresh, process a batch, `Shutdown` |
| usage collector | what was recorded, what was reported | record, interval reader, `Stop` |
| metering (`pkg/metering`) | none: sizes of payloads | `Size`, `Count` |
| system tables receiver | start of the next window | `run`, scrape, push |
| scrape discovery and scrape engine | providers of a generation, the pending update, target sets, pools, loops | `ApplyConfig`, publish, reload, sync, scrape, `Stop` |
| scrape loop | the cache of series of this and of the last scrape | scrape, append, report, end-of-run staleness |
| prometheus transaction | families, groups, points of one scrape | `Append`, `Commit` |
| caches and helpers, simulator, registries, generators | - | - |

Hard here: goroutines connected by bounded channels, cancellation in the middle
of a batch, several statements of which some fail, shutdown while batches are
in flight, values that are cached before they are stored, timers that race with
arrivals.  Correct means: what is acknowledged is stored, nothing is used after
it is closed, every goroutine ends, no item is lost or handled twice, no target
is scraped twice or forgotten, a series that has gone is marked and no other, and
what is billed is what is written.

The list "hazards" of `PROJECT.json` names the line at which each of these
bites and the properties that cover it.

## 2. Modules

`A <- B` reads "B extends A"; `A <: B` reads "B instantiates A".

    WrappedCollector <- BaseClient <- SimpleClient <: MCClientsLive
                                   <- ServerClient <- MCServerClient, MCClientsLive,
                                                      ServerClient_proofs
    SchemaMigrator   <- MCSchemaMigrator, SchemaMigrator_proofs
    TailSampler      <- MCTailSampler, TailSampler_proofs
    LogsExporter     <- MCLogsExporter, Exporters
    UsageCollector   <- TracesExporter, MetricsExporter <: Exporters
    Sink             <: Exporters  (the abstract specification)
    Exporters        <- MCExporters, Exporters_proofs
    ScrapeManager    <- MCScrape, ScrapeManager_proofs
    ScrapeLoop, SystemTables                       <- MCReceivers, Receivers_proofs
    Transaction                                    <: MCReceivers <- MCPipeline
    RegexCache, LogEntry <- LogsPipeline <- MCLogsPipeline <- MCPipeline
    LogsPipeline     <- LogsPipeline_proofs
    SamplingPolicies <- MCSamplingPolicies <- MCPipeline
    MeterConnector, ResourceDetection, SpanMetrics <- MCPipeline
    MeterConnector, ResourceDetection, SpanMetrics,
    SamplingPolicies                               <- Processors_proofs
    Metering (over StructuredSpan, MetricsBatch)   <: MCPipeline

`Exporters` and `MCPipeline` hold several components that do not meet: a behaviour
is one of one of them, and the variables of the others do not change.
`MCReceivers`, `MCLogsPipeline` and `MCSamplingPolicies` are the instances of single
parts of `MCPipeline`.

**WrappedCollector** is one action per step of a method between two points at
which another goroutine may come in: taking `mux`, sending on or receiving from
a channel, `wg.Wait`.  `pc[p]` is the control of a caller, `restarting[p]` tells
`Run` and `Shutdown` called by `Restart` from those called directly.  An
*instance* is an `otelcol.Collector` with the goroutines of the `Run` that made
it; the collector itself is external: it starts, refuses a configuration, dies,
or stops when asked, as the wrapper sees it.  `CollSpec` closes the module with
the most general environment: any caller calls anything at any time.

**BaseClient** adds the watcher (`ensureRunning`) and the part of main and of
`Stop` the two clients share; **SimpleClient** is the process without OpAMP,
**ServerClient** the process under OpAMP.  A configuration stands for its bytes
and `fileHash` is taken to be injective, so a hash is the configuration it was
computed of.  `os.WriteFile` truncates before it writes: when it fails, the file
may be `Torn`.  `MaxIOFaults` bounds the file operations and status reports that
fail; `faults` remembers of which kinds they were.  `ServerWaits` says whether the server sends its first message only after
`Start` has returned; the code does not enforce it (see finding 1).

**SchemaMigrator** is any number of `migrate` processes over one ClickHouse.
Every query or statement is one action.  `Databases`, `TrackingOrder` and `DDL`
are the loops' orders, as constants.  A call may fail, with its effect or without
it; a process may be killed and started again with any command.  A table is
canonical or it is not there; what an older release has left is the variable
`old`; fingerprints are abstracted to "matches".  The variable `orderly`, chosen
at the start, tells the behaviours in which none of that happens and bootstrap is
over before any sync command begins (the documented order of a deployment) from
all others; two properties are about the former.

**TailSampler** has `processTraces` of concurrent consumers (one turn of its
loop per span), the batcher's goroutine, the ticker's goroutine and `Shutdown`.
A trace object is named by the span that created it, so that a goroutine can
hold an object that has left the map.  A policy is the set of spans it matches
and its decision; what policies really compute is in **SamplingPolicies**: every
filter and sampler of `internal/sampling` as an operator on a trace, and the
memory of those that remember (the cache of values a regular expression has
matched, the spans of the current second).  The code builds the parts of every
policy anew, so each has a memory of its own and no part is in two evaluators
(`PoliciesAreWellFormed`); an evaluation changes the memories of the parts it
reaches (`UpToFirst`), all in one step.  A trace is the list of its resources and
spans in order of arrival.  Whether an expression matches a value, and the hash
of a trace id, are constants.

**Sink** is what every exporter promises to the exporter helper: a batch is
acknowledged only when its rows are stored, rows do not go away, and nothing is
written or acknowledged after the connection is closed.

**LogsExporter** has concurrent `pushLogsData` calls with producers, consumer,
closer and parallel sends, the shared limiter and caches, the fetch goroutine
and `Shutdown`.  The statements for attribute keys, resource keys and values are
one statement `keys`.  `MaxFailures` bounds failing calls and cancelled
contexts together.

**TracesExporter** has pushes with the writers of spans, exceptions and tags as
parallel processes, the write of the resources after them, both caches and their
expiry, the goroutine that fetches the keys to skip, and `Shutdown`.
**MetricsExporter** has pushes with the four writers of a batch, the cache of
series, and `Shutdown` in its own order.  **UsageCollector** is the part of both
that counts what was written: the recorded total, the interval reader that
exports it, and `Stop` with its flush.  What fails, and whether a failed insert
had its effect, is a choice, bounded by `MaxFailures`.

**MetricsBatch** (rows of every type of metric), **StructuredSpan** (the row of a
span: attributes by type, references, events, derived columns) and **Metering**
(the sizes and counts that are billed) are operators.  Metering computes the size
from the payload as `pkg/metering` does; the reference definition is the length
of the row that StructuredSpan and the logs exporter build, and the number of
sample rows of MetricsBatch.

**MeterConnector** has consumers of the three signals, the goroutine of the
ticker, export, the meter exporter behind it and both `Shutdown`s.
**SpanMetrics** has `ConsumeTraces` with every metric of
`aggregateMetricsForSpan`, the LRU caches of dimensions with the items evicted
since the last build, the limits on services and operations, the build in both
temporalities, and the export outside the lock.

**ScrapeManager** has discovery (providers of a generation, their updates, the
one-place `syncCh`), the manager's run and reloader goroutines, `ApplyConfig`,
pools with reload, sync and restart under their mutex, loops with takeover and
end, and `Shutdown` of the receiver.  **ScrapeLoop** is the inside of a loop: the
cache of series with its two generations, an append of each kind of page (good,
over the limit, unparsable, empty, duplicated, dropped) by the appenders V1 and
V2, rollback, report, commit, and the end-of-run markers.  **Transaction** is
what `Append` and `Commit` make of a page: metadata, families, groups, histogram
and summary points, native histograms, exemplars, target and scope info, and the
references that `Append` returns, without which the loop does not track a series.
Prometheus' stale NaN is the model value `Stale`; `Garbage` stands for what the
conversion of NaN to an unsigned integer gives.  **SystemTables** is the receiver
of the query log, with a clock, rows that reach the table late and calls that
fail.

**RegexCache** is the cache of a regex parser: the map, the channel of keys in the
order they were added, the limiter with its ticks, and a match as four steps
(look up, match, ask the limiter, add) between which other goroutines run.  What
Go makes of a negative float converted to an unsigned integer depends on the
platform and is the constant `KeepsBits` (TRUE on amd64).  **LogEntry** has the entries and the
operators as functions on them.  A value maps the paths of its leaves to scalars,
so nested maps are set, merged, deleted and flattened by what happens to paths;
a text is a name, and constants say what it is as JSON, time, severity or
hexadecimal.  Body fields look into a JSON body through the copy that
`ParseBodyJson` keeps in an attribute.  **LogsPipeline** composes both: calls of
`ProcessLogs`, the shared limiter, a goroutine per entry with the agenda of
operators it still has to call, conditions, `on_error`, routing, and the
conversion back to resources, scopes and records.

**ResourceDetection** has the provider that the processors of one id share:
`Start` of each with its refresh, detectors in parallel with retries and a
timeout, the merge in configured order, the step between loading the previous
snapshot and storing the new one, the ticker's goroutine with refreshes of its
own, `Shutdown`, and the batches processed meanwhile.  The order in which the
collector starts and stops processors is external.

Each module states its type invariant (`TypeOK` and the like) as documentation of
its variables.  Those of WrappedCollector, ServerClient, SchemaMigrator,
TailSampler, the three exporters, ScrapeManager, MeterConnector, ResourceDetection
and SpanMetrics are proved.

In every module a definition whose comment begins with "Mutant of" is a
deliberately wrong variant of the definition that follows it.  No specification
uses it; `PROJECT.json` ("mutants") says which property it must violate when it
takes the place of the right one, which shows that the property can fail.

## 3. Runs

| Run | Specification | Bounds | What it shows |
|---|---|---|---|
| `server_client` | `Spec` | one instance, a good and a bad remote configuration, one failing file operation or report | no overlapping collectors, no failed start taken for a success; consistency of file, hash, status and collector, and what is left of it after each kind of failure |
| `clients_live` | `MCSpec` (fair) | both clients, one instance, one remote configuration, no file errors | `Start` ends, every configuration is answered, a death is noticed, `Stop` ends or is in the one known trap |
| `server_startup_race` | `Spec`, `ServerWaits = FALSE` | as above | finding 1 |
| `tail_sampler` | `FairSpec` | two consumers, three spans of two traces, room for one, two batches in the pipe, one pending id | eviction keeps queue, map and gauge together; while there is room, one forward per span as decided and one decision per trace; every span is decided; `Shutdown` drains and ends |
| `tail_sampler_policies` | `Spec`, built from the configuration | as above | finding 2 |
| `migrator` | `FairSpec` | two processes, three databases (one without tables of its own), failing calls, kills, any order of commands | markers are true, older schemas are left alone, the gate is sound; what is complete stays complete, through failures and kills, unless a process takes its own failed statement's marker back; in order and without failures a fresh installation completes although replicas race |
| `exporters` | `ExportersSpec` | logs: two pushes, four records (one too old), one place in limiter and channel, one failure; traces: one push of two spans and an old one, two failures; metrics: two pushes that share a series, one failure | each exporter implements `Sink` through failures, retries, concurrent pushes and a `Shutdown` at any moment; usage is flushed; samples have their series |
| `logs_exporter_live` | `FairSpec` | two pushes of two records and of one (one too old), one place in limiter and channel; behaviours are followed until something fails | until something fails, pushes return, `Shutdown` ends, cached resources get into their table |
| `logs_exporter_abort` | `FairSpec` | one push, three records, one place, one failure | finding 3 |
| `scrape` | `FairSpec` | one job with three versions of its configuration (one of which no client can be built for), two targets, two calls of `ApplyConfig`, one change of the world, one restart of loops | one scraper per target, no targets of an old configuration, convergence, `Stop` ends |
| `pipeline` | `Spec` (fair) | loop: three series (one dropped by relabelling), pages of two, three scrapes, one failed commit; transaction: up to three of fourteen series of all types, in every order, two scrapes; query log: two queries, six seconds (two windows), two failed calls; span metrics: five spans, one service and one operation allowed, caches of one entry, three spans, two builds; policies: ten policies made of 28 evaluators, caches of one and of two values, three traces, three evaluations, two seconds; meters: four resources, three items, two ticks, one failed write; sizes: 517 payloads; logs: two calls, five records, thirteen operators, two places in the limiter, regex caches of two and of one; detection: two processors, both detectors, two sources of the host name, six ways system calls fail | staleness is exact, the transaction does not depend on the order, histograms add up, no event is lost or pushed twice; caches stay sound, verdicts are of the trace, meters are written once, what is billed is what is written; a log record comes out as if it had been alone, once, in its resource and scope, calls that share the limiter do not wait for each other, caches stay bounded although keys are doubled; no batch loses an attribute to a failed or overlapping refresh; every `Shutdown`, and `Start` of resource detection, returns |
| `inverted_filters` | `PolSpec` | the policies of `pipeline` | finding 4 |

Why the bounds are enough.  *Process:* at most one collector is alive at a time
(which is proved, see 4), so one instance is enough for what the clients see; a
good and a bad configuration give every sequence of success, refusal, rollback
and repetition, since messages are unbounded in number.  One file error reaches
every error path of `reload`, and the state it leaves (a torn file, an empty
hash) is followed through any number of further messages.  *Migrator:* the
commands interfere only through the store; two processes give every pair of a
stale read and a conflicting write, and the databases give the half-done state of
each loop; the theorems hold for any number of both.  *Tail sampler:* one trace
more than there is room for, with two consumers, makes consumers evict for each
other and a trace come back; the trace with two spans gives late and concurrent
arrivals.  The order of the spans is free.  *Exporters:* one place in the channel
makes every send block; a failure in each writer, alone and together with
another, reaches every way `WritersDone` can be called; two pushes that share a
resource or a series make one append what the other relies on.  *Scraping:* two
configurations after the first give a change, a removal, a return and a failing
reload, each overlapping an update of discovery; a page that loses and regains a
series, in three scrapes with a restart between them, needs each of the cache's
two generations.  *Transaction:* three series give a family made by its count, by
a bucket or by a sum, with and without the rest; two scrapes give the markers.
*Pipeline:* three spans fill a cache of one, evict from it and revive what was
evicted before and after a build.  *Logs pipeline:* goroutines meet only at the
limiter and in the caches; two at a time give every pair of a lookup and an
addition.  In the cache of two, three entries with one text and one with another
double a key and evict it; in the cache of one every addition evicts and the
limiter throttles.  Which operator does what to an entry is
sequential: the two chains put each of them before one that reads its result.
`MaxOps` bounds the operators an entry calls; no chain of the instance is longer,
and that none goes on for ever is an assumption TLC checks (`AgendasEnd`).
*Resource detection:* at most two refreshes exist at a time whatever the number
of processors, that of the current `Start` and that of the ticker; two processors
give both.

Deadlock is checked in `tail_sampler` and `migrator`, where the system goes on.
Elsewhere it may stop: a process exits (or is caught in the trap below), an
exporter or receiver is down, a push is blocked (finding 3), a bounded number of
inputs is used up.

### Fairness

Weak fairness of every goroutine's next step is what the Go scheduler gives.
Strong fairness is assumed for operations that compete with others again and
again and that the runtime serves in turn: `sync.Mutex` (a waiter that has waited
for a millisecond gets it, hence `WrapperStep`, `ReloadStep`), the waiters of a
channel (a queue: `Spawn`, `ProducerStep`), and a `select` that is ready on
one case again and again (its choice is random: `FetcherEnds`, `SendDone`, and
`LoopEnds` and `GiveUp` of resource detection).  The latter also has a timeout
that expires.  `NoCallIsStuck` of the logs pipeline needs no fairness: it is an
invariant, and the steps of an entry are finite in number.
Nothing is assumed of the environment: batches, messages, signals, shutdowns and
deaths may or may not come.  In the live runs ClickHouse answers every call.

### Findings

1. `server_startup_race`: `Start` starts the OpAMP client before it reloads the
   nop configuration.  A remote configuration that comes in between is applied,
   acknowledged, and then overwritten.
2. `tail_sampler_policies`: `newTracesProcessor` copies the configured policies
   into a slice of length zero, so no policy is ever evaluated.  The other run
   of the tail sampler puts the policies into the struct, as the tests do.
3. `logs_exporter_abort`: a producer that sends on the full `recordStream` does
   not look at `groupCtx`; when the consumer has ended with an error it blocks
   for ever, with the push and its slot of the limiter.
4. `inverted_filters`: the evaluator that combines the filters of a policy looks
   for the verdicts `Sampled` and `NotSampled` only, while an inverted filter answers
   `InvertSampled` or `InvertNotSampled`.  A policy whose only filter is inverted never
   applies, and an inverted filter that does not hold does not keep a policy with
   `and` from applying (`config.go:85-88` and `evaluator.go:118-120` say otherwise).

More limits of the code show in how properties are stated.

* `StartAndStopEnd` of the clients names the trap (`CaughtInRestart`): when the
  `Shutdown` of `Stop` falls between the two halves of a `Restart`, `svc` is nil
  and it sends on `errChan`, which the stopped collector has already filled;
  `Stop` receives only afterwards.
* `DeathNoticedWhenQuiet` is about quiet times because `isReloading` hides a
  death from the watcher.  The other direction is not claimed: the watcher reads
  the state and `isReloading` one after the other, and can end a process whose
  collector has just been rolled back and runs.
* `RunsWhatWasConfirmed` claims that the confirmed configuration runs only while no
  rollback (and no hash or report) has failed.  When the start of a new
  configuration fails for a passing reason and the rollback of the file fails as
  well, the second `Restart` starts the configuration that was refused.  It runs while
  the server was told FAILED, and `currentHash` still names the one before: when the
  server sends that one again it is taken for unchanged and confirmed.
  (`docs/architecture-overview.md:145` describes the rollback as always bringing
  the old configuration back.)
* `VerdictsAreSound` leaves policies with inverted filters out (finding 4), and holds
  a composite to what its parts are allowed together.  The field `maxTotalSPS` calls
  itself the "maximum total spans per second that must be sampled"
  (`composite.go:37`), but each part's own count is compared with it
  (`composite.go:119`): with a total of 3 and two parts, six spans of a second pass in
  the instance.  Only tests make a composite: no configuration leads to one.
* `ForwardedAsDecided` and `EverySpanIsDecided` are claimed while there is room
  for every trace.  A trace that is evicted and comes back before its first id is
  due is decided twice, and its spans may be forwarded twice, since a decision
  copies the batches and does not remove them.
* `ImplementsSink` does not count a logs batch that ClickHouse refuses with code 252
  as acknowledged: it is dropped, though `pushLogsData` returns nil.  And it is
  about the rows a batch is made of.  Rows that a cache guards are not part of it: resources (logs, traces), keys and series are put
  into the cache before they are sent (for traces `writer.go:560`), so after a
  failed send a retry skips them and an acknowledged span or record may lack its
  resource until the entry expires.  `CachedResourceIsStored` and
  `StoredSampleHasSeries` are claimed while no call fails.
* `StopEnds` of the scrape manager does not say that nothing is scraped any more:
  `Stop` goes over the pools it finds, while a reload that has begun before may
  still be starting and waiting for loops of a pool, which go on for a while
  (`manager.go:318` says it blocks until all have exited).
* `BucketsAddUp` excludes a classic histogram of which a bucket alone has gone:
  its marker, a NaN, is converted to an unsigned number although the point is not
  stale (`metricfamily.go:147` describes the hazard for stale points only).
* `BilledIsWritten` excludes a map attribute with a NaN inside, for which the
  meter counts all numbers of the span as 0; a histogram without buckets is
  counted one sample short.  It excludes resources whose service name is empty or
  no string: the meter takes the length of its JSON
  (`traces.go:74`), which is 2 for an empty text, and counts 17 bytes with the key,
  while the exporter leaves the field out (`omitempty`, `schema-signoz.go:180`).  The meter leaves workspace attributes out of records,
  the logs exporter only out of resources.

* `CacheIsBounded` says nothing of the order of evictions.  `cache.go:38` promises
  that "new items will evict the oldest item using a FIFO style queue"; but a text is
  looked up and added in separate steps, two goroutines can leave its key in the
  channel twice, and the second copy evicts the item when it has just come back.
* Nor does anything say that throttling ends.  `cache.go:165` says "During every
  interval period, reduce the counter by 10%"; what is added at line 176 is the
  complement of a negative float converted to an unsigned integer.  On amd64 that
  takes off nothing for limits of 5 to 14 and adds for larger ones, so that a
  throttled cache takes no more items.
* `OutputIsTheInput` compares with the entry alone, not with what the fields name:
  `ParseBodyJson` keeps the parsed body in an attribute (`body_field.go:70`), which
  stays when an operator replaces the body, so later body fields are read from the
  old one.  It also has every record come out: `on_error: drop` keeps an entry from
  the operator's outputs (`transformer.go:123`), while `ProcessLogs` converts all
  entries it started with (`processor.go:128`).  And it has no record without a
  body: `normalize` asks for the kind of the type of a nil message
  (`normalize/transformer.go:82`), which panics.

### Other observations

Behaviour met while modelling, which the modules have and no document contradicts.

* Span metrics: the processor writes into resource attributes although it
  declares that it does not mutate data; a service name that looks like a number
  is taken for a time bucket in cumulative mode; the overflow limit also applies
  to known services, and not to the database and external-call metrics; delta data
  are gone when the next consumer fails, and `Shutdown` exports nothing.
* Policies: latency takes a timestamp of 0 for unset; the numeric filter reads 0
  from an attribute that is not an integer.
* Transaction: exemplars are lost when external labels are configured, a
  histogram without `_count` is dropped, the markers of a histogram with custom
  buckets are sent as an exponential histogram.
* Logs: a batch ClickHouse rejects with code 252 (too many partitions in a block) is dropped and
  acknowledged.

## 4. Proofs

Each module is proved from the named assumption of the modules it extends and
nothing else; TLC evaluates these on every run that extends them.  Three theorems
have a hypothesis, which is part of their statement and is explained where it is
used.

**ServerClient_proofs.**  First the wrapper, for any callers, instances and
configurations and any use of it.  The inductive invariant is `CollInv`: the
types, `MuxHolder` (the mutex is held by exactly the caller that waits inside
`Run` or `Shutdown`) and `WaitersHaveSvc` (what such a caller waits for concerns
the current `svc`).  `NoOrphanCollector` is not inductive alone: that the
goroutine of an instance belongs to `svc` when `Run` replaces it follows from
`Shutdown` having waited for `wg` under the mutex.  `RunNilMeansStarted` needs in
addition `NilMeansLoaded`: a nil on `colErrorChannel` was put there by a poller
that had seen the instance running.

Then the process under OpAMP.  The lemma `ProcessUsesTheWrapper` says that it uses
the wrapper as `CollSpec` allows.  That is how the module is written, and is proved
only to carry the wrapper's theorems over: `ProcessHasOneCollector` and
`ProcessSeesTrueResults` follow from it.  It needs `ServerInv`: the types, the wrapper's own invariant, and
`RollbackSaved` (from the backup on, `reload` has a copy to roll back to).
`AppliedIsInFile` follows the file through `reload` (`AppliedInv`: from its write
on, the file has the configuration of the message until `reload` rolls it back,
and nobody else writes, which is `ControlInv`).  `ConfigsAgree` also relates file
and hash to what the collector has loaded, which changes in other steps and in
another goroutine.  `StartInv`, `ReloadInv` and `AnswerInv` say, for each point of
`Start`, `reload` and the handlers, whether the file is the one that was
acknowledged last; `LoadedInv` that a collector has loaded the file, except
between a write and the `Restart` that follows it (`Settled`).  Both theorems have
the hypothesis `ServerWaits`; without it they are false (finding 1).

**SchemaMigrator_proofs** (any number of processes, any databases and DDL, with
failing calls and kills, in any order).  The inductive invariant `Inv` has the
types, `UnexpectedIsTracked` and `OnlyCanonical` about the store, the two
properties of the store `MarkersAreTrue`, `NeverAdopts`, and for each process
`Local(p)`: what it has counted, inspected, installed and passed so far is still
true.  That is the heart of the argument, because other processes change the
store between any two of its steps.  It is proved once, for all steps:
`StoreGrows` says how any step may change the store (canonical tables appear and
never go, markers change only with a reason), and `StoreJustified` that whoever
writes a marker has verified what it says; `Local` of the others follows from
these two, `Local` of the process that moves from its own step.
`FinishedMeansVerified`, `OldSchemaIsNeverAdopted` and `GateIsAlwaysSound` are
consequences.  `CompletenessIsStable`: nothing but the failed marker of a statement
that failed takes back a finished one, whoever fails or is killed; and in orderly
behaviours `OrderInv` shows that nobody gets to write it: every process past the creation of the databases finds all of them
there (`OnTime`), and a statement on a database that is there does not fail.

**Exporters_proofs**.  *Logs* (any batches, records, concurrency and failures).  A push
returns nil long after its records were given away: to producers, to
`recordStream`, to the statement, to ClickHouse.  `PushInv` follows them: until
something aborts the push no record is lost between these places
(`NothingIsLost`); each place is empty when the next stage begins (`LoopIsOver`,
`ProducersAreDone`, `ConsumerIsOver`, `AllAppended`); a push that was aborted
does not get to its `Send` calls, because `group.Wait` returns the error or the
context is done (`AbortHasACause`).  `DownIsQuiet` is what `Shutdown` has waited
for.  `LogsExporterIsASink` follows step by step.

*Traces and metrics* (any pushes, finite sets of rows, series and failures).  `TInv` of the
traces exporter relates what the writers of a push have done to its control
(`TPushInv`), says what `Shutdown` has waited for (`TShutdownInv`), and that the
reader is stopped when no push can record usage any more, so that its last
reading is the last value (`TUsageInv`).  `MInv` of the metrics exporter has
`MSeriesInv`: a series in the cache is stored or is in the batch of a push under
way (`Underway`), as long as no call has failed; this is what lets another push
leave it out of its own batch.  `ExportersAreSinks`, `UsageOfAllPushes` and
`SeriesAreStored` put the three exporters together.

**TailSampler_proofs** (any consumers, spans, traces, policies and sizes of the
queues).  `EvictionQueueIsTheMap` speaks of moments at which no consumer is at
work.  A consumer changes the map, the queue and the gauge in separate steps, so
the inductive `QueueInv` accounts for each trace exactly: it is in `deleteChan`, or
with a consumer that is making room for it, or with one that drops it.
`ForwardedAsDecided` is claimed while there is room for every trace; under that
condition `RoomInv` has `TokenInv` (an id is in the batcher and the batches under
evaluation at most once), `MapInv` (no trace has left the map, so an object that a
goroutine holds is the one on the map), `UndecidedInv` (an id that waits for its
tick is of a trace without a decision) and `ForwardInv` (a span a consumer handles
is neither kept nor forwarded yet, and what was forwarded is of a sampled trace).
`ObjectInv` holds without the condition.

**ScrapeManager_proofs** (any jobs, targets, versions and configurations, any
number of changes).  `EngineInv` has `OpsInv` (who holds which pool's mutex and
what a sync may assume), `PoolsInv` (of the pools of a job only the one the
manager knows is alive, although Sync goroutines may still start loops in one
that `ApplyConfig` has stopped: there no loop gets beyond its first select) and
`LoopsInv` (a target has one loop that was not told to stop, and while one that
was told is there the other waits for it).  `OneScraperPerTarget` follows.
`DiscoveryIsCurrent` follows what a provider of the current generation offers
(`ProvidersInv`) through `syncCh`, `Run`, the reloader and the Sync goroutines
(`UnderwayInv`).

**Receivers_proofs**.  The query log receiver, for any queries, times and number
of failing calls: `EveryEventOnce` needs that the window to be read lies in the
past by the delay (`WindowIsOver`), that rows reach the table within the flush
interval (`RowsInTime`, of ClickHouse), and hence that the rows that were read
are the events of the window (`RowsAreTheWindow`); `PushedSoFar` counts.  The
hypothesis `Delayed` says that the configured delay covers the flush interval:
`config.go:12` asks for it in a comment; `Validate` only refuses a delay of 0.
The scrape loop, for any series, bodies, limits and slack of the cache:
`AppendEntries` goes over a body entry by entry, and `SamplesAreTracked`, that
every series whose sample is taken is tracked for staleness, is proved by
induction over the entries; `GenerationsSwap` says what the end of a body makes
of the two generations; `EndingKnows` that a loop waiting to write its
end-of-run markers knows of every sample that came since.
From `ScrapeLoopAssumption`: relabelling drops series of the target.

**LogsPipeline_proofs** (any operators, batches, number of goroutines and sizes of
caches).  `CachesInv` has the shape of the caches and `CacheIsBounded`: the
channel of keys can hold a key twice, but never more keys than the size, so that
`add` never blocks on it.  `PipeInv` has `CallsInv` (places of the limiter that
are taken are those of goroutines that will give them back; hence
`NoCallIsStuck`), `WorkersInv` (a goroutine per entry, started once, ended when
the call returns), `JobsInv` (a goroutine between a match and its addition is
still at the operator and the text it matched) and `MatchesAreCached`
(what a cache holds is what the expression captures).  `EntriesDoNotMeet`: each
step of an entry is the step it would make alone.  `OutputIsAlwaysTheInput` goes
on from there.  `Trail` is the sequence of states of an entry that is alone;
`TrailInv` says that a goroutine's entry is on the trail of what the call gave it,
and `ReturnedAlone` that it has come to the end of it when the call returns.  What
converts the entries back is the other half: `ConvertRegroups`, by induction over
the entries, shows that each is placed once, under its own resource and scope, in
the order of the batch (`Regrouped`; `PlaceInRegroups` is one entry's share).  It needs
`AgendasEnd`: an entry alone calls at most `MaxOps` operators, since the operators
of a pipeline form no cycle.

**Processors_proofs**.  The meter connector (any consumers, items, ticks and failed
exports): `MeterInvariant` is a balance.  What was consumed of an item is, at any
moment, in the meters, in the hands of an export of the ticker or of `Shutdown`, in
the table, or lost with an export that failed, and in one of them only.
`MeteredOnce` reads it when no export is under way.  Resource detection (any
detectors, processors and system calls that fail): `EveryBatchIsComplete` needs
that a snapshot once complete is not replaced by a worse one.
`DetectionInvariant` says so of every refresh in flight: a merge without failures
is complete (`MergedIsComplete`); one with a failure is stored only where there is
nothing to keep; and what a refresh has loaded before it stores is complete once a
`Start` has succeeded.  Hence the order in which overlapping refreshes store does
not matter.  The span metrics processor (any
spans, limits, cache sizes, temporality): `CachesAreSound` needs that between two
builds a histogram's key is in the cache or among the items evicted since the
last build.  `SpanMetricsInvariant` also accounts for names: those in stored
dimensions are tracked, or one is *owed* by the span at hand, which is named before
it is tracked.  The proof showed that this is not only a matter of order: the
operation of the span that crosses the limit on services is named under the
overflow service before it is tracked there, so the overflow service can have one
operation more than another one (`NamesAreBounded` says so).

The policies of the tail sampler (any policies, sub-policies, traces, expressions
and caches): `PoliciesInvariant` says that what a cache holds is what matching
would say (`MatcherIsTrue`), and that a sampler has counted, for the present
second, at least what it let pass.  From the first, a search that goes over a trace
and its cache item by item finds what is there (`SearchIsTrue`, by induction over
the items), so every leaf says what its configuration says of the set of spans
(`LeafSays`), a policy applies whatever the order of its filters (`FiltersApply`),
and of the sub-policies that apply one of the least priority decides
(`PolicyDecides`).  From the second, what a composite lets pass is within the sum of
what its parts are allowed, each the least of its own share and the total
(`TotalGrows`).  `PoliciesDecideByTheTrace` combines them.
From `SamplingPoliciesAssumption`: filters are string or numeric, sub-policies have
no sub-policies, a cache has room for one value, and times are not negative.

Induction over data is out of the prover's reach in general: theorems with an
operator as parameter cannot be instantiated.  Where these theorems need it, for
the entries of a scraped body and of a batch of logs or the items of a trace, the induction is done on the set of numbers
for which the claim fails: it has a least element (`LeastNumber`), which is neither
the first nor the successor of another (`UpTo`).  That the recursive functions
exist is shown the same way.

**Only model-checked**: `OrderIndependent`, `BucketsAddUp` and `GonePointsAreMarked`
of the transaction and `BilledIsWritten`: what these say is in the values that
chains of sequential operators compute over nested data.  `RunsWhatWasConfirmed` of
the process under OpAMP, which needs a history of failures and is not proved yet.
Liveness and the properties under fairness stay with TLC: the
prover has neither fairness nor ENABLED.

## 5. Not modelled

`PROJECT.json` lists every component with its status.  Inside modelled parts the
following is left out: TLS, headers and agent description of the OpAMP client,
the text of the nop configuration, rendering of DDL and the computation of
fingerprints, post-baseline migrations (the registries are empty in this commit,
so `async up`, `async check` and `ready` only wait and report), the row layout of
the logs exporter beyond its size, the values of histograms and exemplars of the
span metrics, HTTP, relabelling and the parsing of exposition formats in the
scrape engine, start-time adjustment of the receiver, in the logs pipeline the
operators it takes from contrib (grok, csv and others), lists, and nested maps that
two values share, and logging and internal metrics everywhere.

Not modelled at all: the collector simulator (a test harness), static registries,
feature gates and generators of test data.  The text of regular expressions, grok
patterns and time formats stays out for good.

## 6. Plan

1. *Theorems.*  `BucketsAddUp` for any page.
2. *Post-baseline migrations* with a non-empty registry as a constant (two replicas
   that pass the same check; a sync migration before a lower async one).

Slow or similar questions share a run: one safety run per group of components,
one for liveness where it needs smaller bounds.
