# Models of opentelemetry-rust

TLA+ models of the concurrent and stateful core of the OpenTelemetry Rust API and SDK, their TLC
configurations, and proofs checked by TLAPS. The sources are under `src/`; every definition that
stands for code names its lines in `PROJECT.json` (`map`).

Contents: 1 the system, 2 the modules and the plan, 3 how models and code correspond, 4 the runs,
5 bounds, 6 fairness, 7 proofs, 8 what is only model-checked, 9 what is left out, 10 commands.

## 1. The system

Telemetry flows from the API crate (`opentelemetry`) through the SDK (`opentelemetry-sdk`) to
exporters. Traces and logs go through processors, metrics through aggregates that a reader
collects.

| Component | State | Operations | Works with | What is hard | What makes it correct |
|---|---|---|---|---|---|
| Context stack (`opentelemetry/src/context.rs`) | per thread: current context, stack with holes, guard positions | attach, guard drop in any order, `current()`, futures that attach per poll | spans and values it keeps alive, their destructors | out-of-order drops, the position limit, destructors inside a `RefCell` borrow | the newest attached context is current; positions stay valid; nothing is kept past its guard |
| BatchSpanProcessor, BatchLogProcessor (`trace/span_processor.rs`, `logs/batch_log_processor.rs`) | span channel, control channel of 64, counter, flag, dropped count, worker thread with batch and timer | `on_end`/`emit`, `force_flush`, `shutdown`, `set_resource`, the worker loop | provider above, exporter below | threads between two atomic operations, full channels, late replies, the end of the worker | nothing lost or doubled before shutdown, a flush exports what came before it, shutdown drains and stops |
| Metric storage (`metrics/internal/mod.rs`, `sum.rs`, `last_value.rs`) | map of trackers under a `RwLock`, count, a tracker and flag for no attributes | `measure`, `collect_and_reset`, `collect_readonly` | instruments on any thread, the collecting reader | insertion races, collection between an update and its flag, the cardinality limit | every measurement counted once, one tracker per set, the limit respected |
| Observable counters (`precomputed_sum.rs`) | the above plus the values reported last | observe, collect delta or cumulative | callbacks of the user | keys in another order, overflow | a delta is the difference to the last report |
| Histograms (`histogram.rs`, `exponential_histogram.rs`) | bucket counts, scale, offsets | record, downscale, collect | the metric storage | boundaries, downscaling, overflow of offsets | every value in the one right bucket, counts kept by a downscale |
| Pipeline, MeterProvider, Meter | registered callbacks and instruments, cached aggregates, shutdown flag | create instrument, produce, flush, shutdown | readers, callbacks | callbacks under the pipeline's mutex, instruments made while collecting | one aggregate per stream, no instrument lost, no deadlock |
| PeriodicReader (thread), ManualReader | message channel, timer, shutdown flag | collect and export, flush, shutdown | pipeline, exporter | a flush without deadline, shutdown timeouts, late messages | every flush answered, a last collection at shutdown |
| Async-runtime processors and reader | message stream, batch, export tasks in flight | the same operations over futures | runtime | concurrent exports, order of replies | an answer stands for what came before it, every call returns |
| TracerProvider, Tracer, Span; LoggerProvider, Logger | shutdown flag, processors, span data | start, end, flush, shutdown, drop of the last clone | processors | span end against shutdown | one shutdown, nothing that begins after it is exported |
| Simple processors | exporter under a mutex, shutdown flag | export on the caller's thread, shutdown | exporter | re-entry, shutdown against export | nothing that begins after the shutdown is exported |
| Samplers, Jaeger remote sampler | bucket balance and time, strategy | sample, refill, update | remote endpoint | truncated times, clock changes | the rate is respected and no request starves |
| OTLP exporter and retry | attempts, delay, client | send, classify, back off | collector | throttling, exhausted attempts | bounded attempts, only retryable errors retried |
| Propagators, Baggage, Resource | strings and maps, a length counter | inject, extract, merge | carriers | limits on members and length | limits respected |
| Prometheus, stdout, Zipkin exporters, appenders, proto, semantic conventions | little or none | conversion and output | | | |

Interactions. A provider owns its processors and readers and hands them the resource while it is
built. A span that ends calls every processor on the thread that ended it. The batching
processors only exchange messages with their worker, which owns the exporter. A reader asks its
pipeline to produce: the pipeline runs the callbacks, then every aggregate's collect, under one
mutex. A context keeps spans alive, and dropping the last one ends the span, which enters the
processors again.

## 2. Modules and plan

| Module | What it models |
|---|---|
| `TelemetryBuffer` | abstract: a first-in first-out buffer exported in bounded batches |
| `BatchProcessor` | the span processor with its thread; implements `TelemetryBuffer` |
| `BatchLogProcessor` | the log processor over the same actions, with the joins of its stress test |
| `AsyncBatchProcessor` | the batch processors of spans and of logs on an async runtime |
| `TracerProvider` | provider, tracers, spans, parent-based sampling, simple span processors |
| `LoggerProvider` | provider, loggers, simple and concurrent log processors, exporters that log |
| `PeriodicReader` | meter provider with a periodic reader: instruments, recording, flush, shutdown, drop, the timer |
| `MetricPipeline` | views to streams, the aggregator cache, collection into a `ResourceMetrics` that is kept |
| `ValueMap` | the metric storage under sums and gauges, delta and cumulative |
| `PrecomputedSum` | observable counters over `ValueMap` |
| `ExponentialHistogram` | one data point: buckets, change of scale |
| `ContextStack` | current context, attach, guards dropped in any order |
| `Baggage` | insertion and removal under the two limits |
| `OtlpExport` | an export over HTTP or gRPC with retries, against a collector and a shutdown |
| `BatchProcessorProofs` | theorems about both batch processors with their thread |
| `AsyncBatchProcessorProofs`, `PeriodicReaderProofs` | theorems about the module each is named after |
| `ValueMapProofs` | theorems about the metric storage and observable counters |
| `ProviderProofs` | theorems about `TracerProvider` and `LoggerProvider` |
| `ComponentProofs` | theorems about `ContextStack`, `OtlpExport`, `Baggage`, `MetricPipeline`, `ExponentialHistogram` |
| `DataLemmas`, `FoldLaws` | laws of sets, sequences, sums and folds that the proofs cite |
| `MCBatchProcessor`, `MCBatchLogProcessor`, `MCContextStack` | symmetry sets for TLC |
| `MCMetricPipeline` | the sets of instruments that a view may select, for TLC |
| `MCMetricStorage` | counters and observable counters over one storage, as one instance |
| `MCBackground` | the batch processor and the periodic reader, which share no state; `focus` chooses one |
| `MCComponents` | seven parts that share no state; `focus` chooses the one a behaviour is about |

Composition: `BatchLogProcessor` extends `BatchProcessor`, which instantiates `TelemetryBuffer`
with a refinement mapping; `PrecomputedSum` extends `ValueMap`, `MCMetricStorage` extends both.
`TracerProvider` and `LoggerProvider` contain their simple processors; `PeriodicReader` contains
provider, pipeline and reader, with storage and views left to `ValueMap` and `MetricPipeline`.
`MCBackground` and `MCComponents` put parts that share no state into one instance each.

What is left of the plan, in order: the periodic reader on an async runtime; two readers on one
provider; registration of callbacks while a collection runs; the manual reader; histograms with
explicit boundaries and the attribute filter of views; the leaky bucket of the Jaeger remote
sampler.

## 3. Models and code

History variables are marked as such where they are declared: they record what properties speak
of, and no guard reads them. A definition marked "slip" is not part of a model either. It is a
wrong form of the definition after it, of the kind a change to the code could introduce; the
properties are tried against it.

**Batch processor.** `spanQueue` and `messages` are the two `sync_channel`s, `connected` says that
the worker still holds their receivers. `currentBatchSize`, `exportSpanMessageSent` and
`droppedSpansCount` are the atomics of the same names. `ePc` is where an emitter stands in
`on_end`: after `try_send` it counts, may load the flag, swap it, send `ExportSpan` and reset the
flag if that failed, one step each. `cPc` follows `force_flush` and `shutdown_with_timeout`:
`try_send`, `recv_timeout` (which may time out at any moment while there is no reply), `join`.
`wPc` follows the worker: `recv_timeout` on the control channel, the match arm, and
`get_spans_and_export` with its own load of `target`, one `try_recv` per step, the export and the
`fetch_sub`. `ThreadExits` drops both receivers; in the code they are dropped one after the other
and nothing between the two is visible to other threads except the error they get from
`try_send`. A span is the pair of its thread and its number. The log processor is the same code
with other names (`emit`, `ExportLog`, `get_logs_and_export`), so `BatchLogProcessor` reuses the
actions and adds only a mark on calls made after the emitting threads were joined.

**Async batch processors.** Spans and control messages share one bounded channel. `step` is where
the task awaits: in `select!`, for the exporter's write lock, for its own export, for room among
the exports in flight, or for all of them. Exports in flight are futures that nobody but the task
polls, so they begin (`unpolled` to `tasks`) and complete only in steps where the task waits for
them. The reply to a flush is one more future behind them. The log processor is the one without
exports in flight; it answers a shutdown after its exporter was shut down, the span processor
before.

**Tracer provider.** An `Arc` is modelled by who holds one: `hasHandle`, `tracer` and
`holdsProvider` are the handles, tracers and spans; dropping the last of them shuts the processors
down unless `shutdown` was called. The load of `is_shutdown` and each processor's call after it
are separate steps. A simple processor exports under its exporter's mutex, so one `on_end` or one
`shutdown` of one processor is a step. Samplers decide once, at the start of a span.

**Logger provider.** `emit` does not ask the provider whether it was shut down, every processor
answers for itself. A simple processor loads its flag and then locks its exporter: two steps, with
the export and whatever the exporter logs between lock and unlock. Such a record comes back
through an appender on the same thread as `event_enabled`, which takes the same mutex unless the
scope is suppressed (`suppressed`). A concurrent processor has neither flag nor mutex: it exports
after its shutdown too (section 4, observed).

**Periodic reader.** `cacheOwner` and `pipelineOwner` are the mutexes of the instrument cache and
of the pipeline; the first is held while the second is awaited. `queue` is the channel of
messages, `reply` a caller's response channel, which may also close. `rPc` follows the reader's
thread: `recv_timeout` (`RecvMessage`, `RecvTimeout`), callbacks and collection under the
pipeline's mutex, the export, the reply (`Respond`) and the next deadline (`NextInterval`,
`NextMessage`). `rMessage` is what it works on, a caller's (`ReaderMessage`) or the timer's own
(`TimerMessage`), `rBatch` what it collected. `remaining` and `elapsed` are its `remaining_interval` and the time since
`interval_start`, in ticks. Measurements are members of sets, `pending`, `rBatch`, `arrived` and
`unexported`: their sums are `ValueMap`'s concern. An instrument also keeps the pipeline alive,
and a meter obtained before a shutdown goes on creating live instruments; no property depends on
either, and `PipelineAlive` and `GetInstrument` leave them out.
The reader's `producer` mutex is contended by nobody once there are users, and is left out.

**Metric pipeline.** An operation is one step: its locks are `PeriodicReader`'s. `Inserter` turns
an instrument into streams with the views that match, looks each stream up under its normalised
name and measures on the aggregators found. Which instruments a view matches is decided for each
instrument: a view has the set of those it selects (`matches`), any of `Selections`. A view that
drops leaves its answer in the cache under the stream's identity, where streams of other
instruments find it. `produce` overwrites the scopes and metrics of the
`ResourceMetrics` which the reader keeps from one collection to the next. A name is a base and a
spelling: spellings differ in the case of letters only.

**Metric storage.** Each section under the `RwLock` is a step; atomic operations outside of it are
steps of their own. In `collect_readonly` the read lock is held over the iteration, so each
tracker is visited in its own step while other readers update it, and writers wait.
`collect_and_reset` swaps the map in one step and then visits what it took. A key is a set with
the order its attributes came in, 0 being the sorted one; a tracker is named by the key that
created it. Left out: duplicate keys in one set (they only give another order of the set without
them), a user's own attribute set that equals the overflow set, poisoned locks, timestamps,
exemplars, and a view's attribute filter.

**Observable counters.** A collection runs the callbacks and the drain under the pipeline's mutex
on one thread, so it is one step after the observations. The drain of a `HashMap` meets the keys
of a tracker in any order, a nondeterministic choice. A callback observes each set at most once in
a cycle and never less than before.

**Exponential histogram.** A value is its sign and its bin at the largest scale; at a lower scale
the bin is that index shifted right, which is what `get_bin` computes up to rounding. Resizing,
`downscale` in place and `scale_change` are translated with their offsets. Sum, minimum and
maximum are left out. `scale_change` takes the distance of two bins
in an `i32`, and two values of `f64` can be further apart than that at the largest scale: `TooFar`,
with `ExpoIntLimit` for 2^31. A build with overflow checks then panics there; in one without, the
distance wraps to a negative one, nothing is rescaled and `ExpoBuckets::record` panics for the
capacity it asks for. Either way the value is counted and in no bucket (`RecordTooFar`), and the
poisoned mutex of the tracker refuses every later measurement until a delta collection replaces
the tracker; the one without attributes is never replaced.

**Context stack.** `currentCx`, `stack` and `guardPos` are `current_cx`, `stack` and `cx_pos`; a
`Hole` is the `None` an out-of-order drop leaves. A context refers to at most one span and one
value by `Arc`; a value is dropped with its last reference, and `droppedInPush` and
`droppedInPop` record which ones are dropped while the thread's `RefCell` is mutably borrowed.
Contexts are built as `with_value` and `with_span` do, sharing or replacing parts of the current
one. A polled `WithContext` future attaches a saved clone and drops the guard.

**Baggage.** A pair is its length; `kvContentLen` is the counter beside the map. Building one from
an iterator, or clearing it, is a sequence of insertions into an empty one.

**OTLP export.** `retry_with_backoff` with its attempts and delays, the two error classifiers, the
delays a server asks for, and `shutdown`, which takes the client away. The collector is external:
it stores a batch or refuses it, and its answer may be lost after it stored the batch. One status
or code stands for each class of error.

## 4. Runs

Passing runs:

- `batch_two_emitters` (`MCBatchLogProcessor`): two threads emit two records each against the
  worker and one flush or shutdown. The counter lags behind by the uncounted records and may have
  wrapped once (`CounterLag`); the flag is a token (`ExportToken`); a full batch does not wait for
  the timer (`FullBatchTriggersExport`); an answered flush has exported as many as were ended
  before it (`FlushCount`); a shutdown after the last record loses nothing
  (`QuietShutdownComplete`); once the emitting threads have been joined and the processor is shut
  down, exported and dropped records are all that were emitted (`AllLogsAccountedFor`, the stress
  test over all interleavings); the processor implements `TelemetryBuffer` (`ImplementsBuffer`).
- `batch_one_emitter`: with one emitter and two callers, failing exports and checked arithmetic, an
  answered flush has exported exactly the spans ended before it (`FlushComplete`). A successful
  shutdown leaves no thread behind (`ShutdownOkMeansStopped`). The exporter has its resource
  before a requested export and gets nothing after its shutdown (`ResourceBeforeRequestedExport`,
  `NoExportAfterShutdown`).
- `background` (`MCBackground`): a behaviour is about one of two parts.
  *Batch processor*: with a batch size of one the export loop always ends, a queued shutdown stops
  the worker (`ShutdownStopsWorker`) and buffered spans leave (`BufferedSpansLeave`).
  *Periodic reader*: two threads create an instrument, record, flush, shut down or drop the provider
  against the reader's thread. What an answered call stands for has been exported
  (`AnsweredMeansExported`), an instrument is registered once and each measurement is in one place
  (`CollectedOnce`). However flushes and slow exports move the timer, a collection starts within an
  interval of the start of the one before it, or at once after one that took longer
  (`CollectionsInTime`); this is about collections of either origin: a flush does put the next
  export of the timer off (see "observed" below). Every call returns and the thread ends with the
  provider (`CallsReturn`).
- `async_processors`: spans end and two threads flush or shut down while the task exports alone,
  with two exports in flight or with no limit to them, or is the log processor's. A span is in exactly one place and an
  answer stands for what came before it (`SpansHandedOver`); the task never awaits an exporter
  that its own unpolled exports hold (`ExporterNeverStuck`); every call returns
  (`AsyncCallsReturn`).
- `metric_storage`: two threads measure two sets, in two orders and without attributes, against a
  limit of one, while a third collects with either temporality. Every measurement is returned
  once, in the point of its set or the overflow point (`Accounted`), a set has one tracker
  (`OneTrackerPerSet`), the limit is kept (`CardinalityCapped`), a collection covers what was
  measured before it (`CollectionComplete`), cumulative points neither go down nor disappear
  (`CumulativeMonotone`). Or an observable counter whose callback gives sorted attributes: a delta
  is what was observed less what the previous point stood for (`DeltaSinceLastExport`).
- `components`: seven parts that share no state, one of them in each behaviour.
  *Traces*: two threads start, end and drop spans, shut down and drop handles; every sampled span
  that ended before the shutdown is exported once by every processor, and after it only one whose
  end had begun before (`SpansExported`); exporters are shut down once (`ShutDownOnce`); under a
  parent-based sampler a trace is sampled as a whole (`TraceSampledAsAWhole`).
  *Logs*: no exporter gets a record twice, a simple processor's none whose emit began after its
  flag was set, and a record that is missing when all is quiet is missing because somebody called
  shutdown (`LogsDelivered`; whether a concurrent processor exports what is emitted after its
  shutdown is left open there, it does); exporters are shut down once (`LogExportersStopOnce`); no
  thread waits for a mutex it holds (`NoWaitForOwnMutex`).
  *Context*: guards dropped in every order; a position is valid as long as its guard lives
  (`GuardsValid`), nothing outlives its guard (`NothingRetained`), the current context is the
  newest one attached (`CurrentIsNewest`).
  *Pipeline*: an aggregator that an instrument measures on is in the pipeline once, under a name
  that the instrument or one of its views gave, and no other is; an instrument that measures on
  none was dropped by a view of its own, or took an identity that a view had dropped for another
  instrument (`StreamsCollected`); a collection leaves in the kept `ResourceMetrics` what it would
  leave in an empty one (`CollectedAfresh`).
  *Histogram*: the counts are those of the values sorted at the present scale, also after a
  downscale, and no larger scale would do; a measurement panics only where its bin and a kept one
  are further apart than an `i32` can say, and is the last before a reset (`BucketsExact`).
  *Baggage*: both limits hold (`BaggageWithinLimits`). *OTLP*: Ok means stored; a
  batch is stored twice only where an answer was lost; attempts and delays follow the policy and
  the server (`ExportOutcome`).

Violations, each a disagreement between a statement in the repository and the code (quoted in
`PROJECT.json`, `findings`):

- `batch_spin`: the worker can drain a span before `on_end` has counted it; its `fetch_sub` takes
  the counter below zero, and if it is loaded as `target` in that moment the export loop runs on an
  empty channel until the counter's wrapped value is reached, in effect for ever.
- `context_drops`: what a popped or refused context held besides its span is dropped inside the
  mutable borrow of the thread's state, and so is the span of a refused one.
- `observable_unsorted`: the last report is looked up by an order of the attributes that varies.
- `views_by_case`: two views that rename an instrument to names differing in case only are two
  streams for the de-duplication and one for the cache: each measurement counts twice.
- `drop_by_name`: what a view drops is remembered by the identity of its stream alone. A view that
  renames an instrument and drops it also silences the instrument that has that name by itself; and
  when this one came first, the dropped instrument measures on its aggregator.
- `export_interval`: after an export the timer waits for the interval less the time the export
  took, so that the time is included in the interval, which the documentation of the reader says
  it is not.

`background` states liveness for batches of one span, and that bound is what makes it hold: every
turn of the loop then drains at most one span, so a call drains no more than `target`, the counter
cannot go below zero, and a counted span is in the channel whenever the loop asks for one. With
two spans to a batch a turn may drain more than was counted, which is `batch_spin`.

Observed in the code and stated by no run. The models contain these behaviours unless said
otherwise.

- Disagreements with what the repository says of the program:
  a concurrent log processor goes on exporting after its shutdown, because it has no flag and the
  provider's is not asked by `emit` (`concurrent_log_processor.rs:29-38`), while
  `log_processor.rs:57` and `logger_provider.rs:37-38` say that processors stop then;
  `Baggage::remove` leaves the length counter as it was, so that later insertions are refused below
  the limit (`baggage.rs:211`, against the field's comment at 69).
- A flush that follows a slow export of the timer puts the timer off: after an export that took
  `b` the thread waits for the interval less `b`, and a flush sets this to the interval less the
  time since that export's end (`periodic_reader.rs:215-217`). The flush itself collects, which is
  why `CollectionsInTime` holds.
- The `i32` overflow in `scale_change` (`exponential_histogram.rs:158`) ends in a panic on the thread
  that records, with the tracker's mutex poisoned. The tracker without attributes is never
  replaced, so that its later measurements are lost for good. A panic on the path that inserts a
  new set happens under the map's write lock and poisons that too, which is not modelled.
- `max_concurrent_exports = 0`, which builder and environment accept (`span_processor.rs:874`,
  921-926), is no limit at all rather than none allowed: a full batch is exported whatever is in
  flight.
- An OTLP answer with `partial_success` counts as success, whatever number of items it says were
  rejected (`tonic/trace.rs:124-135`, `http/trace.rs:70-77`); `OtlpExport` counts
  either as stored. Only a lost connection and `unavailable` hide that a batch was stored.
- An uncounted span ahead in the channel takes an ended one's place in the last drain, and the ended
  one is lost though shutdown answers Ok (the root cause is that of `batch_spin`; it is why
  `FlushComplete` holds for one emitter only).
- The dropped count is read for the log before the worker has answered; a flush of several batches
  answers with the result of the last.
- Holes in the context stack use up positions, so that attach may be refused with one context
  attached.
- A collection between an update without attributes and the store of its flag makes the next
  collection report an empty point (zero for a gauge); sets of an observable counter that overflow
  share one tracker, which keeps the value observed last and not their total.
- An async flush with concurrent exports may be handed to the exporter before full batches that were
  pushed earlier.

## 5. Bounds

- Batch processor: two emitters with two spans are enough for a span of one thread to stand,
  uncounted, ahead of one of another, and a queue of two fills up; one emitter has three spans and
  two callers. The control channel has 2 places instead of 64, so that it fills within the bound on
  calls; nothing in the code depends on 64 beyond full and not full, and the proofs hold for any
  capacity. The counter wraps at 16 instead of 2^64: `CounterAssumption` states what is needed,
  that the modulus exceeds what can be pending at once.
- Async processors: six spans through a channel of three with batches of two let three batches be
  at three stages; two callers with one call each put a flush behind a shutdown; one at a time,
  two at a time and no limit (0) are the three forms the code distinguishes.
- Traces and logs: two threads, two spans or two records each, two span processors, three log
  processors with a concurrent one between two simple ones. Samplers are one that records without
  sampling and the parent-based one.
- Periodic reader: two users with one call each, one measurement, an interval of two ticks and
  exports that take up to three, so that an export may take no time, part of the interval, all of
  it or longer; `export_interval` needs one user without calls and an interval of two; more measurements would
  only be in more of the same places.
- Pipeline: two scopes, one name in two spellings, two kinds of instruments, up to two views that
  select by one or both spellings and keep, drop or sum, two instruments, two collections: a
  collection overwrites one that held more, less, or another type. `drop_by_name` has two names
  instead, one view and one collection.
- Metric storage: two sets against a limit of one force overflow; three measurements of each of two
  threads and two collections put a measurement before, into and after a collection. A measurement
  has the value 1: a sum then tells how many it counted. `Assign`, the aggregator of gauges, is
  exercised through observable counters, whose three cycles let a set overflow, return and be
  absent in between.
- Histogram: four values in bins -5..3 with 1 to 3 buckets and three scales downscale by one and by
  two steps, across zero, and underflow. The bins are up to 8 apart and the first distance too far is
  7 instead of 2^31, so that it is met at the largest scale and nowhere else, as in the code; the
  proof is for any limit.
- Context: three guards give every order of nested drops; `MaxPos` is 5 instead of 65 535, so that
  holes reach the limit; `context_drops` needs two guards only. The proofs hold for any of both.
- Baggage: two pairs and a total of five, with lengths 1 to 3 and three valid names: either limit
  is met first. OTLP: three retries with delays 1, 2 and 3 reach the cap of the policy, server
  delays 2 and 9 are below and above the cap of what a server may ask for.

Atomics are sequentially consistent in the models. The code uses `Relaxed` for the batch
processor's counter and flag; per location the order is the same, across locations real
executions may show more. What the runs report as violated happens already under sequential
consistency.

`CHECK_DEADLOCK FALSE` is set where a system may really stop: everything dropped and bounded inputs
used up in `components`, `background`, `async_processors`, `export_interval`, `views_by_case` and
`drop_by_name`.

## 6. Fairness

- `FairSpec` of `BatchProcessor`: weak fairness of the worker (a thread that the scheduler runs;
  `recv_timeout` returns at its deadline), of `FinishSpan` for each emitter and of `FinishCall` for
  each controller (a call that has begun goes on; none of its steps blocks for ever, `recv_timeout`
  having a deadline and `join` ending with the worker). Nothing obliges a thread to end a span or
  to call `force_flush` or `shutdown`. An export is assumed to return.
- `ReaderFairness`: weak fairness of the reader's thread and of a user's thread inside a call.
  Nobody has to make a call or to run out of patience, so `CallsReturn` does not rest on the five
  seconds of `shutdown`.
- `AsyncFairness`: weak fairness of the task (the runtime polls it, exports end or time out) and of
  a caller whose answer is there; strong fairness of `ReceiveAsync`, because the messages and the
  ticks are merged by `stream::select`, which takes turns: the ticker cannot starve the channel.

All other runs check safety only.

## 7. Proofs

A theorem holds for every value of the constants under the assumptions named here; TLC evaluates
them in the runs. Each proof module states one inductive invariant, shows that `Init` implies it
and that each action preserves each of its parts, and derives the theorems.

**`BatchProcessorProofs`**, under `ConfigAssumption`, `CounterAssumption` and
`MaxExportBatchSize > 0`. First invariant, `IndInv`: `TypeOK`, `Conservation`, `CounterLag` and
`ExportToken` with three helpers: `BatchShape`, how long the batch and its count can be in each
phase of the worker; `WorkerPhase`, that the exporter is shut down and the channels closed only on
the way to the thread's end, in this order; `Fresh`, that accepted spans have numbers their emitter
has used. `Conservation` (nothing lost, doubled or overtaken while the worker lives) needs that
only the drain takes from the channel; `CounterLag` needs that the emitters between `try_send` and
`fetch_add` are the only ones not counted, and a bound on the pending spans against
`CounterModulus`, so that one wrap is the most there can be; `ExportToken` needs that the flag's
holders exclude one another. It gives `TypeCorrect`, `NothingLost`, `CounterFollowsSpans`,
`OneExportRequest`, `ShutdownIsLast` and `Refinement`: an accepted span is an `Offer`, an export of
a non-empty batch an `Export`, the exit of the thread a `Close`, everything else a stutter.

Second invariant, `CallInv`: `IndInv` with `Calls` (a request names its call, so a late reply
reaches nobody), `Stopping` (the exporter is shut down before the answer, and the handle is taken
only from a thread that has ended), `ResourceFirst` (`SetResource` was queued before anything
else), `Coverage` (the spans of a call were counted when it began, so the target loaded for it
reaches them), `ExportedFirst` (what is exported is a prefix of what was accepted) and `Trigger`
(while a full batch is counted, an export has been asked for or the current target covers it). It
gives `FlushCovers`, `QuietShutdownExportsAll`, `FullBatchIsExported`, `ShutdownJoins` and
`ResourceComesFirst`. `MaxExportBatchSize = 0`, which the environment can set, is left out: the
code's batch then has no limit, and `BatchFull` is never true.

Third, `Beginning`, for `FlushExportsTheSpans`: with one emitter the spans a call waits for are a
prefix of what was accepted, so that as many spans as there were are those very spans. The
hypothesis that there is one emitter is needed: with two, `FlushComplete` is false (section 4).
`Accounting`, for `EveryLogIsAccountedFor`: while the channel is open, accepted and dropped logs
and those on their way to being counted as dropped add up to all that were begun; a call made
after the join waits for all that was accepted. `LogProcessorBatches` says that every behaviour of
the log processor is one of `Spec`, so that the theorems above hold of it.

**`AsyncBatchProcessorProofs`**, under `AsyncAssumption`, which admits any limit of concurrent
exports and none (0): `ExporterIsFree`. Besides `TypeOK`, the
invariant says that nothing is buffered or exported when the task finds the resource
(`ResourceFirst`), that no export is left when it turns to the exporter and how many there may be
elsewhere (`InTime`), and that a caller of the log processor waits for the answer to exactly one
request (`Owed`). `SpansReachTheExporter` has an invariant of its own, `SpansInv`: what was handed
over, the unpolled exports, the batch and the channel, laid end to end, hold every span once
(`Placed`); what was handed over is completed or in one of the exports begun (`Exported`); a request
stands behind the spans its caller waits for, wherever it is (`Promised`).

**`ProviderProofs`**. Under `TracerAssumption`: `SpansDelivered`, `ProcessorsStopOnce`,
`TracesAreWhole`. `SpanStructure` says that a call has its span for itself and which phase the span
is in at each step; `SpanStopping`, that at most one thread walks the processors to shut them down,
and which of them it has reached; `SpanDelivery`, which processors an ending span has reached;
`Traces`, that spans of one trace share a sampling decision. Under `LoggerAssumption`:
`MutexNeverReentered`, `ExportersStopOnce`, `RecordsDelivered`, along the same lines, with the owner
of each mutex in `LogStructure`; `RecordsDelivered` promises of a simple processor that nothing
emitted after its flag reaches the exporter, and of a concurrent one that only what was emitted
after its exporter's shutdown may be missing.

**`PeriodicReaderProofs`**, under `ReaderAssumption`: `AnswersHold`, `CollectedInTime`,
`EachCollectedOnce`. `Instruments`: the cache's mutex is held from the miss to the registration.
`Measurements`: the four places are disjoint. `Clock`: `elapsed` and `remaining` add up against the
time of the last collection in each phase of the thread, with the time a slow export took. `Owed`: each waiting caller has one
message or one answer. `Answers`: what was recorded before the call has left the storage by the
time its message is answered.

**`ValueMapProofs`**, under `ValueMapAssumption`: `TypeCorrect`, `SetsHaveOneTracker`,
`NothingLost`, `LimitHolds`, `CollectionsAreComplete`, `PointsOnlyGrow`. `Structure` ties trackers
to keys and to what a collection has taken; `CapInv` counts the sets with a tracker of their own;
`Bounded`: no more was returned than measured; `DeltaCovered` and `CumulativeCovered`: what was due
when a collection began is returned, still to be visited, or under way with a measurement whose
flag is not stored. `DeltaIsExact` is about observable counters whose callbacks give their
attributes in sorted order (`ObservedOrders \subseteq {0}`; without it the property is false, run
`observable_unsorted`): between collections a tracker holds what was observed last (`HoldsObserved`)
and the value reported for a set is what its point stood for (`ReportedOwn`).

**`ComponentProofs`** has the components of `MCComponents` that keep no processor.
*Context*, under `ContextAssumption`: `TypeCorrect`, `PositionsValid`, `NothingKept`,
`NewestIsCurrent`. `OrderIsPosition` says that of two live guards the one attached earlier has the
smaller position, which is why the top of the stack is the newest attached context.
*OTLP*, under `RetryAssumption`: `OutcomeIsTrue`. Per export: an answer comes at its end
(`Answered`), an error only from the last attempt allowed or one that may not be retried
(`LastAttempt`), an attempt stores the batch at most once (`StoresFollowAttempts`), the delays are
bounded by the policy and by what the server set (`DelaysBounded`).
*Baggage*, under `BaggageAssumption`: `BaggageStaysWithinLimits`. The counter may stand above what
the pairs take, after a removal, never below (`BaggageInv`).
*Pipeline*, under `PipelineAssumption`: `InstrumentsAreCollected` from `StreamsInv`, that the
aggregators in the pipeline, those in the cache and those that instruments measure on are the
same, and that an empty cache entry stands for a view that drops its identity. Views select any
sets of instruments. A creation goes through the views one by one: `Resolving` says what holds after each of
them. `CollectionIsAfresh` follows `produce` through its two loops: the scopes, and in each scope
the metrics, written so far are those that a collection into an empty `ResourceMetrics` would have
written, whatever the rest of the kept one still holds.
*Histogram*, under `ExpoAssumption`: `HistogramIsExact`. `MergedUpTo` follows the loop of
`downscale`, which writes into the counts it reads: the groups up to the place reached have the
sums of their bins and the counts beyond it are untouched, because a group's place never runs
ahead of the bins read. `DownscaleSorts` and `CountInSorts` say that `downscale` and `record` keep
the counts sorted into bins (`Sorted`), `ScaleChangeIs` that `scale_change` shifts as far as it
must and no further, though it looks at one end of the buckets and the new bin only. `HistogramInv`
adds that the scale is the largest at which both signs fit, and the count of the measurements. It
covers the panic, for any `ExpoIntLimit`: at most one measurement since the last reset, whose bin
is that far from a kept one.

**`DataLemmas`, `FoldLaws`.** The induction theorems of the library take an operator as a
parameter, which the provers do not instantiate. These modules do without them: an induction is
over the set of the numbers for which the claim holds, whose complement has no least element
(`SetInduction`, from the library's `WFMin`), and a recursive definition is shown to have a value
by building the function argument by argument. `DataLemmas` has what follows for flattened
sequences, prefixes, sums over finite sets, integer division and sequences that enumerate a set;
powers of two are unfolded in the same way (`PowerOf2Step`). `FoldLaws` has the
operator of a fold as its CONSTANT; a proof instantiates it with a named operator of the model and
then goes from one prefix to the next (`FoldRuns`).

`TypeOK` and `Conservation` of the batch processor and `TypeOK` of the storage and of the context
stack are invariants of the proofs and of no run.

## 8. Only model-checked

All liveness (`ShutdownStopsWorker`, `BufferedSpansLeave`, `CallsReturn`, `AsyncCallsReturn`):
fairness and ENABLED are out of the prover's scope. Every safety property of a passing run is
stated by a theorem.

## 9. Not modelled

See the components of `PROJECT.json` for each part and its reason. Most of the repository's lines
are of four kinds that have no behaviour to model here: generated code and constants (protocol
buffers, semantic conventions), unit tests inside the source files, conversion and formatting
(exporters to Prometheus, Zipkin and stdout, text formats of propagators, appenders), and
transport (HTTP and gRPC clients, TLS, compression, configuration from the environment). Ratio
sampling is arithmetic on a trace id; explicit histograms are a binary search and an addition under
a mutex that `ValueMap` already models. The plan in section 2 lists what is worth adding.

Within the modelled parts: validation of names and units, several readers on one provider,
callbacks registered while a collection runs, telemetry suppression outside of the logger
provider, internal logging elsewhere, and builders and environment variables other than the cap of
the batch size by the queue size.

Three hazards have no property. An exporter under the simple span processor's mutex that ends a
sampled span of its own provider, a callback that calls `force_flush`, and a callback that creates
an instrument wait for themselves. Nothing in the code prevents this, and a model in which
exporters and callbacks do none of it could only repeat that assumption.

## 10. Commands

In this directory: `tlc -config BatchTwoEmitters.cfg MCBatchLogProcessor` and likewise for each run
of `PROJECT.json`; `tlapm BatchProcessorProofs.tla` and likewise for each `*Proofs` module,
`DataLemmas` and `FoldLaws`. The largest run takes about three minutes, the longest proof
(`ComponentProofs`) ten.
