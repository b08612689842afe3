--------------------------- MODULE MetricPipeline ---------------------------
(***************************************************************************)
(* From instruments to exported metrics (opentelemetry-sdk/src/metrics/    *)
(* pipeline.rs): views turn an instrument into streams, each stream has    *)
(* one aggregator in its meter's cache and in the pipeline, and produce    *)
(* writes what the aggregators hold into a ResourceMetrics that the reader *)
(* keeps from one collection to the next.  Locks and threads are those of  *)
(* PeriodicReader; here an operation is one step.                          *)
(*                                                                         *)
(* A name has several spellings, alike but for the case of their letters;  *)
(* spelling 0 is the lower case.  A stream's description, unit, filter and *)
(* limit are left out.  A view gives one answer to every instrument that   *)
(* it matches; one with several answers is a row of such views.            *)
(*                                                                         *)
(* A definition marked as a slip is not part of the model: it is a wrong   *)
(* form of the definition after it, which the properties must reject.      *)
(***************************************************************************)
EXTENDS Integers, Sequences, SequencesExt, FiniteSets

CONSTANTS
    Scopes, BaseNames, Spellings,   \* instrumentation scopes and names
    NoName,                         \* the name of a view that gives none
    InstrumentKinds,                \* the kinds looked at
    ViewAggregations,               \* the aggregations a view may ask for
    Selections,                     \* the sets of instruments a view may match
    MaxViews, MaxInstruments, MaxCollections

Name == BaseNames \X Spellings
Unnamed == <<NoName, 0>>
Instrument == [scope : Scopes, name : Name, kind : InstrumentKinds]
(* A view is a closure that picks instruments and says what becomes of them. *)
View == [matches : Selections, name : {Unnamed} \cup Name, aggregation : ViewAggregations]

ASSUME PipelineAssumption ==
    /\ Spellings \subseteq Nat /\ 0 \in Spellings
    /\ {MaxViews, MaxInstruments, MaxCollections} \subseteq Nat
    /\ Selections \subseteq SUBSET Instrument

VARIABLES
    views,         \* Pipeline::views
    cache,         \* Inserter::aggregators of every meter: aggregation by identity
    aggregations,  \* PipelineInner::aggregations: the scopes in iteration order
    created,       \* history: instruments with the aggregators they measure on
    metrics,       \* ResourceMetrics::scope_metrics
    collections,   \* collections so far
    reporting      \* history: the aggregators with data at the latest collection

pipelineState == <<views, cache, aggregations, created, metrics, collections, reporting>>

DefaultAggregation(kind) ==
    CASE kind \in {"Gauge", "ObservableGauge"} -> "LastValue"
      [] kind = "Histogram" -> "ExplicitBucketHistogram"
      [] OTHER -> "Sum"

Compatible(kind, aggregation) ==
    \/ aggregation \in {"Drop", "ExplicitBucketHistogram", "Base2ExponentialHistogram"}
    \/ aggregation = "LastValue" /\ kind \in {"Gauge", "ObservableGauge"}
    \/ aggregation = "Sum" /\ kind \notin {"Gauge", "ObservableGauge"}

(* Slip: names are compared letter by letter. *)
AsSpelt(name) == name
Normalized(name) == <<name[1], 0>>

(* What an instrument is called in a view's stream, and the identity under *)
(* which the stream's aggregator is cached.                                *)
StreamName(view, instrument) == IF view.name = Unnamed THEN instrument.name ELSE view.name
StreamId(instrument, name) == <<instrument.scope, Normalized(name), instrument.kind>>

-----------------------------------------------------------------------------
(* Inserter::instrument.  A resolution is what the loop over the views      *)
(* carries: the cache, the aggregators added to the pipeline, the measures, *)
(* the identities seen, whether a view matched and whether one failed.      *)

(* cached_aggregator: an incompatible stream is an error and is not cached; *)
(* the absence of an aggregator is cached like one.                         *)
CachedAggregator(r, instrument, name, asked) ==
    LET kind == instrument.kind
        aggregation == IF asked = "Default" THEN DefaultAggregation(kind) ELSE asked
        id == StreamId(instrument, name)
        known == id \in DOMAIN r.cache
        result == IF known THEN r.cache[id] ELSE aggregation
    IN IF ~Compatible(kind, aggregation) THEN [r EXCEPT !.failed = TRUE]
       ELSE [r EXCEPT
               !.cache = [i \in DOMAIN @ \cup {id} |-> IF i = id THEN result ELSE @[i]],
               !.added = IF known \/ result = "Drop" THEN @
                         ELSE Append(@, [id |-> id, name |-> name, type |-> result]),
               !.measures = IF result = "Drop" THEN @ ELSE Append(@, id),
               !.seen = IF result = "Drop" THEN @ ELSE @ \cup {name}]

ApplyView(r, instrument, view) ==
    LET name == StreamName(view, instrument)
    IN IF instrument \notin view.matches THEN r
       ELSE IF name \in r.seen THEN [r EXCEPT !.matched = TRUE]
       ELSE CachedAggregator([r EXCEPT !.matched = TRUE], instrument, name, view.aggregation)

(* Some view settled the matter: it gave a measure, or all of them dropped. *)
Settled(r) == r.matched /\ (~r.failed \/ r.measures # <<>>)

Resolve(instrument) ==
    LET start == [cache |-> cache, added |-> <<>>, measures |-> <<>>, seen |-> {},
                  matched |-> FALSE, failed |-> FALSE]
        viewed == FoldLeft(LAMBDA r, view : ApplyView(r, instrument, view), start, views)
    IN IF Settled(viewed) THEN viewed
       ELSE CachedAggregator(viewed, instrument, instrument.name, "Default")

(* add_sync: a new scope may put the map's iteration in any order. *)
AddAggregators(scope, added) ==
    IF added = <<>> THEN UNCHANGED aggregations
    ELSE LET old == {i \in DOMAIN aggregations : aggregations[i].scope = scope}
         IN IF old # {}
            THEN aggregations' = [i \in DOMAIN aggregations |->
                     IF i \in old
                     THEN [aggregations[i] EXCEPT !.instruments = @ \o added]
                     ELSE aggregations[i]]
            ELSE aggregations' \in SetToSeqs(ToSet(aggregations)
                                              \cup {[scope |-> scope, instruments |-> added]})

CreateInstrument(instrument) ==
    /\ Len(created) < MaxInstruments
    /\ LET r == Resolve(instrument)
       IN /\ cache' = r.cache
          /\ AddAggregators(instrument.scope, r.added)
          /\ created' = Append(created, [instrument |-> instrument, measures |-> r.measures])
    /\ UNCHANGED <<views, metrics, collections, reporting>>

-----------------------------------------------------------------------------
(* Pipeline::produce.  `full` holds the aggregators with something to       *)
(* report; the points of this collection are its number.                    *)

Points(type, cycle) == [type |-> type, points |-> cycle]

(* One instrument: its aggregate overwrites the metric at j, when that has  *)
(* its type, and else brings data of its own.                               *)
WriteMetric(acc, instrument, full) ==
    LET j == acc.j + 1
        reused == j <= Len(acc.metrics)
        fresh == [name |-> instrument.name, data |-> Points(instrument.type, collections + 1)]
    IN IF instrument.id \in full
       THEN [j |-> j, metrics |-> IF reused THEN [acc.metrics EXCEPT ![j] = fresh]
                                  ELSE Append(acc.metrics, fresh)]
       ELSE IF reused /\ acc.metrics[j].data.type = instrument.type
       THEN [acc EXCEPT !.metrics[j].data = Points(instrument.type, 0)]
       ELSE acc

(* Slip: metrics of an earlier collection stay behind the new ones. *)
KeepAll(acc) == acc.metrics
Truncate(acc) == SubSeq(acc.metrics, 1, acc.j)

WriteScope(acc, entry, full) ==
    LET i == acc.i + 1
        old == IF i <= Len(acc.scopes) THEN acc.scopes[i] ELSE [scope |-> "", metrics |-> <<>>]
        written == Truncate(FoldLeft(LAMBDA a, instrument : WriteMetric(a, instrument, full),
                                     [j |-> 0, metrics |-> old.metrics], entry.instruments))
        new == [scope |-> IF written = <<>> THEN old.scope ELSE entry.scope, metrics |-> written]
    IN [i |-> IF written = <<>> THEN acc.i ELSE i,
        scopes |-> IF i <= Len(acc.scopes) THEN [acc.scopes EXCEPT ![i] = new]
                   ELSE Append(acc.scopes, new)]

Aggregators == UNION {ToSet(entry.instruments) : entry \in ToSet(aggregations)}

Produce(full) ==
    /\ collections < MaxCollections
    /\ collections' = collections + 1 /\ reporting' = full
    /\ LET written == FoldLeft(LAMBDA acc, entry : WriteScope(acc, entry, full),
                               [i |-> 0, scopes |-> metrics], aggregations)
       IN metrics' = SubSeq(written.scopes, 1, written.i)
    /\ UNCHANGED <<views, cache, aggregations, created>>

PipelineInit ==
    /\ views \in BoundedSeq(View, MaxViews)
    /\ cache = [i \in {} |-> ""] /\ aggregations = <<>> /\ created = <<>>
    /\ metrics = <<>> /\ collections = 0 /\ reporting = {}

PipelineNext ==
    \/ \E instrument \in Instrument : CreateInstrument(instrument)
    \/ \E full \in SUBSET {a.id : a \in Aggregators} : Produce(full)

PipelineSpec == PipelineInit /\ [][PipelineNext]_pipelineState

-----------------------------------------------------------------------------
(* An instrument's matching views, and the identities of its streams.       *)
ViewsOf(instrument) == {v \in ToSet(views) : instrument \in v.matches}
StreamsOf(instrument) ==
    {StreamId(instrument, name) :
        name \in {StreamName(v, instrument) : v \in ViewsOf(instrument)} \cup {instrument.name}}
(* The identities that a view dropped for one of some instruments. *)
DroppedFor(instruments) ==
    UNION {{StreamId(i, StreamName(v, i)) : v \in {w \in ViewsOf(i) : w.aggregation = "Drop"}} :
              i \in instruments}
Instruments == {c.instrument : c \in ToSet(created)}

(* What an instrument measures on is collected: each aggregator handed out  *)
(* is in the pipeline once, under a name that is unique in its scope up to  *)
(* the case of letters, and nothing is collected that nobody measures on.   *)
(* An instrument that measures on nothing has a stream that some view       *)
(* dropped, for it or for an instrument with a stream of the same name.     *)
StreamsCollected ==
    LET added == FlattenSeq([i \in DOMAIN aggregations |-> aggregations[i].instruments])
        identity(a) == <<a.id[1], a.name[1], a.id[3]>>
    IN /\ \A a, b \in DOMAIN added : identity(added[a]) = identity(added[b]) => a = b
       /\ {a.id : a \in ToSet(added)} = UNION {ToSet(c.measures) : c \in ToSet(created)}
       /\ \A c \in ToSet(created) :
             c.measures = <<>> => StreamsOf(c.instrument) \cap DroppedFor(Instruments) # {}

(* "The name customization is meaningless for a dropped instrument": an     *)
(* instrument that measures on nothing was matched by a view that drops it. *)
DroppedByItsView ==
    \A c \in ToSet(created) :
        c.measures = <<>> => \E v \in ViewsOf(c.instrument) : v.aggregation = "Drop"

(* "The cache will return the same Aggregator instance. Use stream ids to   *)
(* de duplicate.": a measurement reaches an aggregator once.                *)
MeasuredOnce == \A c \in ToSet(created) : IsInjective(c.measures)

(* Whatever the kept ResourceMetrics held, a collection leaves in it what   *)
(* one into an empty ResourceMetrics would: the metrics of this collection, *)
(* by scope and in order, under their names, and no empty scope.            *)
Afresh(full, cycle) ==
    LET filled(a) == IF a.id \in full
                     THEN <<[name |-> a.name, data |-> Points(a.type, cycle)]>> ELSE <<>>
        written(entry) == FlattenSeq([j \in DOMAIN entry.instruments |->
                                         filled(entry.instruments[j])])
        busy(entry) == IF written(entry) = <<>> THEN <<>>
                       ELSE <<[scope |-> entry.scope, metrics |-> written(entry)]>>
    IN FlattenSeq([i \in DOMAIN aggregations |-> busy(aggregations[i])])
CollectedAfresh ==
    [][collections' # collections => metrics' = Afresh(reporting', collections')]_pipelineState
=============================================================================
