--------------------------- MODULE TracerProvider ---------------------------
(***************************************************************************)
(* Tracer provider, tracers, spans, samplers and simple span processors    *)
(* (opentelemetry-sdk/src/trace/provider.rs, tracer.rs, span.rs,           *)
(* sampler.rs and SimpleSpanProcessor in span_processor.rs).               *)
(*                                                                         *)
(* A provider is an Arc: every handle, every tracer and every span keeps   *)
(* it alive, and whoever drops the last of them shuts the processors down  *)
(* unless shutdown was called.  The load of is_shutdown and the calls of   *)
(* the processors that follow it are steps of their own.  A simple         *)
(* processor exports under its exporter's mutex, so one on_end, or one     *)
(* shutdown, of one processor is one step.                                 *)
(*                                                                         *)
(* A definition marked as a slip is not part of the model: it is a wrong   *)
(* form of the definition after it, which the properties must reject.      *)
(***************************************************************************)
EXTENDS Integers, Sequences, FiniteSets, Functions

CONSTANTS
    TraceThreads,    \* application threads
    TraceSpans,      \* bound: the spans that may be started
    NumProcessors,   \* simple processors of the provider, called in order
    TraceSamplers,   \* the samplers the provider may have been built with
    NoParent,        \* no active span in the parent context
    RemoteSampled,   \* parent received from another process, sampled
    RemoteUnsampled  \* and one that is not

ASSUME TracerAssumption ==
    /\ NumProcessors \in Nat
    /\ TraceSamplers \subseteq {"AlwaysOn", "AlwaysOff", "RecordOnly", "ParentBased"}
    /\ TraceThreads # {}
    /\ {NoParent, RemoteSampled, RemoteUnsampled, "invalid", "handle", "tracer"} \cap TraceSpans = {}
    /\ RemoteSampled # RemoteUnsampled /\ NoParent \notin {RemoteSampled, RemoteUnsampled}
    /\ "invalid" \notin {RemoteSampled, RemoteUnsampled}

VARIABLES
    sampler,         \* config.sampler, fixed when the provider is built
    isShutdown,      \* AtomicBool of the provider
    hasHandle,       \* thread -> it holds a clone of the provider
    tracer,          \* thread -> "none", "live", or "noop" (of the no-op provider)
    tPc,             \* thread -> step of its call
    tSpan,           \* thread -> the span its call is about
    tNext,           \* thread -> next processor to call
    tDropping,       \* thread -> its end of a span is the span's Drop
    phase,           \* span -> "none", "starting", "recording", "passive", "ended", "gone"
    trace,           \* span -> its trace id: the root's name, or "invalid"
    sampled,         \* span -> sampled flag of its context
    holdsProvider,   \* spans whose tracer is of this provider
    startSeen,       \* processor -> spans its on_start was given
    handed,          \* processor -> spans given to the exporter, in order
    exporterDown,    \* processor -> how often its exporter was shut down
    lateEnds,        \* history: spans whose end began after is_shutdown was set
    passedEnds,      \* history: sampled spans whose end found the provider running
    explicit         \* history: shutdown was called

providerVars == <<sampler, isShutdown, hasHandle, tracer>>
threadVars == <<tPc, tSpan, tNext, tDropping>>
spanVars == <<phase, trace, sampled, holdsProvider>>
processorVars == <<startSeen, handed, exporterDown>>
traceHistory == <<lateEnds, passedEnds, explicit>>
traceVars == <<providerVars, threadVars, spanVars, processorVars, traceHistory>>

Processors == 1..NumProcessors

TraceInit ==
    /\ sampler \in TraceSamplers /\ isShutdown = FALSE
    /\ hasHandle = [t \in TraceThreads |-> TRUE]
    /\ tracer = [t \in TraceThreads |-> "none"]
    /\ tPc = [t \in TraceThreads |-> "idle"]
    /\ tSpan = [t \in TraceThreads |-> NoParent]
    /\ tNext = [t \in TraceThreads |-> 1]
    /\ tDropping = [t \in TraceThreads |-> FALSE]
    /\ phase = [s \in TraceSpans |-> "none"]
    /\ trace = [s \in TraceSpans |-> "invalid"]
    /\ sampled = [s \in TraceSpans |-> FALSE]
    /\ holdsProvider = {}
    /\ startSeen = [p \in Processors |-> {}]
    /\ handed = [p \in Processors |-> <<>>]
    /\ exporterDown = [p \in Processors |-> 0]
    /\ lateEnds = {} /\ passedEnds = {} /\ explicit = FALSE

-----------------------------------------------------------------------------
(* References to the provider *)

(* Slip: spans do not count. *)
ReferencesWithoutSpans(t, dropped) ==
    \/ \E u \in TraceThreads :
          hasHandle[u] /\ ~(u = t /\ dropped = "handle")
    \/ \E u \in TraceThreads :
          tracer[u] = "live" /\ ~(u = t /\ dropped = "tracer")
(* What else keeps the provider's Arc alive. *)
ReferencesWithout(t, dropped) ==
    \/ \E u \in TraceThreads :
          hasHandle[u] /\ ~(u = t /\ dropped = "handle")
    \/ \E u \in TraceThreads :
          tracer[u] = "live" /\ ~(u = t /\ dropped = "tracer")
    \/ \E s \in holdsProvider : s # dropped

(* The last reference runs TracerProviderInner::drop, which shuts the       *)
(* processors down unless the flag is set.                                  *)
AfterRelease(t, dropped) ==
    IF ReferencesWithout(t, dropped) \/ isShutdown \/ NumProcessors = 0
        THEN "idle" ELSE "stop"

Release(t, dropped) ==
    /\ tPc' = [tPc EXCEPT ![t] = AfterRelease(t, dropped)]
    /\ tNext' = [tNext EXCEPT ![t] = 1]

DropHandle(t) ==
    /\ tPc[t] = "idle" /\ hasHandle[t]
    /\ hasHandle' = [hasHandle EXCEPT ![t] = FALSE]
    /\ Release(t, "handle")
    /\ UNCHANGED <<sampler, isShutdown, tracer, tSpan, tDropping, spanVars, processorVars, traceHistory>>

(* tracer_with_scope; a tracer of the no-op provider refers to another inner. *)
GetTracer(t) ==
    /\ tPc[t] = "idle" /\ hasHandle[t] /\ tracer[t] = "none"
    /\ tracer' = [tracer EXCEPT ![t] = IF isShutdown THEN "noop" ELSE "live"]
    /\ UNCHANGED <<sampler, isShutdown, hasHandle, threadVars, spanVars, processorVars, traceHistory>>

DropTracer(t) ==
    /\ tPc[t] = "idle" /\ tracer[t] # "none"
    /\ tracer' = [tracer EXCEPT ![t] = "none"]
    /\ IF tracer[t] = "live" THEN Release(t, "tracer") ELSE UNCHANGED <<tPc, tNext>>
    /\ UNCHANGED <<sampler, isShutdown, hasHandle, tSpan, tDropping, spanVars, processorVars, traceHistory>>

-----------------------------------------------------------------------------
(* SdkTracer::build_with_context *)

ParentSampled(parent) ==
    \/ parent = RemoteSampled
    \/ parent \in TraceSpans /\ sampled[parent]

(* What the root's delegate may decide: a ratio depends on the trace id. *)
RootDecisions == {"RecordAndSample", "Drop"}

(* Slip: the delegate is asked for children too. *)
DecisionsIgnoringParent(parent) ==
    CASE sampler = "AlwaysOn" -> {"RecordAndSample"}
      [] sampler = "AlwaysOff" -> {"Drop"}
      [] sampler = "RecordOnly" -> {"RecordOnly"}
      [] sampler = "ParentBased" -> RootDecisions
(* ShouldSample of Sampler; "RecordOnly" is a sampler of the user's. *)
Decisions(parent) ==
    CASE sampler = "AlwaysOn" -> {"RecordAndSample"}
      [] sampler = "AlwaysOff" -> {"Drop"}
      [] sampler = "RecordOnly" -> {"RecordOnly"}
      [] sampler = "ParentBased" ->
            IF parent = NoParent THEN RootDecisions
            ELSE IF ParentSampled(parent) THEN {"RecordAndSample"} ELSE {"Drop"}

TraceOf(s, parent) ==
    CASE parent = NoParent -> s
      [] parent \in {RemoteSampled, RemoteUnsampled} -> parent
      [] OTHER -> trace[parent]

(* A suppressed context, the no-op provider and a provider that is shut     *)
(* down give a span with an empty context that records nothing.             *)
StartPassive(t, s) ==
    /\ tPc[t] = "idle" /\ tracer[t] # "none" /\ phase[s] = "none"
    /\ phase' = [phase EXCEPT ![s] = "passive"]
    /\ holdsProvider' = IF tracer[t] = "live" THEN holdsProvider \cup {s} ELSE holdsProvider
    /\ UNCHANGED <<providerVars, threadVars, trace, sampled, processorVars, traceHistory>>

(* The flag is down: the span will be made. *)
BeginStart(t, s) ==
    /\ tPc[t] = "idle" /\ tracer[t] = "live" /\ ~isShutdown /\ phase[s] = "none"
    /\ phase' = [phase EXCEPT ![s] = "starting"]
    /\ holdsProvider' = holdsProvider \cup {s}
    /\ tPc' = [tPc EXCEPT ![t] = "decide"]
    /\ tSpan' = [tSpan EXCEPT ![t] = s]
    /\ UNCHANGED <<providerVars, tNext, tDropping, trace, sampled, processorVars, traceHistory>>

Parents(s) ==
    {NoParent, RemoteSampled, RemoteUnsampled}
        \cup {r \in TraceSpans \ {s} : phase[r] \in {"recording", "passive", "ended"}}

DecideSpan(t) ==
    LET s == tSpan[t] IN
    /\ tPc[t] = "decide"
    /\ \E parent \in Parents(s) : \E decision \in Decisions(parent) :
          /\ trace' = [trace EXCEPT ![s] = TraceOf(s, parent)]
          /\ sampled' = [sampled EXCEPT ![s] = decision = "RecordAndSample"]
          /\ phase' = [phase EXCEPT ![s] = IF decision = "Drop" THEN "passive"
                                             ELSE IF NumProcessors = 0 THEN "recording" ELSE @]
          /\ tPc' = [tPc EXCEPT ![t] =
                        IF decision = "Drop" \/ NumProcessors = 0 THEN "idle" ELSE "onStart"]
          /\ tNext' = [tNext EXCEPT ![t] = 1]
    /\ UNCHANGED <<providerVars, tSpan, tDropping, holdsProvider, processorVars, traceHistory>>

OnStart(t) ==
    LET s == tSpan[t]
        p == tNext[t]
    IN
    /\ tPc[t] = "onStart"
    /\ startSeen' = [startSeen EXCEPT ![p] = @ \cup {s}]
    /\ tNext' = [tNext EXCEPT ![t] = @ + 1]
    /\ IF p = NumProcessors
          THEN /\ tPc' = [tPc EXCEPT ![t] = "idle"]
               /\ phase' = [phase EXCEPT ![s] = "recording"]
          ELSE UNCHANGED <<tPc, phase>>
    /\ UNCHANGED <<providerVars, tSpan, tDropping, trace, sampled, holdsProvider, handed,
                   exporterDown, traceHistory>>

-----------------------------------------------------------------------------
(* Span::end and Drop for Span: ensure_ended_and_exported *)

(* self.data.take() *)
TakeData(s) == [phase EXCEPT ![s] = "ended"]

NotInUse(s) == \A u \in TraceThreads : tSpan[u] = s => tPc[u] \in {"idle", "stop"}

ProviderRuns == ~isShutdown

(* The data is taken and the flag is read. *)
BeginEnd(t, s, dropping) ==
    /\ tPc[t] = "idle" /\ phase[s] = "recording" /\ NotInUse(s)
    /\ phase' = TakeData(s)
    /\ tSpan' = [tSpan EXCEPT ![t] = s]
    /\ tNext' = [tNext EXCEPT ![t] = 1]
    /\ tDropping' = [tDropping EXCEPT ![t] = dropping]
    /\ tPc' = [tPc EXCEPT ![t] =
                  IF ProviderRuns /\ NumProcessors > 0 THEN "onEnd"
                  ELSE IF dropping THEN "release" ELSE "idle"]
    /\ lateEnds' = IF isShutdown THEN lateEnds \cup {s} ELSE lateEnds
    /\ passedEnds' = IF ~isShutdown /\ sampled[s] THEN passedEnds \cup {s} ELSE passedEnds
    /\ UNCHANGED <<providerVars, trace, sampled, holdsProvider, processorVars, explicit>>

ExportedBySimple(s) == sampled[s]

(* Slip: an exporter that was shut down ends the loop. *)
StopAtShutExporter(p) == p = NumProcessors \/ exporterDown[p] > 0
LastProcessor(p) == p = NumProcessors

(* SimpleSpanProcessor::on_end *)
OnEnd(t) ==
    LET s == tSpan[t]
        p == tNext[t]
    IN
    /\ tPc[t] = "onEnd"
    /\ handed' = IF ExportedBySimple(s) THEN [handed EXCEPT ![p] = Append(@, s)] ELSE handed
    /\ tNext' = [tNext EXCEPT ![t] = @ + 1]
    /\ tPc' = [tPc EXCEPT ![t] =
                  IF ~LastProcessor(p) THEN "onEnd"
                  ELSE IF tDropping[t] THEN "release" ELSE "idle"]
    /\ UNCHANGED <<providerVars, tSpan, tDropping, spanVars, startSeen, exporterDown, traceHistory>>

(* A span that was ended, or never recorded, is dropped. *)
DropDone(t, s) ==
    /\ tPc[t] = "idle" /\ phase[s] \in {"ended", "passive"} /\ NotInUse(s)
    /\ tSpan' = [tSpan EXCEPT ![t] = s]
    /\ tPc' = [tPc EXCEPT ![t] = "release"]
    /\ UNCHANGED <<providerVars, tNext, tDropping, spanVars, processorVars, traceHistory>>

(* The span's fields go, its tracer among them. *)
ReleaseSpan(t) ==
    LET s == tSpan[t] IN
    /\ tPc[t] = "release"
    /\ phase' = [phase EXCEPT ![s] = "gone"]
    /\ holdsProvider' = holdsProvider \ {s}
    /\ IF s \in holdsProvider
          THEN Release(t, s)
          ELSE tPc' = [tPc EXCEPT ![t] = "idle"] /\ UNCHANGED tNext
    /\ UNCHANGED <<providerVars, tSpan, tDropping, trace, sampled, processorVars, traceHistory>>

EndSpan(t, s) == BeginEnd(t, s, FALSE)
DropSpan(t, s) == BeginEnd(t, s, TRUE) \/ DropDone(t, s)

-----------------------------------------------------------------------------
(* SdkTracerProvider::shutdown *)

(* compare_exchange(false, true): the loser gets AlreadyShutdown. *)
SwapFlag(t) ==
    /\ isShutdown' = TRUE
    /\ tPc' = [tPc EXCEPT ![t] = IF isShutdown \/ NumProcessors = 0 THEN "idle" ELSE "stop"]

ShutdownProvider(t) ==
    /\ tPc[t] = "idle" /\ hasHandle[t]
    /\ SwapFlag(t)
    /\ tNext' = [tNext EXCEPT ![t] = 1]
    /\ explicit' = TRUE
    /\ UNCHANGED <<sampler, hasHandle, tracer, tSpan, tDropping, spanVars, processorVars, lateEnds,
                   passedEnds>>

(* processor.shutdown_with_timeout; a failure does not end the loop. *)
StopProcessor(t) ==
    LET p == tNext[t] IN
    /\ tPc[t] = "stop"
    /\ exporterDown' = [exporterDown EXCEPT ![p] = @ + 1]
    /\ tNext' = [tNext EXCEPT ![t] = @ + 1]
    /\ tPc' = [tPc EXCEPT ![t] = IF p = NumProcessors THEN "idle" ELSE "stop"]
    /\ UNCHANGED <<providerVars, tSpan, tDropping, spanVars, startSeen, handed, traceHistory>>

TraceNext ==
    \/ \E t \in TraceThreads :
          \/ DropHandle(t) \/ GetTracer(t) \/ DropTracer(t)
          \/ DecideSpan(t) \/ OnStart(t) \/ OnEnd(t) \/ ReleaseSpan(t)
          \/ ShutdownProvider(t) \/ StopProcessor(t)
    \/ \E t \in TraceThreads, s \in TraceSpans :
          StartPassive(t, s) \/ BeginStart(t, s) \/ EndSpan(t, s) \/ DropSpan(t, s)

TraceSpec == TraceInit /\ [][TraceNext]_traceVars

-----------------------------------------------------------------------------
(* Properties *)

TraceQuiet == \A t \in TraceThreads : tPc[t] = "idle"
NoReferences ==
    /\ \A t \in TraceThreads : ~hasHandle[t] /\ tracer[t] # "live"
    /\ holdsProvider = {}

(* Each exporter is given, once, the sampled spans whose end found the      *)
(* provider running: end and drop both run ensure_ended_and_exported, all   *)
(* processors are called, and "don't start span or export spans when        *)
(* provider is shutdown": none whose end began after the flag was set.      *)
SpansExported ==
    \A p \in Processors :
        /\ IsInjective(handed[p])
        /\ Range(handed[p]) \subseteq passedEnds \ lateEnds
        /\ TraceQuiet => Range(handed[p]) = passedEnds

(* Explicit shutdowns and the drop of the last reference together shut each *)
(* exporter down once at most, and once when nothing is left.  Until        *)
(* somebody calls shutdown, open spans keep the exporters running and no    *)
(* sampled span that is gone went unexported.                               *)
ShutDownOnce ==
    \A p \in Processors :
        /\ exporterDown[p] <= 1
        /\ NoReferences /\ TraceQuiet => exporterDown[p] = 1
        /\ ~explicit =>
              /\ exporterDown[p] > 0 => holdsProvider = {}
              /\ TraceQuiet => \A s \in TraceSpans :
                    phase[s] = "gone" /\ sampled[s] => s \in Range(handed[p])

(* A parent-based sampler decides once for a trace: its spans all carry the *)
(* same flag, that of the remote parent if there is one, and no span        *)
(* without a trace id is sampled.                                           *)
TraceSampledAsAWhole ==
    sampler = "ParentBased" =>
        \A r, s \in TraceSpans :
            /\ trace[s] = RemoteSampled => sampled[s]
            /\ sampled[s] => trace[s] # "invalid"
            /\ trace[r] = trace[s] /\ trace[r] # "invalid" => sampled[r] = sampled[s]
=============================================================================
